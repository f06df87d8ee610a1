--------------------------- MODULE CapabilityDispatch ---------------------------
(***************************************************************************)
(* Capabilities: runWithHitl of src/src/enforcement/hitl-dispatch.ts, the  *)
(* checks of validateCapability (stage1-capability.ts) and issueCapability *)
(* of the file adapter, over the ApprovalManager.                          *)
(*                                                                         *)
(* A call either goes through runWithHitl (pipeline, operator, capability, *)
(* pipeline again) or presents the capability of an earlier call to        *)
(* runPipeline directly.  Every await is a step boundary: between two      *)
(* steps of a call the rules are reloaded, time passes, requests expire    *)
(* and other calls run.  A capability is named by the call it was issued   *)
(* for: each has a fresh UUID, different from every approval token.        *)
(***************************************************************************)
EXTENDS Naturals, FiniteSets

CONSTANTS
    Calls,       \* [id, cls, target, payload, session, untrusted, risk, covered]
    Verdicts,    \* what reloads can make stage 2 say of a class
    TtlTicks,    \* capabilityTtlSeconds, in ticks of the clock
    MaxTime,     \* bound on the clock
    None

ASSUME TicksAreNat == TtlTicks \in Nat /\ MaxTime \in Nat
ASSUME VerdictsKnown == Verdicts \subseteq {"permit", "gated", "forbid"}

(* The class, target and payload hash a request and a capability are bound *)
(* to: SHA-256 is taken to be injective.                                   *)
computeBinding(c) == <<c.cls, c.target, c.payload>>

Classes == {c.cls : c \in Calls}
Bindings == {computeBinding(c) : c \in Calls}
ASSUME NoneIsNoCall == None \notin Calls /\ None \notin Bindings /\ None # "permit"

Capabilities ==
    [binding : Bindings, session : {c.session : c \in Calls},
     expires : 0 .. MaxTime + TtlTicks]

VARIABLES
    pending, consumed, sessionAutoApprovals, tokenOf, bindingOf, timer,
    promise, acked,  \* the ApprovalManager
    capabilities,    \* the adapter's map, by the call it was issued for
    pc,              \* where each call is
    result,          \* the effect it ended with
    saw,             \* history: what stage 2 last said of it
    honoured,        \* history: <<call, capability>> pairs stage 1 accepted
    policy,          \* what stage 2 says of each class now
    now              \* Date.now()

amVars == <<pending, consumed, sessionAutoApprovals, tokenOf, bindingOf, timer,
            promise, acked>>
callVars == <<capabilities, pc, result, saw, honoured>>
vars == <<amVars, callVars, policy, now>>

AM == INSTANCE ApprovalManager
        WITH Requests <- Calls, SessionKeys <- {}, ApprovalKeys <- {}

TypeOK ==
    /\ AM!TypeOK
    /\ capabilities \in [Calls -> Capabilities \cup {None}]
    /\ pc \in [Calls -> {"idle", "first", "asked", "rerun", "rerun2", "shown", "done"}]
    /\ result \in [Calls -> {None, "permit", "forbid"}]
    /\ saw \in [Calls -> Verdicts \cup {None}]
    /\ honoured \subseteq Calls \X Calls
    /\ policy \in [Classes -> Verdicts]
    /\ now \in 0 .. MaxTime

Init ==
    /\ AM!Init
    /\ capabilities = [c \in Calls |-> None]
    /\ pc = [c \in Calls |-> "idle"]
    /\ result = [c \in Calls |-> None]
    /\ saw = [c \in Calls |-> None]
    /\ honoured = {}
    /\ policy \in [Classes -> Verdicts]
    /\ now = 0

Goto(c, where) == pc' = [pc EXCEPT ![c] = where]
Finish(c, effect) ==
    /\ Goto(c, "done")
    /\ result' = [result EXCEPT ![c] = effect]

-----------------------------------------------------------------------------
(* Check 0: content from outside may not cause a risky action.             *)
TrustRefuses(c) == c.untrusted /\ c.risk \in {"high", "critical"}

(* Mutated form: the binding is not compared (check 4 dropped).            *)
validateCapabilityUnbound(c, id) ==
    /\ ~TrustRefuses(c)
    /\ id # None
    /\ capabilities[id] # None
    /\ now <= capabilities[id].expires
    /\ capabilities[id].session \in {None, c.session}

(* Checks 0 and 2 to 6 on a call that shows a capability.  Check 5 asks    *)
(* the manager whether the capability's id was consumed; the manager only  *)
(* consumes tokens of approval requests, which no capability has for id.   *)
validateCapability(c, id) ==
    /\ ~TrustRefuses(c)
    /\ id # None
    /\ capabilities[id] # None
    /\ now <= capabilities[id].expires
    /\ computeBinding(c) = capabilities[id].binding
    /\ capabilities[id].session \in {None, c.session}

(* issueCapability: valid for the time-to-live, whatever happens next.     *)
issueCapability(c) ==
    capabilities' = [capabilities EXCEPT ![c] =
        [binding |-> computeBinding(c), session |-> c.session,
         expires |-> now + TtlTicks]]

(* checkAction: some policy of the HITL configuration covers the class.    *)
checkAction(c) == c.covered

-----------------------------------------------------------------------------
(* runWithHitl, first pass: with hitl_mode none stage 1 stops only         *)
(* untrusted risky calls, by a forbid without a priority.                  *)
FirstStage1(c) ==
    /\ pc[c] = "idle"
    /\ IF TrustRefuses(c) THEN Finish(c, "forbid")
       ELSE Goto(c, "first") /\ UNCHANGED result
    /\ UNCHANGED <<amVars, capabilities, saw, honoured, policy, now>>

(* Stage 2 of the first pass.  A permit, an unconditional forbid, or a     *)
(* gated forbid no HITL policy covers ends the call; otherwise a request   *)
(* is created and its promise awaited.                                     *)
FirstStage2(c) ==
    /\ pc[c] = "first"
    /\ saw' = [saw EXCEPT ![c] = policy[c.cls]]
    /\ IF policy[c.cls] = "gated" /\ checkAction(c)
         THEN /\ AM!CreateApprovalRequest(c, c, computeBinding(c))
              /\ Goto(c, "asked")
              /\ UNCHANGED result
         ELSE /\ Finish(c, IF policy[c.cls] = "permit" THEN "permit" ELSE "forbid")
              /\ UNCHANGED amVars
    /\ UNCHANGED <<capabilities, honoured, policy, now>>

(* Mutated form: the continuation waits for an answer, not for an expiry.  *)
AnsweredByOperator(c) ==
    /\ pc[c] = "asked"
    /\ promise[c] \in {"approved", "denied"}
    /\ IF promise[c] = "approved"
         THEN issueCapability(c) /\ Goto(c, "rerun") /\ UNCHANGED result
         ELSE Finish(c, "forbid") /\ UNCHANGED capabilities
    /\ UNCHANGED <<amVars, saw, honoured, policy, now>>

(* The promise resolved: approved issues a capability, denied and expired  *)
(* uphold the forbid.                                                      *)
Answered(c) ==
    /\ pc[c] = "asked"
    /\ promise[c] \in {"approved", "denied", "expired"}
    /\ IF promise[c] = "approved"
         THEN issueCapability(c) /\ Goto(c, "rerun") /\ UNCHANGED result
         ELSE Finish(c, "forbid") /\ UNCHANGED capabilities
    /\ UNCHANGED <<amVars, saw, honoured, policy, now>>

(* Stage 1 of a pipeline run with hitl_mode per_request: c shows id.       *)
ShowCapability(c, id, where) ==
    /\ IF validateCapability(c, id)
         THEN /\ honoured' = honoured \cup {<<c, id>>}
              /\ Goto(c, where)
              /\ UNCHANGED result
         ELSE Finish(c, "forbid") /\ UNCHANGED honoured
    /\ UNCHANGED <<amVars, capabilities, saw, policy, now>>

RerunStage1(c) == pc[c] = "rerun" /\ ShowCapability(c, c, "rerun2")

(* Mutated form: after approval stage 2 is not asked what it now says.     *)
approvedStage2Always(c) == "permit"

(* Stage 2 of the re-run: the approval releases gated forbids only.        *)
approvedStage2(c) == IF policy[c.cls] = "forbid" THEN "forbid" ELSE "permit"

RerunStage2(c) ==
    /\ pc[c] = "rerun2"
    /\ saw' = [saw EXCEPT ![c] = policy[c.cls]]
    /\ Finish(c, approvedStage2(c))
    /\ UNCHANGED <<amVars, capabilities, honoured, policy, now>>

(* A call that reaches runPipeline directly with hitl_mode per_request:    *)
(* without an approval id the pre-check refuses it, with one stage 1       *)
(* judges the capability and the plain stage 2 the call.                   *)
PresentStage1(c, id) ==
    /\ pc[c] = "idle"
    /\ ShowCapability(c, id, "shown")

PresentStage2(c) ==
    /\ pc[c] = "shown"
    /\ saw' = [saw EXCEPT ![c] = policy[c.cls]]
    /\ Finish(c, IF policy[c.cls] = "permit" THEN "permit" ELSE "forbid")
    /\ UNCHANGED <<amVars, capabilities, honoured, policy, now>>

-----------------------------------------------------------------------------
Operator(c, d) == AM!ResolveApproval(c, d, None) /\ UNCHANGED <<callVars, policy, now>>
RequestExpires(c) == AM!Expire(c) /\ UNCHANGED <<callVars, policy, now>>

ReloadPolicy(k, v) ==
    /\ policy' = [policy EXCEPT ![k] = v]
    /\ UNCHANGED <<amVars, callVars, now>>

Tick == now < MaxTime /\ now' = now + 1 /\ UNCHANGED <<amVars, callVars, policy>>

(* The process restarts: requests, capabilities and running calls are      *)
(* lost.                                                                   *)
Restart ==
    /\ AM!Restart
    /\ capabilities' = [c \in Calls |-> None]
    /\ pc' = [c \in Calls |-> IF pc[c] = "idle" THEN "idle" ELSE "done"]
    /\ UNCHANGED <<result, saw, honoured, policy, now>>

Step(c) ==
    \/ FirstStage2(c) \/ Answered(c) \/ RerunStage1(c) \/ RerunStage2(c)
    \/ PresentStage2(c)

Next ==
    \/ \E c \in Calls : FirstStage1(c) \/ Step(c) \/ RequestExpires(c)
    \/ \E c \in Calls, id \in Calls \cup {None} : PresentStage1(c, id)
    \/ \E c \in Calls, d \in {"approved", "denied"} : Operator(c, d)
    \/ \E k \in Classes, v \in Verdicts : ReloadPolicy(k, v)
    \/ Tick
    \/ Restart

(* Promises that can resolve do, and an armed timer fires.                 *)
Fairness == \A c \in Calls : WF_vars(Step(c)) /\ WF_vars(RequestExpires(c))

Spec == Init /\ [][Next]_vars /\ Fairness

-----------------------------------------------------------------------------
(* Properties                                                              *)

(* Of the calls of runWithHitl (and of direct ones) only those go through  *)
(* that stage 2 permits at the last moment it is asked, or that it gates   *)
(* and an operator approved: an approval given under rules that have been  *)
(* tightened meanwhile does not release the unconditional forbid.          *)
ReleaseWasApproved ==
    \A c \in Calls : result[c] = "permit" =>
        \/ saw[c] = "permit"
        \/ saw[c] = "gated" /\ promise[c] = "approved"

(* Whoever shows a capability, stage 1 honours it only for the payload the *)
(* operator approved, in the session it was approved for, and although     *)
(* restarts and expiries race with the answer an approval stands behind it.*)
CapabilityStaysInScope ==
    \A p \in honoured :
        LET c == p[1] id == p[2] IN
        /\ promise[id] = "approved"
        /\ bindingOf[id] = computeBinding(c)
        /\ id.session \in {None, c.session}

(* A call that has passed the first stage ends although no operator        *)
(* answers: runWithHitl never awaits for ever.                             *)
DispatchEnds == \A c \in Calls : pc[c] # "idle" ~> pc[c] = "done"

(* "one-time consumption" (README.md, the stage 1 box): a capability is    *)
(* honoured for one call.                                                  *)
CapabilityUsedOnce ==
    \A id \in Calls : Cardinality({p \in honoured : p[2] = id}) <= 1
=============================================================================
