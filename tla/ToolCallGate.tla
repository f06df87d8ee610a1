----------------------------- MODULE ToolCallGate -----------------------------
(***************************************************************************)
(* The before_tool_call hook, beforeToolCallHandler of src/src/index.ts,   *)
(* with dispatchHitlChannel and resolveHitlDecision, run by several calls  *)
(* at once over the one ApprovalManager, while operators answer, policies  *)
(* are reloaded and the plugin is stopped and restarted.                   *)
(*                                                                         *)
(* Every await of the handler is a step boundary here.  What the handler   *)
(* captured before an await is kept in the call's own state (snap, used);  *)
(* what it reads after is read from the current state.                     *)
(*                                                                         *)
(* EnforcementPipeline says what the engines decide; here their verdict on *)
(* an action class is one of permit, gated (a forbid an operator may       *)
(* release) and forbid, and a reload may change it.  Telegram and Slack    *)
(* are dispatched by the same code and are one channel, "remote".          *)
(***************************************************************************)
EXTENDS Naturals, FiniteSets

CONSTANTS
    Calls,       \* tool calls [id, cls, channel, verified, risky]
    Classes,     \* action classes
    Configs,     \* HITL policy files [policies, remote] an operator may write
    Verdicts,    \* what reloads can make the engines say of a class
    MaxPrompts,  \* bound on the approval requests modelled for one call
    None

ASSUME MaxPromptsIsPositive == MaxPrompts \in Nat \ {0}
ASSUME CallsAreTyped ==
    \A c \in Calls : c.cls \in Classes /\ c.verified \in BOOLEAN /\ c.risky \in BOOLEAN
ASSUME VerdictsAreKnown == Verdicts \subseteq {"permit", "gated", "forbid"}

Prompts == Calls \X (1 .. MaxPrompts)
ASSUME NoneIsNoRequest == None \notin Prompts /\ None # "binding"

(* The channel names a call is known by: its claim, and the name used for  *)
(* audit and approvals, marked when the claim was not verified.            *)
auditChannel(c) == <<c.channel, c.verified>>
claimedChannel(c) == <<c.channel, TRUE>>

ChannelKeys == {<<<<c.channel, v>>, c.cls>> : c \in Calls, v \in BOOLEAN}

VARIABLES
    pending, consumed, sessionAutoApprovals, tokenOf, bindingOf, timer,
    promise, acked,     \* the approvalManager
    pc,                 \* where each call's handler is
    snap,               \* engine verdict and auto-permit match it captured
    decision,           \* pipelineDecision
    used,               \* the HITL policy it dispatched to
    prompts,            \* how many approval requests it created
    policy,             \* verdict of the loaded engines on each class
    autoPermits,        \* classes whose commands a stored pattern matches
    saving,             \* persistAutoPermitPattern calls in flight
    revoking,           \* a /revoke has changed the store and not yet ended
    hitlConfig,         \* hitlConfigRef.current
    plugin              \* "active", "stopping" (inside deactivate), "inactive"

amVars == <<pending, consumed, sessionAutoApprovals, tokenOf, bindingOf, timer,
            promise, acked>>
callVars == <<pc, snap, decision, used, prompts>>
envVars == <<policy, autoPermits, saving, revoking, hitlConfig, plugin>>
vars == <<amVars, callVars, envVars>>

AM == INSTANCE ApprovalManager WITH
        Requests <- Prompts, SessionKeys <- {}, Bindings <- {"binding"},
        ApprovalKeys <- ChannelKeys

Final == {"allowed", "blocked", "lost"}
PolicyRecords == {cf.policies[k] : cf \in Configs, k \in Classes}

TypeOK ==
    /\ AM!TypeOK
    /\ pc \in [Calls -> {"idle", "evaluating", "gate", "sending", "awaiting"} \cup Final]
    /\ snap \in [Calls -> [verdict : Verdicts, permitted : BOOLEAN] \cup {None}]
    /\ decision \in [Calls -> {"permit", "gated", "forbid", None}]
    /\ used \in [Calls -> PolicyRecords \cup {None}]
    /\ prompts \in [Calls -> 0 .. MaxPrompts]
    /\ policy \in [Classes -> Verdicts]
    /\ autoPermits \subseteq Classes
    /\ saving \subseteq Classes
    /\ revoking \in BOOLEAN
    /\ hitlConfig \in Configs \cup {None}
    /\ plugin \in {"active", "stopping", "inactive"}

Init ==
    /\ AM!Init
    /\ pc = [c \in Calls |-> "idle"]
    /\ snap = [c \in Calls |-> None]
    /\ decision = [c \in Calls |-> None]
    /\ used = [c \in Calls |-> None]
    /\ prompts = [c \in Calls |-> 0]
    /\ policy \in [Classes -> Verdicts]
    /\ autoPermits = {}
    /\ saving = {}
    /\ revoking = FALSE
    /\ hitlConfig \in Configs
    /\ plugin = "active"

-----------------------------------------------------------------------------
(* Helpers                                                                 *)

(* checkAction: the HITL policy the current config has for the class.      *)
matchedPolicy(c) == IF hitlConfig = None THEN None ELSE hitlConfig.policies[c.cls]

(* Mutated form: the lookup uses the channel the caller claims.            *)
SessionApprovedAsClaimed(c) == <<claimedChannel(c), c.cls>> \in sessionAutoApprovals

(* isSessionAutoApproved under the audit name of the channel.              *)
SessionApproved(c) == <<auditChannel(c), c.cls>> \in sessionAutoApprovals

(* The request the call awaits.                                            *)
CurrentPrompt(c) == <<c, prompts[c]>>

(* Mutated form: hitlGateApproved is not set, the policy is applied again. *)
ReleasedPcAsksAgain == "gate"

(* dispatchHitlChannel returned without blocking: hitlGateApproved keeps   *)
(* step 3 from asking again, and the handler returns.                      *)
ReleasedPc == "allowed"

(* The policy's fallback when nobody could be asked or nobody answered.    *)
FallbackPc(p) == IF p.fallback = "deny" THEN "blocked" ELSE ReleasedPc

-----------------------------------------------------------------------------
(* The handler                                                             *)

(* The daily budget is exhausted: blocked before anything else.            *)
BudgetBlocks(c) ==
    /\ pc[c] = "idle"
    /\ pc' = [pc EXCEPT ![c] = "blocked"]
    /\ UNCHANGED <<amVars, snap, decision, used, prompts, envVars>>

(* Up to the call of runPipeline: stage 2 is built over the engines and    *)
(* the auto-permit checker of this moment.                                 *)
Arrive(c) ==
    /\ pc[c] = "idle"
    /\ pc' = [pc EXCEPT ![c] = "evaluating"]
    /\ snap' = [snap EXCEPT ![c] = [verdict |-> policy[c.cls],
                                    permitted |-> c.cls \in autoPermits]]
    /\ UNCHANGED <<amVars, decision, used, prompts, envVars>>

(* The two stages: trust gate, session approvals under the claimed channel *)
(* name, stored patterns, engines.                                         *)
PipelineDecision(c) ==
    CASE c.risky -> "forbid"
      [] ~c.risky /\ (\/ <<claimedChannel(c), c.cls>> \in sessionAutoApprovals
                      \/ snap[c].permitted) -> "permit"
      [] OTHER -> snap[c].verdict

Evaluate(c) ==
    /\ pc[c] = "evaluating"
    /\ decision' = [decision EXCEPT ![c] = PipelineDecision(c)]
    /\ pc' = [pc EXCEPT ![c] = "gate"]
    /\ UNCHANGED <<amVars, snap, used, prompts, envVars>>

(* After the pipeline: an unconditional forbid, or a gated one that no     *)
(* HITL policy covers, blocks.                                             *)
GateBlocks(c) ==
    /\ pc[c] = "gate"
    /\ \/ decision[c] = "forbid"
       \/ decision[c] = "gated" /\ matchedPolicy(c) = None
    /\ pc' = [pc EXCEPT ![c] = "blocked"]
    /\ UNCHANGED <<amVars, snap, decision, used, prompts, envVars>>

(* No approval is needed: a permit without a HITL policy, or a policy that *)
(* an earlier Approve Always answers.                                      *)
GatePasses(c) ==
    /\ pc[c] = "gate"
    /\ \/ decision[c] = "permit" /\ matchedPolicy(c) = None
       \/ /\ decision[c] \in {"permit", "gated"} /\ matchedPolicy(c) # None
          /\ SessionApproved(c)
    /\ pc' = [pc EXCEPT ![c] = "allowed"]
    /\ UNCHANGED <<amVars, snap, decision, used, prompts, envVars>>

(* Otherwise dispatchHitlChannel is called with the matched policy.        *)
NeedsOperator(c) ==
    /\ pc[c] = "gate"
    /\ decision[c] \in {"permit", "gated"}
    /\ matchedPolicy(c) # None
    /\ ~SessionApproved(c)

(* The channel's credentials are missing: the fallback, without a request. *)
DispatchNotConfigured(c) ==
    LET p == matchedPolicy(c)
    IN  /\ NeedsOperator(c)
        /\ p.channel = "remote" /\ ~hitlConfig.remote
        /\ pc' = [pc EXCEPT ![c] = FallbackPc(p)]
        /\ used' = [used EXCEPT ![c] = p]
        /\ UNCHANGED <<amVars, snap, decision, prompts, envVars>>

(* No adapter for the channel: dispatchHitlChannel simply returns.         *)
DispatchUnknownChannel(c) ==
    LET p == matchedPolicy(c)
    IN  /\ NeedsOperator(c)
        /\ p.channel \notin {"remote", "console"}
        /\ pc' = [pc EXCEPT ![c] = ReleasedPc]
        /\ used' = [used EXCEPT ![c] = p]
        /\ UNCHANGED <<amVars, snap, decision, prompts, envVars>>

(* createApprovalRequest, then the send (or the console prompt) begins.    *)
DispatchPrompts(c) ==
    LET p == matchedPolicy(c)
        r == <<c, prompts[c] + 1>>
    IN  /\ NeedsOperator(c)
        /\ \/ p.channel = "remote" /\ hitlConfig.remote
           \/ p.channel = "console"
        /\ prompts[c] < MaxPrompts
        /\ AM!CreateApprovalRequest(r, r, "binding")
        /\ prompts' = [prompts EXCEPT ![c] = @ + 1]
        /\ used' = [used EXCEPT ![c] = p]
        /\ pc' = [pc EXCEPT ![c] = "sending"]
        /\ UNCHANGED <<snap, decision, envVars>>

Gate(c) ==
    \/ GateBlocks(c) \/ GatePasses(c)
    \/ DispatchNotConfigured(c) \/ DispatchUnknownChannel(c) \/ DispatchPrompts(c)

(* The send reports success.                                               *)
SendSucceeds(c) ==
    /\ pc[c] = "sending" /\ used[c].channel = "remote"
    /\ pc' = [pc EXCEPT ![c] = "awaiting"]
    /\ UNCHANGED <<amVars, snap, decision, used, prompts, envVars>>

(* Mutated form: the request is not cancelled.                             *)
SendFailsNoCancel(c) ==
    /\ pc[c] = "sending" /\ used[c].channel = "remote"
    /\ pc' = [pc EXCEPT ![c] = FallbackPc(used[c])]
    /\ UNCHANGED <<amVars, snap, decision, used, prompts, envVars>>

(* The send reports failure, which it may do although the message arrived  *)
(* (a lost response, unparsable JSON): the request is cancelled, if it is  *)
(* still there, and the fallback applies.                                  *)
SendFails(c) ==
    /\ pc[c] = "sending" /\ used[c].channel = "remote"
    /\ IF pending[CurrentPrompt(c)] # None
         THEN AM!Cancel(CurrentPrompt(c)) ELSE UNCHANGED amVars
    /\ pc' = [pc EXCEPT ![c] = FallbackPc(used[c])]
    /\ UNCHANGED <<snap, decision, used, prompts, envVars>>

(* Approve Always: the session approval and the start of the save.         *)
Remember(c) ==
    /\ sessionAutoApprovals' = sessionAutoApprovals \cup {<<auditChannel(c), c.cls>>}
    /\ saving' = saving \cup {c.cls}

(* The console prompt returns; resolveApproval does nothing if the request *)
(* has expired meanwhile, the session approval is registered all the same. *)
ConsoleAnswers(c, d) ==
    /\ pc[c] = "sending" /\ used[c].channel = "console"
    /\ AM!Answer({CurrentPrompt(c)}, IF d = "denied" THEN "denied" ELSE "approved")
    /\ IF d = "always" THEN Remember(c) ELSE UNCHANGED <<sessionAutoApprovals, saving>>
    /\ pc' = [pc EXCEPT ![c] = "awaiting"]
    /\ UNCHANGED <<snap, decision, used, prompts, policy, autoPermits, revoking,
                   hitlConfig, plugin>>

(* Mutated form: a denial is treated like an expiry.                       *)
DecideDeniedFallsBack(c) ==
    /\ pc[c] = "awaiting" /\ promise[CurrentPrompt(c)] # "waiting"
    /\ pc' = [pc EXCEPT ![c] = IF promise[CurrentPrompt(c)] = "denied"
                                 THEN "allowed" ELSE FallbackPc(used[c])]
    /\ UNCHANGED <<amVars, snap, decision, used, prompts, envVars>>

(* resolveHitlDecision goes on when the promise settles.                   *)
Decide(c) ==
    /\ pc[c] = "awaiting" /\ promise[CurrentPrompt(c)] # "waiting"
    /\ pc' = [pc EXCEPT ![c] =
                CASE promise[CurrentPrompt(c)] = "approved" -> ReleasedPc
                  [] promise[CurrentPrompt(c)] = "denied" -> "blocked"
                  [] OTHER -> FallbackPc(used[c])]
    /\ UNCHANGED <<amVars, snap, decision, used, prompts, envVars>>

-----------------------------------------------------------------------------
(* Operators and timers                                                    *)

(* A button or a /approve TOKEN command, on any filed request: a message   *)
(* may be answered before its send has returned, and /approvals lists the  *)
(* tokens.                                                                 *)
OperatorAnswers(r, d) ==
    /\ plugin = "active"
    /\ AM!ResolveApproval(r, d, None)
    /\ UNCHANGED <<callVars, envVars>>

(* Approve Always on Slack, or on Telegram once the pattern is confirmed.  *)
OperatorApprovesAlways(r) ==
    /\ plugin = "active" /\ pending[r] # None
    /\ AM!Answer({r}, "approved")
    /\ Remember(r[1])
    /\ UNCHANGED <<callVars, policy, autoPermits, revoking, hitlConfig, plugin>>

RequestExpires(r) == AM!Expire(r) /\ UNCHANGED <<callVars, envVars>>

(* persistAutoPermitPattern ends: the pattern is stored and loaded, or it  *)
(* could not be derived or written.                                        *)
PatternSaved(k) ==
    /\ k \in saving
    /\ saving' = saving \ {k}
    /\ autoPermits' \in {autoPermits, autoPermits \cup {k}}
    /\ UNCHANGED <<amVars, callVars, policy, revoking, hitlConfig, plugin>>

(* /revoke, one at a time: the pattern leaves the store and the checker    *)
(* is reloaded; the rules are loaded again, and only after that await all  *)
(* session approvals go.                                                   *)
Revoke(k) ==
    /\ plugin = "active" /\ k \in autoPermits /\ ~revoking
    /\ autoPermits' = autoPermits \ {k}
    /\ revoking' = TRUE
    /\ UNCHANGED <<amVars, callVars, policy, saving, hitlConfig, plugin>>

RevokeEnds ==
    /\ revoking
    /\ revoking' = FALSE
    /\ AM!ClearSessionAutoApprovals
    /\ UNCHANGED <<callVars, policy, autoPermits, saving, hitlConfig, plugin>>

-----------------------------------------------------------------------------
(* Reloads and the life of the plugin                                      *)

(* A rules watcher swaps an engine.                                        *)
ReloadPolicy(k, v) ==
    /\ policy[k] # v
    /\ policy' = [policy EXCEPT ![k] = v]
    /\ UNCHANGED <<amVars, callVars, autoPermits, saving, revoking, hitlConfig, plugin>>

(* The HITL policy watcher loads the file.  A load under way when          *)
(* deactivate closes the watcher still lands, so there is no guard on the  *)
(* plugin's state.                                                         *)
ReloadHitlConfig(cf) ==
    /\ cf # hitlConfig
    /\ hitlConfig' = cf
    /\ UNCHANGED <<amVars, callVars, policy, autoPermits, saving, revoking, plugin>>

(* deactivate up to `await hitlWatcher.stop()': every request expires.     *)
Deactivate ==
    /\ plugin = "active"
    /\ AM!Shutdown
    /\ plugin' = "stopping"
    /\ UNCHANGED <<callVars, policy, autoPermits, saving, revoking, hitlConfig>>

DeactivateEnds ==
    /\ plugin = "stopping"
    /\ hitlConfig' = None
    /\ plugin' = "inactive"
    /\ UNCHANGED <<amVars, callVars, policy, autoPermits, saving, revoking>>

(* activate of the same process.                                           *)
Activate(cf) ==
    /\ plugin = "inactive"
    /\ hitlConfig' = cf
    /\ plugin' = "active"
    /\ UNCHANGED <<amVars, callVars, policy, autoPermits, saving, revoking>>

(* The process dies and is started again: the handlers are gone, and so is *)
(* all that lived in memory; the stored patterns survive.                  *)
Restart(cf) ==
    /\ AM!Restart
    /\ pc' = [c \in Calls |-> IF pc[c] \in {"idle"} \cup Final THEN pc[c] ELSE "lost"]
    /\ saving' = {}
    /\ revoking' = FALSE
    /\ hitlConfig' = cf
    /\ plugin' = "active"
    /\ UNCHANGED <<snap, decision, used, prompts, policy, autoPermits>>

Next ==
    \/ \E c \in Calls :
          \/ BudgetBlocks(c) \/ Arrive(c) \/ Evaluate(c) \/ Gate(c)
          \/ SendSucceeds(c) \/ SendFails(c) \/ Decide(c)
          \/ \E d \in {"approved", "denied", "always"} : ConsoleAnswers(c, d)
    \/ \E r \in Prompts :
          \/ OperatorApprovesAlways(r) \/ RequestExpires(r)
          \/ \E d \in {"approved", "denied"} : OperatorAnswers(r, d)
    \/ \E k \in Classes : PatternSaved(k) \/ Revoke(k)
    \/ RevokeEnds
    \/ \E k \in Classes, v \in Verdicts : ReloadPolicy(k, v)
    \/ \E cf \in Configs : ReloadHitlConfig(cf) \/ Activate(cf) \/ Restart(cf)
    \/ Deactivate
    \/ DeactivateEnds

(* The event loop runs what is ready: continuations of settled promises,   *)
(* timers whose delay has passed, and the response or timeout of a send    *)
(* (fetch has a timeout and the retries are bounded).  Nothing is assumed  *)
(* of operators.                                                           *)
Fairness ==
    /\ \A c \in Calls : /\ WF_vars(Evaluate(c)) /\ WF_vars(Gate(c))
                        /\ WF_vars(SendSucceeds(c) \/ SendFails(c))
                        /\ WF_vars(Decide(c))
    /\ \A r \in Prompts : WF_vars(RequestExpires(r))

Spec == Init /\ [][Next]_vars /\ Fairness

-----------------------------------------------------------------------------
(* Properties                                                              *)

(* The hook implements ToolCallContract: whatever the order of answers,    *)
(* timeouts, send failures, reloads, shutdown and restart, a call is       *)
(* decided once, and if an operator was asked about it then it is allowed  *)
(* only on an approval (for policies with fallback deny).                  *)
Contract == INSTANCE ToolCallContract WITH
    outcome <- [c \in Calls |-> IF pc[c] \in Final THEN pc[c] ELSE "open"],
    asked <- [c \in Calls |-> prompts[c] > 0],
    reply <- [c \in Calls |-> IF /\ prompts[c] > 0
                                 /\ promise[CurrentPrompt(c)] \in {"approved", "denied"}
                                THEN promise[CurrentPrompt(c)] ELSE "none"]
ImplementsContract == Contract!ContractSpec

(* One tool call never asks the operator twice, although both the release  *)
(* of a gated forbid and step 3 of the handler can dispatch a request.     *)
AtMostOnePrompt == \A c \in Calls : prompts[c] <= 1

(* A decided call leaves no request behind: an operator who answers a      *)
(* request that is still filed always answers a call that still waits.     *)
NoOrphanRequest ==
    \A r \in Prompts : pending[r] # None =>
        /\ pc[r[1]] \in {"sending", "awaiting"}
        /\ r = CurrentPrompt(r[1])

(* A forbid of the HITL tier is released only by the approval of this very *)
(* call or by an Approve Always given to the same verified or unverified   *)
(* channel for the same class, also when config, approvals and engines     *)
(* change while the call is under way.                                     *)
GatedReleaseIsAuthorised ==
    [][\A c \in Calls :
          decision[c] = "gated" /\ pc[c] # "allowed" /\ pc'[c] = "allowed" =>
              \/ prompts[c] > 0 /\ promise[CurrentPrompt(c)] = "approved"
              \/ <<auditChannel(c), c.cls>> \in sessionAutoApprovals]_vars

AtConsolePrompt(c) == pc[c] = "sending" /\ used[c].channel = "console"

(* Every call that reaches the hook is decided (or dies with the process): *)
(* on every channel but the console, whose prompt is awaited without a     *)
(* deadline, the timeout or a failed send decides without an operator,     *)
(* also when policies are reloaded, approvals revoked or the plugin is     *)
(* deactivated meanwhile.                                                  *)
DecidedUnlessAtConsole ==
    \A c \in Calls :
        pc[c] = "evaluating" ~> (pc[c] \in Final \/ AtConsolePrompt(c))

(* docs/human-in-the-loop.md: "Operator denies --> action blocked", under  *)
(* any fallback: a call whose operator denied it is never allowed.         *)
DenialBlocks ==
    \A r \in Prompts : "denied" \in acked[r] => pc[r[1]] # "allowed"
=============================================================================
