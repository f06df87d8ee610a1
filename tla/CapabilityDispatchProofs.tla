----------------------- MODULE CapabilityDispatchProofs -----------------------
(***************************************************************************)
(* Two promises of capabilities, for any set of calls, any clock and any   *)
(* time-to-live: a call goes through only if stage 2 permits it or an      *)
(* operator approved it, and stage 1 honours a capability only for what    *)
(* was approved.                                                           *)
(*                                                                         *)
(* The approval manager's part is taken from ApprovalManagerProofs: AMP is *)
(* that module for the requests of runWithHitl, whose tokens are the calls *)
(* themselves (no session keys).                                           *)
(***************************************************************************)
EXTENDS CapabilityDispatch, TLAPS

AMP == INSTANCE ApprovalManagerProofs
         WITH Requests <- Calls, SessionKeys <- {}, ApprovalKeys <- {}

(* A capability exists only for a call whose request was approved, and     *)
(* carries that call's binding and session.                                *)
CapabilityHasApproval ==
    \A c \in Calls : capabilities[c] # None =>
        /\ promise[c] = "approved"
        /\ capabilities[c].binding = computeBinding(c)
        /\ capabilities[c].session = c.session

(* A request is filed with the binding of its call.                        *)
RequestIsBound ==
    \A c \in Calls : promise[c] # "absent" => bindingOf[c] = computeBinding(c)

(* Where a call is tells how its request stands and that it has no result  *)
(* before it is done.                                                      *)
StagesInOrder ==
    \A c \in Calls : /\ pc[c] \in {"rerun", "rerun2"} => promise[c] = "approved"
                     /\ result[c] # None => pc[c] = "done"

CInv ==
    /\ TypeOK
    /\ AMP!IInv
    /\ CapabilityHasApproval
    /\ RequestIsBound
    /\ StagesInOrder
    /\ ReleaseWasApproved
    /\ CapabilityStaysInScope

-----------------------------------------------------------------------------
(* The assumptions of ApprovalManager hold for this instance of it.        *)
LEMMA ManagerAssumptions ==
    Calls \cap {} = {} /\ None \notin (Calls \cup {}) \cup Bindings
BY NoneIsNoCall

(* The manager starts in its invariant.                                    *)
LEMMA ManagerInit == AM!Init => AMP!IInv
<1>1. AM!Init => AMP!Init
  BY DEF AM!Init, AMP!Init, AM!Tokens, AMP!Tokens
<1> QED
  BY <1>1, ManagerAssumptions, AMP!InitIInv

(* What the manager does in a step of this module: one of its own actions, *)
(* or nothing.                                                             *)
ManagerStep ==
    \/ \E c \in Calls : AM!CreateApprovalRequest(c, c, computeBinding(c))
    \/ \E c \in Calls, d \in {"approved", "denied"} : AM!ResolveApproval(c, d, None)
    \/ \E c \in Calls : AM!Expire(c)
    \/ AM!Restart
    \/ UNCHANGED amVars

(* Each of them is a step of the manager, so that what is proved of its    *)
(* steps holds of these.                                                   *)
LEMMA ManagerSteps == ManagerStep => [AMP!Next]_(AMP!vars)
<1>1. ASSUME NEW c \in Calls, AM!CreateApprovalRequest(c, c, computeBinding(c))
      PROVE  AMP!Next
  <2>1. c \in AMP!Tokens /\ computeBinding(c) \in Bindings
    BY DEF AMP!Tokens, Bindings
  <2>2. AMP!CreateApprovalRequest(c, c, computeBinding(c))
    BY <1>1 DEF AM!CreateApprovalRequest, AMP!CreateApprovalRequest
  <2> QED
    BY <2>1, <2>2 DEF AMP!Next
<1>2. ASSUME NEW c \in Calls, NEW d \in {"approved", "denied"}, AM!ResolveApproval(c, d, None)
      PROVE  AMP!Next
  <2>1. c \in AMP!Tokens /\ d \in AMP!Answers /\ None \in Bindings \cup {None}
    BY DEF AMP!Tokens, AMP!Answers
  <2>2. AMP!ResolveApproval(c, d, None)
    BY <1>2 DEF AM!ResolveApproval, AMP!ResolveApproval, AM!CanResolve, AMP!CanResolve,
       AM!Answer, AMP!Answer, AM!ClearTimers, AMP!ClearTimers, AM!Consume, AMP!Consume,
       AM!Settle, AMP!Settle, AM!Filed, AMP!Filed, AM!Entries, AMP!Entries,
       AM!Tokens, AMP!Tokens
  <2> QED
    BY <2>1, <2>2 DEF AMP!Next
<1>3. ASSUME NEW c \in Calls, AM!Expire(c)
      PROVE  AMP!Next
  <2>1. AMP!Expire(c)
    BY <1>3 DEF AM!Expire, AMP!Expire, AM!Consume, AMP!Consume, AM!Settle, AMP!Settle,
       AM!Tokens, AMP!Tokens
  <2> QED
    BY <2>1 DEF AMP!Next
<1>4. AM!Restart => AMP!Next
  <2>1. AM!Restart => AMP!Restart
    BY DEF AM!Restart, AMP!Restart, AM!Tokens, AMP!Tokens
  <2> QED
    BY <2>1 DEF AMP!Next
<1>5. UNCHANGED amVars => UNCHANGED AMP!vars
  BY DEF amVars, AMP!vars, AMP!storeVars
<1> QED
  BY <1>1, <1>2, <1>3, <1>4, <1>5 DEF ManagerStep

(* They keep the manager's invariant.                                      *)
LEMMA ManagerInv == AMP!IInv /\ ManagerStep => AMP!IInv'
BY ManagerSteps, ManagerAssumptions, AMP!NextIInv

(* A settled promise stays as it is, and a request keeps its binding: it   *)
(* is filed once, with the binding of its call.                            *)
LEMMA ManagerFacts ==
  ASSUME CInv, ManagerStep
  PROVE  /\ \A c \in Calls : promise[c] \notin {"absent", "waiting"} => promise'[c] = promise[c]
         /\ \A c \in Calls : promise[c] # "absent" => bindingOf'[c] = bindingOf[c]
         /\ RequestIsBound'
<1>1. \A c \in Calls : promise[c] # "absent" =>
        /\ promise[c] # "waiting" => promise'[c] = promise[c]
        /\ bindingOf'[c] = bindingOf[c]
  BY ManagerSteps, ManagerAssumptions, AMP!SettledStays DEF CInv, AMP!CallerStep
<1>2. ASSUME NEW c \in Calls, promise[c] = "absent", promise'[c] # "absent"
      PROVE  bindingOf'[c] = computeBinding(c)
  <2>1. AM!TypeOK
    BY DEF CInv, TypeOK
  <2>2. ~ UNCHANGED promise /\ ~ AM!Restart
    BY <1>2, <2>1 DEF AM!Restart
  <2>3. \A rs, d : ~ AM!Settle(rs, d)
    BY <1>2, <2>1 DEF AM!Settle
  <2>4. PICK r \in Calls : AM!CreateApprovalRequest(r, r, computeBinding(r))
    BY <2>2, <2>3 DEF ManagerStep, AM!ResolveApproval, AM!Answer, AM!Expire, amVars
  <2> QED
    BY <1>2, <2>1, <2>4 DEF AM!CreateApprovalRequest, AM!TypeOK
<1>3. RequestIsBound'
  BY <1>1, <1>2 DEF CInv, RequestIsBound
<1> QED
  BY <1>1, <1>3

(* The initial state satisfies the inductive invariant.                    *)
LEMMA InitCInv == Init => CInv
<1> SUFFICES ASSUME Init PROVE CInv
  OBVIOUS
<1>1. AMP!IInv
  BY ManagerInit DEF Init
<1>2. TypeOK
  BY TicksAreNat, NoneIsNoCall
     DEF Init, TypeOK, AM!Init, AM!TypeOK, AM!Tokens, AM!Decisions, AM!Answers
<1>3. CapabilityHasApproval /\ RequestIsBound /\ StagesInOrder
        /\ ReleaseWasApproved /\ CapabilityStaysInScope
  BY DEF Init, AM!Init, CapabilityHasApproval, RequestIsBound, StagesInOrder,
         ReleaseWasApproved, CapabilityStaysInScope
<1> QED
  BY <1>1, <1>2, <1>3 DEF CInv

(* Steps of the operator, the clock, the rules and the process, which      *)
(* leave the calls alone, keep the part of the invariant about calls.      *)
LEMMA CallPartKept ==
  ASSUME CInv, ManagerStep, UNCHANGED callVars
  PROVE  /\ CapabilityHasApproval' /\ StagesInOrder'
         /\ ReleaseWasApproved' /\ CapabilityStaysInScope'
<1>1. /\ \A c \in Calls : promise[c] = "approved" => promise'[c] = "approved"
      /\ \A c \in Calls : promise[c] = "approved" => bindingOf'[c] = bindingOf[c]
  BY ManagerFacts
<1>2. CapabilityHasApproval' /\ StagesInOrder' /\ ReleaseWasApproved'
  BY <1>1 DEF CInv, callVars, CapabilityHasApproval, StagesInOrder, ReleaseWasApproved
<1>3. CapabilityStaysInScope'
  <2> SUFFICES ASSUME NEW p \in honoured'
               PROVE  /\ promise'[p[2]] = "approved"
                      /\ bindingOf'[p[2]] = computeBinding(p[1])
                      /\ p[2].session \in {None, p[1].session}
    BY DEF CapabilityStaysInScope
  <2>1. p \in honoured /\ p[2] \in Calls
    BY DEF CInv, TypeOK, callVars
  <2> QED
    BY <1>1, <2>1 DEF CInv, CapabilityStaysInScope
<1> QED
  BY <1>2, <1>3

-----------------------------------------------------------------------------
(* Every step does one of the manager's operations, or none.               *)
LEMMA NextIsManagerStep == [Next]_vars => ManagerStep
<1> SUFFICES ASSUME [Next]_vars PROVE ManagerStep
  OBVIOUS
<1>1. ASSUME NEW c \in Calls, FirstStage2(c) PROVE ManagerStep
  BY <1>1 DEF FirstStage2, ManagerStep
<1>2. ASSUME NEW c \in Calls, NEW d \in {"approved", "denied"}, Operator(c, d)
      PROVE  ManagerStep
  BY <1>2 DEF Operator, ManagerStep
<1>3. ASSUME NEW c \in Calls, RequestExpires(c) PROVE ManagerStep
  BY <1>3 DEF RequestExpires, ManagerStep
<1>4. CASE Restart
  BY <1>4 DEF Restart, ManagerStep
<1>5. ASSUME NEW c \in Calls,
             \/ FirstStage1(c) \/ Answered(c) \/ RerunStage1(c) \/ RerunStage2(c)
             \/ PresentStage2(c) \/ \E id \in Calls \cup {None} : PresentStage1(c, id)
      PROVE  UNCHANGED amVars
  BY <1>5 DEF FirstStage1, Answered, RerunStage1, RerunStage2, PresentStage1,
     PresentStage2, ShowCapability
<1>6. CASE \/ \E k \in Classes, v \in Verdicts : ReloadPolicy(k, v)
           \/ Tick
           \/ UNCHANGED vars
  BY <1>6 DEF ReloadPolicy, Tick, vars, ManagerStep
<1> QED
  BY <1>1, <1>2, <1>3, <1>4, <1>5, <1>6 DEF Next, Step, ManagerStep

(* What each step of a call does to the calls' own state keeps its type.   *)
LEMMA CallTypes ==
  ASSUME TypeOK, [Next]_vars
  PROVE  /\ capabilities' \in [Calls -> Capabilities \cup {None}]
         /\ pc' \in [Calls -> {"idle", "first", "asked", "rerun", "rerun2", "shown", "done"}]
         /\ result' \in [Calls -> {None, "permit", "forbid"}]
         /\ saw' \in [Calls -> Verdicts \cup {None}]
         /\ honoured' \subseteq Calls \X Calls
         /\ policy' \in [Classes -> Verdicts]
         /\ now' \in 0 .. MaxTime
<1> DEFINE Goal ==
         /\ capabilities' \in [Calls -> Capabilities \cup {None}]
         /\ pc' \in [Calls -> {"idle", "first", "asked", "rerun", "rerun2", "shown", "done"}]
         /\ result' \in [Calls -> {None, "permit", "forbid"}]
         /\ saw' \in [Calls -> Verdicts \cup {None}]
         /\ honoured' \subseteq Calls \X Calls
         /\ policy' \in [Classes -> Verdicts]
         /\ now' \in 0 .. MaxTime
<1> USE TicksAreNat DEF TypeOK, Goto, Finish
<1>1. ASSUME NEW c \in Calls, FirstStage1(c) PROVE Goal
  BY <1>1 DEF FirstStage1
<1>2. ASSUME NEW c \in Calls, \/ FirstStage2(c) \/ RerunStage2(c) \/ PresentStage2(c)
      PROVE  Goal
  <2>1. policy[c.cls] \in Verdicts
    BY DEF Classes
  <2> QED
    BY <1>2, <2>1 DEF FirstStage2, RerunStage2, PresentStage2, approvedStage2
<1>3. ASSUME NEW c \in Calls, Answered(c) PROVE Goal
  <2>1. [binding |-> computeBinding(c), session |-> c.session,
         expires |-> now + TtlTicks] \in Capabilities
    BY DEF Capabilities, Bindings
  <2> QED
    BY <1>3, <2>1 DEF Answered, issueCapability
<1>4. ASSUME NEW c \in Calls, NEW id \in Calls \cup {None}, NEW where \in {"rerun2", "shown"},
             ShowCapability(c, id, where)
      PROVE  Goal
  <2>1. validateCapability(c, id) => <<c, id>> \in Calls \X Calls
    BY DEF validateCapability
  <2> QED
    BY <1>4, <2>1 DEF ShowCapability
<1>5. CASE Restart
  BY <1>5 DEF Restart
<1>6. CASE \/ \E c \in Calls, d \in {"approved", "denied"} : Operator(c, d)
           \/ \E c \in Calls : RequestExpires(c)
           \/ Tick
           \/ UNCHANGED vars
  BY <1>6 DEF Operator, RequestExpires, Tick, vars, callVars
<1>7. ASSUME NEW k \in Classes, NEW v \in Verdicts, ReloadPolicy(k, v) PROVE Goal
  BY <1>7 DEF ReloadPolicy, callVars
<1> QED
  BY <1>1, <1>2, <1>3, <1>4, <1>5, <1>6, <1>7 DEF Next, Step, RerunStage1, PresentStage1

(* Type correctness is preserved, the manager's part by its own invariant. *)
LEMMA NextTypeOK == CInv /\ [Next]_vars => TypeOK'
<1> SUFFICES ASSUME CInv, [Next]_vars PROVE TypeOK'
  OBVIOUS
<1>1. AMP!IInv'
  BY NextIsManagerStep, ManagerInv DEF CInv
<1>2. AM!TypeOK'
  BY <1>1 DEF AMP!IInv, AMP!TypeOK, AM!TypeOK, AMP!Tokens, AM!Tokens, AMP!Decisions,
     AM!Decisions, AMP!Answers, AM!Answers
<1> QED
  BY <1>2, CallTypes DEF CInv, TypeOK

(* The steps of a call preserve what the invariant says of the calls.      *)
LEMMA CallStepKeeps ==
  ASSUME CInv, [Next]_vars, NEW c \in Calls,
         \/ FirstStage1(c) \/ Step(c)
         \/ \E id \in Calls \cup {None} : PresentStage1(c, id)
  PROVE  /\ CapabilityHasApproval' /\ StagesInOrder'
         /\ ReleaseWasApproved' /\ CapabilityStaysInScope'
<1>0. TypeOK /\ CapabilityHasApproval /\ RequestIsBound /\ StagesInOrder
        /\ ReleaseWasApproved /\ CapabilityStaysInScope
  BY DEF CInv
<1>1. /\ \A b \in Calls : promise[b] = "approved" => promise'[b] = "approved"
      /\ \A b \in Calls : promise[b] = "approved" => bindingOf'[b] = bindingOf[b]
  BY NextIsManagerStep, ManagerFacts
<1>2. CapabilityHasApproval'
  <2>1. CASE UNCHANGED capabilities
    BY <1>0, <1>1, <2>1 DEF CapabilityHasApproval
  <2>2. CASE Answered(c) /\ promise[c] = "approved"
    BY <1>0, <1>1, <2>2 DEF Answered, issueCapability, CapabilityHasApproval, TypeOK
  <2> QED
    BY <2>1, <2>2 DEF FirstStage1, Step, FirstStage2, Answered, RerunStage1,
       RerunStage2, PresentStage1, PresentStage2, ShowCapability
<1>3. StagesInOrder'
  <2>1. CASE Answered(c)
    BY <1>0, <1>1, <2>1 DEF Answered, StagesInOrder, TypeOK, Goto, Finish
  <2>2. CASE RerunStage1(c)
    BY <1>0, <1>1, <2>2 DEF RerunStage1, ShowCapability, StagesInOrder, TypeOK, Goto, Finish
  <2>3. CASE \/ FirstStage1(c) \/ FirstStage2(c) \/ RerunStage2(c) \/ PresentStage2(c)
             \/ \E id \in Calls \cup {None} : PresentStage1(c, id)
    <3>1. /\ pc'[c] \notin {"rerun", "rerun2"}
          /\ result[c] # None => pc[c] = "done"
          /\ pc'[c] = "done" \/ UNCHANGED result
          /\ pc[c] # "done"
          /\ \A b \in Calls \ {c} : pc'[b] = pc[b] /\ result'[b] = result[b]
      BY <1>0, <2>3 DEF FirstStage1, FirstStage2, RerunStage2, PresentStage2,
         PresentStage1, ShowCapability, StagesInOrder, TypeOK, Goto, Finish
    <3> QED
      BY <1>0, <1>1, <3>1 DEF StagesInOrder
  <2> QED
    BY <2>1, <2>2, <2>3 DEF Step
<1>4. ReleaseWasApproved'
  <2>1. result[c] # "permit"
    BY <1>0, NoneIsNoCall DEF FirstStage1, Step, FirstStage2, Answered, RerunStage1,
       RerunStage2, PresentStage1, PresentStage2, StagesInOrder
  <2>2. \A b \in Calls \ {c} : result'[b] = result[b] /\ saw'[b] = saw[b]
    BY <1>0 DEF FirstStage1, Step, FirstStage2, Answered, RerunStage1, RerunStage2,
       PresentStage1, PresentStage2, ShowCapability, TypeOK, Goto, Finish
  <2>3. result'[c] = "permit" => \/ saw'[c] = "permit"
                                 \/ saw'[c] = "gated" /\ promise'[c] = "approved"
    <3>1. CASE FirstStage2(c) \/ PresentStage2(c)
      BY <1>0, <2>1, <3>1 DEF FirstStage2, PresentStage2, TypeOK, Finish
    <3>2. CASE RerunStage2(c)
      <4>1. promise'[c] = "approved" /\ policy[c.cls] \in {"permit", "gated", "forbid"}
        BY <1>0, <1>1, <3>2, VerdictsKnown DEF RerunStage2, StagesInOrder, TypeOK, Classes
      <4> QED
        BY <1>0, <3>2, <4>1 DEF RerunStage2, approvedStage2, TypeOK, Finish
    <3>3. CASE \/ FirstStage1(c) \/ Answered(c) \/ RerunStage1(c)
               \/ \E id \in Calls \cup {None} : PresentStage1(c, id)
      BY <1>0, <2>1, <3>3 DEF FirstStage1, Answered, RerunStage1, PresentStage1,
         ShowCapability, TypeOK, Finish
    <3> QED
      BY <3>1, <3>2, <3>3 DEF Step
  <2> QED
    BY <1>0, <1>1, <2>2, <2>3 DEF ReleaseWasApproved
<1>5. CapabilityStaysInScope'
  <2> SUFFICES ASSUME NEW p \in honoured'
               PROVE  /\ promise'[p[2]] = "approved"
                      /\ bindingOf'[p[2]] = computeBinding(p[1])
                      /\ p[2].session \in {None, p[1].session}
    BY DEF CapabilityStaysInScope
  <2>1. CASE p \in honoured
    <3>1. p[2] \in Calls
      BY <1>0, <2>1 DEF TypeOK
    <3> QED
      BY <1>0, <1>1, <2>1, <3>1 DEF CapabilityStaysInScope
  <2>2. CASE p \notin honoured
    <3>1. PICK id \in Calls \cup {None} : validateCapability(c, id) /\ p = <<c, id>>
      BY <2>2 DEF FirstStage1, Step, FirstStage2, Answered, RerunStage1, RerunStage2,
         PresentStage1, PresentStage2, ShowCapability
    <3>2. id \in Calls /\ capabilities[id] # None /\ computeBinding(c) = capabilities[id].binding
            /\ capabilities[id].session \in {None, c.session}
      BY <3>1 DEF validateCapability
    <3> QED
      BY <1>0, <1>1, <3>1, <3>2 DEF CapabilityHasApproval, RequestIsBound
  <2> QED
    BY <2>1, <2>2
<1> QED
  BY <1>2, <1>3, <1>4, <1>5

(* A restart drops the capabilities and ends the running calls.            *)
LEMMA RestartKeeps ==
  ASSUME CInv, Restart
  PROVE  /\ CapabilityHasApproval' /\ StagesInOrder'
         /\ ReleaseWasApproved' /\ CapabilityStaysInScope'
<1>1. /\ \A b \in Calls : promise[b] = "approved" => promise'[b] = "approved"
      /\ bindingOf' = bindingOf
  BY DEF CInv, TypeOK, AM!TypeOK, Restart, AM!Restart
<1>2. CapabilityHasApproval' /\ StagesInOrder' /\ ReleaseWasApproved'
  BY <1>1 DEF CInv, TypeOK, Restart, CapabilityHasApproval, StagesInOrder, ReleaseWasApproved
<1>3. \A p \in honoured : p[2] \in Calls
  BY DEF CInv, TypeOK
<1>4. CapabilityStaysInScope'
  BY <1>1, <1>3 DEF CInv, Restart, CapabilityStaysInScope
<1> QED
  BY <1>2, <1>4

(* Every step preserves the inductive invariant.                           *)
LEMMA NextCInv == CInv /\ [Next]_vars => CInv'
<1> SUFFICES ASSUME CInv, [Next]_vars PROVE CInv'
  OBVIOUS
<1>1. TypeOK' /\ AMP!IInv' /\ RequestIsBound'
  BY NextTypeOK, NextIsManagerStep, ManagerInv, ManagerFacts DEF CInv
<1> DEFINE Rest == CapabilityHasApproval' /\ StagesInOrder' /\ ReleaseWasApproved'
                     /\ CapabilityStaysInScope'
<1>2. ASSUME NEW c \in Calls, \/ FirstStage1(c) \/ Step(c)
                              \/ \E id \in Calls \cup {None} : PresentStage1(c, id)
      PROVE  Rest
  BY <1>2, CallStepKeeps
<1>3. ASSUME Restart PROVE Rest
  BY <1>3, RestartKeeps
<1>4. ASSUME UNCHANGED callVars PROVE Rest
  BY <1>4, NextIsManagerStep, CallPartKept
<1>5. Rest
  BY <1>2, <1>3, <1>4 DEF Next, Operator, RequestExpires, ReloadPolicy, Tick, vars
<1> QED
  BY <1>1, <1>5 DEF CInv

-----------------------------------------------------------------------------
(* The inductive invariant holds throughout every behaviour of runWithHitl *)
(* and of the direct calls of runPipeline.                                 *)
THEOREM DispatchInvariant == Spec => []CInv
BY InitCInv, NextCInv, PTL DEF Spec

(* Only calls that stage 2 permits when it is last asked, or that it gates *)
(* and an operator approved, go through runWithHitl and runPipeline.       *)
THEOREM ReleaseTheorem == Spec => []ReleaseWasApproved
<1>1. CInv => ReleaseWasApproved
  BY DEF CInv
<1> QED
  BY <1>1, DispatchInvariant, PTL

(* validateCapability honours a capability only for the binding and the    *)
(* session it was approved for, for any number of calls and restarts.      *)
THEOREM ScopeTheorem == Spec => []CapabilityStaysInScope
<1>1. CInv => CapabilityStaysInScope
  BY DEF CInv
<1> QED
  BY <1>1, DispatchInvariant, PTL
=============================================================================
