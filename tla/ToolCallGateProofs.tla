-------------------------- MODULE ToolCallGateProofs --------------------------
(***************************************************************************)
(* What the before_tool_call hook promises, for any set of calls, classes, *)
(* engine verdicts and policy files: it asks the operator at most once,    *)
(* leaves no request behind, releases a gated forbid only with an approval *)
(* and implements ToolCallContract.                                        *)
(*                                                                         *)
(* AMP is ApprovalManagerProofs for the requests of the hook: its          *)
(* invariant says that a request is filed exactly while its promise waits. *)
(***************************************************************************)
EXTENDS ToolCallGate, TLAPS

AMP == INSTANCE ApprovalManagerProofs WITH
         Requests <- Prompts, SessionKeys <- {}, Bindings <- {"binding"},
         ApprovalKeys <- ChannelKeys

(* The number of requests a call has made follows from where it is.        *)
PromptCount ==
    \A c \in Calls : /\ pc[c] \in {"idle", "evaluating", "gate"} => prompts[c] = 0
                     /\ pc[c] \in {"sending", "awaiting"} => prompts[c] = 1
                     /\ prompts[c] <= 1

(* What a handler captured before an await is there when it goes on.       *)
CapturedState ==
    \A c \in Calls :
        /\ pc[c] = "evaluating" => snap[c] \in [verdict : Verdicts, permitted : BOOLEAN]
        /\ pc[c] \in {"sending", "awaiting"} => used[c] \in PolicyRecords \ {None}

GInv ==
    /\ TypeOK
    /\ AMP!IInv
    /\ PromptCount
    /\ CapturedState
    /\ NoOrphanRequest

(* Every HITL policy an operator writes denies when nobody answers, and    *)
(* names a channel that has an adapter.  The last two theorems need it: a  *)
(* policy with fallback auto-approve lets a call through unanswered, and   *)
(* dispatchHitlChannel returns for a channel it does not know.             *)
DenyOnly ==
    \A p \in PolicyRecords \ {None} :
        p.channel \in {"remote", "console"} /\ p.fallback = "deny"

-----------------------------------------------------------------------------
(* The assumptions of ApprovalManager hold for this instance of it.        *)
LEMMA ManagerAssumptions ==
    Prompts \cap {} = {} /\ None \notin (Prompts \cup {}) \cup {"binding"}
BY NoneIsNoRequest

(* The manager starts in its invariant.                                    *)
LEMMA ManagerInit == AM!Init => AMP!IInv
<1>1. AM!Init => AMP!Init
  BY DEF AM!Init, AMP!Init, AM!Tokens, AMP!Tokens
<1> QED
  BY <1>1, ManagerAssumptions, AMP!InitIInv

(* A request is filed, under its own token, exactly while its promise      *)
(* waits for an answer or the timer.                                       *)
LEMMA WaitingIsFiled ==
  ASSUME AMP!IInv, NEW r \in Prompts
  PROVE  /\ promise[r] = "waiting" <=> pending[r] # None
         /\ pending[r] # None => pending[r] = r
         /\ promise[r] = "waiting" <=> timer[r] = "armed"
         /\ timer[r] = "armed" => tokenOf[r] = r
BY ManagerAssumptions, AMP!WaitingIsFiled

(* What every operation of the manager but createApprovalRequest does,     *)
(* seen from the hook: some filed requests rs are withdrawn and their      *)
(* promises settle with d.                                                 *)
Withdrawn(rs, d) ==
    /\ \A r \in rs : r \in Prompts /\ pending[r] # None /\ promise[r] = "waiting"
    /\ \A r \in Prompts : promise'[r] = IF r \in rs THEN d ELSE promise[r]
    /\ \A r \in Prompts : pending'[r] # None => pending[r] # None /\ r \notin rs

(* resolveApproval, and the answer of the console prompt.                  *)
LEMMA AnswerWithdraws ==
  ASSUME AMP!IInv, NEW r \in Prompts, NEW d, AM!Answer({r}, d)
  PROVE  Withdrawn(IF pending[r] # None THEN {r} ELSE {}, d)
<1>1. AM!Filed({r}) = IF pending[r] # None THEN {r} ELSE {}
  BY DEF AM!Filed
<1>2. AM!Entries({r}) = IF pending[r] # None THEN {r} ELSE {}
  BY <1>1, WaitingIsFiled DEF AM!Entries
<1> QED
  BY <1>1, <1>2, WaitingIsFiled DEF AM!Answer, AM!Consume, AM!Settle, AM!Tokens, Withdrawn

(* cancel.                                                                 *)
LEMMA CancelWithdraws ==
  ASSUME AMP!IInv, NEW r \in Prompts, AM!Cancel(r)
  PROVE  Withdrawn({r}, "expired")
<1>1. AM!Entries({r}) = {r}
  BY WaitingIsFiled DEF AM!Filed, AM!Entries, AM!Cancel
<1> QED
  BY <1>1, WaitingIsFiled DEF AM!Cancel, AM!Consume, AM!Settle, AM!Tokens, Withdrawn

(* The time-to-live timer.                                                 *)
LEMMA ExpireWithdraws ==
  ASSUME AMP!IInv, NEW r \in Prompts, AM!Expire(r)
  PROVE  Withdrawn({r}, "expired")
BY WaitingIsFiled DEF AM!Expire, AM!Consume, AM!Settle, AM!Tokens, Withdrawn

(* shutdown.                                                               *)
LEMMA ShutdownWithdraws ==
  ASSUME AMP!IInv, AM!Shutdown
  PROVE  Withdrawn({r \in Prompts : pending[r] # None}, "expired")
<1>1. AM!Filed(AM!Tokens) = {r \in Prompts : pending[r] # None}
  BY DEF AM!Filed, AM!Tokens
<1>2. AM!Entries(AM!Tokens) = {r \in Prompts : pending[r] # None}
  BY <1>1, WaitingIsFiled DEF AM!Entries
<1> QED
  BY <1>1, <1>2, WaitingIsFiled DEF AM!Shutdown, AM!Consume, AM!Settle, AM!Tokens, Withdrawn

(* A restart of the process.                                               *)
LEMMA RestartWithdraws ==
  ASSUME AMP!IInv, AM!Restart
  PROVE  Withdrawn({r \in Prompts : pending[r] # None}, "lost")
BY WaitingIsFiled DEF AM!Restart, AM!Tokens, Withdrawn

-----------------------------------------------------------------------------
(* The manager's operations in the hook's module are those of AMP.         *)
LEMMA SameOperations ==
  ASSUME NEW r \in Prompts, NEW d \in {"approved", "denied"}
  PROVE  /\ AM!CreateApprovalRequest(r, r, "binding") => AMP!CallerStep
         /\ AM!Answer({r}, d) /\ sessionAutoApprovals' \subseteq ChannelKeys => AMP!CallerStep
         /\ AM!ResolveApproval(r, d, None) => AMP!CallerStep
         /\ AM!Cancel(r) => AMP!CallerStep
         /\ AM!Expire(r) => AMP!CallerStep
<1>0. r \in AMP!Tokens /\ d \in AMP!Answers
  BY DEF AMP!Tokens, AMP!Answers
<1>1. AM!CreateApprovalRequest(r, r, "binding") => AMP!CreateApprovalRequest(r, r, "binding")
  BY DEF AM!CreateApprovalRequest, AMP!CreateApprovalRequest
<1>2. AM!Answer({r}, d) => AMP!Answer({r}, d)
  BY DEF AM!Answer, AMP!Answer, AM!ClearTimers, AMP!ClearTimers, AM!Consume, AMP!Consume,
     AM!Settle, AMP!Settle, AM!Filed, AMP!Filed, AM!Entries, AMP!Entries,
     AM!Tokens, AMP!Tokens
<1>3. AM!ResolveApproval(r, d, None) => AMP!ResolveApproval(r, d, None)
  BY <1>2 DEF AM!ResolveApproval, AMP!ResolveApproval, AM!CanResolve, AMP!CanResolve
<1>4. AM!Cancel(r) => AMP!Cancel(r)
  BY DEF AM!Cancel, AMP!Cancel, AM!ClearTimers, AMP!ClearTimers, AM!Consume, AMP!Consume,
     AM!Settle, AMP!Settle, AM!Filed, AMP!Filed, AM!Entries, AMP!Entries,
     AM!Tokens, AMP!Tokens
<1>5. AM!Expire(r) => AMP!Expire(r)
  BY DEF AM!Expire, AMP!Expire, AM!Consume, AMP!Consume, AM!Settle, AMP!Settle,
     AM!Tokens, AMP!Tokens
<1>6. {r} \in SUBSET AMP!Tokens
  BY <1>0
<1> QED
  BY <1>0, <1>1, <1>2, <1>3, <1>4, <1>5, <1>6 DEF AMP!Next, AMP!CallerStep

(* So are the operations without a request, and doing nothing.             *)
LEMMA SameLifeCycle ==
  AM!Shutdown \/ AM!Restart \/ AM!ClearSessionAutoApprovals \/ UNCHANGED amVars
    => AMP!CallerStep
<1>6. AM!Shutdown => AMP!Shutdown
  BY DEF AM!Shutdown, AMP!Shutdown, AM!ClearTimers, AMP!ClearTimers, AM!Consume, AMP!Consume,
     AM!Settle, AMP!Settle, AM!Filed, AMP!Filed, AM!Entries, AMP!Entries,
     AM!Tokens, AMP!Tokens
<1>7. AM!Restart => AMP!Restart
  BY DEF AM!Restart, AMP!Restart, AM!Tokens, AMP!Tokens
<1>8. AM!ClearSessionAutoApprovals => AMP!ClearSessionAutoApprovals
  BY DEF AM!ClearSessionAutoApprovals, AMP!ClearSessionAutoApprovals, AM!storeVars, AMP!storeVars
<1>9. UNCHANGED amVars => UNCHANGED AMP!vars
  BY DEF amVars, AMP!vars, AMP!storeVars
<1> QED
  BY <1>6, <1>7, <1>8, <1>9 DEF AMP!Next, AMP!CallerStep

(* The request a call under way awaits, and the one it makes next.         *)
LEMMA PromptsOfCall ==
  ASSUME GInv, NEW c \in Calls
  PROVE  /\ pc[c] \in {"sending", "awaiting"} => CurrentPrompt(c) \in Prompts
         /\ prompts[c] < MaxPrompts => <<c, prompts[c] + 1>> \in Prompts
BY MaxPromptsIsPositive DEF GInv, TypeOK, PromptCount, CurrentPrompt, Prompts

(* The keys that Approve Always adds are channel keys.                     *)
LEMMA RememberTypes ==
  ASSUME TypeOK, NEW c \in Calls, Remember(c)
  PROVE  sessionAutoApprovals' \subseteq ChannelKeys /\ saving' \subseteq Classes
<1>1. <<auditChannel(c), c.cls>> \in ChannelKeys /\ c.cls \in Classes
  BY CallsAreTyped DEF ChannelKeys, auditChannel
<1> QED
  BY <1>1 DEF Remember, TypeOK, AM!TypeOK

(* Every step does one of the manager's operations, or none.               *)
LEMMA NextIsCallerStep == GInv /\ [Next]_vars => AMP!CallerStep
<1> SUFFICES ASSUME GInv, [Next]_vars PROVE AMP!CallerStep
  OBVIOUS
<1>0. TypeOK /\ sessionAutoApprovals \subseteq ChannelKeys
  BY DEF GInv, TypeOK, AM!TypeOK
<1>1. ASSUME NEW c \in Calls, DispatchPrompts(c) PROVE AMP!CallerStep
  BY <1>1, PromptsOfCall, SameOperations DEF DispatchPrompts
<1>2. ASSUME NEW c \in Calls, SendFails(c) PROVE AMP!CallerStep
  BY <1>2, PromptsOfCall, SameOperations, SameLifeCycle DEF SendFails
<1>3. ASSUME NEW c \in Calls, NEW d \in {"approved", "denied", "always"}, ConsoleAnswers(c, d)
      PROVE  AMP!CallerStep
  <2>1. CurrentPrompt(c) \in Prompts /\ sessionAutoApprovals' \subseteq ChannelKeys
    BY <1>0, <1>3, PromptsOfCall, RememberTypes DEF ConsoleAnswers
  <2>2. AM!Answer({CurrentPrompt(c)}, IF d = "denied" THEN "denied" ELSE "approved")
    BY <1>3 DEF ConsoleAnswers
  <2> QED
    BY <2>1, <2>2, SameOperations
<1>4. ASSUME NEW r \in Prompts,
             \/ OperatorApprovesAlways(r) \/ RequestExpires(r)
             \/ \E d \in {"approved", "denied"} : OperatorAnswers(r, d)
      PROVE  AMP!CallerStep
  <2>1. OperatorApprovesAlways(r) => sessionAutoApprovals' \subseteq ChannelKeys
    <3>1. r[1] \in Calls
      BY DEF Prompts
    <3> QED
      BY <1>0, <3>1, RememberTypes DEF OperatorApprovesAlways
  <2> QED
    BY <1>4, <2>1, SameOperations DEF OperatorApprovesAlways, RequestExpires, OperatorAnswers
<1>5. ASSUME \/ RevokeEnds \/ Deactivate \/ \E cf \in Configs : Restart(cf)
      PROVE  AMP!CallerStep
  BY <1>5, SameLifeCycle DEF RevokeEnds, Deactivate, Restart
<1>6. ASSUME NEW c \in Calls,
             \/ BudgetBlocks(c) \/ Arrive(c) \/ Evaluate(c) \/ GateBlocks(c) \/ GatePasses(c)
             \/ DispatchNotConfigured(c) \/ DispatchUnknownChannel(c)
             \/ SendSucceeds(c) \/ Decide(c)
      PROVE  AMP!CallerStep
  <2>1. UNCHANGED amVars
    BY <1>6 DEF BudgetBlocks, Arrive, Evaluate, GateBlocks, GatePasses,
       DispatchNotConfigured, DispatchUnknownChannel, SendSucceeds, Decide
  <2> QED
    BY <2>1, SameLifeCycle
<1>7. ASSUME \/ \E k \in Classes : PatternSaved(k) \/ Revoke(k)
             \/ \E k \in Classes, v \in Verdicts : ReloadPolicy(k, v)
             \/ \E cf \in Configs : ReloadHitlConfig(cf) \/ Activate(cf)
             \/ DeactivateEnds
             \/ UNCHANGED vars
      PROVE  AMP!CallerStep
  <2>1. UNCHANGED amVars
    BY <1>7 DEF PatternSaved, Revoke, ReloadPolicy, ReloadHitlConfig, Activate,
       DeactivateEnds, vars
  <2> QED
    BY <2>1, SameLifeCycle
<1> QED
  BY <1>1, <1>2, <1>3, <1>4, <1>5, <1>6, <1>7 DEF Next, Gate

(* The manager's invariant is preserved.                                   *)
LEMMA NextManagerInv == GInv /\ [Next]_vars => AMP!IInv' /\ AM!TypeOK'
<1> SUFFICES ASSUME GInv, [Next]_vars PROVE AMP!IInv' /\ AM!TypeOK'
  OBVIOUS
<1>1. AMP!IInv'
  BY NextIsCallerStep, ManagerAssumptions, AMP!CallerIInv DEF GInv
<1>2. AM!TypeOK'
  BY <1>1 DEF AMP!IInv, AMP!TypeOK, AM!TypeOK, AMP!Tokens, AM!Tokens, AMP!Decisions,
     AM!Decisions, AMP!Answers, AM!Answers
<1> QED
  BY <1>1, <1>2

-----------------------------------------------------------------------------
(* The policy dispatchHitlChannel is called with is one of the files'.     *)
LEMMA MatchedIsKnown ==
  ASSUME TypeOK, NEW c \in Calls, matchedPolicy(c) # None
  PROVE  matchedPolicy(c) \in PolicyRecords
<1>1. hitlConfig \in Configs /\ matchedPolicy(c) = hitlConfig.policies[c.cls]
  BY DEF matchedPolicy, TypeOK
<1> QED
  BY <1>1, CallsAreTyped DEF PolicyRecords

(* A step of the handler of one call.                                      *)
HookStep(c) ==
    \/ BudgetBlocks(c) \/ Arrive(c) \/ Evaluate(c) \/ Gate(c)
    \/ SendSucceeds(c) \/ SendFails(c) \/ Decide(c)
    \/ \E d \in {"approved", "denied", "always"} : ConsoleAnswers(c, d)

(* The steps of a call keep the types of the calls' own state.             *)
LEMMA CallTypes ==
  ASSUME GInv, NEW c \in Calls, HookStep(c)
  PROVE  /\ pc' \in [Calls -> {"idle", "evaluating", "gate", "sending", "awaiting"} \cup Final]
         /\ snap' \in [Calls -> [verdict : Verdicts, permitted : BOOLEAN] \cup {None}]
         /\ decision' \in [Calls -> {"permit", "gated", "forbid", None}]
         /\ used' \in [Calls -> PolicyRecords \cup {None}]
         /\ prompts' \in [Calls -> 0 .. MaxPrompts]
<1> DEFINE Places == {"idle", "evaluating", "gate", "sending", "awaiting"} \cup Final
<1>0. TypeOK
  BY DEF GInv
<1>1. pc' \in [Calls -> Places]
  <2>1. ASSUME NEW p PROVE FallbackPc(p) \in Places /\ ReleasedPc \in Places
    BY DEF FallbackPc, ReleasedPc, Final
  <2>2. PICK w \in Places : pc' = [pc EXCEPT ![c] = w]
    BY <2>1 DEF HookStep, BudgetBlocks, Arrive, Evaluate, Gate, GateBlocks, GatePasses, SendSucceeds,
       SendFails, Decide, ConsoleAnswers, DispatchNotConfigured, DispatchUnknownChannel,
       DispatchPrompts, Final
  <2> QED
    BY <1>0, <2>2 DEF TypeOK
<1>2. snap' \in [Calls -> [verdict : Verdicts, permitted : BOOLEAN] \cup {None}]
  <2>1. policy[c.cls] \in Verdicts
    BY <1>0, CallsAreTyped DEF TypeOK
  <2>2. CASE Arrive(c)
    BY <1>0, <2>1, <2>2 DEF Arrive, TypeOK
  <2>3. CASE UNCHANGED snap
    BY <1>0, <2>3 DEF TypeOK
  <2> QED
    BY <2>2, <2>3 DEF HookStep, BudgetBlocks, Arrive, Evaluate, Gate, GateBlocks, GatePasses,
       SendSucceeds, SendFails, Decide, ConsoleAnswers, DispatchNotConfigured,
       DispatchUnknownChannel, DispatchPrompts
<1>3. decision' \in [Calls -> {"permit", "gated", "forbid", None}]
  <2>1. CASE Evaluate(c)
    <3>1. snap[c] \in [verdict : Verdicts, permitted : BOOLEAN]
      BY <2>1 DEF Evaluate, GInv, CapturedState
    <3>2. PipelineDecision(c) \in {"permit", "gated", "forbid"}
      BY <3>1, VerdictsAreKnown, CallsAreTyped DEF PipelineDecision
    <3> QED
      BY <1>0, <2>1, <3>2 DEF Evaluate, TypeOK
  <2>2. CASE UNCHANGED decision
    BY <1>0, <2>2 DEF TypeOK
  <2> QED
    BY <2>1, <2>2 DEF HookStep, BudgetBlocks, Arrive, Evaluate, Gate, GateBlocks, GatePasses,
       SendSucceeds, SendFails, Decide, ConsoleAnswers, DispatchNotConfigured,
       DispatchUnknownChannel, DispatchPrompts
<1>4. used' \in [Calls -> PolicyRecords \cup {None}]
  <2>1. CASE UNCHANGED used
    BY <1>0, <2>1 DEF TypeOK
  <2>2. CASE NeedsOperator(c) /\ used' = [used EXCEPT ![c] = matchedPolicy(c)]
    BY <1>0, <2>2, MatchedIsKnown DEF NeedsOperator, TypeOK
  <2> QED
    BY <2>1, <2>2 DEF HookStep, BudgetBlocks, Arrive, Evaluate, Gate, GateBlocks, GatePasses,
       SendSucceeds, SendFails, Decide, ConsoleAnswers, DispatchNotConfigured,
       DispatchUnknownChannel, DispatchPrompts
<1>5. prompts' \in [Calls -> 0 .. MaxPrompts]
  <2>1. CASE UNCHANGED prompts
    BY <1>0, <2>1 DEF TypeOK
  <2>2. CASE prompts[c] < MaxPrompts /\ prompts' = [prompts EXCEPT ![c] = @ + 1]
    BY <1>0, <2>2, MaxPromptsIsPositive DEF TypeOK
  <2> QED
    BY <2>1, <2>2 DEF HookStep, BudgetBlocks, Arrive, Evaluate, Gate, GateBlocks, GatePasses,
       SendSucceeds, SendFails, Decide, ConsoleAnswers, DispatchNotConfigured,
       DispatchUnknownChannel, DispatchPrompts
<1> QED
  BY <1>1, <1>2, <1>3, <1>4, <1>5

(* Every step keeps the types of what the calls read: rules, patterns,     *)
(* configuration and the state of the plugin.                              *)
LEMMA EnvTypes ==
  ASSUME GInv, [Next]_vars
  PROVE  /\ policy' \in [Classes -> Verdicts]
         /\ autoPermits' \subseteq Classes
         /\ saving' \subseteq Classes
         /\ revoking' \in BOOLEAN
         /\ hitlConfig' \in Configs \cup {None}
         /\ plugin' \in {"active", "stopping", "inactive"}
<1> DEFINE Goal == /\ policy' \in [Classes -> Verdicts]
                   /\ autoPermits' \subseteq Classes
                   /\ saving' \subseteq Classes
                   /\ revoking' \in BOOLEAN
                   /\ hitlConfig' \in Configs \cup {None}
                   /\ plugin' \in {"active", "stopping", "inactive"}
<1>0. TypeOK
  BY DEF GInv
<1>1. ASSUME UNCHANGED envVars PROVE Goal
  BY <1>0, <1>1 DEF envVars, TypeOK
<1>2. ASSUME NEW c \in Calls, Remember(c), UNCHANGED <<policy, autoPermits, revoking, hitlConfig, plugin>>
      PROVE  Goal
  BY <1>0, <1>2, RememberTypes DEF TypeOK
<1>3. ASSUME NEW c \in Calls, HookStep(c)
      PROVE  Goal
  <2>1. \/ UNCHANGED envVars
        \/ Remember(c) /\ UNCHANGED <<policy, autoPermits, revoking, hitlConfig, plugin>>
    BY <1>3 DEF HookStep, BudgetBlocks, Arrive, Evaluate, Gate, GateBlocks, GatePasses,
       SendSucceeds, SendFails, Decide, ConsoleAnswers, DispatchNotConfigured,
       DispatchUnknownChannel, DispatchPrompts, envVars
  <2> QED
    BY <1>1, <1>2, <2>1
<1>4. ASSUME NEW r \in Prompts,
             \/ OperatorApprovesAlways(r) \/ RequestExpires(r)
             \/ \E d \in {"approved", "denied"} : OperatorAnswers(r, d)
      PROVE  Goal
  <2>1. r[1] \in Calls
    BY DEF Prompts
  <2>2. \/ UNCHANGED envVars
        \/ Remember(r[1]) /\ UNCHANGED <<policy, autoPermits, revoking, hitlConfig, plugin>>
    BY <1>4 DEF OperatorApprovesAlways, RequestExpires, OperatorAnswers
  <2> QED
    BY <1>1, <1>2, <2>1, <2>2
<1>5. ASSUME \/ \E k \in Classes : PatternSaved(k) \/ Revoke(k)
             \/ RevokeEnds
             \/ \E cf \in Configs : ReloadHitlConfig(cf) \/ Activate(cf) \/ Restart(cf)
             \/ Deactivate
             \/ DeactivateEnds
      PROVE  Goal
  BY <1>0, <1>5 DEF PatternSaved, Revoke, RevokeEnds, ReloadHitlConfig, Activate, Restart,
     Deactivate, DeactivateEnds, TypeOK
<1>6. ASSUME NEW k \in Classes, NEW v \in Verdicts, ReloadPolicy(k, v) PROVE Goal
  BY <1>0, <1>6 DEF ReloadPolicy, TypeOK
<1> QED
  BY <1>1, <1>3, <1>4, <1>5, <1>6 DEF Next, HookStep, vars

(* Apart from its own steps, only a restart moves a call.                  *)
LEMMA WhoMovesCalls ==
  ASSUME [Next]_vars
  PROVE  \/ \E c \in Calls : HookStep(c)
         \/ \E cf \in Configs : Restart(cf)
         \/ UNCHANGED callVars
BY DEF Next, HookStep, OperatorApprovesAlways, RequestExpires, OperatorAnswers, PatternSaved,
   Revoke, RevokeEnds, ReloadPolicy, ReloadHitlConfig, Activate, Deactivate, DeactivateEnds, vars

(* Every step preserves type correctness.                                  *)
LEMMA NextTypeOK == GInv /\ [Next]_vars => TypeOK'
<1> SUFFICES ASSUME GInv, [Next]_vars PROVE TypeOK'
  OBVIOUS
<1>1. CASE \E c \in Calls : HookStep(c)
  BY <1>1, NextManagerInv, CallTypes, EnvTypes DEF TypeOK
<1>2. CASE \E cf \in Configs : Restart(cf)
  <2>1. /\ pc' \in [Calls -> {"idle", "evaluating", "gate", "sending", "awaiting"} \cup Final]
        /\ UNCHANGED <<snap, decision, used, prompts>>
    BY <1>2 DEF Restart, GInv, TypeOK, Final
  <2> QED
    BY <2>1, NextManagerInv, EnvTypes DEF GInv, TypeOK
<1>3. CASE UNCHANGED callVars
  BY <1>3, NextManagerInv, EnvTypes DEF GInv, TypeOK, callVars
<1> QED
  BY <1>1, <1>2, <1>3, WhoMovesCalls

(* A step of a call leaves the other calls as they are.                    *)
LEMMA OthersStay ==
  ASSUME TypeOK, NEW c \in Calls, HookStep(c), NEW e \in Calls, e # c
  PROVE  /\ pc'[e] = pc[e] /\ snap'[e] = snap[e] /\ decision'[e] = decision[e]
         /\ used'[e] = used[e] /\ prompts'[e] = prompts[e]
BY DEF TypeOK, HookStep, BudgetBlocks, Arrive, Evaluate, Gate, GateBlocks, GatePasses,
     SendSucceeds, SendFails, Decide, ConsoleAnswers, DispatchNotConfigured,
     DispatchUnknownChannel, DispatchPrompts

(* The steps of a call keep the count of its requests and what it captured.*)
LEMMA CallStepKeeps ==
  ASSUME GInv, NEW c \in Calls, HookStep(c)
  PROVE  PromptCount' /\ CapturedState'
<1>0. TypeOK /\ PromptCount /\ CapturedState
  BY DEF GInv
<1> DEFINE Good ==
      /\ pc'[c] \in {"idle", "evaluating", "gate"} => prompts'[c] = 0
      /\ pc'[c] \in {"sending", "awaiting"} => prompts'[c] = 1
      /\ prompts'[c] <= 1
      /\ pc'[c] = "evaluating" => snap'[c] \in [verdict : Verdicts, permitted : BOOLEAN]
      /\ pc'[c] \in {"sending", "awaiting"} => used'[c] \in PolicyRecords \ {None}
<1>1. ASSUME NEW p PROVE FallbackPc(p) \in Final /\ ReleasedPc \in Final
  BY DEF FallbackPc, ReleasedPc, Final
<1>2. ASSUME Arrive(c) PROVE Good
  <2>1. policy[c.cls] \in Verdicts
    BY <1>0, CallsAreTyped DEF TypeOK
  <2> QED
    BY <1>0, <1>2, <2>1 DEF Arrive, TypeOK, PromptCount
<1>3. ASSUME Evaluate(c) PROVE Good
  BY <1>0, <1>3 DEF Evaluate, TypeOK, PromptCount
<1>4. ASSUME UNCHANGED prompts, pc'[c] \in Final PROVE Good
  BY <1>0, <1>4 DEF PromptCount, Final
<1>5. ASSUME \/ BudgetBlocks(c) \/ GateBlocks(c) \/ GatePasses(c)
             \/ DispatchNotConfigured(c) \/ DispatchUnknownChannel(c)
             \/ SendFails(c) \/ Decide(c)
      PROVE  Good
  <2>1. UNCHANGED prompts /\ pc'[c] \in Final
    BY <1>0, <1>1, <1>5 DEF BudgetBlocks, GateBlocks, GatePasses, DispatchNotConfigured,
       DispatchUnknownChannel, SendFails, Decide, TypeOK, Final
  <2> QED
    BY <1>4, <2>1
<1>6. ASSUME DispatchPrompts(c) PROVE Good
  BY <1>0, <1>6, MatchedIsKnown DEF DispatchPrompts, NeedsOperator, TypeOK, PromptCount
<1>7. ASSUME SendSucceeds(c) \/ \E d \in {"approved", "denied", "always"} : ConsoleAnswers(c, d)
      PROVE  Good
  BY <1>0, <1>7 DEF SendSucceeds, ConsoleAnswers, TypeOK, PromptCount, CapturedState
<1>8. Good
  BY <1>2, <1>3, <1>5, <1>6, <1>7 DEF HookStep, Gate
<1> QED
  BY <1>0, <1>8, OthersStay DEF PromptCount, CapturedState

(* What each step does to the requests: it files the new request of one    *)
(* call, or withdraws filed ones.                                          *)
LEMMA RequestsOfStep ==
  ASSUME GInv, [Next]_vars
  PROVE  \/ \E c \in Calls : DispatchPrompts(c)
         \/ \E rs, d : Withdrawn(rs, d)
<1>0. AMP!IInv
  BY DEF GInv
<1>1. ASSUME UNCHANGED amVars PROVE \E rs, d : Withdrawn(rs, d)
  <2>1. Withdrawn({}, "expired")
    BY <1>1 DEF amVars, Withdrawn
  <2> QED
    BY <2>1
<1>2. ASSUME NEW c \in Calls, HookStep(c), ~ DispatchPrompts(c)
      PROVE  \E rs, d : Withdrawn(rs, d)
  <2>1. CASE SendFails(c)
    BY <1>0, <1>1, <2>1, PromptsOfCall, CancelWithdraws DEF SendFails
  <2>2. CASE \E d \in {"approved", "denied", "always"} : ConsoleAnswers(c, d)
    BY <1>0, <2>2, PromptsOfCall, AnswerWithdraws DEF ConsoleAnswers
  <2>3. CASE UNCHANGED amVars
    BY <1>1, <2>3
  <2> QED
    BY <1>2, <2>1, <2>2, <2>3 DEF HookStep, BudgetBlocks, Arrive, Evaluate, Gate, GateBlocks,
       GatePasses, SendSucceeds, Decide, DispatchNotConfigured, DispatchUnknownChannel
<1>3. ASSUME NEW r \in Prompts,
             \/ OperatorApprovesAlways(r) \/ RequestExpires(r)
             \/ \E d \in {"approved", "denied"} : OperatorAnswers(r, d)
      PROVE  \E rs, d : Withdrawn(rs, d)
  BY <1>0, <1>3, AnswerWithdraws, ExpireWithdraws
     DEF OperatorApprovesAlways, RequestExpires, OperatorAnswers, AM!ResolveApproval
<1>4. ASSUME Deactivate \/ \E cf \in Configs : Restart(cf)
      PROVE  \E rs, d : Withdrawn(rs, d)
  BY <1>0, <1>4, ShutdownWithdraws, RestartWithdraws DEF Deactivate, Restart
<1>5. ASSUME RevokeEnds PROVE \E rs, d : Withdrawn(rs, d)
  <2>1. Withdrawn({}, "expired")
    BY <1>5 DEF RevokeEnds, AM!ClearSessionAutoApprovals, AM!storeVars, Withdrawn
  <2> QED
    BY <2>1
<1>6. ASSUME \/ \E k \in Classes : PatternSaved(k) \/ Revoke(k)
             \/ \E k \in Classes, v \in Verdicts : ReloadPolicy(k, v)
             \/ \E cf \in Configs : ReloadHitlConfig(cf) \/ Activate(cf)
             \/ DeactivateEnds
             \/ UNCHANGED vars
      PROVE  UNCHANGED amVars
  BY <1>6 DEF PatternSaved, Revoke, ReloadPolicy, ReloadHitlConfig, Activate,
     DeactivateEnds, vars
<1> QED
  BY <1>1, <1>2, <1>3, <1>4, <1>5, <1>6 DEF Next, HookStep

(* A request stays filed only while its call is sending or awaiting it.    *)
LEMMA NextNoOrphan == GInv /\ [Next]_vars => NoOrphanRequest'
<1> SUFFICES ASSUME GInv, [Next]_vars, NEW r \in Prompts, pending'[r] # None
             PROVE  /\ pc'[r[1]] \in {"sending", "awaiting"}
                    /\ r = <<r[1], prompts'[r[1]]>>
  BY DEF NoOrphanRequest, CurrentPrompt
<1>0. TypeOK /\ AMP!IInv /\ PromptCount /\ NoOrphanRequest /\ AM!TypeOK
  BY DEF GInv, TypeOK
<1>1. r[1] \in Calls /\ r = <<r[1], r[2]>>
  BY DEF Prompts
<1>3. CASE \E c \in Calls : DispatchPrompts(c) /\ r = <<c, prompts[c] + 1>>
  <2>1. PICK c \in Calls : DispatchPrompts(c) /\ r = <<c, prompts[c] + 1>>
    BY <1>3
  <2>2. pc'[c] = "sending" /\ prompts'[c] = prompts[c] + 1
    BY <1>0, <2>1 DEF DispatchPrompts, TypeOK
  <2>3. r[1] = c
    BY <2>1
  <2> QED
    BY <2>1, <2>2, <2>3
<1>4. CASE ~ \E c \in Calls : DispatchPrompts(c) /\ r = <<c, prompts[c] + 1>>
  <2>1. pending[r] # None
    <3>1. ASSUME NEW c \in Calls, DispatchPrompts(c), r # <<c, prompts[c] + 1>>
          PROVE  pending'[r] = pending[r]
      BY <1>0, <3>1 DEF DispatchPrompts, AM!CreateApprovalRequest, AM!TypeOK, AM!Tokens
    <3> QED
      BY <1>4, <3>1, RequestsOfStep DEF Withdrawn
  <2>2. pc[r[1]] \in {"sending", "awaiting"} /\ r = CurrentPrompt(r[1])
    BY <1>0, <2>1 DEF NoOrphanRequest
  <2>3. ASSUME NEW c \in Calls, HookStep(c), c = r[1]
        PROVE  pc'[c] = "awaiting" /\ prompts'[c] = prompts[c]
    <3>1. ~ Decide(c)
      BY <1>0, <2>1, <2>2, <2>3, WaitingIsFiled DEF Decide
    <3>2. ~ SendFails(c)
      <4>1. SendFails(c) => Withdrawn({r}, "expired")
        BY <1>0, <2>1, <2>2, <2>3, CancelWithdraws DEF SendFails
      <4> QED
        BY <4>1 DEF Withdrawn
    <3>3. \/ SendSucceeds(c)
          \/ \E d \in {"approved", "denied", "always"} : ConsoleAnswers(c, d)
      BY <2>2, <2>3, <3>1, <3>2 DEF HookStep, BudgetBlocks, Arrive, Evaluate, Gate, GateBlocks,
         GatePasses, NeedsOperator, DispatchNotConfigured, DispatchUnknownChannel,
         DispatchPrompts
    <3> QED
      BY <1>0, <3>3 DEF SendSucceeds, ConsoleAnswers, TypeOK
  <2>4. CASE \E c \in Calls : HookStep(c)
    BY <1>0, <1>1, <2>2, <2>3, <2>4, OthersStay DEF CurrentPrompt
  <2>5. ~ \E cf \in Configs : Restart(cf)
    BY <2>1, <1>0 DEF Restart, AM!Restart, AM!Tokens
  <2>6. CASE UNCHANGED callVars
    BY <2>2, <2>6 DEF callVars, CurrentPrompt
  <2> QED
    BY <2>4, <2>5, <2>6, WhoMovesCalls
<1> QED
  BY <1>3, <1>4

(* The initial state satisfies the inductive invariant.                    *)
LEMMA InitGInv == Init => GInv
<1> SUFFICES ASSUME Init PROVE GInv
  OBVIOUS
<1>1. AMP!IInv
  BY ManagerInit DEF Init
<1>2. TypeOK
  <2>1. AM!TypeOK
    BY DEF Init, AM!Init, AM!TypeOK, AM!Tokens, AM!Decisions, AM!Answers
  <2>2. prompts \in [Calls -> 0 .. MaxPrompts]
    BY MaxPromptsIsPositive DEF Init
  <2> QED
    BY <2>1, <2>2 DEF Init, TypeOK
<1>3. PromptCount /\ CapturedState /\ NoOrphanRequest
  BY DEF Init, AM!Init, AM!Tokens, PromptCount, CapturedState, NoOrphanRequest
<1> QED
  BY <1>1, <1>2, <1>3 DEF GInv

(* Every step preserves the inductive invariant.                           *)
LEMMA NextGInv == GInv /\ [Next]_vars => GInv'
<1> SUFFICES ASSUME GInv, [Next]_vars PROVE GInv'
  OBVIOUS
<1>1. PromptCount' /\ CapturedState'
  <2>1. ASSUME NEW cf \in Configs, Restart(cf) PROVE PromptCount' /\ CapturedState'
    BY <2>1 DEF Restart, GInv, TypeOK, PromptCount, CapturedState, Final
  <2>2. ASSUME UNCHANGED callVars PROVE PromptCount' /\ CapturedState'
    BY <2>2 DEF callVars, GInv, PromptCount, CapturedState
  <2> QED
    BY <2>1, <2>2, WhoMovesCalls, CallStepKeeps
<1> QED
  BY <1>1, NextTypeOK, NextManagerInv, NextNoOrphan DEF GInv

-----------------------------------------------------------------------------
(* The inductive invariant holds throughout every behaviour of the hook.   *)
THEOREM HookInvariant == Spec => []GInv
BY InitGInv, NextGInv, PTL DEF Spec

(* The handler asks the operator at most once about a call, whichever of   *)
(* its two places dispatches the request.                                  *)
THEOREM OnePromptTheorem == Spec => []AtMostOnePrompt
<1>1. GInv => AtMostOnePrompt
  BY DEF GInv, PromptCount, AtMostOnePrompt
<1> QED
  BY <1>1, HookInvariant, PTL

(* Whatever decides a call, its request has left `pending' when it is      *)
(* decided: an operator never answers a call that is over.                 *)
THEOREM NoOrphanTheorem == Spec => []NoOrphanRequest
<1>1. GInv => NoOrphanRequest
  BY DEF GInv
<1> QED
  BY <1>1, HookInvariant, PTL

-----------------------------------------------------------------------------
(* With policies that deny, a step of a call allows it only if no approval *)
(* is needed, or if its promise was settled with an approval.              *)
LEMMA HowAllowed ==
  ASSUME DenyOnly, GInv, NEW c \in Calls, HookStep(c), pc'[c] = "allowed"
  PROVE  \/ GatePasses(c)
         \/ Decide(c) /\ promise[CurrentPrompt(c)] = "approved"
<1>0. TypeOK /\ CapturedState
  BY DEF GInv
<1>1. ASSUME NEW p \in PolicyRecords \ {None}
      PROVE  FallbackPc(p) = "blocked" /\ p.channel \in {"remote", "console"}
  BY DenyOnly DEF DenyOnly, FallbackPc
<1>2. NeedsOperator(c) => matchedPolicy(c) \in PolicyRecords \ {None}
  BY <1>0, MatchedIsKnown DEF NeedsOperator
<1>3. ~ DispatchNotConfigured(c) /\ ~ DispatchUnknownChannel(c)
  BY <1>0, <1>1, <1>2 DEF DispatchNotConfigured, DispatchUnknownChannel, TypeOK
<1>4. ~ SendFails(c)
  BY <1>0, <1>1 DEF SendFails, CapturedState, TypeOK
<1>5. Decide(c) => promise[CurrentPrompt(c)] = "approved"
  BY <1>0, <1>1 DEF Decide, CapturedState, TypeOK
<1>6. ~ \/ BudgetBlocks(c) \/ Arrive(c) \/ Evaluate(c) \/ GateBlocks(c) \/ DispatchPrompts(c)
        \/ SendSucceeds(c) \/ \E d \in {"approved", "denied", "always"} : ConsoleAnswers(c, d)
  BY <1>0 DEF BudgetBlocks, Arrive, Evaluate, GateBlocks, DispatchPrompts, SendSucceeds,
     ConsoleAnswers, TypeOK
<1> QED
  BY <1>3, <1>4, <1>5, <1>6 DEF HookStep, Gate

(* With policies that deny, the hook releases a forbid of the HITL tier    *)
(* only on the approval of that call, or on an Approve Always given to the *)
(* same channel, verified or not, for the same class.                      *)
THEOREM GatedReleaseTheorem == DenyOnly => (Spec => GatedReleaseIsAuthorised)
<1> SUFFICES ASSUME DenyOnly PROVE Spec => GatedReleaseIsAuthorised
  OBVIOUS
<1>1. GInv /\ [Next]_vars =>
        [\A c \in Calls :
            decision[c] = "gated" /\ pc[c] # "allowed" /\ pc'[c] = "allowed" =>
              \/ prompts[c] > 0 /\ promise[CurrentPrompt(c)] = "approved"
              \/ <<auditChannel(c), c.cls>> \in sessionAutoApprovals]_vars
  <2> SUFFICES ASSUME GInv, [Next]_vars, NEW c \in Calls,
                      decision[c] = "gated", pc[c] # "allowed", pc'[c] = "allowed"
               PROVE  \/ prompts[c] > 0 /\ promise[CurrentPrompt(c)] = "approved"
                      \/ <<auditChannel(c), c.cls>> \in sessionAutoApprovals
    OBVIOUS
  <2>0. TypeOK /\ PromptCount
    BY DEF GInv
  <2>1. HookStep(c)
    <3>1. ASSUME NEW e \in Calls, HookStep(e) PROVE e = c
      BY <2>0, <3>1, OthersStay
    <3>2. ~ \E cf \in Configs : Restart(cf)
      BY DEF Restart, Final
    <3>3. ~ UNCHANGED callVars
      BY DEF callVars
    <3> QED
      BY <3>1, <3>2, <3>3, WhoMovesCalls
  <2>2. CASE GatePasses(c)
    BY <2>2 DEF GatePasses, SessionApproved
  <2>3. CASE Decide(c) /\ promise[CurrentPrompt(c)] = "approved"
    BY <2>0, <2>3 DEF Decide, PromptCount
  <2> QED
    BY <2>1, <2>2, <2>3, HowAllowed
<1> QED
  BY <1>1, HookInvariant, PTL DEF Spec, GatedReleaseIsAuthorised

-----------------------------------------------------------------------------
(* The refinement mapping of Contract, for one call.                       *)
Outcome(c) == IF pc[c] \in Final THEN pc[c] ELSE "open"
Asked(c) == prompts[c] > 0
ReplyTo(c) ==
    IF prompts[c] > 0 /\ promise[CurrentPrompt(c)] \in {"approved", "denied"}
      THEN promise[CurrentPrompt(c)] ELSE "none"

(* What a step does to the mapped state, call by call, is a step of the    *)
(* contract.  A call that is released: Allow.                              *)
LEMMA MappedAllow ==
  ASSUME NEW c \in Calls, Outcome(c) = "open", Asked(c) => ReplyTo(c) = "approved",
         \A e \in Calls : /\ Outcome(e)' = IF e = c THEN "allowed" ELSE Outcome(e)
                          /\ Asked(e)' = Asked(e) /\ ReplyTo(e)' = ReplyTo(e)
  PROVE  Contract!ContractNext
<1>1. Contract!Allow(c)
  BY DEF Contract!Allow, Outcome, Asked, ReplyTo
<1> QED
  BY <1>1 DEF Contract!ContractNext

(* A call that is refused: Block of the contract.                          *)
LEMMA MappedBlock ==
  ASSUME NEW c \in Calls, Outcome(c) = "open",
         \A e \in Calls : /\ Outcome(e)' = IF e = c THEN "blocked" ELSE Outcome(e)
                          /\ Asked(e)' = Asked(e) /\ ReplyTo(e)' = ReplyTo(e)
  PROVE  Contract!ContractNext
<1>1. Contract!Block(c)
  BY DEF Contract!Block, Outcome, Asked, ReplyTo
<1> QED
  BY <1>1 DEF Contract!ContractNext

(* A request that is created: Ask of the contract.                         *)
LEMMA MappedAsk ==
  ASSUME NEW c \in Calls, Outcome(c) = "open", ~ Asked(c),
         \A e \in Calls : /\ Asked(e)' = IF e = c THEN TRUE ELSE Asked(e)
                          /\ Outcome(e)' = Outcome(e) /\ ReplyTo(e)' = ReplyTo(e)
  PROVE  Contract!ContractNext
<1>1. Contract!Ask(c)
  BY DEF Contract!Ask, Outcome, Asked, ReplyTo
<1> QED
  BY <1>1 DEF Contract!ContractNext

(* An answer that reaches its call: Reply of the contract.                 *)
LEMMA MappedReply ==
  ASSUME NEW c \in Calls, NEW d \in {"approved", "denied"},
         Outcome(c) = "open", Asked(c), ReplyTo(c) = "none",
         \A e \in Calls : /\ ReplyTo(e)' = IF e = c THEN d ELSE ReplyTo(e)
                          /\ Outcome(e)' = Outcome(e) /\ Asked(e)' = Asked(e)
  PROVE  Contract!ContractNext
<1>1. Contract!Reply(c, d)
  BY DEF Contract!Reply, Outcome, Asked, ReplyTo
<1> QED
  BY <1>1 DEF Contract!ContractNext

(* Nothing the contract speaks of has changed.                             *)
LEMMA MappedStutter ==
  ASSUME \A e \in Calls : /\ ReplyTo(e)' = ReplyTo(e)
                          /\ Outcome(e)' = Outcome(e) /\ Asked(e)' = Asked(e)
  PROVE  UNCHANGED Contract!contractVars
BY DEF Contract!contractVars, Outcome, Asked, ReplyTo

(* Requests that are withdrawn without an answer change no reply.          *)
LEMMA WithdrawnWithoutAnswer ==
  ASSUME GInv, NEW rs, NEW d, Withdrawn(rs, d), d \notin {"approved", "denied"},
         UNCHANGED prompts, NEW e \in Calls
  PROVE  ReplyTo(e)' = ReplyTo(e)
<1>1. Asked(e) => CurrentPrompt(e) \in Prompts
  BY MaxPromptsIsPositive DEF GInv, TypeOK, PromptCount, CurrentPrompt, Prompts, Asked
<1> QED
  BY <1>1 DEF Withdrawn, ReplyTo, Asked, CurrentPrompt

(* An answer to a filed request is the reply to the one call that waits    *)
(* for it.                                                                 *)
LEMMA WithdrawnByAnswer ==
  ASSUME GInv, NEW r \in Prompts, NEW d \in {"approved", "denied"}, Withdrawn({r}, d),
         UNCHANGED prompts
  PROVE  /\ r[1] \in Calls /\ Outcome(r[1]) = "open" /\ Asked(r[1]) /\ ReplyTo(r[1]) = "none"
         /\ \A e \in Calls : ReplyTo(e)' = IF e = r[1] THEN d ELSE ReplyTo(e)
<1>1. /\ r[1] \in Calls /\ promise[r] = "waiting"
      /\ pc[r[1]] \in {"sending", "awaiting"} /\ r = CurrentPrompt(r[1])
  BY DEF Withdrawn, GInv, NoOrphanRequest, Prompts
<1>2. Outcome(r[1]) = "open" /\ Asked(r[1]) /\ ReplyTo(r[1]) = "none"
  BY <1>1 DEF Outcome, Asked, ReplyTo, Final, GInv, PromptCount
<1>3. ASSUME NEW e \in Calls PROVE ReplyTo(e)' = IF e = r[1] THEN d ELSE ReplyTo(e)
  <2>1. CurrentPrompt(e)' = CurrentPrompt(e) /\ (Asked(e) => CurrentPrompt(e) \in Prompts)
    BY MaxPromptsIsPositive DEF GInv, TypeOK, PromptCount, CurrentPrompt, Prompts, Asked
  <2>2. CASE e = r[1]
    BY <1>1, <1>2, <2>1, <2>2 DEF Withdrawn, ReplyTo, Asked
  <2>3. CASE e # r[1]
    <3>1. CurrentPrompt(e) # r
      BY <2>3 DEF CurrentPrompt
    <3>2. Asked(e) => promise'[CurrentPrompt(e)] = promise[CurrentPrompt(e)]
      BY <2>1, <3>1 DEF Withdrawn
    <3> QED
      BY <2>1, <2>3, <3>2 DEF ReplyTo, Asked
  <2> QED
    BY <2>2, <2>3
<1> QED
  BY <1>1, <1>2, <1>3

(* The handler's steps implement the contract.                             *)
LEMMA HookStepRefines ==
  ASSUME DenyOnly, GInv, NEW c \in Calls, HookStep(c)
  PROVE  Contract!ContractNext \/ UNCHANGED Contract!contractVars
<1>0. TypeOK /\ AMP!IInv /\ PromptCount
  BY DEF GInv
<1>1. Outcome(c) = "open"
  BY DEF HookStep, BudgetBlocks, Arrive, Evaluate, Gate, GateBlocks, GatePasses,
     SendSucceeds, SendFails, Decide, ConsoleAnswers, NeedsOperator, DispatchNotConfigured,
     DispatchUnknownChannel, DispatchPrompts, Outcome, Final
<1>2. \A e \in Calls : e # c => Outcome(e)' = Outcome(e) /\ Asked(e)' = Asked(e)
  BY <1>0, OthersStay DEF Outcome, Asked
<1>3. CASE DispatchPrompts(c)
  <2>1. Outcome(c)' = "open" /\ Asked(c)' = TRUE /\ ~ Asked(c)
    BY <1>0, <1>3 DEF DispatchPrompts, NeedsOperator, TypeOK, PromptCount, Outcome, Asked, Final
  <2>2. ASSUME NEW e \in Calls PROVE ReplyTo(e)' = ReplyTo(e)
    <3>1. promise' = [promise EXCEPT ![<<c, prompts[c] + 1>>] = "waiting"]
            /\ prompts' = [prompts EXCEPT ![c] = prompts[c] + 1]
      BY <1>3 DEF DispatchPrompts, AM!CreateApprovalRequest
    <3>2. promise \in [Prompts -> AM!Decisions \cup {"absent", "waiting", "lost"}]
            /\ prompts \in [Calls -> 0 .. MaxPrompts] /\ prompts[c] = 0
      BY <1>0, <1>3 DEF TypeOK, AM!TypeOK, PromptCount, DispatchPrompts, NeedsOperator
    <3>3. CASE e = c
      <4>1. <<c, 1>> \in Prompts
        BY MaxPromptsIsPositive DEF Prompts
      <4> QED
        BY <3>1, <3>2, <3>3, <4>1 DEF ReplyTo, CurrentPrompt
    <3>4. CASE e # c
      <4>1. prompts'[e] = prompts[e] /\ CurrentPrompt(e) # <<c, prompts[c] + 1>>
        BY <3>1, <3>2, <3>4 DEF CurrentPrompt
      <4>2. Asked(e) => CurrentPrompt(e) \in Prompts
        BY <1>0, MaxPromptsIsPositive DEF TypeOK, PromptCount, CurrentPrompt, Prompts, Asked
      <4> QED
        BY <3>1, <3>2, <4>1, <4>2 DEF ReplyTo, CurrentPrompt, Asked
    <3> QED
      BY <3>3, <3>4
  <2> QED
    BY <1>1, <1>2, <2>1, <2>2, MappedAsk
<1>4. CASE ~ DispatchPrompts(c)
  <2>1. UNCHANGED prompts /\ (\A e \in Calls : Asked(e)' = Asked(e))
    BY <1>4 DEF HookStep, BudgetBlocks, Arrive, Evaluate, Gate, GateBlocks, GatePasses,
       SendSucceeds, SendFails, Decide, ConsoleAnswers, DispatchNotConfigured,
       DispatchUnknownChannel, Asked
  <2>2. CASE \E d \in {"approved", "denied", "always"} : ConsoleAnswers(c, d)
    <3>1. Outcome(c)' = "open" /\ CurrentPrompt(c) \in Prompts
      BY <1>0, <2>2, PromptsOfCall DEF ConsoleAnswers, TypeOK, Outcome, Final
    <3>2. PICK d \in {"approved", "denied"} : AM!Answer({CurrentPrompt(c)}, d)
      BY <2>2 DEF ConsoleAnswers
    <3>3. CASE pending[CurrentPrompt(c)] # None
      <4>1. Withdrawn({CurrentPrompt(c)}, d)
        BY <1>0, <3>1, <3>2, <3>3, AnswerWithdraws
      <4>2. CurrentPrompt(c)[1] = c
        BY DEF CurrentPrompt
      <4> QED
        BY <1>1, <1>2, <2>1, <3>1, <4>1, <4>2, WithdrawnByAnswer, MappedReply
    <3>4. CASE pending[CurrentPrompt(c)] = None
      <4>1. Withdrawn({}, "expired")
        BY <1>0, <3>1, <3>2, <3>4, AnswerWithdraws DEF Withdrawn
      <4> QED
        BY <1>1, <1>2, <2>1, <3>1, <4>1, WithdrawnWithoutAnswer, MappedStutter
    <3> QED
      BY <3>3, <3>4
  <2>3. CASE ~ \E d \in {"approved", "denied", "always"} : ConsoleAnswers(c, d)
    <3>1. \A e \in Calls : ReplyTo(e)' = ReplyTo(e)
      <4>1. Withdrawn({}, "expired") \/ Withdrawn({CurrentPrompt(c)}, "expired")
        <5>1. UNCHANGED amVars => Withdrawn({}, "expired")
          BY DEF amVars, Withdrawn
        <5>2. SendFails(c) => UNCHANGED amVars \/ Withdrawn({CurrentPrompt(c)}, "expired")
          BY <1>0, PromptsOfCall, CancelWithdraws DEF SendFails
        <5> QED
          BY <1>4, <2>3, <5>1, <5>2 DEF HookStep, BudgetBlocks, Arrive, Evaluate, Gate,
             GateBlocks, GatePasses, SendSucceeds, Decide, DispatchNotConfigured,
             DispatchUnknownChannel
      <4> QED
        BY <2>1, <4>1, WithdrawnWithoutAnswer
    <3>2. CASE pc'[c] = "allowed"
      <4>1. Asked(c) => ReplyTo(c) = "approved"
        BY <1>0, <3>2, HowAllowed DEF GatePasses, Decide, PromptCount, Asked, ReplyTo
      <4>2. Outcome(c)' = "allowed"
        BY <3>2 DEF Outcome, Final
      <4> QED
        BY <1>1, <1>2, <2>1, <3>1, <4>1, <4>2, MappedAllow
    <3>3. CASE pc'[c] = "blocked"
      <4>1. Outcome(c)' = "blocked"
        BY <3>3 DEF Outcome, Final
      <4> QED
        BY <1>1, <1>2, <2>1, <3>1, <4>1, MappedBlock
    <3>4. CASE pc'[c] \notin {"allowed", "blocked"}
      <4>1. pc'[c] # "lost"
        BY <1>0 DEF HookStep, BudgetBlocks, Arrive, Evaluate, Gate, GateBlocks, GatePasses,
           SendSucceeds, SendFails, Decide, ConsoleAnswers, DispatchNotConfigured,
           DispatchUnknownChannel, DispatchPrompts, FallbackPc, ReleasedPc, TypeOK
      <4>2. Outcome(c)' = "open"
        BY <3>4, <4>1 DEF Outcome, Final
      <4> QED
        BY <1>1, <1>2, <2>1, <3>1, <4>2, MappedStutter
    <3> QED
      BY <3>2, <3>3, <3>4
  <2> QED
    BY <2>2, <2>3
<1> QED
  BY <1>3, <1>4

(* A restart loses the calls under way: Lose of the contract.              *)
LEMMA RestartRefines ==
  ASSUME GInv, NEW cf \in Configs, Restart(cf)
  PROVE  Contract!ContractNext
<1>0. PICK cs \in SUBSET Calls : cs = {c \in Calls : pc[c] \notin {"idle"} \cup Final}
  OBVIOUS
<1>1. \A e \in Calls : ReplyTo(e)' = ReplyTo(e)
  <2>1. Withdrawn({r \in Prompts : pending[r] # None}, "lost")
    BY RestartWithdraws DEF GInv, Restart
  <2> QED
    BY <2>1, WithdrawnWithoutAnswer DEF Restart
<1>2. \A e \in Calls : Asked(e)' = Asked(e)
  BY DEF Restart, Asked
<1>3. \A e \in Calls : Outcome(e)' = IF e \in cs /\ Outcome(e) = "open"
                                        THEN "lost" ELSE Outcome(e)
  BY <1>0 DEF Restart, Outcome, Final
<1>4. Contract!Lose(cs)
  BY <1>1, <1>2, <1>3 DEF Contract!Lose, Outcome, Asked, ReplyTo
<1> QED
  BY <1>4 DEF Contract!ContractNext

(* Operators, timers, reloads and the plugin's life cycle leave the calls  *)
(* alone; what they do to their requests implements the contract.          *)
LEMMA OtherStepRefines ==
  ASSUME GInv, [Next]_vars, UNCHANGED callVars, \A c \in Calls : ~ HookStep(c),
         \A cf \in Configs : ~ Restart(cf)
  PROVE  Contract!ContractNext \/ UNCHANGED Contract!contractVars
<1>0. AMP!IInv
  BY DEF GInv
<1>1. /\ UNCHANGED prompts
      /\ \A e \in Calls : Outcome(e)' = Outcome(e) /\ Asked(e)' = Asked(e)
  BY DEF callVars, Outcome, Asked
<1>2. ASSUME NEW rs, Withdrawn(rs, "expired") PROVE UNCHANGED Contract!contractVars
  BY <1>1, <1>2, WithdrawnWithoutAnswer, MappedStutter
<1>3. ASSUME NEW r \in Prompts, NEW d \in {"approved", "denied"}, AM!Answer({r}, d), pending[r] # None
      PROVE  Contract!ContractNext
  <2>1. Withdrawn({r}, d)
    BY <1>0, <1>3, AnswerWithdraws
  <2> QED
    BY <1>1, <2>1, WithdrawnByAnswer, MappedReply
<1>4. CASE \E r \in Prompts : \/ OperatorApprovesAlways(r)
                              \/ \E d \in {"approved", "denied"} : OperatorAnswers(r, d)
  BY <1>3, <1>4 DEF OperatorApprovesAlways, OperatorAnswers, AM!ResolveApproval, AM!CanResolve
<1>5. CASE Deactivate \/ \E r \in Prompts : RequestExpires(r)
  BY <1>0, <1>2, <1>5, ShutdownWithdraws, ExpireWithdraws DEF Deactivate, RequestExpires
<1>6. CASE RevokeEnds \/ UNCHANGED amVars
  <2>1. Withdrawn({}, "expired")
    BY <1>6 DEF RevokeEnds, AM!ClearSessionAutoApprovals, AM!storeVars, amVars, Withdrawn
  <2> QED
    BY <1>2, <2>1
<1>7. ASSUME \/ \E k \in Classes : PatternSaved(k) \/ Revoke(k)
             \/ \E k \in Classes, v \in Verdicts : ReloadPolicy(k, v)
             \/ \E cf \in Configs : ReloadHitlConfig(cf) \/ Activate(cf)
             \/ DeactivateEnds
             \/ UNCHANGED vars
      PROVE  UNCHANGED amVars
  BY <1>7 DEF PatternSaved, Revoke, ReloadPolicy, ReloadHitlConfig, Activate,
     DeactivateEnds, vars
<1> QED
  BY <1>4, <1>5, <1>6, <1>7 DEF Next, HookStep

(* With policies that deny, the hook implements ToolCallContract: whatever *)
(* the order of answers, timeouts, failed sends, reloads, shutdown and     *)
(* restart, a call is decided once, and a call an operator was asked about *)
(* is allowed only on an approval.                                         *)
THEOREM RefinementTheorem == DenyOnly => (Spec => ImplementsContract)
<1> SUFFICES ASSUME DenyOnly PROVE Spec => ImplementsContract
  OBVIOUS
<1>1. Init => Contract!ContractInit
  <2> SUFFICES ASSUME Init PROVE Contract!ContractInit
    OBVIOUS
  <2>1. \A c \in Calls : pc[c] \notin Final
    BY DEF Init, Final
  <2>2. \A c \in Calls : (prompts[c] > 0) = FALSE
    BY DEF Init
  <2> QED
    BY <2>1, <2>2 DEF Contract!ContractInit
<1>2. GInv /\ [Next]_vars => [Contract!ContractNext]_(Contract!contractVars)
  <2> SUFFICES ASSUME GInv, [Next]_vars
               PROVE  Contract!ContractNext \/ UNCHANGED Contract!contractVars
    OBVIOUS
  <2>1. CASE \E c \in Calls : HookStep(c)
    BY <2>1, HookStepRefines
  <2>2. CASE \E cf \in Configs : Restart(cf)
    BY <2>2, RestartRefines
  <2>3. CASE ~ (\E c \in Calls : HookStep(c)) /\ ~ (\E cf \in Configs : Restart(cf))
    BY <2>3, WhoMovesCalls, OtherStepRefines
  <2> QED
    BY <2>1, <2>2, <2>3
<1> QED
  BY <1>1, <1>2, HookInvariant, PTL DEF Spec, ImplementsContract, Contract!ContractSpec
=============================================================================
