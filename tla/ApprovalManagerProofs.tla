------------------------ MODULE ApprovalManagerProofs ------------------------
(***************************************************************************)
(* The safety properties of ApprovalManager, for any sets of requests,     *)
(* session keys and bindings.                                              *)
(*                                                                         *)
(* None of the properties is inductive alone: PendingIsLive needs the      *)
(* token of a filed request to be its own UUID or a session key, and       *)
(* AckedIsOutcome needs the entry an answer is delivered to to be live.    *)
(* IInv joins them with two facts about tokens (TokenDiscipline).          *)
(***************************************************************************)
EXTENDS ApprovalManager, TLAPS

(* A request has a token once it is created, its own UUID or a session     *)
(* key; a UUID is consumed only after the request it belongs to is over.   *)
TokenDiscipline ==
    /\ \A r \in Requests : tokenOf[r] \in {None, r} \cup SessionKeys
    /\ \A r \in Requests : tokenOf[r] = None <=> promise[r] = "absent"
    /\ \A r \in Requests : r \in consumed => promise[r] \notin {"absent", "waiting"}

IInv ==
    /\ TypeOK
    /\ TokenDiscipline
    /\ PendingIsLive
    /\ WaitingHasDeadline
    /\ AnswerableIffWaiting
    /\ AckedIsOutcome

-----------------------------------------------------------------------------
(* The initial state satisfies the inductive invariant.                    *)
LEMMA InitIInv == Init => IInv
BY TokensDisjoint, NoneIsNotAValue
   DEF Init, IInv, TypeOK, TokenDiscipline, PendingIsLive, WaitingHasDeadline,
       AnswerableIffWaiting, AckedIsOutcome, Tokens, Answers, Decisions

(* Filing a new request, under its UUID or over the entry of its session   *)
(* key, preserves the inductive invariant.                                 *)
LEMMA CreatePreserves ==
  ASSUME IInv, NEW r \in Requests, NEW t \in Tokens, NEW b \in Bindings,
         CreateApprovalRequest(r, t, b)
  PROVE  IInv'
<1> USE TokensDisjoint, NoneIsNotAValue DEF IInv, CreateApprovalRequest, Tokens,
        TypeOK, Answers, Decisions
<1>1. TypeOK'
  OBVIOUS
<1>2. TokenDiscipline'
  BY DEF TokenDiscipline
<1>3. PendingIsLive'
  BY DEF PendingIsLive, TokenDiscipline
<1>4. WaitingHasDeadline'
  BY DEF WaitingHasDeadline
<1>5. AnswerableIffWaiting'
  BY DEF AnswerableIffWaiting, TokenDiscipline, PendingIsLive
<1>6. AckedIsOutcome'
  BY DEF AckedIsOutcome, TokenDiscipline
<1> QED
  BY <1>1, <1>2, <1>3, <1>4, <1>5, <1>6

(* The TTL timer preserves the inductive invariant, also when the entry it *)
(* deletes is not its own (a newer request under the same session key).    *)
LEMMA ExpirePreserves ==
  ASSUME IInv, NEW r \in Requests, Expire(r)
  PROVE  IInv'
<1> USE TokensDisjoint, NoneIsNotAValue DEF IInv, Expire, Consume, Settle, Tokens,
        TypeOK, Answers, Decisions
<1>1. tokenOf[r] \in Tokens
  BY DEF TokenDiscipline, WaitingHasDeadline
<1>2. TypeOK'
  BY <1>1
<1>3. TokenDiscipline'
  BY <1>1 DEF TokenDiscipline, WaitingHasDeadline
<1>4. PendingIsLive'
  BY <1>1 DEF PendingIsLive, TokenDiscipline
<1>5. WaitingHasDeadline'
  BY DEF WaitingHasDeadline
<1>6. AnswerableIffWaiting'
  BY <1>1 DEF AnswerableIffWaiting, TokenDiscipline, WaitingHasDeadline
<1>7. AckedIsOutcome'
  BY DEF AckedIsOutcome, TokenDiscipline, WaitingHasDeadline
<1> QED
  BY <1>2, <1>3, <1>4, <1>5, <1>6, <1>7

(* Every filed entry is a live request that waits on that token.           *)
LEMMA FiledFacts ==
  ASSUME IInv, NEW ts \in SUBSET Tokens
  PROVE  /\ Filed(ts) \in SUBSET Tokens
         /\ \A t \in Filed(ts) : /\ pending[t] \in Requests
                                  /\ promise[pending[t]] = "waiting"
                                  /\ timer[pending[t]] = "armed"
                                  /\ tokenOf[pending[t]] = t
         /\ \A r \in Entries(ts) : /\ r \in Requests
                                    /\ promise[r] = "waiting"
                                    /\ timer[r] = "armed"
                                    /\ tokenOf[r] \in Filed(ts)
                                    /\ pending[tokenOf[r]] = r
         /\ \A r \in Requests :
               tokenOf[r] \in Filed(ts) /\ pending[tokenOf[r]] = r => r \in Entries(ts)
BY NoneIsNotAValue DEF IInv, Filed, Entries, TypeOK, PendingIsLive, Tokens

(* Settling the entries of a set of tokens with one decision, which is     *)
(* what resolveApproval, batchResolve, cancel and shutdown do, preserves   *)
(* the inductive invariant as long as an answer is recorded as acknowledged*)
(* on exactly the tokens it settles.                                       *)
LEMMA SettlePreserves ==
  ASSUME IInv, NEW ts \in SUBSET Tokens, NEW d \in Decisions,
         ClearTimers(Entries(ts)), Consume(Filed(ts)), Settle(Entries(ts), d),
         tokenOf' = tokenOf, bindingOf' = bindingOf,
         sessionAutoApprovals' \in SUBSET ApprovalKeys,
         acked' = IF d \in Answers
                    THEN [t \in Tokens |-> IF t \in Filed(ts)
                                              THEN acked[t] \cup {d} ELSE acked[t]]
                    ELSE acked
  PROVE  IInv'
<1> USE TokensDisjoint, NoneIsNotAValue, FiledFacts
    DEF ClearTimers, Consume, Settle
<1>0. TypeOK /\ TokenDiscipline /\ PendingIsLive /\ WaitingHasDeadline
        /\ AnswerableIffWaiting /\ AckedIsOutcome
  BY DEF IInv
<1>1. TypeOK'
  BY <1>0 DEF TypeOK, Answers, Decisions, Tokens
<1>2. TokenDiscipline'
  BY <1>0, <1>1 DEF TokenDiscipline, TypeOK, Answers, Decisions, Tokens
<1>3. PendingIsLive'
  BY <1>0 DEF PendingIsLive, TypeOK, Tokens
<1>4. WaitingHasDeadline'
  BY <1>0 DEF WaitingHasDeadline, TypeOK, Answers, Decisions
<1>5. AnswerableIffWaiting'
  BY <1>0 DEF AnswerableIffWaiting, TypeOK, Answers, Decisions, Tokens
<1>6. AckedIsOutcome'
  <2>1. ASSUME NEW r \in Requests, promise'[r] \in Answers
        PROVE  promise'[r] \in acked'[tokenOf'[r]]
    <3>1. CASE r \in Entries(ts)
      <4>1. promise'[r] = d /\ tokenOf[r] \in Filed(ts)
        BY <3>1
      <4> QED
        BY <1>0, <2>1, <4>1 DEF TypeOK
    <3>2. CASE r \notin Entries(ts)
      <4>1. promise'[r] = promise[r] /\ promise[r] \in acked[tokenOf[r]]
        BY <1>0, <2>1, <3>2 DEF AckedIsOutcome
      <4>2. tokenOf[r] \in Tokens
        BY <1>0, <2>1, <4>1 DEF TokenDiscipline, TypeOK, Answers
      <4> QED
        BY <1>0, <4>1, <4>2 DEF TypeOK
    <3> QED
      BY <3>1, <3>2
  <2>2. ASSUME NEW r \in Requests, NEW e \in acked'[r]
        PROVE  promise'[r] = e
    BY <1>0, <2>2 DEF AckedIsOutcome, TokenDiscipline, TypeOK, Answers, Decisions, Tokens
  <2>3. ASSUME NEW k \in SessionKeys, NEW e \in acked'[k]
        PROVE  \E r \in Requests : tokenOf'[r] = k /\ promise'[r] = e
    <3>1. CASE e \in acked[k]
      BY <1>0, <3>1 DEF AckedIsOutcome, TypeOK, Answers, Decisions, Tokens
    <3>2. CASE e \notin acked[k]
      <4>1. k \in Filed(ts) /\ e = d
        BY <2>3, <3>2 DEF Tokens
      <4>2. promise'[pending[k]] = d /\ tokenOf'[pending[k]] = k
        BY <1>0, <4>1 DEF Entries
      <4> QED
        BY <4>1, <4>2
    <3> QED
      BY <3>1, <3>2
  <2> QED
    BY <2>1, <2>2, <2>3 DEF AckedIsOutcome
<1> QED
  BY <1>1, <1>2, <1>3, <1>4, <1>5, <1>6 DEF IInv

(* A restart preserves the inductive invariant: it empties the maps and    *)
(* kills every waiting promise together with its timer.                    *)
LEMMA RestartPreserves ==
  ASSUME IInv, Restart
  PROVE  IInv'
BY TokensDisjoint, NoneIsNotAValue
   DEF Restart, IInv, TypeOK, TokenDiscipline, PendingIsLive, WaitingHasDeadline,
       AnswerableIffWaiting, AckedIsOutcome, Tokens, Answers, Decisions

(* Every step preserves the inductive invariant.                           *)
LEMMA NextIInv == IInv /\ [Next]_vars => IInv'
<1> SUFFICES ASSUME IInv, [Next]_vars PROVE IInv'
  OBVIOUS
<1>1. ASSUME NEW r \in Requests, NEW t \in Tokens, NEW b \in Bindings,
             CreateApprovalRequest(r, t, b)
      PROVE  IInv'
  BY <1>1, CreatePreserves
<1>2. ASSUME NEW r \in Requests, Expire(r)
      PROVE  IInv'
  BY <1>2, ExpirePreserves
<1>3. ASSUME NEW ts \in SUBSET Tokens, NEW d \in Answers, Answer(ts, d),
             UNCHANGED sessionAutoApprovals
      PROVE  IInv'
  <2>1. d \in Decisions /\ sessionAutoApprovals' \in SUBSET ApprovalKeys
    BY <1>3 DEF Decisions, Answer, IInv, TypeOK
  <2> QED
    BY <1>3, <2>1, SettlePreserves DEF Answer
<1>4. ASSUME NEW t \in Tokens, Cancel(t)
      PROVE  IInv'
  <2>1. "expired" \in Decisions /\ "expired" \notin Answers /\ {t} \in SUBSET Tokens
    BY DEF Decisions, Answers
  <2>2. Filed({t}) = {t} /\ sessionAutoApprovals' \in SUBSET ApprovalKeys
    BY <1>4 DEF Cancel, Filed, IInv, TypeOK
  <2> QED
    BY <1>4, <2>1, <2>2, SettlePreserves DEF Cancel
<1>5. CASE Shutdown
  <2>1. "expired" \in Decisions /\ "expired" \notin Answers
    BY DEF Decisions, Answers
  <2> QED
    BY <1>5, <2>1, SettlePreserves DEF Shutdown
<1>6. CASE Restart
  BY <1>6, RestartPreserves
<1>7. CASE \/ \E k \in ApprovalKeys : AddSessionAutoApproval(k)
           \/ ClearSessionAutoApprovals
           \/ UNCHANGED vars
  BY <1>7 DEF AddSessionAutoApproval, ClearSessionAutoApprovals, storeVars, vars,
      IInv, TypeOK, TokenDiscipline, PendingIsLive, WaitingHasDeadline,
      AnswerableIffWaiting, AckedIsOutcome
<1> QED
  BY <1>1, <1>2, <1>3, <1>4, <1>5, <1>6, <1>7 DEF Next, ResolveApproval, BatchResolve

(* A step as a caller of the manager takes it: a method call, or an answer *)
(* and a change of the session approvals without an await between (Approve *)
(* Always).                                                                *)
CallerStep ==
    \/ [Next]_vars
    \/ \E ts \in SUBSET Tokens, d \in Answers :
          Answer(ts, d) /\ sessionAutoApprovals' \in SUBSET ApprovalKeys

(* It preserves the inductive invariant too.                               *)
LEMMA CallerIInv == IInv /\ CallerStep => IInv'
<1>1. ASSUME IInv, NEW ts \in SUBSET Tokens, NEW d \in Answers, Answer(ts, d),
             sessionAutoApprovals' \in SUBSET ApprovalKeys
      PROVE  IInv'
  <2>1. d \in Decisions
    BY DEF Decisions
  <2> QED
    BY <1>1, <2>1, SettlePreserves DEF Answer
<1> QED
  BY <1>1, NextIInv DEF CallerStep

(* A promise that settled, or died with its process, stays as it is; and a *)
(* request that was created is never created again, so that its token and  *)
(* its binding stay as they are.                                           *)
LEMMA SettledStays ==
  ASSUME IInv, CallerStep, NEW r \in Requests, promise[r] # "absent"
  PROVE  /\ promise[r] # "waiting" => promise'[r] = promise[r]
         /\ promise'[r] # "absent"
         /\ tokenOf'[r] = tokenOf[r] /\ bindingOf'[r] = bindingOf[r]
<1> DEFINE Keeps == tokenOf'[r] = tokenOf[r] /\ bindingOf'[r] = bindingOf[r]
           Settled == /\ promise[r] # "waiting" => promise'[r] = promise[r]
                      /\ promise'[r] # "absent"
<1>1. ASSUME NEW q \in Requests, NEW t \in Tokens, NEW b \in Bindings,
             CreateApprovalRequest(q, t, b)
      PROVE  Keeps /\ Settled
  BY <1>1 DEF CreateApprovalRequest, IInv, TypeOK
<1>2. ASSUME NEW rs, NEW d \in Decisions, Settle(rs, d)
      PROVE  Settled
  BY <1>2 DEF Settle, Decisions, Answers
<1>3. "expired" \in Decisions /\ Answers \subseteq Decisions
  BY DEF Decisions
<1>4. ASSUME \/ \E q \in Requests : Expire(q)
             \/ \E t \in Tokens : Cancel(t)
             \/ Shutdown
      PROVE  Keeps /\ Settled
  BY <1>2, <1>3, <1>4 DEF Expire, Cancel, Shutdown
<1>5. ASSUME NEW ts, NEW d \in Answers, Answer(ts, d)
      PROVE  Keeps /\ Settled
  BY <1>2, <1>3, <1>5 DEF Answer
<1>6. CASE Restart
  BY <1>6 DEF Restart
<1>7. CASE \/ \E k \in ApprovalKeys : AddSessionAutoApproval(k)
           \/ ClearSessionAutoApprovals
           \/ UNCHANGED vars
  BY <1>7 DEF AddSessionAutoApproval, ClearSessionAutoApprovals, storeVars, vars
<1> QED
  BY <1>1, <1>4, <1>5, <1>6, <1>7 DEF CallerStep, Next, ResolveApproval, BatchResolve

(* Without session keys a request is filed, under its own token, exactly   *)
(* while its promise waits for an answer or the timer, and its token is    *)
(* not consumed before.                                                    *)
LEMMA WaitingIsFiled ==
  ASSUME SessionKeys = {}, IInv, NEW r \in Requests
  PROVE  /\ promise[r] = "waiting" <=> pending[r] # None
         /\ pending[r] # None => pending[r] = r
         /\ promise[r] = "waiting" <=> timer[r] = "armed"
         /\ timer[r] = "armed" => tokenOf[r] = r
         /\ r \in consumed => promise[r] \notin {"absent", "waiting"}
<1>1. /\ tokenOf[r] \in {None, r}
      /\ tokenOf[r] = None <=> promise[r] = "absent"
      /\ promise[r] = "waiting" <=> timer[r] = "armed"
      /\ r \in consumed => promise[r] \notin {"absent", "waiting"}
  BY DEF IInv, TokenDiscipline, WaitingHasDeadline
<1>2. pending[r] # None => /\ pending[r] \in Requests
                           /\ promise[pending[r]] = "waiting"
                           /\ tokenOf[pending[r]] = r
  BY DEF IInv, TypeOK, PendingIsLive, Tokens
<1>3. pending[r] # None => pending[r] = r
  BY <1>2, NoneIsNotAValue DEF IInv, TokenDiscipline
<1>4. promise[r] = "waiting" => tokenOf[r] = r /\ pending[r] = r
  BY <1>1 DEF IInv, AnswerableIffWaiting
<1> QED
  BY <1>1, <1>2, <1>3, <1>4, NoneIsNotAValue

-----------------------------------------------------------------------------
(* The inductive invariant holds throughout every behaviour.               *)
THEOREM InductiveInvariant == Spec => []IInv
BY InitIInv, NextIInv, PTL DEF Spec

(* Type correctness of the manager's maps, timers and promises.            *)
THEOREM TypeCorrect == Spec => []TypeOK
<1>1. IInv => TypeOK
  BY DEF IInv
<1> QED
  BY <1>1, InductiveInvariant, PTL

(* Every entry resolveApproval, cancel or shutdown can find is live: its   *)
(* promise waits and its timer is armed.                                   *)
THEOREM PendingEntriesLive == Spec => []PendingIsLive
<1>1. IInv => PendingIsLive
  BY DEF IInv
<1> QED
  BY <1>1, InductiveInvariant, PTL

(* No awaiting caller is without a deadline, no timer outlives its request.*)
THEOREM DeadlineTheorem == Spec => []WaitingHasDeadline
<1>1. IInv => WaitingHasDeadline
  BY DEF IInv
<1> QED
  BY <1>1, InductiveInvariant, PTL

(* A per_request token can be answered exactly while its caller waits, and *)
(* never again: no replay, with any number of requests and restarts.       *)
THEOREM NoReplay == Spec => []AnswerableIffWaiting
<1>1. IInv => AnswerableIffWaiting
  BY DEF IInv
<1> QED
  BY <1>1, InductiveInvariant, PTL

(* An acknowledged answer is the outcome, and an approval or denial comes  *)
(* from an acknowledged answer only.                                       *)
THEOREM AckTheorem == Spec => []AckedIsOutcome
<1>1. IInv => AckedIsOutcome
  BY DEF IInv
<1> QED
  BY <1>1, InductiveInvariant, PTL

(* shutdown settles every per_request promise that was still waiting.      *)
THEOREM ShutdownTheorem == Spec => ShutdownDrains
<1>1. IInv /\ [Next]_vars =>
        [Shutdown => \A r \in Requests : tokenOf[r] = r => promise'[r] # "waiting"]_vars
  <2> SUFFICES ASSUME IInv, Shutdown, NEW r \in Requests, tokenOf[r] = r
               PROVE  promise'[r] # "waiting"
    BY DEF vars
  <2>1. CASE promise[r] = "waiting"
    <3>1. r \in Entries(Tokens)
      BY <2>1, NoneIsNotAValue
         DEF IInv, AnswerableIffWaiting, Entries, Filed, Tokens
    <3> QED
      BY <2>1, <3>1 DEF Shutdown, Settle
  <2>2. CASE promise[r] # "waiting"
    BY <2>2 DEF Shutdown, Settle
  <2> QED
    BY <2>1, <2>2
<1> QED
  BY <1>1, InductiveInvariant, PTL DEF Spec, ShutdownDrains
=============================================================================
