---------------------------- MODULE StandaloneProofs ----------------------------
(***************************************************************************)
(* Proofs about the parts of the plugin that work each on a state of their *)
(* own: the retries behind their breaker, the Telegram listener, the       *)
(* secret tools, the HTTP tools, the file tools, the rate limit, the daily *)
(* budget, the catalogue of the tools, the tools that run a program and    *)
(* the patterns of Approve Always.                                         *)
(***************************************************************************)
EXTENDS RetryBreaker, TelegramListener, SecretTools, HttpTools, FileTools, RateLimiter,
        BudgetTracker, CommandTools, AutoPermitPatterns, SequenceFacts

-----------------------------------------------------------------------------
(* The retries behind their breaker.                                       *)

(* What is true of the breaker and of the messages at every moment: an     *)
(* open breaker has kept the time at which it opened, and a message that   *)
(* sleeps has a retry left.                                                *)
RetryInv ==
  /\ clock \in Nat /\ opened \in Nat
  /\ breaker \in [state : {"open", "closed"}, openedAt : Nat]
  /\ breaker.state = "open" => breaker.openedAt = opened
  /\ message \in [Messages -> [pc : {"new", "calling", "sleeping", "ended"}, attempt : Nat,
                               result : {"none", "ok", "failed", "refused", "exhausted"}]]
  /\ \A x \in Messages : /\ message[x].attempt =< maxRetries
                         /\ message[x].pc = "sleeping" => message[x].attempt < maxRetries

(* It holds at the start, and every step of a message keeps it.            *)
LEMMA RetryInvariant == RetrySpec => []RetryInv
<1>1. RetryInit => RetryInv
  BY RetryAssumption DEF RetryInit, RetryInv
<1>2. RetryInv /\ [RetryNext]_retryVars => RetryInv'
  <2> SUFFICES ASSUME RetryInv, [RetryNext]_retryVars
               PROVE  RetryInv'
    OBVIOUS
  <2> USE RetryAssumption
  <2>1. ASSUME NEW x \in Messages, sendApprovalRequest(x)
        PROVE  RetryInv'
    BY <2>1 DEF RetryInv, sendApprovalRequest, isOpen, Blocking, Becomes
  <2>2. ASSUME NEW x \in Messages, Responds(x)
        PROVE  RetryInv'
    <3>1. CASE Becomes(x, "ended", "ok")
      BY <2>2, <3>1 DEF RetryInv, Responds, Becomes
    <3>2. CASE Becomes(x, "ended", "failed")
      BY <2>2, <3>2 DEF RetryInv, Responds, Becomes
    <3> QED
      BY <2>2, <3>1, <3>2 DEF Responds
  <2>3. ASSUME NEW x \in Messages, TooManyRequests(x)
        PROVE  RetryInv'
    <3>1. CASE Exhausted(x)
      BY <2>3, <3>1 DEF RetryInv, TooManyRequests, Exhausted, trip, Becomes
    <3>2. CASE ~ Exhausted(x)
      BY <2>3, <3>2 DEF RetryInv, TooManyRequests, Exhausted, Becomes
    <3> QED
      BY <3>1, <3>2
  <2>4. ASSUME NEW x \in Messages, Retry(x)
        PROVE  RetryInv'
    BY <2>4 DEF RetryInv, Retry
  <2>5. CASE RetryTick
    BY <2>5 DEF RetryInv, RetryTick
  <2>6. CASE UNCHANGED retryVars
    BY <2>6 DEF RetryInv, retryVars
  <2> QED
    BY <2>1, <2>2, <2>3, <2>4, <2>5, <2>6 DEF RetryNext
<1> QED
  BY <1>1, <1>2, PTL DEF RetrySpec

(* However many messages share the breaker, and however often it trips,    *)
(* none is refused longer than a cooldown after it opened, and none makes  *)
(* more than maxRetries + 1 requests.                                      *)
THEOREM PauseTheorem == RetrySpec => []PauseIsBounded
<1>1. RetryInv => PauseIsBounded
  BY DEF RetryInv, PauseIsBounded, Blocking
<1> QED
  BY <1>1, RetryInvariant, PTL

-----------------------------------------------------------------------------
(* The Telegram listener.                                                  *)

(* An update that somebody handled, or that a takeover dropped.            *)
Settled(u) == u \in dropped \/ \E l \in Listeners : handled[l][u] > 0

(* No two updates of a set have the same number.                           *)
Distinct(s) == \A u, w \in s : u[1] = w[1] => u = w

(* What Telegram keeps: numbered updates, each number once; what it no     *)
(* longer keeps is settled.                                                *)
QueueInv ==
  /\ updates \in Nat /\ updates =< MaxUpdates
  /\ queue \subseteq (1 .. updates) \X Kinds /\ Distinct(queue)
  /\ dropped \subseteq Updates
  /\ \A u \in 1 .. updates : u \in Ids(queue) \/ Settled(u)

(* What a listener has in hand: its batch starts at its offset and has no  *)
(* gap that is not settled; all that is below the offset is settled, and   *)
(* what it handled is below the offset.                                    *)
ListenerInv(l) ==
  /\ listener[l].batch \subseteq (1 .. updates) \X Kinds /\ Distinct(listener[l].batch)
  /\ \A w \in listener[l].batch : w[1] >= listener[l].offset
  /\ \A u \in 1 .. updates : u < listener[l].offset => Settled(u)
  /\ \A u \in 1 .. updates, w \in listener[l].batch :
        u < w[1] => Settled(u) \/ u \in Ids(listener[l].batch)
  /\ \A u \in Updates : /\ handled[l][u] =< 1
                        /\ handled[l][u] > 0 => u < listener[l].offset

Stages == {"new", "taking over", "starting", "polling", "handling", "answering", "waiting",
           "ended"}
ListenerState == [pc : Stages, running : BOOLEAN, offset : Nat,
                  batch : SUBSET (Updates \X Kinds)]

TelegramTyped ==
  /\ listener \in [Listeners -> ListenerState]
  /\ \A l \in Listeners : listener[l].offset =< updates + 1
  /\ handled \in [Listeners -> [Updates -> Nat]]

TelegramInv == TelegramTyped /\ QueueInv /\ \A l \in Listeners : ListenerInv(l)

(* The earliest update of a batch that is not empty.                       *)
LEMMA EarliestIsLeast ==
  ASSUME NEW s, s \subseteq Nat \X Kinds, s # {}
  PROVE  Earliest(s) \in s /\ \A w \in s : Earliest(s)[1] =< w[1]
<1>1. Ids(s) \subseteq Nat /\ Ids(s) # {}
  BY DEF Ids
<1>2. PICK m \in Ids(s) : \A n \in Ids(s) : m =< n
  BY <1>1, LeastNatural
<1>3. PICK u \in s : u[1] = m
  BY <1>2 DEF Ids
<1>4. \A w \in s : u[1] =< w[1]
  BY <1>2, <1>3 DEF Ids
<1> QED
  BY <1>4 DEF Earliest

(* A step after which no update is less settled and every listener has the *)
(* batch and the offset it had.                                            *)
LEMMA SameBatches ==
  ASSUME TelegramInv, TelegramTyped', QueueInv', UNCHANGED <<updates, handled>>,
         dropped \subseteq dropped', NEW k \in Listeners,
         listener'[k].batch = listener[k].batch, listener'[k].offset = listener[k].offset
  PROVE  ListenerInv(k)'
<1>1. \A u : Settled(u) => Settled(u)'
  BY DEF Settled
<1> QED
  BY <1>1 DEF TelegramInv, ListenerInv

(* A step that changes of the listeners only how far they are, and of the  *)
(* updates none.                                                           *)
LEMMA OnlyTheStage ==
  ASSUME TelegramInv, NEW l \in Listeners, NEW pc \in Stages, NEW running \in BOOLEAN,
         listener' = [listener EXCEPT ![l] = [listener[l] EXCEPT !.pc = pc, !.running = running]],
         UNCHANGED <<queue, updates, handled, dropped>>
  PROVE  TelegramInv'
<1>1. listener \in [Listeners -> ListenerState]
  BY DEF TelegramInv, TelegramTyped, ListenerState, Stages
<1>3. [listener[l] EXCEPT !.pc = pc, !.running = running] \in ListenerState
  BY <1>1 DEF ListenerState
<1>4. listener' \in [Listeners -> ListenerState]
  BY <1>1, <1>3
<1>5. \A k \in Listeners : /\ listener'[k].batch = listener[k].batch
                           /\ listener'[k].offset = listener[k].offset
  BY <1>1
<1>6. TelegramTyped' /\ QueueInv'
  BY <1>4, <1>5 DEF TelegramInv, TelegramTyped, ListenerState, Stages, QueueInv, Settled
<1> QED
  BY <1>5, <1>6, SameBatches DEF TelegramInv

(* What is settled stays settled when nothing is taken away.               *)
LEMMA SettledGrows ==
  ASSUME NEW u, Settled(u), dropped \subseteq dropped',
         \A l \in Listeners : handled[l][u] > 0 => handled'[l][u] > 0
  PROVE  Settled(u)'
BY DEF Settled

(* The next update of a batch is handed over: the offset moves past it     *)
(* alone, whether the rest of the batch is kept or left for the next poll. *)
LEMMA OneHandedOver ==
  ASSUME TelegramInv, NEW l \in Listeners, listener[l].batch # {},
         NEW pc \in Stages, NEW rest \in {{}, listener[l].batch \ {NextUpdate(l)}},
         Handled(l), Take(l, pc, rest), UNCHANGED <<queue, updates, dropped>>
  PROVE  TelegramInv'
<1>n. PICK n : n = NextUpdate(l)[1]
  OBVIOUS
<1>1. /\ NextUpdate(l) \in listener[l].batch
      /\ \A w \in listener[l].batch : n =< w[1]
      /\ n \in 1 .. updates /\ n \in Updates
  <2>1. listener[l].batch \subseteq (1 .. updates) \X Kinds
    BY DEF TelegramInv, ListenerInv
  <2>2. 1 .. updates \subseteq Nat /\ 1 .. updates \subseteq Updates
    BY TelegramBounds DEF TelegramInv, QueueInv, Updates
  <2> QED
    BY <2>1, <2>2, <1>n, EarliestIsLeast DEF NextUpdate
<1>2. /\ listener' = [listener EXCEPT ![l] = [listener[l] EXCEPT !.pc = pc, !.offset = n + 1,
                                                                 !.batch = rest]]
      /\ handled' = [handled EXCEPT ![l][n] = handled[l][n] + 1]
  BY <1>n DEF Take, Handled, Offset, TelegramInv, TelegramTyped, ListenerState, Stages
<1>3. TelegramTyped'
  <2>0. rest \in SUBSET (Updates \X Kinds)
    BY DEF TelegramInv, TelegramTyped, ListenerState, Stages
  <2>1. n + 1 \in Nat /\ n + 1 =< updates + 1
    BY <1>1, TelegramBounds DEF TelegramInv, QueueInv, Updates
  <2>2. handled' \in [Listeners -> [Updates -> Nat]]
    BY <1>1, <1>2 DEF TelegramInv, TelegramTyped
  <2>3. listener' \in [Listeners -> ListenerState]
    <3>1. listener \in [Listeners -> ListenerState]
      BY DEF TelegramInv, TelegramTyped, ListenerState, Stages
    <3>2. [listener[l] EXCEPT !.pc = pc, !.offset = n + 1, !.batch = rest] \in ListenerState
      BY <3>1, <2>0, <2>1 DEF ListenerState
    <3> QED
      BY <3>1, <3>2, <1>2
  <2>4. \A k \in Listeners : listener'[k].offset =< updates' + 1
    BY <2>1, <1>2 DEF TelegramInv, TelegramTyped, ListenerState, Stages
  <2> QED
    BY <2>2, <2>3, <2>4 DEF TelegramTyped, ListenerState, Stages
<1>4. \A k \in Listeners, u \in Updates :
         handled'[k][u] = IF k = l /\ u = n THEN handled[k][u] + 1 ELSE handled[k][u]
  BY <1>1, <1>2 DEF TelegramInv, TelegramTyped, ListenerState, Stages
<1>5. \A k \in Listeners, u \in Updates : handled[k][u] \in Nat
  BY DEF TelegramInv, TelegramTyped, ListenerState, Stages
<1>6. /\ \A u \in Updates : Settled(u) => Settled(u)'
      /\ Settled(n)'
  BY <1>1, <1>4, <1>5 DEF Settled
<1>7. 1 .. updates \subseteq Updates
  BY TelegramBounds DEF TelegramInv, QueueInv, Updates
<1>8. QueueInv'
  BY <1>6, <1>7 DEF TelegramInv, QueueInv
<1>9. ASSUME NEW k \in Listeners \ {l}
      PROVE  ListenerInv(k)'
  <2>1. listener'[k] = listener[k] /\ \A u \in Updates : handled'[k][u] = handled[k][u]
    BY <1>2, <1>4 DEF TelegramInv, TelegramTyped, ListenerState, Stages
  <2> QED
    BY <2>1, <1>6, <1>7 DEF TelegramInv, ListenerInv
<1>10. ListenerInv(l)'
  <2>1. listener'[l].offset = n + 1 /\ listener'[l].batch = rest
    BY <1>2 DEF TelegramInv, TelegramTyped, ListenerState, Stages
  <2>2. rest \subseteq (1 .. updates) \X Kinds /\ Distinct(rest) /\ rest \subseteq listener[l].batch
    BY DEF TelegramInv, ListenerInv, Distinct
  <2>3. ASSUME NEW w \in rest
        PROVE  w[1] >= n + 1 /\ w[1] \in 1 .. updates
    <3>1. w \in listener[l].batch /\ w # NextUpdate(l)
      OBVIOUS
    <3>2. w[1] # n
      BY <1>1, <1>n, <3>1 DEF TelegramInv, ListenerInv, Distinct
    <3>3. w[1] \in 1 .. updates
      BY <2>2
    <3> QED
      BY <1>1, <3>1, <3>2, <3>3
  <2>4. ASSUME NEW u \in 1 .. updates, u < n
        PROVE  Settled(u)
    <3>1. Settled(u) \/ u \in Ids(listener[l].batch)
      BY <1>1, <2>4 DEF TelegramInv, ListenerInv
    <3>2. \A w \in listener[l].batch : u # w[1]
      BY <1>1, <2>2, <2>4 DEF TelegramInv, ListenerInv
    <3> QED
      BY <3>1, <3>2 DEF Ids
  <2>5. ASSUME NEW u \in 1 .. updates, u < n + 1
        PROVE  Settled(u)'
    BY <2>4, <2>5, <1>1, <1>6, <1>7
  <2>6. ASSUME NEW u \in 1 .. updates, NEW w \in rest, u < w[1]
        PROVE  Settled(u)' \/ u \in Ids(rest)
    <3>1. Settled(u) \/ u \in Ids(listener[l].batch)
      BY <2>2, <2>6 DEF TelegramInv, ListenerInv
    <3>2. CASE Settled(u)
      BY <3>2, <1>6, <1>7
    <3>3. CASE u \in Ids(listener[l].batch)
      BY <3>3, <1>6, <1>n DEF Ids
    <3> QED
      BY <3>1, <3>2, <3>3
  <2>7. ASSUME NEW u \in Updates
        PROVE  handled'[l][u] =< 1 /\ (handled'[l][u] > 0 => u < n + 1)
    <3>1. handled[l][u] \in Nat /\ handled[l][u] =< 1
          /\ (handled[l][u] > 0 => u < listener[l].offset)
      BY DEF TelegramInv, TelegramTyped, ListenerState, Stages, ListenerInv
    <3>2. listener[l].offset =< n /\ listener[l].offset \in Nat
      BY <1>1, <1>n DEF TelegramInv, TelegramTyped, ListenerState, Stages, ListenerInv
    <3>3. u \in Nat /\ n \in Nat
      BY <1>1, TelegramBounds DEF Updates
    <3> QED
      BY <3>1, <3>2, <3>3, <1>4
  <2> QED
    BY <2>1, <2>2, <2>3, <2>5, <2>6, <2>7 DEF ListenerInv
<1> QED
  BY <1>3, <1>8, <1>9, <1>10 DEF TelegramInv

(* The operator acts: the new update waits at Telegram.                    *)
LEMMA OperatorStep ==
  ASSUME TelegramInv, NEW kind \in Kinds, Operator(kind)
  PROVE  TelegramInv'
<1> DEFINE new == <<updates + 1, kind>>
<1>1. updates' = updates + 1 /\ queue' = queue \cup {new} /\ updates' =< MaxUpdates
      /\ UNCHANGED <<listener, handled, dropped>> /\ updates \in Nat
  BY TelegramBounds DEF Operator, TelegramInv, QueueInv
<1>2. TelegramTyped'
  <2>1. listener' \in [Listeners -> ListenerState]' /\ handled' \in [Listeners -> [Updates -> Nat]]
    BY <1>1 DEF TelegramInv, TelegramTyped, ListenerState, Stages, Updates
  <2>2. \A l \in Listeners : listener[l].offset \in Nat /\ listener[l].offset =< updates + 1
    BY DEF TelegramInv, TelegramTyped, ListenerState
  <2>3. \A l \in Listeners : listener'[l].offset =< updates' + 1
    BY <1>1, <2>2
  <2> QED
    BY <2>1, <2>3 DEF TelegramTyped
<1>3. QueueInv'
  <2>1. new \in (1 .. updates') \X Kinds /\ new[1] = updates + 1
    BY <1>1
  <2>2. queue \subseteq (1 .. updates) \X Kinds /\ Distinct(queue) /\ dropped \subseteq Updates
    BY DEF TelegramInv, QueueInv
  <2>3. \A w \in queue : w[1] # updates + 1 /\ w \in (1 .. updates') \X Kinds
    BY <1>1, <2>2
  <2>4. queue' \subseteq (1 .. updates') \X Kinds /\ Distinct(queue')
    BY <1>1, <2>1, <2>2, <2>3 DEF Distinct
  <2>5. ASSUME NEW u \in 1 .. updates'
        PROVE  u \in Ids(queue') \/ Settled(u)'
    <3>1. CASE u = updates + 1
      BY <3>1, <1>1, <2>1 DEF Ids
    <3>2. CASE u \in 1 .. updates
      BY <3>2, <1>1 DEF TelegramInv, QueueInv, Ids, Settled
    <3> QED
      BY <3>1, <3>2, <1>1
  <2> QED
    BY <1>1, <2>2, <2>4, <2>5 DEF QueueInv
<1>4. ASSUME NEW l \in Listeners
      PROVE  ListenerInv(l)'
  <2>1. listener[l].offset \in Nat /\ listener[l].offset =< updates + 1
    BY DEF TelegramInv, TelegramTyped, ListenerState, Stages
  <2>2. \A u : Settled(u) <=> Settled(u)'
    BY <1>1 DEF Settled
  <2>3. /\ listener[l].batch \subseteq (1 .. updates) \X Kinds
        /\ \A u \in 1 .. updates' : u \in 1 .. updates \/ u = updates + 1
        /\ 1 .. updates \subseteq 1 .. updates'
    BY <1>1 DEF TelegramInv, ListenerInv
  <2>4. \A w \in listener[l].batch : w[1] < updates + 1
    BY <1>1, <2>3
  <2> QED
    BY <1>1, <2>1, <2>2, <2>3, <2>4 DEF TelegramInv, ListenerInv
<1> QED
  BY <1>2, <1>3, <1>4 DEF TelegramInv

(* What a getUpdates makes Telegram forget is settled.                     *)
LEMMA Confirmed ==
  ASSUME TelegramInv, NEW l \in Listeners, queue' = Unconfirmed(l),
         UNCHANGED <<updates, handled, dropped>>
  PROVE  QueueInv'
<1>1. listener[l].offset \in Nat
  BY DEF TelegramInv, TelegramTyped, ListenerState, Stages
<1>2. ASSUME NEW u \in 1 .. updates, u \notin Ids(queue')
      PROVE  Settled(u)
  <2>1. CASE u \in Ids(queue)
    <3>1. u < listener[l].offset
      BY <2>1, <1>1, <1>2 DEF Ids, Unconfirmed
    <3> QED
      BY <3>1 DEF TelegramInv, ListenerInv
  <2>2. CASE u \notin Ids(queue)
    BY <2>2 DEF TelegramInv, QueueInv
  <2> QED
    BY <2>1, <2>2
<1>3. \A u : Settled(u) <=> Settled(u)'
  BY DEF Settled
<1> QED
  BY <1>2, <1>3 DEF TelegramInv, QueueInv, Unconfirmed, Distinct

(* The answer of a poll becomes the batch.                                 *)
LEMMA PollStep ==
  ASSUME TelegramInv, NEW l \in Listeners, poll(l)
  PROVE  TelegramInv'
<1>1. QueueInv'
  BY Confirmed DEF poll
<1>2. listener \in [Listeners -> ListenerState]
  BY DEF TelegramInv, TelegramTyped, ListenerState, Stages
<1>3. listener' = [listener EXCEPT ![l] = [listener[l] EXCEPT !.pc = "handling",
                                                              !.batch = Unconfirmed(l)]]
  BY <1>2 DEF poll
<1>4. Unconfirmed(l) \subseteq (1 .. updates) \X Kinds /\ 1 .. updates \subseteq Updates
  BY TelegramBounds DEF TelegramInv, QueueInv, Unconfirmed, Updates
<1>5. [listener[l] EXCEPT !.pc = "handling", !.batch = Unconfirmed(l)] \in ListenerState
  <2>1. Unconfirmed(l) \in SUBSET (Updates \X Kinds)
    BY <1>4
  <2> QED
    BY <1>2, <2>1 DEF ListenerState, Stages
<1>6. TelegramTyped'
  <2>1. listener' \in [Listeners -> ListenerState]
    BY <1>2, <1>3, <1>5
  <2>2. \A k \in Listeners : listener'[k].offset = listener[k].offset
    BY <1>2, <1>3
  <2> QED
    BY <2>1, <2>2 DEF poll, TelegramInv, TelegramTyped, ListenerState, Stages
<1>7. ASSUME NEW k \in Listeners \ {l}
      PROVE  ListenerInv(k)'
  BY <1>1, <1>2, <1>3, <1>6, SameBatches DEF poll
<1>8. ListenerInv(l)'
  <2>1. listener'[l].batch = queue' /\ listener'[l].offset = listener[l].offset
    BY <1>2, <1>3 DEF poll
  <2>2. \A u : Settled(u) <=> Settled(u)'
    BY DEF poll, Settled
  <2>3. \A w \in queue' : w[1] >= listener[l].offset
    BY DEF poll, Unconfirmed
  <2>4. \A u \in 1 .. updates : u \in Ids(queue') \/ Settled(u)'
    BY <1>1 DEF QueueInv, poll
  <2>5. queue' \subseteq (1 .. updates) \X Kinds /\ Distinct(queue')
    BY <1>1 DEF QueueInv, poll
  <2>6. updates' = updates /\ handled' = handled
    BY DEF poll
  <2> QED
    BY <2>1, <2>2, <2>3, <2>4, <2>5, <2>6 DEF TelegramInv, ListenerInv
<1> QED
  BY <1>1, <1>6, <1>7, <1>8 DEF TelegramInv

(* A poll fails, Telegram having seen the offset or not; or a takeover     *)
(* drops what is waiting.                                                  *)
LEMMA QueueStep ==
  ASSUME TelegramInv, NEW l \in Listeners, pollFails(l) \/ closeOtherSessions(l)
  PROVE  TelegramInv'
<1>1. QueueInv' /\ dropped \subseteq dropped' /\ UNCHANGED <<updates, handled>>
  <2>1. CASE pollFails(l)
    BY <2>1, Confirmed DEF pollFails, TelegramInv, QueueInv, Settled
  <2>2. CASE closeOtherSessions(l)
    <3>1. /\ queue' \subseteq queue /\ dropped' = dropped \cup (Ids(queue) \ Ids(queue'))
          /\ UNCHANGED <<updates, handled>>
      BY <2>2 DEF closeOtherSessions
    <3>2. Distinct(queue') /\ queue' \subseteq (1 .. updates) \X Kinds
      BY <3>1 DEF TelegramInv, QueueInv, Distinct
    <3>3. Ids(queue) \subseteq Updates
      BY TelegramBounds DEF TelegramInv, QueueInv, Ids, Updates
    <3>4. dropped' \subseteq Updates
      BY <3>1, <3>3 DEF TelegramInv, QueueInv
    <3>5. ASSUME NEW u \in 1 .. updates
          PROVE  u \in Ids(queue') \/ Settled(u)'
      BY <3>1 DEF TelegramInv, QueueInv, Settled
    <3> QED
      BY <3>1, <3>2, <3>4, <3>5 DEF TelegramInv, QueueInv
  <2> QED
    BY <2>1, <2>2
<1>2. PICK pc \in {"waiting", "starting"} : listener' = [listener EXCEPT ![l].pc = pc]
  BY DEF pollFails, closeOtherSessions, Goes
<1>3. TelegramTyped' /\ \A k \in Listeners : /\ listener'[k].batch = listener[k].batch
                                             /\ listener'[k].offset = listener[k].offset
  BY <1>1, <1>2 DEF TelegramInv, TelegramTyped, ListenerState, Stages
<1> QED
  BY <1>1, <1>3, SameBatches DEF TelegramInv

(* The invariant of the listeners.                                         *)
LEMMA TelegramInvariant == TelegramSpec => []TelegramInv
<1>1. TelegramInit => TelegramInv
  BY TelegramBounds DEF TelegramInit, TelegramInv, TelegramTyped, ListenerState, Stages,
                        QueueInv, ListenerInv, Distinct, Ids, Settled, Listeners, Updates
<1>2. TelegramInv /\ [TelegramNext]_telegramVars => TelegramInv'
  <2> SUFFICES ASSUME TelegramInv, [TelegramNext]_telegramVars
               PROVE  TelegramInv'
    OBVIOUS
  <2>1. ASSUME NEW l \in Listeners
        PROVE  /\ listener[l].running \in BOOLEAN /\ listener[l].pc \in Stages
               /\ \A pc : [listener EXCEPT ![l].pc = pc]
                          = [listener EXCEPT ![l] = [listener[l] EXCEPT
                                                     !.pc = pc, !.running = listener[l].running]]
    BY DEF TelegramInv, TelegramTyped, ListenerState, Stages
  <2>2. ASSUME NEW l \in Listeners, NEW takeOver \in BOOLEAN, start(l, takeOver)
        PROVE  TelegramInv'
    <3>1. PICK pc \in Stages : pc = IF takeOver THEN "taking over" ELSE "starting"
      BY DEF Stages
    <3>2. listener' = [listener EXCEPT ![l] = [listener[l] EXCEPT !.pc = pc, !.running = TRUE]]
      BY <2>2, <3>1 DEF start, TelegramInv, TelegramTyped, ListenerState, Stages
    <3>3. UNCHANGED <<queue, updates, handled, dropped>>
      BY <2>2 DEF start
    <3> QED
      BY <3>2, <3>3, OnlyTheStage
  <2>3. ASSUME NEW l \in Listeners, stop(l)
        PROVE  TelegramInv'
    <3>1. PICK pc \in Stages : pc = IF listener[l].pc = "polling" THEN "ended" ELSE listener[l].pc
      <4>1. listener[l].pc \in Stages /\ "ended" \in Stages
        BY <2>1 DEF Stages
      <4> QED
        BY <4>1, Zenon
    <3>2. listener' = [listener EXCEPT ![l] = [listener[l] EXCEPT !.pc = pc, !.running = FALSE]]
      BY <2>3, <3>1 DEF stop, TelegramInv, TelegramTyped, ListenerState, Stages
    <3>3. UNCHANGED <<queue, updates, handled, dropped>>
      BY <2>3 DEF stop
    <3> QED
      BY <3>2, <3>3, OnlyTheStage
  <2>4. ASSUME NEW l \in Listeners,
               Started(l) \/ Answered(l) \/ BatchDone(l) \/ DelayEnds(l)
        PROVE  TelegramInv'
    <3>1. PICK pc \in {"polling", "ended", "handling"} : Goes(l, pc)
      BY <2>4 DEF Started, Answered, BatchDone, DelayEnds, Loops
    <3>2. UNCHANGED <<queue, updates, handled, dropped>>
      BY <2>4 DEF Started, Answered, BatchDone, DelayEnds
    <3>3. PICK running \in BOOLEAN : running = listener[l].running
      BY <2>1
    <3>4. listener' = [listener EXCEPT ![l] = [listener[l] EXCEPT !.pc = pc, !.running = running]]
      BY <3>1, <3>3, <2>1 DEF Goes
    <3>5. pc \in Stages
      BY DEF Stages
    <3> QED
      BY <3>2, <3>4, <3>5, OnlyTheStage
  <2>5. ASSUME NEW l \in Listeners, handleUpdate(l) \/ handlerThrows(l)
        PROVE  TelegramInv'
    <3>1. PICK pc \in {"answering", "handling", "waiting", "ended"},
               rest \in {{}, listener[l].batch \ {NextUpdate(l)}} : Take(l, pc, rest)
      BY <2>5 DEF handleUpdate, handlerThrows
    <3>2. pc \in Stages /\ listener[l].batch # {} /\ Handled(l)
          /\ UNCHANGED <<queue, updates, dropped>>
      BY <2>5 DEF handleUpdate, handlerThrows, Stages
    <3> QED
      BY <3>1, <3>2, OneHandedOver
  <2>6. CASE UNCHANGED telegramVars
    BY <2>6 DEF telegramVars, TelegramInv, TelegramTyped, ListenerState, Stages, QueueInv,
                ListenerInv, Settled
  <2>7. CASE TelegramNext
    BY <2>7, <2>2, <2>3, <2>4, <2>5, OperatorStep, PollStep, QueueStep DEF TelegramNext
  <2> QED
    BY <2>6, <2>7
<1> QED
  BY <1>1, <1>2, PTL DEF TelegramSpec

(* Whatever polls fail, handlers throw and listeners stop or take over: no *)
(* answer of the operator is skipped, unless a takeover dropped it, and no *)
(* listener handles one twice.                                             *)
THEOREM UpdatesTheorem == TelegramSpec => []UpdatesHandledOnce
<1>1. TelegramInv => UpdatesHandledOnce
  BY DEF TelegramInv, QueueInv, ListenerInv, Settled, UpdatesHandledOnce
<1> QED
  BY <1>1, TelegramInvariant, PTL

-----------------------------------------------------------------------------
(* The gates of a tool.                                                    *)

GatesOf(codes) == [passes : BOOLEAN, code : codes]
AllPass(gates) == \A i \in DOMAIN gates : gates[i].passes

(* A call ends with the code of a gate, or passes them all.                *)
LEMMA FirstFailureFound ==
  ASSUME NEW codes, "pass" \notin codes, NEW gates \in Seq(GatesOf(codes))
  PROVE  /\ FirstFailure(gates) \in codes \cup {"pass"}
         /\ FirstFailure(gates) = "pass" => AllPass(gates)
<1> DEFINE failing == {i \in DOMAIN gates : ~ gates[i].passes}
<1>1. DOMAIN gates \subseteq Nat /\ \A i \in DOMAIN gates : gates[i] \in GatesOf(codes)
  BY ElementOfSeq, LenProperties
<1>2. CASE failing = {}
  BY <1>2 DEF FirstFailure, AllPass
<1>3. CASE failing # {}
  <2>1. Min(failing) \in failing
    BY <1>1, <1>3, MinIsLeast
  <2>2. gates[Min(failing)].code \in codes
    BY <1>1, <2>1 DEF GatesOf
  <2>3. FirstFailure(gates) = gates[Min(failing)].code
    BY <1>3 DEF FirstFailure
  <2> QED
    BY <2>2, <2>3
<1> QED
  BY <1>2, <1>3

(* Two rows of gates, one after the other.                                 *)
LEMMA GatesJoined ==
  ASSUME NEW codes, NEW a \in Seq(GatesOf(codes)), NEW b \in Seq(GatesOf(codes))
  PROVE  a \o b \in Seq(GatesOf(codes)) /\ (AllPass(a \o b) => AllPass(a) /\ AllPass(b))
<1>1. /\ a \o b \in Seq(GatesOf(codes)) /\ DOMAIN (a \o b) = 1 .. Len(a) + Len(b)
      /\ DOMAIN a = 1 .. Len(a) /\ DOMAIN b = 1 .. Len(b) /\ Len(a) \in Nat /\ Len(b) \in Nat
      /\ \A i \in 1 .. Len(a) : (a \o b)[i] = a[i]
      /\ \A i \in 1 .. Len(b) : (a \o b)[Len(a) + i] = b[i]
  <2> DEFINE c == a \o b
  <2>1. c \in Seq(GatesOf(codes)) /\ Len(c) = Len(a) + Len(b)
        /\ \A i \in 1 .. Len(a) + Len(b) : c[i] = IF i =< Len(a) THEN a[i] ELSE b[i - Len(a)]
    BY ConcatProperties
  <2>2. Len(a) \in Nat /\ Len(b) \in Nat /\ DOMAIN a = 1 .. Len(a) /\ DOMAIN b = 1 .. Len(b)
    BY LenProperties
  <2>3. DOMAIN c = 1 .. Len(c)
    BY <2>1, LenProperties
  <2> HIDE DEF c
  <2>4. \A i \in 1 .. Len(a) : c[i] = a[i]
    BY <2>1, <2>2
  <2>5. \A i \in 1 .. Len(b) : c[Len(a) + i] = b[i]
    BY <2>1, <2>2
  <2> QED
    BY <2>1, <2>2, <2>3, <2>4, <2>5 DEF c
<1> DEFINE c == a \o b
<1>2. AllPass(c) => AllPass(a) /\ AllPass(b)
  <2> HIDE DEF c
  <2> SUFFICES ASSUME AllPass(c)
               PROVE  AllPass(a) /\ AllPass(b)
    OBVIOUS
  <2>1. /\ DOMAIN c = 1 .. Len(a) + Len(b)
        /\ \A i \in 1 .. Len(a) : c[i] = a[i]
        /\ \A i \in 1 .. Len(b) : c[Len(a) + i] = b[i]
    BY <1>1 DEF c
  <2>2. AllPass(a)
    BY <1>1, <2>1 DEF AllPass
  <2>3. AllPass(b)
    <3>1. \A i \in 1 .. Len(b) : Len(a) + i \in 1 .. Len(a) + Len(b)
      BY <1>1
    <3> QED
      BY <1>1, <2>1, <3>1 DEF AllPass
  <2> QED
    BY <2>2, <2>3
<1> QED
  BY <1>1, <1>2

-----------------------------------------------------------------------------
(* The secret tools.                                                       *)

(* The codes of their gates.                                               *)
Refusals == {"write-error", "load-error", "key-denied", "hitl-required", "token-replayed",
             "key-not-found", "disabled", "invalid-justification"}
SecretGates == Seq(GatesOf(Refusals))

(* The rows of gates the tools' are made of.                               *)
LEMMA ShortGates ==
  /\ \A t : /\ TokenGates(t) \in SecretGates
            /\ AllPass(TokenGates(t)) => t \notin consumedTokens
  /\ \A k : KeyGate(k) \in SecretGates
  /\ \A k : <<Gate(env[k] # NoValue, "key-not-found")>> \in SecretGates
  /\ \A enabled, justified \in BOOLEAN :
        <<Gate(enabled, "disabled"), Gate(justified, "invalid-justification")>> \in SecretGates
  /\ \A path, blind : LET row == <<Gate(path # NoValue, "write-error"),
                                   Gate(~corrupt \/ blind, "load-error")>>
                      IN  row \in SecretGates /\ (AllPass(row) => ~corrupt \/ blind)
<1> USE DEF SecretGates, GatesOf, Refusals, Gate, AllPass
<1>1. ASSUME NEW t
      PROVE  TokenGates(t) \in SecretGates /\ (AllPass(TokenGates(t)) => t \notin consumedTokens)
  <2>1. DOMAIN TokenGates(t) = {1, 2} /\ TokenGates(t)[2].passes = (t \notin consumedTokens)
    BY DEF TokenGates
  <2>2. TokenGates(t) \in SecretGates
    BY DEF TokenGates
  <2> QED
    BY <2>1, <2>2
<1>2. \A k : KeyGate(k) \in SecretGates
  BY DEF KeyGate
<1>3. \A k : <<Gate(env[k] # NoValue, "key-not-found")>> \in SecretGates
  OBVIOUS
<1>4. \A enabled, justified \in BOOLEAN :
         <<Gate(enabled, "disabled"), Gate(justified, "invalid-justification")>> \in SecretGates
  OBVIOUS
<1>5. ASSUME NEW path, NEW blind
      PROVE  LET row == <<Gate(path # NoValue, "write-error"),
                          Gate(~corrupt \/ blind, "load-error")>>
             IN  row \in SecretGates /\ (AllPass(row) => ~corrupt \/ blind)
  <2> DEFINE row == <<Gate(path # NoValue, "write-error"), Gate(~corrupt \/ blind, "load-error")>>
  <2>1. row \in SecretGates
    OBVIOUS
  <2>2. DOMAIN row = {1, 2} /\ row[2].passes = (~corrupt \/ blind)
    OBVIOUS
  <2> QED
    BY <2>1, <2>2
<1> QED
  BY <1>1, <1>2, <1>3, <1>4, <1>5

(* A tool that passes its gates has a token that was not consumed, and     *)
(* store_secret could load the file, or did not look at it.                *)
LEMMA ToolGates ==
  ASSUME NEW k, NEW t, NEW path, NEW blind, NEW enabled \in BOOLEAN, NEW justified \in BOOLEAN
  PROVE  /\ \A gates \in {storeSecretGates(k, t, path, blind), readSecretGates(k, t),
                          writeSecretGates(k, t), listSecretsGates(t), rotateSecretGates(k, t),
                          unsafeAdminExecGates(enabled, justified, t)} :
               gates \in SecretGates /\ (AllPass(gates) => t \notin consumedTokens)
         /\ AllPass(storeSecretGates(k, t, path, blind)) => ~corrupt \/ blind
<1> DEFINE load == <<Gate(path # NoValue, "write-error"), Gate(~corrupt \/ blind, "load-error")>>
           exec == <<Gate(enabled, "disabled"), Gate(justified, "invalid-justification")>>
           found == <<Gate(env[k] # NoValue, "key-not-found")>>
<1>1. /\ TokenGates(t) \in SecretGates /\ (AllPass(TokenGates(t)) => t \notin consumedTokens)
      /\ KeyGate(k) \in SecretGates /\ found \in SecretGates /\ exec \in SecretGates
      /\ load \in SecretGates /\ (AllPass(load) => ~corrupt \/ blind)
  BY ShortGates
<1>2. \A a, b \in SecretGates :
         a \o b \in SecretGates /\ (AllPass(a \o b) => AllPass(a) /\ AllPass(b))
  BY GatesJoined DEF SecretGates
<1>3. /\ storeSecretGates(k, t, path, blind) = load \o KeyGate(k) \o TokenGates(t)
      /\ readSecretGates(k, t) = KeyGate(k) \o TokenGates(t)
      /\ writeSecretGates(k, t) = KeyGate(k) \o TokenGates(t)
      /\ listSecretsGates(t) = TokenGates(t)
      /\ rotateSecretGates(k, t) = KeyGate(k) \o TokenGates(t) \o found
      /\ unsafeAdminExecGates(enabled, justified, t) = exec \o TokenGates(t)
  BY DEF storeSecretGates, readSecretGates, writeSecretGates, listSecretsGates,
         rotateSecretGates, unsafeAdminExecGates
<1> HIDE DEF load, exec, found
<1> DEFINE Refuses(gates) == gates \in SecretGates /\ (AllPass(gates) => t \notin consumedTokens)
<1>4. /\ load \o KeyGate(k) \in SecretGates
      /\ AllPass(load \o KeyGate(k)) => ~corrupt \/ blind
  BY <1>1, <1>2
<1>5. Refuses(load \o KeyGate(k) \o TokenGates(t))
      /\ (AllPass(load \o KeyGate(k) \o TokenGates(t)) => ~corrupt \/ blind)
  BY <1>1, <1>2, <1>4
<1>6. Refuses(KeyGate(k) \o TokenGates(t))
  BY <1>1, <1>2
<1>7. Refuses(KeyGate(k) \o TokenGates(t) \o found)
  BY <1>1, <1>2, <1>6
<1>8. Refuses(exec \o TokenGates(t))
  BY <1>1, <1>2
<1>9. Refuses(TokenGates(t))
  BY <1>1
<1> QED
  BY <1>3, <1>5, <1>6, <1>7, <1>8, <1>9

Contents == [Key -> Call \cup {NoValue}]
SecretToolNames == {"none", "store_secret", "read_secret", "write_secret", "list_secrets",
                    "rotate_secret", "unsafe_admin_exec", "get_env_var"}
CallState ==
  [pc : {"new", "attempt", "reporting", "ended"}, tool : SecretToolNames,
   key : Key \cup {NoValue}, token : TokensGiven, snap : Contents \cup {<<>>}, blind : BOOLEAN,
   code : Refusals \cup {"none", "pass", "ok", "not-found", "exec-error", "invalid-name"},
   acted : BOOLEAN, after : SUBSET Call]

(* A call of store_secret that has reported success.                       *)
Stored(c) == call[c].tool = "store_secret" /\ call[c].acted /\ call[c].code = "ok"

(* Another call has since written the file: on the same key, or from a     *)
(* copy that does not hold what c stored.                                  *)
Overwritten(c) ==
  \E d \in Call \ {c} : /\ call[d].tool = "store_secret" /\ call[d].acted
                        /\ call[d].key = call[c].key \/ c \notin call[d].after \/ call[d].blind

(* What is true of a call: only a call past its attempt has acted; the     *)
(* issued token it acted with is consumed, and none of those that acted    *)
(* before it began had that token; the copy of the file it is about to     *)
(* write holds what was stored before it began.                            *)
CallInv(c) ==
  /\ call[c].pc \in {"new", "attempt"} => ~ call[c].acted
  /\ call[c].acted /\ call[c].token \in Issued => call[c].token \in consumedTokens
  /\ \A d \in call[c].after : call[d].acted
  /\ (call[c].acted \/ call[c].pc = "attempt") /\ call[c].token \in Issued =>
        \A d \in call[c].after : call[d].token # call[c].token
  /\ call[c].pc = "attempt" /\ call[c].tool = "store_secret" =>
        /\ call[c].key \in Key /\ call[c].snap \in Contents
        /\ call[c].blind \/ \A d \in call[c].after :
              Stored(d) => call[c].snap[call[d].key] = d \/ Overwritten(d)
  /\ Stored(c) => /\ call[c].key \in Key
                  /\ file[call[c].key] = c \/ corrupt \/ Overwritten(c)

SecretInv ==
  /\ call \in [Call -> CallState]
  /\ file \in Contents /\ corrupt \in BOOLEAN
  /\ \A c \in Call : CallInv(c)

(* What has acted is not undone: a step that leaves the calls that have    *)
(* acted as they are leaves what is overwritten overwritten.               *)
LEMMA OverwrittenStays ==
  ASSUME NEW c \in Call, Overwritten(c), call'[c].key = call[c].key,
         \A d \in Call : call[d].acted =>
            /\ call'[d].acted /\ call'[d].tool = call[d].tool /\ call'[d].key = call[d].key
            /\ call'[d].after = call[d].after /\ call'[d].blind = call[d].blind
  PROVE  Overwritten(c)'
BY DEF Overwritten

(* A call begins: it runs its gates and takes a copy of the file.          *)
LEMMA BeginStep ==
  ASSUME SecretInv, NEW c \in Call, NEW tool \in SecretToolNames, NEW k \in Key \cup {NoValue},
         NEW t \in TokensGiven, NEW gates \in SecretGates, NEW blind \in BOOLEAN,
         Begin(c, tool, k, t, gates, blind),
         AllPass(gates) => t \notin consumedTokens,
         tool = "store_secret" => k \in Key /\ (AllPass(gates) => ~corrupt \/ blind)
  PROVE  SecretInv'
<1>1. PICK code : code = FirstFailure(gates)
  OBVIOUS
<1>2. code \in Refusals \cup {"pass"} /\ (code = "pass" => AllPass(gates))
  BY <1>1, FirstFailureFound DEF SecretGates, Refusals
<1>3. PICK snap : snap = IF blind THEN [j \in Key |-> NoValue] ELSE file
  OBVIOUS
<1>4. snap \in Contents
  BY <1>3 DEF SecretInv, Contents
<1>5. PICK pc \in {"attempt", "ended"} : pc = IF code = "pass" THEN "attempt" ELSE "ended"
  OBVIOUS
<1>6. PICK after : after = {d \in Call : call[d].acted}
  OBVIOUS
<1> DEFINE new == [pc |-> pc, tool |-> tool, key |-> k, token |-> t, snap |-> snap,
                   blind |-> blind, code |-> code, acted |-> FALSE, after |-> after]
<1>7. /\ call' = [call EXCEPT ![c] = new] /\ call[c].pc = "new"
      /\ UNCHANGED <<env, file, corrupt, consumedTokens>>
  BY <1>1, <1>3, <1>5, <1>6, Zenon DEF Begin
<1>8. new \in CallState
  BY <1>2, <1>4, <1>6 DEF CallState
<1>9. call' \in [Call -> CallState] /\ call'[c] = new
      /\ \A d \in Call \ {c} : call'[d] = call[d]
  BY <1>7, <1>8 DEF SecretInv
<1>10. ~ call[c].acted
  BY <1>7 DEF SecretInv, CallInv
<1>11. \A d \in Call : call[d].acted => call'[d] = call[d]
  BY <1>9, <1>10
<1>12. \A d \in Call : Stored(d)' => d # c /\ Stored(d)
  BY <1>9 DEF Stored
<1>13. \A d \in Call \ {c} : Overwritten(d) => Overwritten(d)'
  BY <1>9, <1>11, OverwrittenStays
<1>14. CallInv(c)'
  <2>1. \A d \in after : d # c /\ d \in Call /\ call'[d] = call[d] /\ call[d].acted
    BY <1>6, <1>9, <1>10
  <2>2. code = "pass" /\ t \in Issued => \A d \in after : call[d].token # t
    BY <1>2, <1>6 DEF SecretInv, CallInv
  <2>3. ASSUME pc = "attempt", tool = "store_secret", ~ blind, NEW d \in after, Stored(d)
        PROVE  snap[call[d].key] = d \/ Overwritten(d)
    <3>1. ~ corrupt /\ snap = file
      BY <2>3, <1>2, <1>3, <1>5
    <3> QED
      BY <3>1, <2>1, <2>3 DEF SecretInv, CallInv
  <2>4. \A d \in after : Stored(d)' => Stored(d)
    BY <1>12, <2>1
  <2>5. \A d \in after : Overwritten(d) => Overwritten(d)'
    BY <1>13, <2>1
  <2> QED
    BY <1>2, <1>4, <1>5, <1>9, <1>12, <2>1, <2>2, <2>3, <2>4, <2>5 DEF CallInv
<1>15. ASSUME NEW d \in Call \ {c}
       PROVE  CallInv(d)'
  <2>1. \A e \in call[d].after : e \in Call \ {c} /\ call'[e] = call[e]
    BY <1>9, <1>10 DEF SecretInv, CallInv, CallState
  <2> QED
    BY <1>7, <1>9, <1>12, <1>13, <2>1 DEF SecretInv, CallInv
<1> QED
  BY <1>7, <1>9, <1>14, <1>15 DEF SecretInv

(* A call consumes its token and acts: store_secret writes its copy, or    *)
(* fails to; the other tools leave the file alone.                         *)
LEMMA EffectStep ==
  ASSUME SecretInv, NEW c \in Call, NEW code \in {"ok", "not-found", "exec-error", "write-error"},
         call[c].pc = "attempt", ConsumeToken(c), Acted(c, code),
         \/ /\ call[c].tool # "store_secret" \/ code # "ok"
            /\ file' = file /\ corrupt' \in BOOLEAN /\ (corrupt => corrupt')
         \/ /\ call[c].tool = "store_secret"
            /\ file' = FileSet(c) /\ corrupt' = FALSE
  PROVE  SecretInv'
<1> DEFINE new == [call[c] EXCEPT !.pc = "reporting", !.code = code, !.acted = TRUE]
<1>1. call' = [call EXCEPT ![c] = new] /\ call[c] \in CallState
  BY DEF Acted, SecretInv
<1>2. new \in CallState
  BY <1>1 DEF CallState, Refusals
<1>3. /\ call' \in [Call -> CallState]
      /\ \A d \in Call \ {c} : call'[d] = call[d]
      /\ \A d \in Call : /\ call'[d].tool = call[d].tool /\ call'[d].key = call[d].key
                         /\ call'[d].token = call[d].token /\ call'[d].after = call[d].after
                         /\ call'[d].blind = call[d].blind /\ call'[d].snap = call[d].snap
                         /\ call[d].acted => call'[d].acted
      /\ call'[c].pc = "reporting" /\ call'[c].acted /\ call'[c].code = code
  BY <1>1, <1>2 DEF SecretInv, CallState
<1>4. ~ call[c].acted /\ (\A d \in Call : c \notin call[d].after)
  BY DEF SecretInv, CallInv
<1>5. \A d \in Call : Overwritten(d) => Overwritten(d)'
  BY <1>3, OverwrittenStays
<1>6. \A d \in Call \ {c} : Stored(d)' <=> Stored(d)
  BY <1>3 DEF Stored
<1>7. Stored(c)' => call[c].tool = "store_secret" /\ code = "ok"
  BY <1>3 DEF Stored
<1>8. file' \in Contents /\ corrupt' \in BOOLEAN
  <2>1. CASE file' = file
    BY <2>1 DEF SecretInv, Contents
  <2>2. CASE call[c].tool = "store_secret" /\ file' = FileSet(c)
    <3>1. call[c].key \in Key /\ call[c].snap \in Contents
      BY <2>2 DEF SecretInv, CallInv
    <3> QED
      BY <2>2, <3>1 DEF FileSet, Contents
  <2> QED
    BY <2>1, <2>2
<1>9. /\ consumedTokens \subseteq consumedTokens'
      /\ call[c].token \in Issued => call[c].token \in consumedTokens'
  BY DEF ConsumeToken
<1>10. ASSUME NEW d \in Call, Stored(d)'
       PROVE  call[d].key \in Key /\ (file'[call[d].key] = d \/ corrupt' \/ Overwritten(d)')
  <2>1. CASE d = c
    <3>1. call[c].tool = "store_secret" /\ code = "ok"
      BY <2>1, <1>7, <1>10
    <3>2. file' = FileSet(c) /\ call[c].key \in Key /\ call[c].snap \in Contents
      BY <3>1 DEF SecretInv, CallInv
    <3> QED
      BY <3>2, <2>1 DEF FileSet, Contents
  <2>2. CASE d # c
    <3>1. Stored(d) /\ call[d].key \in Key
          /\ (file[call[d].key] = d \/ corrupt \/ Overwritten(d))
      BY <2>2, <1>6, <1>10 DEF SecretInv, CallInv
    <3>2. CASE file' = file /\ (corrupt => corrupt')
      BY <3>1, <3>2, <1>5
    <3>3. CASE call[c].tool = "store_secret" /\ file' = FileSet(c)
      <4>1. CASE call[c].key = call[d].key \/ d \notin call[c].after \/ call[c].blind
        BY <4>1, <2>2, <3>1, <3>3, <1>3 DEF Overwritten
      <4>2. CASE call[c].key # call[d].key /\ d \in call[c].after /\ ~ call[c].blind
        <5>1. call[c].snap[call[d].key] = d \/ Overwritten(d)
          BY <4>2, <3>1, <3>3 DEF SecretInv, CallInv
        <5>2. FileSet(c)[call[d].key] = call[c].snap[call[d].key]
          BY <4>2, <3>1, <3>3 DEF FileSet, SecretInv, CallInv, Contents
        <5> QED
          BY <5>1, <5>2, <3>1, <3>3, <1>5
      <4> QED
        BY <4>1, <4>2
    <3> QED
      BY <3>2, <3>3
  <2> QED
    BY <2>1, <2>2
<1>11. ASSUME NEW d \in Call
       PROVE  CallInv(d)'
  <2>1. \A e \in call[d].after : e \in Call /\ e # c /\ call'[e] = call[e]
    BY <1>3, <1>4 DEF SecretInv, CallState
  <2>2. \A e \in call[d].after : /\ Stored(e)' => Stored(e)
                                 /\ Overwritten(e) => Overwritten(e)'
    BY <2>1, <1>5, <1>6
  <2>3. CASE d = c
    BY <2>1, <2>3, <1>3, <1>9, <1>10 DEF SecretInv, CallInv
  <2>4. CASE d # c
    BY <2>1, <2>2, <2>4, <1>3, <1>9, <1>10 DEF SecretInv, CallInv
  <2> QED
    BY <2>3, <2>4
<1> QED
  BY <1>3, <1>8, <1>11 DEF SecretInv

(* The steps that leave the effects alone: a call returns, or a token is   *)
(* consumed, or get_env_var answers.                                       *)
LEMMA QuietStep ==
  ASSUME SecretInv, file' = file, corrupt' = corrupt, consumedTokens \subseteq consumedTokens',
         call' \in [Call -> CallState],
         \A c \in Call : \/ call'[c] = call[c]
                         \/ /\ call[c].pc \notin {"attempt"} /\ call'[c].pc = "ended"
                            /\ call'[c].acted = call[c].acted /\ call'[c].token = call[c].token
                            /\ call'[c].after = call[c].after
                            /\ \/ ~ call[c].acted
                               \/ /\ call'[c].tool = call[c].tool /\ call'[c].key = call[c].key
                                  /\ call'[c].code = call[c].code /\ call'[c].blind = call[c].blind
  PROVE  SecretInv'
<1>1. \A d \in Call : call[d].acted =>
         /\ call'[d].acted /\ call'[d].tool = call[d].tool /\ call'[d].key = call[d].key
         /\ call'[d].after = call[d].after /\ call'[d].blind = call[d].blind
  OBVIOUS
<1>2. \A d \in Call : Stored(d)' => Stored(d) /\ call'[d].key = call[d].key
  BY DEF Stored
<1>3. \A d \in Call : Stored(d) /\ Overwritten(d) => Overwritten(d)'
  BY <1>1, OverwrittenStays DEF Stored
<1>4. ASSUME NEW c \in Call
      PROVE  CallInv(c)'
  <2>1. call[c] \in CallState /\ call'[c] \in CallState
    BY DEF SecretInv
  <2>2. \A d \in call[c].after : /\ d \in Call /\ call[d].acted /\ call'[d].acted
                                 /\ call'[d].token = call[d].token /\ call'[d].key = call[d].key
    BY <1>1, <2>1 DEF SecretInv, CallInv, CallState
  <2>3. call'[c].after = call[c].after /\ call'[c].token = call[c].token
        /\ call'[c].acted = call[c].acted
    OBVIOUS
  <2>4. call'[c].pc = "attempt" => call'[c] = call[c]
    OBVIOUS
  <2>5. call'[c].pc \in {"new", "attempt"} => ~ call'[c].acted
    BY DEF SecretInv, CallInv
  <2>6. Stored(c)' => /\ call'[c].key \in Key
                      /\ file'[call'[c].key] = c \/ corrupt' \/ Overwritten(c)'
    BY <1>2, <1>3 DEF SecretInv, CallInv
  <2>7. call'[c].pc = "attempt" /\ call'[c].tool = "store_secret" =>
          /\ call'[c].key \in Key /\ call'[c].snap \in Contents
          /\ call'[c].blind \/ \A d \in call'[c].after :
                Stored(d)' => call'[c].snap[call'[d].key] = d \/ Overwritten(d)'
    BY <1>2, <1>3, <2>2, <2>3, <2>4 DEF SecretInv, CallInv
  <2>8. /\ call'[c].acted /\ call'[c].token \in Issued => call'[c].token \in consumedTokens'
        /\ (call'[c].acted \/ call'[c].pc = "attempt") /\ call'[c].token \in Issued =>
              \A d \in call'[c].after : call'[d].token # call'[c].token
    BY <2>2, <2>3, <2>4 DEF SecretInv, CallInv
  <2> QED
    BY <2>2, <2>3, <2>5, <2>6, <2>7, <2>8 DEF CallInv
<1> QED
  BY <1>4 DEF SecretInv

(* The invariant of the calls.                                             *)
LEMMA SecretInvariant == SecretSpec => []SecretInv
<1>1. SecretInit => SecretInv
  <2> SUFFICES ASSUME SecretInit
               PROVE  SecretInv
    OBVIOUS
  <2>1. NewCall \in CallState
    BY DEF NewCall, CallState, SecretToolNames, TokensGiven
  <2>2. call \in [Call -> CallState] /\ file \in Contents /\ corrupt \in BOOLEAN
    BY <2>1 DEF SecretInit, Contents
  <2>3. ASSUME NEW c \in Call
        PROVE  CallInv(c)
    <3>1. call[c] = NewCall
      BY DEF SecretInit
    <3> QED
      BY <3>1 DEF NewCall, CallInv, Stored
  <2> QED
    BY <2>2, <2>3 DEF SecretInv
<1>2. SecretInv /\ [SecretNext]_secretVars => SecretInv'
  <2> SUFFICES ASSUME SecretInv, [SecretNext]_secretVars
               PROVE  SecretInv'
    OBVIOUS
  <2>1. ASSUME NEW c \in Call, NEW t \in TokensGiven, NEW k \in Key,
               NEW path \in {NoValue, "path"}, NEW blind \in BOOLEAN,
               StoreSecret(c, k, t, path, blind)
        PROVE  SecretInv'
    <3>1. PICK gates : gates = storeSecretGates(k, t, path, blind)
      OBVIOUS
    <3>2. /\ gates \in SecretGates /\ (AllPass(gates) => t \notin consumedTokens)
          /\ AllPass(gates) => ~corrupt \/ blind
      BY <3>1, ToolGates
    <3>3. Begin(c, "store_secret", k, t, gates, blind)
      BY <2>1, <3>1 DEF StoreSecret
    <3> QED
      BY <3>2, <3>3, BeginStep DEF SecretToolNames
  <2>2. ASSUME NEW c \in Call, NEW t \in TokensGiven, NEW k \in Key,
               ReadSecret(c, k, t) \/ WriteSecret(c, k, t) \/ RotateSecret(c, k, t)
        PROVE  SecretInv'
    <3>1. PICK tool \in {"read_secret", "write_secret", "rotate_secret"},
               gates \in {readSecretGates(k, t), writeSecretGates(k, t), rotateSecretGates(k, t)} :
             Begin(c, tool, k, t, gates, FALSE)
      BY <2>2 DEF ReadSecret, WriteSecret, RotateSecret
    <3>2. gates \in SecretGates /\ (AllPass(gates) => t \notin consumedTokens)
      BY <3>1, ToolGates
    <3>3. tool \in SecretToolNames /\ tool # "store_secret"
      BY DEF SecretToolNames
    <3> QED
      BY <3>1, <3>2, <3>3, BeginStep
  <2>3. ASSUME NEW c \in Call, NEW t \in TokensGiven,
               \/ ListSecrets(c, t)
               \/ \E enabled, justified \in BOOLEAN : UnsafeAdminExec(c, enabled, justified, t)
        PROVE  SecretInv'
    <3>1. CASE ListSecrets(c, t)
      <4>1. PICK gates : gates = listSecretsGates(t)
        OBVIOUS
      <4>2. gates \in SecretGates /\ (AllPass(gates) => t \notin consumedTokens)
        BY <4>1, ToolGates
      <4> QED
        BY <3>1, <4>1, <4>2, BeginStep DEF ListSecrets, SecretToolNames
    <3>2. ASSUME NEW enabled \in BOOLEAN, NEW justified \in BOOLEAN,
                 UnsafeAdminExec(c, enabled, justified, t)
          PROVE  SecretInv'
      <4>1. PICK gates : gates = unsafeAdminExecGates(enabled, justified, t)
        OBVIOUS
      <4>2. gates \in SecretGates /\ (AllPass(gates) => t \notin consumedTokens)
        BY <4>1, ToolGates
      <4> QED
        BY <3>2, <4>1, <4>2, BeginStep DEF UnsafeAdminExec, SecretToolNames
    <3> QED
      BY <2>3, <3>1, <3>2
  <2>4. ASSUME NEW c \in Call, StoreEffect(c)
        PROVE  SecretInv'
    <3>1. corrupt \in BOOLEAN
      BY DEF SecretInv
    <3>2. CASE file' = FileSet(c) /\ corrupt' = FALSE /\ Acted(c, "ok")
      BY <2>4, <3>2, EffectStep DEF StoreEffect, Attempting
    <3>3. CASE file' = file /\ corrupt' \in {corrupt, TRUE} /\ Acted(c, "write-error")
      <4>1. call[c].pc = "attempt" /\ ConsumeToken(c)
        BY <2>4 DEF StoreEffect, Attempting
      <4>2. corrupt' \in BOOLEAN /\ (corrupt => corrupt')
        <5>1. corrupt' = corrupt \/ corrupt' = TRUE
          BY <3>3
        <5> QED
          BY <3>1, <5>1, Zenon
      <4> QED
        BY <3>3, <4>1, <4>2, EffectStep
    <3> QED
      BY <2>4, <3>2, <3>3 DEF StoreEffect
  <2>5. ASSUME NEW c \in Call, EnvRead(c) \/ EnvWrite(c) \/ EnvList(c) \/ Spawn(c)
        PROVE  SecretInv'
    <3>1. PICK code \in {"ok", "not-found", "exec-error"} : Acted(c, code)
      BY <2>5 DEF EnvRead, EnvWrite, EnvList, Spawn
    <3>2. /\ call[c].pc = "attempt" /\ call[c].tool # "store_secret" /\ ConsumeToken(c)
          /\ UNCHANGED <<file, corrupt>>
      BY <2>5 DEF EnvRead, EnvWrite, EnvList, Spawn, Attempting
    <3> QED
      BY <3>1, <3>2, EffectStep DEF SecretInv
  <2>6. ASSUME NEW c \in Call, Report(c)
        PROVE  SecretInv'
    <3>1. call' \in [Call -> CallState]
      BY <2>6 DEF Report, SecretInv, CallState
    <3> QED
      BY <2>6, <3>1, QuietStep DEF Report, SecretInv
  <2>7. ASSUME NEW c \in Call, NEW k \in Key, NEW wellFormed \in BOOLEAN,
               GetEnvVar(c, k, wellFormed)
        PROVE  SecretInv'
    <3> DEFINE gates == <<Gate(wellFormed, "invalid-name"), Gate(env[k] # NoValue, "not-found")>>
               codes == {"invalid-name", "not-found"}
    <3>1. PICK code : code = FirstFailure(gates)
      OBVIOUS
    <3>2. code \in codes \cup {"pass"}
      <4>1. gates \in Seq(GatesOf(codes))
        BY DEF GatesOf, Gate
      <4> HIDE DEF gates
      <4> QED
        BY <3>1, <4>1, FirstFailureFound
    <3>3. call' = [call EXCEPT ![c] = [call[c] EXCEPT !.pc = "ended", !.tool = "get_env_var",
                                                      !.key = k, !.code = code]]
          /\ call[c].pc = "new" /\ UNCHANGED <<env, file, corrupt, consumedTokens>>
      BY <2>7, <3>1 DEF GetEnvVar, SecretInv
    <3>4. call' \in [Call -> CallState]
      <4> DEFINE new == [call[c] EXCEPT !.pc = "ended", !.tool = "get_env_var", !.key = k,
                                        !.code = code]
      <4>1. call[c] \in CallState
        BY DEF SecretInv
      <4>2. new \in CallState
        BY <3>2, <4>1 DEF CallState, SecretToolNames
      <4> HIDE DEF new
      <4>3. call' = [call EXCEPT ![c] = new]
        BY <3>3 DEF new
      <4> QED
        BY <4>2, <4>3 DEF SecretInv
    <3> QED
      BY <3>3, <3>4, QuietStep DEF SecretInv, CallInv, CallState
  <2>8. ASSUME NEW t \in Issued, Resolve(t)
        PROVE  SecretInv'
    BY <2>8, QuietStep DEF Resolve, SecretInv
  <2>9. CASE UNCHANGED secretVars
    BY <2>9, QuietStep DEF secretVars, SecretInv
  <2> QED
    BY <2>1, <2>2, <2>3, <2>4, <2>5, <2>6, <2>7, <2>8, <2>9 DEF SecretNext
<1> QED
  BY <1>1, <1>2, PTL DEF SecretSpec

(* A token the approval manager has issued never pays twice in a row: a    *)
(* call that began after another had acted with it has not acted.          *)
THEOREM SerialReplayTheorem == SecretSpec => []SerialReplayRefused
<1>1. SecretInv => SerialReplayRefused
  BY DEF SecretInv, CallInv, SerialReplayRefused
<1> QED
  BY <1>1, SecretInvariant, PTL

(* What store_secret reported as stored is in the file, unless a call with *)
(* an older copy, or none, or for the same key, has written it since, or a *)
(* write has failed.                                                       *)
THEOREM StoredSecretTheorem == SecretSpec => []StoredSecretKept
<1>1. SecretInv => StoredSecretKept
  BY DEF SecretInv, CallInv, StoredSecretKept, Stored, Overwritten
<1> QED
  BY <1>1, SecretInvariant, PTL

-----------------------------------------------------------------------------
(* The HTTP tools.                                                         *)

HttpToolNames == {"http_get", "http_put", "http_patch", "http_delete", "http_post", "fetch_url",
                  "scrape_page", "search_web", "send_slack", "post_message", "send_webhook",
                  "call_webhook", "send_notification", "webhook"}
HttpRefusals == {"invalid-url", "invalid-content-type", "domain-not-allowed", "invalid-query",
                 "missing-config", "missing-token", "unsupported-platform"}
BodyErrors == {"raw", "parse-error", "platform-error", "network-error", "provider-error",
               "slack-api-error", "delivery-error"}
HttpCodes == HttpRefusals \cup BodyErrors \cup {"none", "ok", "timeout", "undefined", "ignored"}

(* What a tool makes of the answer: the gates of each tool are rows of the *)
(* gates listed above, and a tool that confirms a delivery has no name for *)
(* a refusal that says ok.                                                 *)
LEMMA RequestsSound ==
  ASSUME NEW f, NEW tool \in HttpToolNames
  PROVE  /\ tool \in DOMAIN HttpRequests(f)
         /\ HttpRequests(f)[tool].gates \in Seq(GatesOf(HttpRefusals))
         /\ HttpRequests(f)[tool].unreadable \in BodyErrors
         /\ HttpRequests(f)[tool].notJson \in BodyErrors \cup {"ignored"}
         /\ HttpRequests(f)[tool].refused \in BodyErrors \cup {"ok"}
         /\ tool \in Confirming => HttpRequests(f)[tool].refused \in BodyErrors
<1> DEFINE SoundRequest(r) ==
      /\ r.gates \in Seq(GatesOf(HttpRefusals)) /\ r.unreadable \in BodyErrors
      /\ r.notJson \in BodyErrors \cup {"ignored"} /\ r.refused \in BodyErrors \cup {"ok"}
<1>1. ASSUME NEW fault, NEW code \in HttpRefusals
      PROVE  Sound(f, fault, code) \in Seq(GatesOf(HttpRefusals))
  BY DEF Sound, Gate, GatesOf
<1>2. \A a, b \in Seq(GatesOf(HttpRefusals)) : a \o b \in Seq(GatesOf(HttpRefusals))
  BY GatesJoined
<1>3. /\ SoundRequest(httpGet(f)) /\ SoundRequest(httpPut(f)) /\ SoundRequest(httpPatch(f))
      /\ SoundRequest(httpDelete(f)) /\ SoundRequest(sendWebhook(f))
      /\ SoundRequest(callWebhook(f)) /\ SoundRequest(webhook(f))
  BY <1>1 DEF httpGet, httpPut, httpPatch, httpDelete, sendWebhook, callWebhook, webhook, Plain,
              Request, HttpRefusals, BodyErrors
<1>4. SoundRequest(httpPost(f)) /\ SoundRequest(fetchUrl(f)) /\ SoundRequest(scrapePage(f))
  <2>1. /\ Sound(f, "url", "invalid-url") \in Seq(GatesOf(HttpRefusals))
        /\ Sound(f, "multipart", "invalid-content-type") \in Seq(GatesOf(HttpRefusals))
        /\ Sound(f, "domain", "domain-not-allowed") \in Seq(GatesOf(HttpRefusals))
    BY <1>1 DEF HttpRefusals
  <2> QED
    BY <1>2, <2>1 DEF httpPost, fetchUrl, scrapePage, Plain, Request, BodyErrors
<1>5. SoundRequest(searchWeb(f)) /\ searchWeb(f).refused \in BodyErrors
  <2>1. /\ Sound(f, "query", "invalid-query") \in Seq(GatesOf(HttpRefusals))
        /\ Sound(f, "config", "missing-config") \in Seq(GatesOf(HttpRefusals))
    BY <1>1 DEF HttpRefusals
  <2> QED
    BY <1>2, <2>1 DEF searchWeb, Request, BodyErrors
<1>6. SoundRequest(sendSlack(f)) /\ sendSlack(f).refused \in BodyErrors
  BY <1>1 DEF sendSlack, Request, HttpRefusals, BodyErrors
<1>7. /\ SoundRequest(postMessage(f)) /\ postMessage(f).refused \in BodyErrors
      /\ SoundRequest(sendNotification(f)) /\ sendNotification(f).refused \in BodyErrors
  <2>1. Sound(f, "platform", "unsupported-platform") \in Seq(GatesOf(HttpRefusals))
    BY <1>1 DEF HttpRefusals
  <2> QED
    BY <1>2, <1>3, <1>6, <2>1 DEF postMessage, sendNotification, Request, BodyErrors
<1> HIDE DEF SoundRequest
<1>8. tool \in DOMAIN HttpRequests(f) /\ SoundRequest(HttpRequests(f)[tool])
  BY <1>3, <1>4, <1>5, <1>6, <1>7 DEF HttpRequests, HttpToolNames
<1>9. tool \in Confirming => HttpRequests(f)[tool].refused \in BodyErrors
  BY <1>5, <1>6, <1>7 DEF HttpRequests, Confirming
<1> QED
  BY <1>8, <1>9 DEF SoundRequest

(* The requests of a call, those that may still arrive among them, are no  *)
(* more than its attempts; a request that waits for the head of its answer *)
(* is not among them yet, unless a redirect has made a GET of it.          *)
HttpStages == {"idle", "sending", "reading", "backoff", "ended"}
HttpAnswers == {"none", "accepted", "refused"}
ToolOrNone == HttpToolNames \cup {"none"}
HttpState == [pc : HttpStages, tool : ToolOrNone, retries : -1 .. MaxRetries, attempt : Nat,
              last : Nat, timer : BOOLEAN, asGet : BOOLEAN, answer : HttpAnswers,
              performed : Nat, flying : Nat, code : HttpCodes]

HttpCounts ==
  /\ http.pc = "idle" => http.attempt = 0 /\ http.code = "none"
  /\ http.pc # "idle" => http.tool # "none"
  /\ http.attempt =< http.last \/ http.pc = "idle"
  /\ http.pc = "backoff" => http.attempt < http.last
  /\ http.performed + http.flying =< http.attempt
  /\ http.pc = "sending" /\ http.answer = "none" /\ ~ http.asGet =>
        http.performed + http.flying < http.attempt
  /\ http.tool = "webhook" => http.last =< http.retries + 1
  /\ http.tool # "webhook" => http.last =< 1
  /\ http.pc \in {"sending", "reading"} /\ http.answer = "accepted" /\ ~ http.asGet =>
        http.performed > 0
  /\ http.pc = "reading" => http.answer # "none"
  /\ http.timer => http.pc = "sending"
  /\ http.tool \in Confirming /\ http.code = "ok" =>
        http.pc = "ended" /\ (http.performed = 1 \/ http.asGet)

HttpInv == http \in HttpState /\ HttpCounts

(* The parts of a state.                                                   *)
LEMMA HttpParts ==
  ASSUME NEW s \in HttpState
  PROVE  /\ s.pc \in HttpStages /\ s.tool \in ToolOrNone /\ s.attempt \in Nat /\ s.last \in Nat
         /\ s.timer \in BOOLEAN /\ s.answer \in HttpAnswers /\ s.performed \in Nat
         /\ s.flying \in Nat /\ s.code \in HttpCodes /\ s.asGet \in BOOLEAN
         /\ s.retries \in -1 .. MaxRetries
         /\ \A pc \in HttpStages, code \in HttpCodes :
               /\ [s EXCEPT !.pc = pc, !.code = code] \in HttpState
               /\ [s EXCEPT !.pc = pc, !.timer = FALSE] \in HttpState
               /\ \A n \in Nat : [s EXCEPT !.pc = pc, !.timer = FALSE, !.code = code,
                                        !.flying = n] \in HttpState
         /\ \A a \in HttpAnswers, m, n \in Nat :
               /\ [s EXCEPT !.answer = a] \in HttpState
               /\ [s EXCEPT !.answer = a, !.performed = m] \in HttpState
               /\ [s EXCEPT !.flying = m] \in HttpState
               /\ [s EXCEPT !.flying = m, !.performed = n] \in HttpState
               /\ [s EXCEPT !.asGet = TRUE, !.performed = m] \in HttpState
         /\ \A tool \in ToolOrNone, r \in -1 .. MaxRetries, n \in Nat :
               [s EXCEPT !.tool = tool, !.retries = r, !.last = n] \in HttpState
         /\ \A n \in Nat : attemptPost(s, n) \in HttpState
<1> USE DEF HttpState
<1>1. /\ s.pc \in HttpStages /\ s.tool \in ToolOrNone /\ s.attempt \in Nat /\ s.last \in Nat
      /\ s.timer \in BOOLEAN /\ s.answer \in HttpAnswers /\ s.performed \in Nat
      /\ s.flying \in Nat /\ s.code \in HttpCodes /\ s.asGet \in BOOLEAN
      /\ s.retries \in -1 .. MaxRetries
  OBVIOUS
<1>2. ASSUME NEW pc \in HttpStages, NEW code \in HttpCodes
      PROVE  /\ [s EXCEPT !.pc = pc, !.code = code] \in HttpState
             /\ [s EXCEPT !.pc = pc, !.timer = FALSE] \in HttpState
             /\ \A n \in Nat : [s EXCEPT !.pc = pc, !.timer = FALSE, !.code = code,
                                      !.flying = n] \in HttpState
  OBVIOUS
<1>3. ASSUME NEW a \in HttpAnswers, NEW m \in Nat, NEW n \in Nat
      PROVE  /\ [s EXCEPT !.answer = a] \in HttpState
             /\ [s EXCEPT !.answer = a, !.performed = m] \in HttpState
             /\ [s EXCEPT !.flying = m] \in HttpState
             /\ [s EXCEPT !.flying = m, !.performed = n] \in HttpState
             /\ [s EXCEPT !.asGet = TRUE, !.performed = m] \in HttpState
  OBVIOUS
<1>4. \A tool \in ToolOrNone, r \in -1 .. MaxRetries, n \in Nat :
        [s EXCEPT !.tool = tool, !.retries = r, !.last = n] \in HttpState
  OBVIOUS
<1>5. \A n \in Nat : attemptPost(s, n) \in HttpState
  BY DEF attemptPost, HttpStages, HttpAnswers
<1> QED
  BY <1>1, <1>2, <1>3, <1>4, <1>5

(* What an arrival, the end of a request and the next attempt leave of the *)
(* counts.                                                                 *)
LEMMA HttpArrivals ==
  ASSUME HttpInv, Arrive \/ Redirect \/ Headers \/ LateArrival
  PROVE  HttpInv'
<1>1. /\ http.performed \in Nat /\ http.flying \in Nat /\ http.attempt \in Nat
      /\ http.last \in Nat /\ http \in HttpState
  BY HttpParts DEF HttpInv
<1>2. CASE Arrive
  <2>1. PICK a \in {"accepted", "refused"}, n \in Nat :
          /\ n = IF a = "accepted" /\ ~ http.asGet THEN http.performed + 1 ELSE http.performed
          /\ http' = [http EXCEPT !.answer = a, !.performed = n]
          /\ http.pc = "sending" /\ http.answer = "none"
    <3>1. CASE http' = [http EXCEPT !.answer = "accepted",
                                    !.performed = IF http.asGet THEN @ ELSE @ + 1]
      <4>1. PICK n \in Nat : n = IF http.asGet THEN http.performed ELSE http.performed + 1
        BY <1>1
      <4>2. http' = [http EXCEPT !.answer = "accepted", !.performed = n]
        BY <3>1, <4>1
      <4> QED
        BY <1>2, <4>1, <4>2 DEF Arrive, InFlight
    <3>2. CASE http' = [http EXCEPT !.answer = "refused"]
      <4>1. http' = [http EXCEPT !.answer = "refused", !.performed = http.performed]
        BY <1>1, <3>2 DEF HttpState
      <4> QED
        BY <1>1, <1>2, <4>1 DEF Arrive, InFlight
    <3> QED
      BY <1>2, <3>1, <3>2 DEF Arrive
  <2>2. http' \in HttpState
    BY <1>1, <2>1, HttpParts DEF HttpAnswers
  <2>3. /\ http'.answer = a /\ http'.performed = n /\ http'.pc = http.pc
        /\ http'.tool = http.tool /\ http'.attempt = http.attempt /\ http'.last = http.last
        /\ http'.timer = http.timer /\ http'.flying = http.flying /\ http'.code = http.code
        /\ http'.asGet = http.asGet /\ http'.retries = http.retries
    BY <1>1, <2>1 DEF HttpState
  <2> QED
    BY <1>1, <2>1, <2>2, <2>3 DEF HttpInv, HttpCounts
<1>3. CASE Redirect
  <2>1. PICK n \in Nat :
          /\ n \in {http.performed, http.performed + 1}
          /\ http' = [http EXCEPT !.asGet = TRUE, !.performed = n]
          /\ http.pc = "sending" /\ http.answer = "none" /\ ~ http.asGet
    <3>1. http.performed \in Nat /\ http.performed + 1 \in Nat
      BY <1>1
    <3>2. PICK n \in {http.performed, http.performed + 1} :
            http' = [http EXCEPT !.asGet = TRUE, !.performed = n]
      BY <1>3, Zenon DEF Redirect
    <3>3. http.pc = "sending" /\ http.answer = "none" /\ ~ http.asGet
      BY <1>3 DEF Redirect, InFlight
    <3> QED
      BY <3>1, <3>2, <3>3
  <2>2. http' \in HttpState
    BY <1>1, <2>1, HttpParts
  <2>3. /\ http'.asGet = TRUE /\ http'.performed = n /\ http'.pc = http.pc
        /\ http'.answer = http.answer /\ http'.tool = http.tool
        /\ http'.retries = http.retries /\ http'.attempt = http.attempt
        /\ http'.last = http.last /\ http'.timer = http.timer
        /\ http'.flying = http.flying /\ http'.code = http.code
    BY <1>1, <2>1 DEF HttpState
  <2> QED
    BY <1>1, <2>1, <2>2, <2>3 DEF HttpInv, HttpCounts
<1>4. CASE Headers
  <2>1. http' \in HttpState
    BY <1>1, <1>4, HttpParts DEF Headers, HttpStages, HttpCodes
  <2>2. /\ http'.pc = "reading" /\ http'.timer = FALSE /\ http'.answer = http.answer
        /\ http'.tool = http.tool /\ http'.attempt = http.attempt /\ http'.last = http.last
        /\ http'.performed = http.performed /\ http'.flying = http.flying
        /\ http'.code = http.code /\ http.pc = "sending" /\ http.answer # "none"
        /\ http'.asGet = http.asGet /\ http'.retries = http.retries
    BY <1>1, <1>4 DEF Headers, HttpState
  <2> QED
    BY <1>1, <2>1, <2>2 DEF HttpInv, HttpCounts
<1>5. CASE LateArrival
  <2>1. PICK n \in Nat, m \in Nat :
          /\ n + 1 = http.flying /\ m \in {http.performed, http.performed + 1}
          /\ http' = [http EXCEPT !.flying = n, !.performed = m]
    <3>1. http.flying > 0 /\ http.flying - 1 \in Nat /\ http.flying - 1 + 1 = http.flying
      BY <1>1, <1>5 DEF LateArrival
    <3>2. CASE http' = [http EXCEPT !.flying = @ - 1, !.performed = @ + 1]
      <4>1. PICK n \in Nat : n = http.flying - 1
        BY <1>1, <3>1
      <4>2. PICK m \in Nat : m = http.performed + 1
        BY <1>1
      <4>3. http' = [http EXCEPT !.flying = n, !.performed = m]
        BY <3>2, <4>1, <4>2
      <4>4. n + 1 = http.flying /\ m \in {http.performed, http.performed + 1}
        BY <1>1, <4>1, <4>2
      <4> QED
        BY <4>3, <4>4, Zenon
    <3>3. CASE http' = [http EXCEPT !.flying = @ - 1]
      <4>1. http' = [http EXCEPT !.flying = http.flying - 1, !.performed = http.performed]
        BY <1>1, <3>3 DEF HttpState
      <4> QED
        BY <1>1, <3>1, <4>1
    <3> QED
      BY <1>5, <3>2, <3>3 DEF LateArrival
  <2>2. http' \in HttpState
    BY <1>1, <2>1, HttpParts
  <2>3. /\ http'.flying = n /\ http'.performed = m /\ http'.pc = http.pc
        /\ http'.tool = http.tool /\ http'.attempt = http.attempt /\ http'.last = http.last
        /\ http'.timer = http.timer /\ http'.answer = http.answer /\ http'.code = http.code
        /\ http'.asGet = http.asGet /\ http'.retries = http.retries
    BY <1>1, <2>1 DEF HttpState
  <2> QED
    <3>1. http.tool \in Confirming => http.tool # "webhook"
      BY DEF Confirming
    <3>2. http.attempt > 0 /\ http.pc # "idle" /\ m + n =< http.attempt
      BY <1>1, <2>1 DEF HttpInv, HttpCounts
    <3>3. http.tool # "webhook" => http.attempt =< 1
      BY <1>1, <3>2, MaxRetriesIsNat DEF HttpInv, HttpCounts
    <3>4. http.tool \in Confirming /\ http.code = "ok" => http.asGet
      BY <1>1, <2>1, <3>1, <3>2, <3>3 DEF HttpInv, HttpCounts
    <3> QED
      BY <1>1, <2>1, <2>2, <2>3, <3>2, <3>4 DEF HttpInv, HttpCounts
<1> QED
  BY <1>2, <1>3, <1>4, <1>5

(* A request that fails may still arrive, and its attempt is used up.      *)
LEMMA HttpFailures ==
  ASSUME HttpInv, NetworkFails \/ Abort
  PROVE  HttpInv'
<1>1. /\ http.performed \in Nat /\ http.flying \in Nat /\ http.attempt \in Nat
      /\ http.last \in Nat /\ http \in HttpState
  BY HttpParts DEF HttpInv
<1>2. http.pc = "sending"
  BY DEF NetworkFails, Abort, HttpInv, HttpCounts
<1>3. PICK code \in {"network-error", "timeout"} : AttemptFails(code)
  BY DEF NetworkFails, Abort
<1>4. PICK pc \in {"backoff", "ended"} :
        pc = IF http.attempt < http.last THEN "backoff" ELSE "ended"
  BY Zenon
<1>5. PICK n \in Nat : n = IF InFlight /\ ~ http.asGet THEN http.flying + 1 ELSE http.flying
  BY <1>1
<1>6. http' = [http EXCEPT !.pc = pc, !.timer = FALSE, !.code = code, !.flying = n]
  BY <1>3, <1>4, <1>5, Zenon DEF AttemptFails
<1>7. http' \in HttpState
  BY <1>1, <1>6, HttpParts DEF HttpStages, HttpCodes, BodyErrors
<1>8. /\ http'.pc = pc /\ http'.timer = FALSE /\ http'.code = code /\ http'.flying = n
      /\ http'.tool = http.tool /\ http'.attempt = http.attempt /\ http'.last = http.last
      /\ http'.performed = http.performed /\ http'.answer = http.answer
      /\ http'.asGet = http.asGet /\ http'.retries = http.retries
  BY <1>1, <1>6 DEF HttpState
<1> QED
  BY <1>1, <1>2, <1>4, <1>5, <1>7, <1>8 DEF HttpInv, HttpCounts, InFlight

(* The next attempt of webhook is one of the attempts it may make.         *)
LEMMA HttpRetries ==
  ASSUME HttpInv, BackoffEnds
  PROVE  HttpInv'
<1>1. /\ http.performed \in Nat /\ http.flying \in Nat /\ http.attempt \in Nat
      /\ http.last \in Nat /\ http \in HttpState
  BY HttpParts DEF HttpInv
<1>2. PICK n \in Nat : n = http.attempt + 1
  BY <1>1
<1>3. http.pc = "backoff" /\ http' = attemptPost(http, n)
  BY <1>2 DEF BackoffEnds
<1>4. http' \in HttpState
  BY <1>1, <1>3, HttpParts
<1>5. /\ http'.pc = "sending" /\ http'.attempt = n /\ http'.timer = TRUE
      /\ http'.answer = "none" /\ http'.tool = http.tool /\ http'.last = http.last
      /\ http'.performed = http.performed /\ http'.flying = http.flying
      /\ http'.code = http.code /\ http'.asGet = FALSE /\ http'.retries = http.retries
  BY <1>1, <1>3 DEF HttpState, attemptPost
<1> QED
  BY <1>1, <1>2, <1>3, <1>4, <1>5 DEF HttpInv, HttpCounts

(* A tool that confirms a delivery has an answer that says so.             *)
LEMMA HttpBodies ==
  ASSUME HttpInv, BodyEnds \/ BodyFails
  PROVE  HttpInv'
<1>1. /\ http.performed \in Nat /\ http.flying \in Nat /\ http.attempt \in Nat
      /\ http.last \in Nat /\ http \in HttpState /\ http.answer \in HttpAnswers
      /\ http.tool \in ToolOrNone
  BY HttpParts DEF HttpInv
<1>2. http.pc = "reading" /\ http.tool \in HttpToolNames /\ http.answer # "none"
  BY <1>1 DEF BodyEnds, BodyFails, HttpInv, HttpCounts, ToolOrNone
<1>3. PICK request : request = HttpRequests({})[http.tool]
  OBVIOUS
<1>4. /\ request.unreadable \in BodyErrors
      /\ request.notJson \in BodyErrors \cup {"ignored"}
      /\ request.refused \in BodyErrors \cup {"ok"}
      /\ http.tool \in Confirming => request.refused \in BodyErrors
  BY <1>2, <1>3, RequestsSound
<1>5. "ok" \notin BodyErrors
  BY DEF BodyErrors
<1>6. PICK code \in BodyErrors \cup {"ok"} :
        /\ Ended(code)
        /\ http.tool \in Confirming /\ code = "ok" => http.answer # "refused"
  <2>1. CASE BodyEnds
    <3>1. PICK json \in BOOLEAN : Ended(Verdict(request, json))
      BY <1>3, <2>1, Zenon DEF BodyEnds
    <3>2. PICK code : code = Verdict(request, json)
      OBVIOUS
    <3>3. /\ code \in BodyErrors \cup {"ok"}
          /\ http.tool \in Confirming /\ code = "ok" => http.answer # "refused"
      BY <1>4, <1>5, <3>2 DEF Verdict
    <3>4. Ended(code)
      BY <3>1, <3>2
    <3> QED
      BY <3>3, <3>4, Zenon
  <2>2. CASE BodyFails
    <3>1. Ended(request.unreadable)
      BY <1>3, <2>2, Zenon DEF BodyFails
    <3> QED
      BY <1>4, <1>5, <3>1
  <2> QED
    BY <2>1, <2>2
<1>7. code \in HttpCodes
  BY <1>6 DEF HttpCodes
<1>8. http' = [http EXCEPT !.pc = "ended", !.code = code]
  BY <1>6 DEF Ended
<1>9. http' \in HttpState
  BY <1>1, <1>7, <1>8, HttpParts DEF HttpStages
<1>10. /\ http'.pc = "ended" /\ http'.code = code /\ http'.answer = http.answer
       /\ http'.tool = http.tool /\ http'.attempt = http.attempt /\ http'.last = http.last
       /\ http'.performed = http.performed /\ http'.flying = http.flying
       /\ http'.timer = http.timer /\ http'.asGet = http.asGet
       /\ http'.retries = http.retries
  BY <1>1, <1>8 DEF HttpState
<1>11. http.tool \in Confirming => http.tool # "webhook"
  BY DEF Confirming
<1>12. http.tool \in Confirming /\ code = "ok" => http.performed = 1 \/ http.asGet
  BY <1>1, <1>2, <1>6, <1>11 DEF HttpInv, HttpCounts, HttpAnswers
<1> QED
  BY <1>1, <1>2, <1>9, <1>10, <1>12 DEF HttpInv, HttpCounts

(* A call starts its first attempt, or ends with the code of a gate, or,   *)
(* when webhook is to make no attempt, with no error at all.               *)
LEMMA HttpCalls ==
  ASSUME HttpInv, NEW tool \in HttpToolNames, NEW f, NEW retries \in -1 .. MaxRetries,
         Ask(tool, f, retries)
  PROVE  HttpInv'
<1>1. /\ http.performed \in Nat /\ http.flying \in Nat /\ http.attempt = 0
      /\ http \in HttpState /\ http.pc = "idle" /\ http.performed + http.flying = 0
      /\ http.timer = FALSE /\ http.performed = 0 /\ http.flying = 0
  <2>1. /\ http \in HttpState /\ http.performed \in Nat /\ http.flying \in Nat
        /\ http.timer \in BOOLEAN /\ http.pc = "idle"
    BY HttpParts DEF HttpInv, Ask
  <2>2. http.attempt = 0 /\ http.timer = FALSE
    BY <2>1 DEF HttpInv, HttpCounts
  <2>3. http.performed + http.flying =< 0
    BY <2>1, <2>2 DEF HttpInv, HttpCounts
  <2> QED
    BY <2>1, <2>2, <2>3
<1>2. PICK code : code = FirstFailure(HttpRequests(f)[tool].gates)
  OBVIOUS
<1>3. code \in HttpRefusals \cup {"pass"}
  <2>1. "pass" \notin HttpRefusals
    BY DEF HttpRefusals
  <2> QED
    BY <1>2, <2>1, RequestsSound, FirstFailureFound
<1>4. PICK n : n = maxAttempts(tool, retries)
  OBVIOUS
<1>5. /\ n \in Nat
      /\ tool = "webhook" => n =< retries + 1
      /\ tool # "webhook" => n =< 1
  BY <1>4, MaxRetriesIsNat DEF maxAttempts
<1>6. PICK s : s = [http EXCEPT !.tool = tool, !.retries = retries, !.last = n]
  OBVIOUS
<1>7. s \in HttpState
  BY <1>1, <1>5, <1>6, HttpParts DEF ToolOrNone
<1>8. /\ s.tool = tool /\ s.last = n /\ s.pc = "idle" /\ s.attempt = 0 /\ s.timer = FALSE
      /\ s.performed = 0 /\ s.flying = 0 /\ s.answer = http.answer /\ s.code = http.code
      /\ s.retries = retries
  BY <1>1, <1>6 DEF HttpState
<1>9. http' = CASE code # "pass" -> [s EXCEPT !.pc = "ended", !.code = code]
                [] code = "pass" /\ s.last = 0 -> [s EXCEPT !.pc = "ended", !.code = "undefined"]
                [] OTHER -> attemptPost(s, 1)
  BY <1>2, <1>4, <1>6, Zenon DEF Ask
<1>10. ASSUME NEW end \in HttpRefusals \cup {"undefined"},
              http' = [s EXCEPT !.pc = "ended", !.code = end]
       PROVE  HttpInv'
  <2>1. end \in HttpCodes /\ end # "ok"
    BY <1>10 DEF HttpCodes, HttpRefusals
  <2>2. http' \in HttpState
    BY <1>7, <1>10, <2>1, HttpParts DEF HttpStages
  <2>3. /\ http'.pc = "ended" /\ http'.code = end /\ http'.tool = tool /\ http'.last = n
        /\ http'.attempt = 0 /\ http'.timer = FALSE /\ http'.performed = 0
        /\ http'.flying = 0 /\ http'.retries = retries
    BY <1>7, <1>8, <1>10 DEF HttpState
  <2>4. tool # "none"
    BY DEF HttpToolNames
  <2> QED
    BY <1>5, <2>1, <2>2, <2>3, <2>4 DEF HttpInv, HttpCounts
<1>11. CASE code = "pass" /\ s.last # 0
  <2>1. http' = attemptPost(s, 1) /\ n >= 1
    BY <1>5, <1>8, <1>9, <1>11
  <2>2. http' \in HttpState
    BY <1>7, <2>1, HttpParts
  <2>3. /\ http'.pc = "sending" /\ http'.attempt = 1 /\ http'.tool = tool /\ http'.last = n
        /\ http'.timer = TRUE /\ http'.answer = "none" /\ http'.performed = 0
        /\ http'.flying = 0 /\ http'.code = http.code /\ http'.asGet = FALSE
        /\ http'.retries = retries
    BY <1>7, <1>8, <2>1 DEF HttpState, attemptPost
  <2>4. tool # "none"
    BY DEF HttpToolNames
  <2>5. http.code # "ok"
    BY <1>1 DEF HttpInv, HttpCounts
  <2> QED
    <3>1. n \in Nat /\ n >= 1
      BY <1>5, <2>1
    <3>2. HttpCounts'
      BY <1>5, <2>3, <2>4, <2>5, <3>1 DEF HttpCounts
    <3> QED
      BY <2>2, <3>2 DEF HttpInv
<1>12. CASE code # "pass"
  <2>1. http' = [s EXCEPT !.pc = "ended", !.code = code]
    <3>1. PICK first : first = [s EXCEPT !.pc = "ended", !.code = code]
      OBVIOUS
    <3>2. PICK second : second = [s EXCEPT !.pc = "ended", !.code = "undefined"]
      OBVIOUS
    <3>3. PICK third : third = attemptPost(s, 1)
      OBVIOUS
    <3>4. http' = CASE code # "pass" -> first
                    [] code = "pass" /\ s.last = 0 -> second
                    [] OTHER -> third
      BY <1>9, <3>1, <3>2, <3>3, Zenon
    <3>5. http' = first
      BY <1>12, <3>4
    <3> QED
      BY <3>1, <3>5
  <2>2. code \in HttpRefusals \cup {"undefined"}
    BY <1>3, <1>12
  <2> QED
    BY <1>10, <2>1, <2>2
<1>13. CASE code = "pass" /\ s.last = 0
  BY <1>9, <1>10, <1>13
<1> QED
  BY <1>11, <1>12, <1>13

(* The counts hold throughout.                                             *)
LEMMA HttpInvariant == HttpSpec => []HttpInv
<1>1. HttpInit => HttpInv
  BY MaxRetriesIsNat DEF HttpInit, HttpInv, HttpState, HttpCounts, HttpStages, HttpAnswers,
                         ToolOrNone, HttpCodes, Confirming
<1>2. HttpInv /\ [HttpNext]_http => HttpInv'
  <2> SUFFICES ASSUME HttpInv, [HttpNext]_http
               PROVE  HttpInv'
    OBVIOUS
  <2>1. ASSUME NEW tool \in DOMAIN HttpRequests({}), NEW f \in SUBSET Faults,
               NEW retries \in -1 .. MaxRetries, Ask(tool, f, retries)
        PROVE  HttpInv'
    <3>1. tool \in HttpToolNames
      BY DEF HttpRequests, HttpToolNames
    <3> QED
      BY <2>1, <3>1, HttpCalls
  <2>2. CASE Arrive \/ Redirect \/ Headers \/ LateArrival
    BY <2>2, HttpArrivals
  <2>3. CASE NetworkFails \/ Abort
    BY <2>3, HttpFailures
  <2>4. CASE BackoffEnds
    BY <2>4, HttpRetries
  <2>5. CASE BodyEnds \/ BodyFails
    BY <2>5, HttpBodies
  <2>6. CASE UNCHANGED http
    BY <2>6 DEF HttpInv, HttpState, HttpCounts
  <2> QED
    BY <2>1, <2>2, <2>3, <2>4, <2>5, <2>6 DEF HttpNext
<1> QED
  BY <1>1, <1>2, PTL DEF HttpSpec

(* However late an abandoned request arrives, and whatever redirects it    *)
(* meets, the server performs a call no more often than the attempts that  *)
(* call asked for, and what a tool confirms has been delivered once unless *)
(* a redirect made a GET of the request.                                   *)
THEOREM DeliveryTheorem == HttpSpec => []DeliveryBound
<1>1. HttpInv => DeliveryBound
  <2> SUFFICES ASSUME HttpInv
               PROVE  DeliveryBound
    OBVIOUS
  <2>1. /\ http.performed \in Nat /\ http.flying \in Nat /\ http.attempt \in Nat
        /\ http.last \in Nat /\ http.retries \in -1 .. MaxRetries
    BY HttpParts DEF HttpInv
  <2>2. http.attempt =< IF http.tool = "webhook" THEN http.retries + 1 ELSE 1
    BY <2>1, MaxRetriesIsNat DEF HttpInv, HttpCounts
  <2> QED
    BY <2>1, <2>2 DEF HttpInv, HttpCounts, DeliveryBound
<1> QED
  BY <1>1, HttpInvariant, PTL

-----------------------------------------------------------------------------
(* The file tools.                                                         *)

(* A tree of texts in which every protected directory is in its place.     *)
Tame(f) ==
  /\ f = [p \in Path |-> f[p]]
  /\ \A p \in Forbidden : f[p] = Dir
  /\ \A p \in Path : f[p].text \in Seq(Letter)

(* What calls write are texts.                                             *)
LEMMA TextsAreSequences ==
  /\ Text \subseteq Seq(Letter) /\ Dir.text \in Seq(Letter) /\ Absent.text \in Seq(Letter)
  /\ \A t, u \in Seq(Letter) : t \o u \in Seq(Letter)
  /\ \A t \in Seq(Letter) : PartsWritten(t) \subseteq Seq(Letter)
  /\ \A t \in Seq(Letter), old, new \in Letter : Replaced(t, old, new) \in Seq(Letter)
<1>1. Text \subseteq Seq(Letter)
  <2> SUFFICES ASSUME NEW n \in 0 .. MaxLen, NEW t \in [1 .. n -> Letter]
               PROVE  t \in Seq(Letter)
    BY DEF Text
  <2> QED
    BY BatchBounds
<1>2. Dir.text \in Seq(Letter) /\ Absent.text \in Seq(Letter)
  BY DEF Dir, Absent
<1>3. \A t \in Seq(Letter) : PartsWritten(t) \subseteq Seq(Letter)
  BY DEF PartsWritten
<1>4. ASSUME NEW t \in Seq(Letter), NEW old \in Letter, NEW new \in Letter
      PROVE  Replaced(t, old, new) \in Seq(Letter)
  <2>1. ASSUME NEW i, NEW c \in Letter
        PROVE  [t EXCEPT ![i] = c] \in Seq(Letter)
    <3>1. PICK n \in Nat : t \in [1 .. n -> Letter]
      OBVIOUS
    <3>2. [t EXCEPT ![i] = c] \in [1 .. n -> Letter]
      BY <3>1
    <3> QED
      BY <3>1, <3>2
  <2> QED
    BY <2>1 DEF Replaced
<1> QED
  BY <1>1, <1>2, <1>3, <1>4

(* A directory above a protected one is protected.                         *)
LEMMA AboveForbidden ==
  ASSUME NEW p \in Forbidden
  PROVE  Above[p] \subseteq Forbidden
<1>1. CASE p = Root
  BY <1>1, ForbiddenClosed, TreeOfPaths DEF Above
<1>2. CASE p # Root
  <2> SUFFICES ASSUME NEW q \in Above[p]
               PROVE  q \in Forbidden
    OBVIOUS
  <2>1. \A s \in SUBSET Path : Parent[p] \in s /\ UpClosed(s) => q \in s
    BY <1>2, ForbiddenClosed DEF Above
  <2>2. Parent[p] \in Forbidden /\ UpClosed(Forbidden) /\ Forbidden \in SUBSET Path
    BY <1>2, ForbiddenClosed DEF UpClosed
  <2> QED
    BY <2>1, <2>2
<1> QED
  BY <1>1, <1>2

(* What is no directory is not protected, and nothing below it is.         *)
LEMMA NotProtected ==
  ASSUME Tame(fs), NEW p \in Path
  PROVE  /\ fs[p].kind # "dir" => p \notin Forbidden
         /\ Stat(p) \in {"file", "absent"} => p \notin Forbidden /\ fs[p].kind = Stat(p)
         /\ p \notin Forbidden => \A q \in Below(p) : q \notin Forbidden
<1>1. fs[p].kind # "dir" => p \notin Forbidden
  <2>1. p \in Forbidden => fs[p] = Dir
    BY Zenon DEF Tame
  <2> QED
    BY <2>1 DEF Dir
<1>2. Stat(p) \in {"file", "absent"} => fs[p].kind = Stat(p)
  BY DEF Stat
<1>3. p \notin Forbidden => \A q \in Below(p) : q \notin Forbidden
  BY AboveForbidden DEF Below
<1> QED
  BY <1>1, <1>2, <1>3

(* Replacing what is not protected, and making directories, is tame.       *)
LEMMA TameChanges ==
  ASSUME Tame(fs)
  PROVE  /\ \A p : Tame(Mkdirs(p))
         /\ \A p, r, t : r \in Path \ Forbidden /\ t \in Seq(Letter) =>
               Tame([Mkdirs(p) EXCEPT ![r] = File(t)])
         /\ \A r, n : r \in Path \ Forbidden /\ n.text \in Seq(Letter) =>
               Tame([fs EXCEPT ![r] = n])
         /\ \A gone : gone \cap Forbidden = {} =>
               Tame([q \in Path |-> IF q \in gone THEN Absent ELSE fs[q]])
<1>1. Dir # Absent
  BY DEF Dir, Absent
<1>2. Forbidden \subseteq Path
  BY ForbiddenClosed
<1>3. ASSUME NEW p
      PROVE  Tame(Mkdirs(p))
  BY <1>1, <1>2, TextsAreSequences DEF Tame, Mkdirs
<1>4. ASSUME NEW f, Tame(f), NEW r \in Path \ Forbidden, NEW n, n.text \in Seq(Letter)
      PROVE  Tame([f EXCEPT ![r] = n])
  BY <1>2, <1>4 DEF Tame
<1>5. \A t : File(t).text = t
  BY DEF File
<1>6. ASSUME NEW gone, gone \cap Forbidden = {}
      PROVE  Tame([q \in Path |-> IF q \in gone THEN Absent ELSE fs[q]])
  BY <1>2, <1>6, TextsAreSequences DEF Tame
<1> QED
  BY <1>3, <1>4, <1>6, <1>5

(* So is whatever a failing call leaves behind.                            *)
LEMMA TameFaults ==
  ASSUME Tame(fs)
  PROVE  /\ \A p : \A f \in MkdirFaults(p) : Tame(f)
         /\ \A p, kept, t : p \in Path \ Forbidden /\ kept \in Seq(Letter) /\ t \in Seq(Letter) =>
               \A f \in WriteFaults(p, kept, t) : Tame(f)
         /\ \A q \in Path : \A f \in CopyFaults(q) : Tame(f)
         /\ \A p \in Path \ Forbidden : \A f \in RemoveFaults(p) : Tame(f)
         /\ \A p, q \in Path : Stat(p) = "file" => \A r \in MoveResults(p, q) : Tame(r.tree)
<1>1. \A p : \A f \in MkdirFaults(p) : Tame(f)
  BY TameChanges DEF MkdirFaults
<1>2. ASSUME NEW p, NEW kept, NEW t, p \in Path \ Forbidden,
             kept \in Seq(Letter), t \in Seq(Letter)
      PROVE  \A f \in WriteFaults(p, kept, t) : Tame(f)
  <2>1. \A u \in PartsWritten(t) : kept \o u \in Seq(Letter)
    BY <1>2, TextsAreSequences
  <2>2. \A u \in PartsWritten(t) : Tame([Mkdirs(Parent[p]) EXCEPT ![p] = File(kept \o u)])
    BY <1>2, <2>1, TameChanges
  <2> QED
    BY <1>1, <2>2, Zenon DEF WriteFaults
<1>3. \A q \in Path : CanCopyTo(q) => q \notin Forbidden
  BY NotProtected DEF CanCopyTo
<1>4. \A q \in Path : \A f \in CopyFaults(q) : Tame(f)
  <2>1. \A q \in Path : CanCopyTo(q) => Tame([fs EXCEPT ![q] = Absent])
    <3>1. Absent.text \in Seq(Letter)
      BY TextsAreSequences
    <3> QED
      BY <1>3, <3>1, TameChanges
  <2> QED
    BY <2>1, Zenon DEF CopyFaults
<1>5. \A p \in Path \ Forbidden : \A f \in RemoveFaults(p) : Tame(f)
  <2> SUFFICES ASSUME NEW p \in Path \ Forbidden, NEW f \in RemoveFaults(p)
               PROVE  Tame(f)
    OBVIOUS
  <2>1. PICK gone \in SUBSET Below(p) :
          f = [q \in Path |-> IF q \in gone THEN Absent ELSE fs[q]]
    BY DEF RemoveFaults
  <2>2. gone \cap Forbidden = {}
    BY NotProtected
  <2> QED
    BY <2>1, <2>2, TameChanges
<1>6. ASSUME NEW p \in Path, NEW q \in Path, Stat(p) = "file", NEW r \in MoveResults(p, q)
      PROVE  Tame(r.tree)
  <2>1. p \notin Forbidden
    BY <1>6, NotProtected
  <2>2. CASE r = Leaves(fs, "fs-error")
    BY <2>2 DEF Leaves
  <2>3. CASE CanCopyTo(q) /\ r = Leaves(Renamed(p, q), "ok")
    BY <1>3, <2>1, <2>3, ForbiddenClosed, TextsAreSequences DEF Leaves, Renamed, Tame
  <2>4. CASE \E f \in CopyFaults(q) : r = Leaves(f, "fs-error")
    BY <1>4, <2>4 DEF Leaves
  <2>5. CASE \E n \in {Absent, fs[p]} :
               CanCopyTo(q) /\ r = Leaves([fs EXCEPT ![q] = n], "fs-error")
    <3>1. PICK n \in {Absent, fs[p]} :
            CanCopyTo(q) /\ r = Leaves([fs EXCEPT ![q] = n], "fs-error")
      BY <2>5
    <3>2. r.tree = [fs EXCEPT ![q] = n] /\ q \in Path \ Forbidden
      BY <1>3, <3>1 DEF Leaves
    <3>3. Tame([fs EXCEPT ![q] = n])
      BY <3>1, <3>2, TameChanges, TextsAreSequences DEF Tame
    <3> QED
      BY <3>2, <3>3, Zenon
  <2> QED
    BY <1>6, <2>2, <2>3, <2>4, <2>5 DEF MoveResults
<1> QED
  BY <1>1, <1>2, <1>4, <1>5, <1>6

(* A call leaves everything as it is, or a tame tree whose files the batch *)
(* has followed.                                                           *)
Leaving(f, to) == fs' = f /\ batch' = Witness(batch, f, to)
Moves == [Path -> SUBSET Path]
Kept == UNCHANGED <<fs, batch>> \/ \E f, to : Tame(f) /\ to \in Moves /\ Leaving(f, to)

LEMMA CallsAreTame ==
  ASSUME Tame(fs), Mutate \/ Look
  PROVE  Kept
<1>1. \A code : Throw(code) => Kept
  BY DEF Throw, Kept
<1>2. \A found : Found(found) => Kept
  BY DEF Found, Kept
<1>3. Staying \in Moves
  BY DEF Staying, Moves
<1>4. \A f : Tame(f) /\ Done(f) => Kept
  BY <1>3 DEF Done, Kept, Leaving
<1>5. \A faults : (\A f \in faults : Tame(f)) /\ Fault(faults) => Kept
  BY <1>3 DEF Fault, Kept, Leaving
<1>6. ASSUME NEW p \in Path, NEW t \in Text, WriteFile(p, t) \/ AppendFile(p, t)
      PROVE  Kept
  <2>1. t \in Seq(Letter) /\ <<>> \in Seq(Letter) /\ fs[p].text \in Seq(Letter)
        /\ fs[p].text \o t \in Seq(Letter)
    BY TextsAreSequences DEF Tame
  <2>2. CASE p \in Forbidden
    BY <1>1, <1>6, <2>2 DEF WriteFile, AppendFile
  <2>3. CASE p \notin Forbidden
    <3>1. /\ Tame([Mkdirs(Parent[p]) EXCEPT ![p] = File(t)])
          /\ Tame([Mkdirs(Parent[p]) EXCEPT ![p] = File(fs[p].text \o t)])
          /\ \A f \in WriteFaults(p, <<>>, t) : Tame(f)
          /\ \A f \in WriteFaults(p, fs[p].text, t) : Tame(f)
      BY <2>1, <2>3, TameChanges, TameFaults
    <3> QED
      BY <1>1, <1>4, <1>5, <1>6, <3>1 DEF WriteFile, AppendFile
  <2> QED
    BY <2>2, <2>3
<1>7. ASSUME NEW p \in Path, NEW old \in Letter, NEW new \in Letter, EditFile(p, old, new)
      PROVE  Kept
  <2>1. Stat(p) = "file" => p \notin Forbidden
    BY NotProtected
  <2>2. fs[p].text \in Seq(Letter)
    BY DEF Tame
  <2>3. \A t \in Seq(Letter) : Replaced(t, old, new) \in Seq(Letter)
    BY TextsAreSequences, Zenon
  <2>4. <<>> \in Seq(Letter) /\ Replaced(fs[p].text, old, new) \in Seq(Letter)
    BY <2>2, <2>3
  <2>5. \A t : File(t).text = t
    BY DEF File
  <2>6. Stat(p) = "file" =>
          /\ Tame([fs EXCEPT ![p] = File(Replaced(fs[p].text, old, new))])
          /\ \A f \in WriteFaults(p, <<>>, Replaced(fs[p].text, old, new)) : Tame(f)
    BY <2>1, <2>4, <2>5, TameChanges, TameFaults
  <2> QED
    BY <1>1, <1>4, <1>5, <1>7, <2>6 DEF EditFile
<1>8. ASSUME NEW p \in Path, NEW recursive, DeleteFile(p, recursive)
      PROVE  Kept
  <2> DEFINE emptied == [q \in Path |-> IF q = p \/ q \in Below(p) THEN Absent ELSE fs[q]]
  <2>1. CASE p \in Forbidden
    BY <1>1, <1>8, <2>1 DEF DeleteFile
  <2>2. CASE p \notin Forbidden
    <3>1. Tame(emptied)
      BY <2>2, NotProtected, ForbiddenClosed, TextsAreSequences DEF Tame
    <3>2. Tame([fs EXCEPT ![p] = Absent])
      BY <2>2, TameChanges, TextsAreSequences
    <3>3. \A f \in RemoveFaults(p) : Tame(f)
      BY <2>2, TameFaults
    <3> HIDE DEF emptied
    <3>4. \/ \E code : Throw(code)
          \/ Done(emptied) \/ Done([fs EXCEPT ![p] = Absent])
          \/ Fault(RemoveFaults(p))
      BY <1>8 DEF DeleteFile, emptied
    <3> QED
      BY <1>1, <1>4, <1>5, <3>1, <3>2, <3>3, <3>4
  <2> QED
    BY <2>1, <2>2
<1>9. ASSUME NEW p \in Path, NEW q \in Path, CopyFile(p, q)
      PROVE  Kept
  <2>1. fs[p].text \in Seq(Letter)
    BY DEF Tame
  <2>2. CanCopyTo(q) => q \notin Forbidden
    BY NotProtected DEF CanCopyTo
  <2>3. CanCopyTo(q) => Tame([fs EXCEPT ![q] = fs[p]])
    BY <2>1, <2>2, TameChanges
  <2>4. \A f \in CopyFaults(q) : Tame(f)
    BY TameFaults
  <2> QED
    BY <1>1, <1>4, <1>5, <1>9, <2>3, <2>4 DEF CopyFile
<1>10. ASSUME NEW p \in Path, NEW q \in Path, MoveFile(p, q)
      PROVE  Kept
  <2>1. Renaming(p, q) \in Moves
    BY DEF Renaming, Moves
  <2> QED
    BY <1>1, <1>10, <1>3, <2>1, TameFaults DEF MoveFile, Kept, Leaving
<1>11. ASSUME NEW p \in Path, CreateDirectory(p) \/ MakeDir(p)
       PROVE  Kept
  BY <1>1, <1>4, <1>5, <1>11, TameChanges, TameFaults DEF CreateDirectory, MakeDir
<1>12. Look => Kept
  BY <1>1, <1>2 DEF Look, ReadFile, CheckExists, ListDirectory, ListDir, FindFiles, GrepFiles,
                    GrepInvalid, InDirectory
<1> QED
  BY <1>6, <1>7, <1>8, <1>9, <1>10, <1>11, <1>12 DEF Mutate, Inner

(* What the batch knows of a path: every piece it has read so far stood in *)
(* a text the open file has had, and its present text is one of these.     *)
PiecesSeen(part, seen) ==
  \A i \in DOMAIN part : \E t \in seen : i \in DOMAIN t /\ t[i] = part[i]
Reading(e) ==
  /\ e.at \subseteq Path /\ e.seen \subseteq Seq(Letter) /\ e.text \in e.seen
  /\ e.part \in Seq(Letter) /\ PiecesSeen(e.part, e.seen)
  /\ e.result.status # "ok"
SawReal(e) ==
  e.result.status = "ok" =>
      /\ e.seen # {} /\ PiecesSeen(e.result.content, e.seen)
      /\ \A t \in e.seen : e.seen = {t} => e.result.content = t
SoundEntry(e) ==
  /\ e = [stage |-> e.stage, result |-> e.result, at |-> e.at, text |-> e.text,
          part |-> e.part, seen |-> e.seen]
  /\ e.stage = "read" => Reading(e)
  /\ SawReal(e)

FilesInv ==
  /\ Tame(fs)
  /\ batch = [pc |-> batch.pc, of |-> batch.of]
  /\ batch.of = [p \in DOMAIN batch.of |-> batch.of[p]]
  /\ \A p \in DOMAIN batch.of : SoundEntry(batch.of[p])

(* An entry that follows its file through a call stays sound.              *)
LEMMA FollowingIsSound ==
  ASSUME NEW e, SoundEntry(e), NEW f, Tame(f), NEW to \in Moves
  PROVE  SoundEntry(Follows(e, f, to))
<1>1. PICK at : at = {q \in UNION {to[r] : r \in e.at} : f[q].kind = "file"}
  OBVIOUS
<1>2. PICK text : text = IF at = {} THEN e.text ELSE f[CHOOSE q \in at : TRUE].text
  OBVIOUS
<1>3. Follows(e, f, to) = IF e.stage = "read"
                            THEN [e EXCEPT !.at = at, !.text = text, !.seen = @ \cup {text}]
                            ELSE e
  BY <1>1, <1>2, Zenon DEF Follows
<1>4. CASE e.stage = "read"
  <2>1. Reading(e)
    BY <1>4 DEF SoundEntry
  <2>2. at \subseteq Path
    BY <1>1, <2>1 DEF Reading, Moves
  <2>3. text \in Seq(Letter)
    <3>1. CASE at = {}
      BY <1>2, <2>1, <3>1 DEF Reading
    <3>2. CASE at # {}
      <4>1. PICK q \in at : text = f[q].text
        BY <1>2, <3>2
      <4> QED
        BY <2>2, <4>1 DEF Tame
    <3> QED
      BY <3>1, <3>2
  <2>4. PICK n : n = [stage |-> e.stage, result |-> e.result, at |-> at, text |-> text,
                      part |-> e.part, seen |-> e.seen \cup {text}]
    OBVIOUS
  <2>5. Follows(e, f, to) = n
    BY <1>3, <1>4, <2>4 DEF SoundEntry
  <2>6. Reading(n)
    BY <2>1, <2>2, <2>3, <2>4 DEF Reading, PiecesSeen
  <2>7. SoundEntry(n)
    BY <2>4, <2>6 DEF SoundEntry, Reading, SawReal
  <2> QED
    BY <2>5, <2>7
<1> QED
  BY <1>3, <1>4

(* A call of another tool leaves the batch sound.                          *)
LEMMA CallsAreSeen ==
  ASSUME FilesInv, NEW f, Tame(f), NEW to \in Moves, Leaving(f, to)
  PROVE  FilesInv'
<1>1. PICK of : of = [p \in DOMAIN batch.of |-> Follows(batch.of[p], f, to)]
  OBVIOUS
<1>2. batch' = [pc |-> batch.pc, of |-> of]
  BY <1>1 DEF FilesInv, Leaving, Witness
<1>3. batch'.pc = batch.pc /\ batch'.of = of
  BY <1>2
<1>4. Tame(fs)'
  BY DEF Leaving, Tame
<1>5. \A p \in DOMAIN of : SoundEntry(of[p])
  BY <1>1, FollowingIsSound DEF FilesInv
<1> QED
  BY <1>1, <1>2, <1>3, <1>4, <1>5 DEF FilesInv

(* A piece more, and what has been read to its end.                        *)
LEMMA ReadingIsSound ==
  ASSUME NEW e, Reading(e)
  PROVE  /\ \A m \in Len(e.part) + 1 .. Len(e.text) :
               /\ Longer(e.part, e.text, m) \in Seq(Letter)
               /\ Len(Longer(e.part, e.text, m)) = m
               /\ PiecesSeen(Longer(e.part, e.text, m), e.seen)
         /\ \A part \in Seq(Letter) :
               PiecesSeen(part, e.seen) /\ (\E t \in e.seen : Len(part) >= Len(t)) =>
                   \A t \in e.seen : e.seen = {t} => part = t
<1>1. /\ e.part \in Seq(Letter) /\ e.text \in Seq(Letter) /\ e.text \in e.seen
      /\ e.seen \subseteq Seq(Letter) /\ PiecesSeen(e.part, e.seen)
  BY DEF Reading
<1>2. ASSUME NEW m \in Len(e.part) + 1 .. Len(e.text)
      PROVE  /\ Longer(e.part, e.text, m) \in Seq(Letter)
             /\ Len(Longer(e.part, e.text, m)) = m
             /\ PiecesSeen(Longer(e.part, e.text, m), e.seen)
  <2>1. PICK l : l = Longer(e.part, e.text, m)
    OBVIOUS
  <2>2. /\ m \in Nat /\ DOMAIN l = 1 .. m
        /\ \A i \in 1 .. m : l[i] = IF i <= Len(e.part) THEN e.part[i] ELSE e.text[i]
    BY <1>1, <2>1 DEF Longer
  <2>3. \A i \in 1 .. m : l[i] \in Letter
    BY <1>1, <2>2
  <2>4. l \in Seq(Letter) /\ Len(l) = m
    BY <2>1, <2>2, <2>3 DEF Longer
  <2>5. ASSUME NEW i \in 1 .. m
        PROVE  \E t \in e.seen : i \in DOMAIN t /\ t[i] = l[i]
    <3>1. CASE i <= Len(e.part)
      <4>1. i \in DOMAIN e.part /\ l[i] = e.part[i]
        BY <1>1, <2>2, <3>1
      <4> QED
        BY <1>1, <4>1 DEF PiecesSeen
    <3>2. CASE ~ (i <= Len(e.part))
      <4>1. i \in DOMAIN e.text /\ l[i] = e.text[i]
        BY <1>1, <2>2, <3>2
      <4> QED
        BY <1>1, <4>1
    <3> QED
      BY <3>1, <3>2
  <2> QED
    BY <2>1, <2>2, <2>4, <2>5 DEF PiecesSeen
<1>3. ASSUME NEW part \in Seq(Letter), PiecesSeen(part, e.seen),
             \E t \in e.seen : Len(part) >= Len(t), NEW t \in e.seen, e.seen = {t}
      PROVE  part = t
  <2>1. t \in Seq(Letter) /\ Len(part) >= Len(t)
    BY <1>1, <1>3
  <2>2. \A i \in DOMAIN part : i \in DOMAIN t /\ t[i] = part[i]
    BY <1>3 DEF PiecesSeen
  <2>3. Len(part) = Len(t)
    <3>1. CASE Len(part) = 0
      BY <2>1, <3>1
    <3>2. CASE Len(part) # 0
      <4>1. Len(part) \in DOMAIN part
        BY <3>2
      <4> QED
        BY <2>1, <2>2, <4>1
    <3> QED
      BY <3>1, <3>2
  <2> QED
    BY <2>1, <2>2, <2>3
<1> QED
  BY <1>2, <1>3

(* An entry that has its answer.                                           *)
LEMMA EntrySettled ==
  ASSUME NEW result, NEW seen
  PROVE  [BatchEntry("settled", result) EXCEPT !.seen = seen]
           = [stage |-> "settled", result |-> result, at |-> {}, text |-> <<>>, part |-> <<>>,
              seen |-> seen]
<1>1. ASSUME NEW b, b = [stage |-> b.stage, result |-> b.result, at |-> b.at, text |-> b.text,
                         part |-> b.part, seen |-> b.seen]
      PROVE  [b EXCEPT !.seen = seen]
               = [stage |-> b.stage, result |-> b.result, at |-> b.at, text |-> b.text,
                  part |-> b.part, seen |-> seen]
  BY <1>1
<1>2. PICK b : b = BatchEntry("settled", result)
  OBVIOUS
<1>3. /\ b.stage = "settled" /\ b.result = result /\ b.at = {} /\ b.text = <<>>
      /\ b.part = <<>>
      /\ b = [stage |-> b.stage, result |-> b.result, at |-> b.at, text |-> b.text,
             part |-> b.part, seen |-> b.seen]
  BY <1>2 DEF BatchEntry
<1>4. [b EXCEPT !.seen = seen]
        = [stage |-> b.stage, result |-> b.result, at |-> b.at, text |-> b.text,
           part |-> b.part, seen |-> seen]
  BY <1>1, <1>3, Zenon
<1> QED
  BY <1>2, <1>3, <1>4, Zenon

(* An entry that is replaced by a sound one.                               *)
LEMMA EntryReplaced ==
  ASSUME FilesInv, NEW p \in DOMAIN batch.of, NEW e, SoundEntry(e), SetEntry(p, e)
  PROVE  FilesInv'
<1>1. PICK of : of = [batch.of EXCEPT ![p] = e]
  OBVIOUS
<1>2. batch' = [pc |-> batch.pc, of |-> of] /\ fs' = fs
  BY <1>1 DEF FilesInv, SetEntry
<1>3. /\ DOMAIN of = DOMAIN batch.of /\ of = [q \in DOMAIN of |-> of[q]]
      /\ \A q \in DOMAIN of : of[q] = IF q = p THEN e ELSE batch.of[q]
  BY <1>1 DEF FilesInv
<1>4. batch'.pc = batch.pc /\ batch'.of = of
  BY <1>2
<1> QED
  BY <1>2, <1>3, <1>4 DEF FilesInv, Tame

(* A batch that starts, asks, opens, reads and returns reports what it saw.*)
LEMMA BatchStep ==
  ASSUME FilesInv, Batch
  PROVE  FilesInv'
<1>1. \A stage, result : stage # "read" /\ result.status # "ok" =>
         SoundEntry(BatchEntry(stage, result))
  BY DEF BatchEntry, SoundEntry, SawReal
<1>2. \A code : Error(code).status # "ok"
  BY DEF Error
<1>3. ASSUME NEW paths, BatchStart(paths)
      PROVE  FilesInv'
  <2>1. PICK of : of = [p \in paths |-> BatchEntry("stat", Error("pending"))]
    OBVIOUS
  <2>2. batch' = [pc |-> "reading", of |-> of] /\ fs' = fs
    BY <1>3, <2>1 DEF BatchStart
  <2>3. batch'.of = of
    BY <2>2
  <2>4. \A p \in DOMAIN of : SoundEntry(of[p])
    BY <1>1, <1>2, <2>1
  <2> QED
    BY <2>1, <2>2, <2>3, <2>4 DEF FilesInv, Tame
<1>4. ASSUME NEW p, NEW code, Settles(p, Error(code)), p \in DOMAIN batch.of
      PROVE  FilesInv'
  <2>1. PICK e : e = [stage |-> "settled", result |-> Error(code), at |-> {}, text |-> <<>>,
                      part |-> <<>>, seen |-> batch.of[p].seen]
    OBVIOUS
  <2>2. SetEntry(p, e)
    BY <1>4, <2>1, EntrySettled, Zenon DEF Settles
  <2>3. SoundEntry(e)
    BY <1>2, <2>1 DEF SoundEntry, SawReal
  <2> QED
    BY <1>4, <2>2, <2>3, EntryReplaced
<1>5. ASSUME NEW p, BatchStat(p)
      PROVE  FilesInv'
  <2>1. p \in DOMAIN batch.of
    BY <1>5 DEF BatchStat, AtStage
  <2>2. SoundEntry(BatchEntry("open", Error("pending")))
    BY <1>1, <1>2
  <2> QED
    BY <1>4, <1>5, <2>1, <2>2, EntryReplaced DEF BatchStat
<1>6. ASSUME NEW p \in BatchPaths, BatchOpen(p)
      PROVE  FilesInv'
  <2>1. p \in DOMAIN batch.of /\ p \in Path
    BY <1>6, BatchBounds DEF BatchOpen, AtStage
  <2>2. SoundEntry(Opened(p))
    <3>1. fs[p].text \in Seq(Letter) /\ <<>> \in Seq(Letter) /\ DOMAIN <<>> = {}
      BY <2>1 DEF FilesInv, Tame
    <3>2. Reading(Opened(p))
      BY <1>2, <2>1, <3>1 DEF Reading, Opened, PiecesSeen
    <3> QED
      BY <1>2, <3>2 DEF SoundEntry, SawReal, Opened
  <2> QED
    BY <1>4, <1>6, <2>1, <2>2, EntryReplaced DEF BatchOpen
<1>7. ASSUME NEW p, BatchRead(p)
      PROVE  FilesInv'
  <2>1. PICK e : e = batch.of[p]
    OBVIOUS
  <2>2. p \in DOMAIN batch.of /\ e.stage = "read"
    BY <1>7, <2>1 DEF BatchRead, AtStage
  <2>3. SoundEntry(e) /\ Reading(e)
    BY <2>1, <2>2 DEF FilesInv, SoundEntry
  <2>4. /\ e.text \in Seq(Letter) /\ e.part \in Seq(Letter) /\ e.seen \subseteq Seq(Letter)
        /\ e.text \in e.seen /\ PiecesSeen(e.part, e.seen) /\ e.result.status # "ok"
    BY <2>3 DEF Reading
  <2>5. ASSUME NEW part \in Seq(Letter), PiecesSeen(part, e.seen),
               \E t \in e.seen : Len(part) >= Len(t), Settles(p, Content(part))
        PROVE  FilesInv'
    <3>1. PICK n : n = [stage |-> "settled", result |-> Content(part), at |-> {}, text |-> <<>>,
                        part |-> <<>>, seen |-> e.seen]
      OBVIOUS
    <3>2. SetEntry(p, n)
      BY <2>1, <2>5, <3>1, EntrySettled, Zenon DEF Settles
    <3>3. \A t \in e.seen : e.seen = {t} => part = t
      BY <2>3, <2>5, ReadingIsSound
    <3>4. Content(part).content = part
      BY DEF Content
    <3>5. SoundEntry(n)
      BY <2>4, <2>5, <3>1, <3>3, <3>4 DEF SoundEntry, SawReal
    <3> QED
      BY <2>2, <3>2, <3>5, EntryReplaced
  <2>6. CASE Len(e.part) >= Len(e.text) /\ Settles(p, Content(e.part))
    BY <2>4, <2>5, <2>6
  <2>7. ASSUME NEW m \in Len(e.part) + 1 .. Len(e.text),
               \/ SetEntry(p, [e EXCEPT !.part = Longer(e.part, e.text, m)])
               \/ /\ m \in {Len(t) : t \in e.seen}
                  /\ Settles(p, Content(Longer(e.part, e.text, m)))
        PROVE  FilesInv'
    <3>1. PICK part : part = Longer(e.part, e.text, m)
      OBVIOUS
    <3>2. part \in Seq(Letter) /\ Len(part) = m /\ PiecesSeen(part, e.seen)
      BY <2>3, <3>1, ReadingIsSound
    <3>3. CASE SetEntry(p, [e EXCEPT !.part = part])
      <4>1. PICK n : n = [stage |-> e.stage, result |-> e.result, at |-> e.at, text |-> e.text,
                          part |-> part, seen |-> e.seen]
        OBVIOUS
      <4>2. [e EXCEPT !.part = part] = n
        BY <2>3, <4>1 DEF SoundEntry
      <4>3. SoundEntry(n)
        BY <2>3, <2>4, <3>2, <4>1 DEF SoundEntry, Reading, SawReal
      <4> QED
        BY <2>2, <3>3, <4>2, <4>3, EntryReplaced
    <3>4. CASE m \in {Len(t) : t \in e.seen} /\ Settles(p, Content(part))
      <4>1. \E t \in e.seen : Len(part) >= Len(t)
        BY <2>4, <3>2, <3>4
      <4> QED
        BY <2>5, <3>2, <3>4, <4>1
    <3> QED
      BY <2>7, <3>1, <3>3, <3>4
  <2> QED
    BY <1>4, <1>7, <2>1, <2>2, <2>6, <2>7 DEF BatchRead
<1>8. CASE BatchReturn
  <2>1. batch' = NoBatch /\ fs' = fs
    BY <1>8 DEF BatchReturn
  <2> QED
    BY <2>1 DEF FilesInv, Tame, NoBatch
<1> QED
  BY <1>3, <1>5, <1>6, <1>7, <1>8 DEF Batch

(* It holds throughout, from any such tree.                                *)
LEMMA FilesInvariant ==
  ASSUME NEW tree, Tame(tree)
  PROVE  FileSpec(tree) => []FilesInv
<1>1. FileInit(tree) => FilesInv
  BY DEF FileInit, FilesInv, NoBatch
<1>2. FilesInv /\ [FileNext]_fileVars => FilesInv'
  <2> SUFFICES ASSUME FilesInv, [FileNext]_fileVars
               PROVE  FilesInv'
    OBVIOUS
  <2>1. ASSUME UNCHANGED <<fs, batch>>
        PROVE  FilesInv'
    BY <2>1 DEF FilesInv, Tame
  <2>2. CASE Mutate \/ Look
    BY <2>1, <2>2, CallsAreTame, CallsAreSeen DEF Kept, FilesInv
  <2>3. CASE Batch
    BY <2>3, BatchStep
  <2>4. CASE UNCHANGED fileVars
    BY <2>1, <2>4 DEF fileVars
  <2> QED
    BY <2>2, <2>3, <2>4 DEF FileNext
<1> QED
  BY <1>1, <1>2, PTL DEF FileSpec

(* No sequence of calls, with whatever faults of the system calls, removes *)
(* or replaces a protected directory that was there at the start.          *)
THEOREM ProtectedTheorem ==
  ASSUME NEW tree, Tame(tree)
  PROVE  FileSpec(tree) => []ProtectedDirsRemain
<1>1. FilesInv => ProtectedDirsRemain
  BY DEF FilesInv, Tame, ProtectedDirsRemain
<1> QED
  BY <1>1, FilesInvariant, PTL

(* read_files_batch reports nothing but pieces that the file it opened   *)
(* held at their places while it was open, and the whole text of a  *)
(* file that nobody changed meanwhile.                                     *)
THEOREM BatchTheorem ==
  ASSUME NEW tree, Tame(tree)
  PROVE  FileSpec(tree) => []BatchSawRealContents
<1>1. FilesInv => BatchSawRealContents
  BY DEF FilesInv, SoundEntry, SawReal, PiecesSeen, BatchSawRealContents
<1> QED
  BY <1>1, FilesInvariant, PTL

(* What a move moves is at its source or at its destination afterwards.    *)
THEOREM MoveTheorem ==
  ASSUME NEW tree, Tame(tree)
  PROVE  FileSpec(tree) => []MovedContentSurvives
<1>1. FilesInv => MovedContentSurvives
  <2> SUFFICES ASSUME FilesInv, NEW p \in Inner, NEW q \in Inner, Stat(p) = "file",
                      NEW r \in MoveResults(p, q)
               PROVE  fs[p] \in {r.tree[p], r.tree[q]}
    BY DEF MovedContentSurvives
  <2>1. fs = [s \in Path |-> fs[s]] /\ p \in Path /\ q \in Path
    BY DEF FilesInv, Tame, Inner
  <2>2. CASE r = Leaves(fs, "fs-error")
    BY <2>2 DEF Leaves
  <2>3. CASE r = Leaves(Renamed(p, q), "ok")
    BY <2>1, <2>3 DEF Leaves, Renamed
  <2>4. ASSUME p # q, NEW n, r = Leaves([fs EXCEPT ![q] = n], "fs-error")
        PROVE  fs[p] \in {r.tree[p], r.tree[q]}
    BY <2>1, <2>4 DEF Leaves
  <2>5. CASE Device[p] # Device[q]
    BY <2>2, <2>3, <2>4, <2>5 DEF MoveResults, CopyFaults
  <2>6. CASE Device[p] = Device[q]
    BY <2>2, <2>3, <2>6 DEF MoveResults
  <2> QED
    BY <2>5, <2>6
<1> QED
  BY <1>1, FilesInvariant, PTL

-----------------------------------------------------------------------------
(* The rate limit.                                                         *)

(* The function that filters a sequence.                                   *)
Filters(times, f) ==
  f = [i \in 0 .. Len(times) |->
         IF i = 0 THEN <<>>
         ELSE IF Inside(times[i]) THEN Append(f[i - 1], times[i]) ELSE f[i - 1]]

(* When the timestamps outside the window come first, the filter leaves    *)
(* the rest of the sequence.                                               *)
LEMMA FilteredSuffix ==
  ASSUME NEW times \in Seq(Nat), NEW m \in 0 .. Len(times),
         \A i \in 1 .. m : ~ Inside(times[i]),
         \A i \in m + 1 .. Len(times) : Inside(times[i])
  PROVE  Fresh(times) = SubSeq(times, m + 1, Len(times))
<1> DEFINE n == Len(times)
           g == [i \in 0 .. n |-> SubSeq(times, m + 1, i)]
           f == CHOOSE f : Filters(times, f)
<1>1. n \in Nat /\ m \in Nat /\ m =< n /\ \A i \in 1 .. n : times[i] \in Nat
  BY LenProperties, ElementOfSeq
<1>2. Filters(times, g)
  <2> SUFFICES ASSUME NEW i \in 0 .. n
               PROVE  g[i] = IF i = 0 THEN <<>>
                             ELSE IF Inside(times[i]) THEN Append(g[i - 1], times[i]) ELSE g[i - 1]
    BY Zenon DEF Filters
  <2>1. CASE i =< m
    <3>1. g[i] = <<>> /\ (i # 0 => g[i - 1] = <<>>)
      BY <1>1, <2>1, SubSeqEmpty
    <3>2. i # 0 => ~ Inside(times[i])
      BY <1>1, <2>1
    <3> QED
      BY <3>1, <3>2
  <2>2. CASE i > m
    <3>1. i \in m + 1 .. n /\ i # 0 /\ i - 1 \in 0 .. n /\ Inside(times[i])
      BY <1>1, <2>2
    <3>2. \A j \in m + 1 .. i : times[j] \in Nat
      BY <1>1, <3>1
    <3>3. SubSeq(times, m + 1, i - 1) \in Seq(Nat) /\ times[i] \in Nat
      BY <1>1, <3>1, <3>2, SubSeqProperties
    <3>4. SubSeq(times, m + 1, i) = SubSeq(times, m + 1, i - 1) \o <<times[i]>>
      BY <1>1, <3>1, <3>2, SubSeqRecursiveSecond
    <3>5. \A s \in Seq(Nat), t \in Nat : Append(s, t) = s \o <<t>>
      BY AppendIsConcat, Zenon
    <3>6. SubSeq(times, m + 1, i) = Append(SubSeq(times, m + 1, i - 1), times[i])
      BY <3>3, <3>4, <3>5, Zenon
    <3> QED
      BY <3>1, <3>6
  <2>3. i =< m \/ i > m
    BY <1>1
  <2> QED
    BY <2>1, <2>2, <2>3, Zenon
<1> HIDE DEF g
<1>3. Filters(times, f)
  BY <1>2, Zenon
<1>4. Fresh(times) = f[n]
  BY DEF Fresh, Filters
<1> HIDE DEF f
<1>5. \A i \in 0 .. n : f[i] = g[i]
  <2> DEFINE bad == {i \in 0 .. n : f[i] # g[i]}
  <2> SUFFICES ASSUME bad # {}
               PROVE  FALSE
    OBVIOUS
  <2>1. PICK i \in bad : \A j \in bad : i =< j
    <3>1. bad \subseteq Nat
      BY <1>1
    <3> HIDE DEF bad
    <3> QED
      BY <3>1, LeastNatural
  <2>2. \A h : Filters(times, h) =>
          h[i] = IF i = 0 THEN <<>>
                 ELSE IF Inside(times[i]) THEN Append(h[i - 1], times[i]) ELSE h[i - 1]
    BY <2>1 DEF Filters
  <2>3. ASSUME i # 0
        PROVE  f[i - 1] = g[i - 1]
    <3>1. i - 1 \in 0 .. n /\ ~ (i =< i - 1)
      BY <1>1, <2>1, <2>3
    <3>2. i - 1 \notin bad
      BY <2>1, <3>1
    <3> QED
      BY <3>1, <3>2
  <2>4. f[i] = g[i]
    BY <1>2, <1>3, <2>2, <2>3
  <2> QED
    BY <2>1, <2>4
<1>6. g[n] = SubSeq(times, m + 1, n)
  BY <1>1 DEF g
<1>7. n \in 0 .. n
  BY <1>1
<1>8. f[n] = g[n]
  BY <1>5, <1>7
<1> QED
  BY <1>4, <1>6, <1>8, Zenon

(* What is true of a caller at the time n, whose tracked timestamps are t, *)
(* of whose permitted calls h the first b came before the last reload: the *)
(* tracked ones are the last ones permitted, and those that have been      *)
(* dropped are out of the window.                                          *)
Tracks(t, h, b, n) ==
  /\ t \in Seq(Nat) /\ h \in Seq(Nat) /\ b \in Nat
  /\ b + Len(t) =< Len(h) /\ Len(t) =< MaxCalls
  /\ \A i \in 1 .. Len(h) : h[i] =< n
  /\ \A i, j \in 1 .. Len(h) : i =< j => h[i] =< h[j]
  /\ \A i \in 1 .. Len(t) : t[i] = h[Len(h) - Len(t) + i]
  /\ \A i \in b + 1 .. Len(h) - Len(t) : n - h[i] >= Window
  /\ \A i \in b + 1 .. Len(h) - MaxCalls : h[i + MaxCalls] - h[i] >= Window

RateInv ==
  /\ now \in Nat
  /\ tracked = [k \in Callers |-> tracked[k]]
  /\ permitted = [k \in Callers |-> permitted[k]]
  /\ base = [k \in Callers |-> base[k]]
  /\ \A k \in Callers : Tracks(tracked[k], permitted[k], base[k], now)

(* Sliding the window drops the timestamps outside of it and no other.     *)
LEMMA Slides ==
  ASSUME now \in Nat, NEW t, NEW h, NEW b, Tracks(t, h, b, now)
  PROVE  /\ Tracks(Fresh(t), h, b, now)
         /\ \A i \in 1 .. Len(Fresh(t)) : now - Fresh(t)[i] < Window
<1> DEFINE n == Len(t)
           L == Len(h)
<1>1. /\ n \in Nat /\ L \in Nat /\ b \in Nat /\ Window \in Nat /\ MaxCalls \in Nat
      /\ \A i \in 1 .. n : t[i] \in Nat
      /\ \A i \in 1 .. L : h[i] \in Nat
  BY LimitIsPositive, LenProperties, ElementOfSeq DEF Tracks
<1>2. \A i, j \in 1 .. n : i =< j => t[i] =< t[j]
  <2> SUFFICES ASSUME NEW i \in 1 .. n, NEW j \in 1 .. n, i =< j
               PROVE  t[i] =< t[j]
    OBVIOUS
  <2>1. PICK x, y : x = L - n + i /\ y = L - n + j
    OBVIOUS
  <2>2. x \in 1 .. L /\ y \in 1 .. L /\ x =< y
    <3>1. n =< L
      BY <1>1 DEF Tracks
    <3> QED
      BY <1>1, <2>1, <3>1
  <2>3. t[i] = h[x] /\ t[j] = h[y]
    BY <2>1 DEF Tracks
  <2>4. h[x] =< h[y]
    BY <2>2 DEF Tracks
  <2> QED
    BY <2>3, <2>4
<1> DEFINE tails == {i \in 0 .. n : \A j \in i + 1 .. n : Inside(t[j])}
<1>3. n \in tails
  BY <1>1
<1>4. PICK m \in tails : \A i \in tails : m =< i
  <2>1. tails \subseteq Nat
    BY <1>1
  <2> HIDE DEF tails
  <2> QED
    BY <1>3, <2>1, LeastNatural
<1>5. \A i \in 1 .. m : ~ Inside(t[i])
  <2>1. CASE m = 0
    BY <1>1, <2>1
  <2>2. CASE m # 0
    <3>1. m - 1 \in 0 .. n /\ ~ (m =< m - 1) /\ m \in 1 .. n
      BY <1>1, <1>4, <2>2
    <3>2. m - 1 \notin tails
      BY <1>4, <3>1
    <3>3. PICK j \in (m - 1) + 1 .. n : ~ Inside(t[j])
      BY <3>1, <3>2
    <3>4. j = m
      BY <1>1, <1>4, <3>1, <3>3
    <3> SUFFICES ASSUME NEW i \in 1 .. m
                 PROVE  ~ Inside(t[i])
      OBVIOUS
    <3>5. i \in 1 .. n /\ t[i] =< t[m]
      BY <1>1, <1>2, <3>1
    <3>6. ~ (now - t[m] < Window) /\ t[i] \in Nat /\ t[m] \in Nat
      BY <1>1, <3>1, <3>3, <3>4, <3>5 DEF Inside
    <3> QED
      BY <1>1, <3>5, <3>6 DEF Inside
  <2> QED
    BY <2>1, <2>2
<1>6. m \in 0 .. n /\ \A i \in m + 1 .. n : Inside(t[i])
  BY <1>4
<1> HIDE DEF tails
<1>7. Fresh(t) = SubSeq(t, m + 1, n)
  BY <1>5, <1>6, FilteredSuffix DEF Tracks
<1>8. PICK s : s = Fresh(t)
  OBVIOUS
<1>9. /\ s \in Seq(Nat) /\ Len(s) = n - m
      /\ \A i \in 1 .. n - m : s[i] = t[m + i]
  <2>1. \A i \in m + 1 .. n : t[i] \in Nat
    BY <1>1, <1>6
  <2>2. m + 1 \in Int /\ n \in Int
    BY <1>1, <1>6
  <2>3. /\ s \in Seq(Nat) /\ Len(s) = IF m + 1 =< n THEN n - (m + 1) + 1 ELSE 0
        /\ \A i \in 1 .. n - (m + 1) + 1 : s[i] = t[m + 1 + i - 1]
    BY <1>7, <1>8, <2>1, <2>2, SubSeqProperties
  <2> QED
    BY <1>1, <1>6, <2>3
<1>10. ASSUME NEW i \in b + 1 .. L - Len(s)
       PROVE  now - h[i] >= Window
  <2>1. CASE i =< L - n
    BY <1>1, <2>1 DEF Tracks
  <2>2. CASE i > L - n
    <3>1. PICK j \in 1 .. m : i = L - n + j
      <4>1. i - (L - n) \in 1 .. m /\ i = L - n + (i - (L - n))
        BY <1>1, <1>6, <1>9, <2>2
      <4> QED
        BY <4>1, Zenon
    <3>2. j \in 1 .. n /\ ~ Inside(t[j])
      BY <1>1, <1>5, <1>6
    <3>3. t[j] = h[i]
      BY <3>1, <3>2 DEF Tracks
    <3>4. t[j] \in Nat
      BY <1>1, <3>2
    <3> QED
      BY <1>1, <3>2, <3>3, <3>4 DEF Inside
  <2> QED
    BY <1>1, <1>6, <1>9, <2>1, <2>2
<1>11. ASSUME NEW i \in 1 .. Len(s)
       PROVE  s[i] = h[L - Len(s) + i] /\ now - s[i] < Window
  <2>1. PICK j \in 1 .. n : j = m + i /\ j \in m + 1 .. n /\ s[i] = t[j]
    BY <1>1, <1>6, <1>9
  <2>2. t[j] = h[L - n + j] /\ Inside(t[j])
    BY <1>6, <2>1 DEF Tracks
  <2>3. L - n + j = L - Len(s) + i
    BY <1>1, <1>6, <1>9, <2>1
  <2> QED
    BY <2>1, <2>2, <2>3 DEF Inside
<1>12. b + Len(s) =< L /\ Len(s) =< MaxCalls
  BY <1>1, <1>6, <1>9 DEF Tracks
<1>13. Tracks(s, h, b, now)
  BY <1>9, <1>10, <1>11, <1>12 DEF Tracks
<1> QED
  BY <1>8, <1>11, <1>13

(* A call is refused exactly when the call MaxCalls permits ago, under the *)
(* same engine, is inside the window.                                      *)
LEMMA RefusedExactly ==
  ASSUME now \in Nat, NEW t, NEW h, NEW b, Tracks(t, h, b, now)
  PROVE  Len(Fresh(t)) >= MaxCalls <=>
            /\ Len(h) - b >= MaxCalls
            /\ now - h[Len(h) - MaxCalls + 1] < Window
<1>1. PICK s : s = Fresh(t)
  OBVIOUS
<1>2. Tracks(s, h, b, now) /\ \A i \in 1 .. Len(s) : now - s[i] < Window
  BY <1>1, Slides
<1>3. /\ Len(s) \in Nat /\ Len(h) \in Nat /\ b \in Nat /\ MaxCalls \in Nat \ {0}
      /\ Window \in Nat /\ Len(s) =< MaxCalls /\ b + Len(s) =< Len(h)
      /\ \A i \in 1 .. Len(h) : h[i] \in Nat
  BY <1>2, LimitIsPositive, LenProperties, ElementOfSeq DEF Tracks
<1>4. CASE Len(s) >= MaxCalls
  <2>1. Len(s) = MaxCalls /\ 1 \in 1 .. Len(s)
    BY <1>3, <1>4
  <2>2. now - s[1] < Window /\ s[1] = h[Len(h) - MaxCalls + 1]
    BY <1>2, <2>1 DEF Tracks
  <2> QED
    BY <1>1, <1>3, <1>4, <2>1, <2>2
<1>5. CASE ~ (Len(s) >= MaxCalls)
  <2> SUFFICES ASSUME Len(h) - b >= MaxCalls, now - h[Len(h) - MaxCalls + 1] < Window
               PROVE  FALSE
    BY <1>1, <1>5
  <2>1. PICK i : i = Len(h) - MaxCalls + 1
    OBVIOUS
  <2>2. i \in b + 1 .. Len(h) - Len(s) /\ i \in 1 .. Len(h)
    BY <1>3, <1>5, <2>1
  <2>3. now - h[i] >= Window /\ h[i] \in Nat
    BY <1>2, <1>3, <2>2 DEF Tracks
  <2> QED
    BY <1>3, <2>1, <2>3
<1> QED
  BY <1>4, <1>5

(* A permitted call joins the others.                                      *)
LEMMA Records ==
  ASSUME NEW n \in Nat, NEW s, NEW h, NEW b, Tracks(s, h, b, n), Len(s) < MaxCalls
  PROVE  Tracks(Append(s, n), Append(h, n), b, n)
<1>1. PICK t, g : t = Append(s, n) /\ g = Append(h, n)
  OBVIOUS
<1>2. /\ Len(s) \in Nat /\ Len(h) \in Nat /\ b \in Nat /\ MaxCalls \in Nat \ {0}
      /\ Window \in Nat /\ \A i \in 1 .. Len(h) : h[i] \in Nat
  BY LimitIsPositive, LenProperties, ElementOfSeq DEF Tracks
<1>3. /\ t \in Seq(Nat) /\ Len(t) = Len(s) + 1 /\ t[Len(s) + 1] = n
      /\ \A i \in 1 .. Len(s) : t[i] = s[i]
  BY <1>1, AppendProperties DEF Tracks
<1>4. /\ g \in Seq(Nat) /\ Len(g) = Len(h) + 1 /\ g[Len(h) + 1] = n
      /\ \A i \in 1 .. Len(h) : g[i] = h[i]
  BY <1>1, AppendProperties DEF Tracks
<1>5. b + Len(t) =< Len(g) /\ Len(t) =< MaxCalls
  BY <1>2, <1>3, <1>4 DEF Tracks
<1>6. ASSUME NEW i \in 1 .. Len(g)
      PROVE  g[i] =< n /\ g[i] \in Nat
  <2>1. CASE i = Len(h) + 1
    BY <1>4, <2>1
  <2>2. CASE i # Len(h) + 1
    <3>1. i \in 1 .. Len(h)
      BY <1>2, <1>4, <2>2
    <3> QED
      BY <1>2, <1>4, <3>1 DEF Tracks
  <2> QED
    BY <2>1, <2>2
<1>7. ASSUME NEW i \in 1 .. Len(g), NEW j \in 1 .. Len(g), i =< j
      PROVE  g[i] =< g[j]
  <2>1. CASE j = Len(h) + 1
    BY <1>4, <1>6, <2>1
  <2>2. CASE j # Len(h) + 1
    <3>1. i \in 1 .. Len(h) /\ j \in 1 .. Len(h)
      BY <1>2, <1>4, <1>7, <2>2
    <3>2. h[i] =< h[j]
      BY <1>7, <3>1 DEF Tracks
    <3> QED
      BY <1>4, <3>1, <3>2
  <2> QED
    BY <2>1, <2>2
<1>8. ASSUME NEW i \in 1 .. Len(t)
      PROVE  t[i] = g[Len(g) - Len(t) + i]
  <2>1. CASE i = Len(s) + 1
    BY <1>2, <1>3, <1>4, <2>1
  <2>2. CASE i # Len(s) + 1
    <3>1. PICK x : x = Len(h) - Len(s) + i
      OBVIOUS
    <3>2. i \in 1 .. Len(s)
      BY <1>2, <1>3, <2>2
    <3>3. x \in 1 .. Len(h) /\ x = Len(g) - Len(t) + i
      BY <1>2, <1>3, <1>4, <3>1, <3>2 DEF Tracks
    <3>4. s[i] = h[x]
      BY <3>1, <3>2 DEF Tracks
    <3> QED
      BY <1>3, <1>4, <3>2, <3>3, <3>4
  <2> QED
    BY <2>1, <2>2
<1>9. ASSUME NEW i \in b + 1 .. Len(g) - Len(t)
      PROVE  n - g[i] >= Window
  <2>1. i \in b + 1 .. Len(h) - Len(s) /\ i \in 1 .. Len(h)
    BY <1>2, <1>3, <1>4
  <2> QED
    BY <1>4, <2>1 DEF Tracks
<1>10. ASSUME NEW i \in b + 1 .. Len(g) - MaxCalls
       PROVE  g[i + MaxCalls] - g[i] >= Window
  <2>1. CASE i = Len(g) - MaxCalls
    <3>1. i \in b + 1 .. Len(h) - Len(s) /\ i \in 1 .. Len(h) /\ i + MaxCalls = Len(h) + 1
      BY <1>2, <1>4, <2>1
    <3> QED
      BY <1>4, <3>1 DEF Tracks
  <2>2. CASE i # Len(g) - MaxCalls
    <3>1. /\ i \in b + 1 .. Len(h) - MaxCalls /\ i \in 1 .. Len(h)
          /\ i + MaxCalls \in 1 .. Len(h)
      BY <1>2, <1>4, <2>2
    <3> QED
      BY <1>4, <3>1 DEF Tracks
  <2> QED
    BY <2>1, <2>2
<1>11. Tracks(t, g, b, n)
  BY <1>2, <1>3, <1>4, <1>5, <1>6, <1>7, <1>8, <1>9, <1>10 DEF Tracks
<1> QED
  BY <1>1, <1>11

(* Every step of the engine keeps the discipline.                          *)
LEMMA RateInvariant == RateSpec => []RateInv
<1>1. RateInit => RateInv
  <2> SUFFICES ASSUME RateInit
               PROVE  RateInv
    OBVIOUS
  <2>1. Tracks(<<>>, <<>>, 0, 0)
    BY LimitIsPositive DEF Tracks
  <2> QED
    BY <2>1 DEF RateInit, RateInv
<1>2. RateInv /\ [RateNext]_rateVars => RateInv'
  <2> SUFFICES ASSUME RateInv, [RateNext]_rateVars
               PROVE  RateInv'
    OBVIOUS
  <2>1. now \in Nat /\ \A k \in Callers : Tracks(tracked[k], permitted[k], base[k], now)
    BY DEF RateInv
  <2>2. ASSUME NEW k \in Callers, Permit(k)
        PROVE  RateInv'
    <3>1. PICK t, h : /\ t = Append(Fresh(tracked[k]), now)
                      /\ h = Append(permitted[k], now)
      OBVIOUS
    <3>2. Tracks(t, h, base[k], now)
      <4>1. Tracks(Fresh(tracked[k]), permitted[k], base[k], now)
        BY <2>1, Slides
      <4>2. Len(Fresh(tracked[k])) < MaxCalls
        <5>1. Len(Fresh(tracked[k])) \in Nat /\ MaxCalls \in Nat
          BY <4>1, LimitIsPositive, LenProperties DEF Tracks
        <5> QED
          BY <2>2, <5>1 DEF Permit, Exceeded
      <4> QED
        BY <2>1, <3>1, <4>1, <4>2, Records
    <3>3. /\ tracked' = [tracked EXCEPT ![k] = t] /\ permitted' = [permitted EXCEPT ![k] = h]
          /\ now' = now /\ base' = base
      BY <2>2, <3>1 DEF Permit
    <3> QED
      BY <2>1, <3>2, <3>3 DEF RateInv
  <2>3. ASSUME NEW k \in Callers, Refuse(k)
        PROVE  RateInv'
    <3>1. PICK t : t = Fresh(tracked[k])
      OBVIOUS
    <3>2. Tracks(t, permitted[k], base[k], now)
      BY <2>1, <3>1, Slides
    <3>3. /\ tracked' = [tracked EXCEPT ![k] = t]
          /\ permitted' = permitted /\ now' = now /\ base' = base
      BY <2>3, <3>1 DEF Refuse
    <3> QED
      BY <2>1, <3>2, <3>3 DEF RateInv
  <2>4. CASE Cleanup
    <3>1. PICK t : t = [k \in Callers |-> Fresh(tracked[k])]
      OBVIOUS
    <3>2. \A k \in Callers : Tracks(t[k], permitted[k], base[k], now)
      BY <2>1, <3>1, Slides
    <3>3. tracked' = t /\ permitted' = permitted /\ now' = now /\ base' = base
      BY <2>4, <3>1 DEF Cleanup
    <3> QED
      BY <2>1, <3>1, <3>2, <3>3 DEF RateInv
  <2>5. CASE Reload
    <3>1. ASSUME NEW k \in Callers
          PROVE  Tracks(<<>>, permitted[k], Len(permitted[k]), now)
      <4>1. PICK h : h = permitted[k]
        OBVIOUS
      <4>2. PICK t : t = <<>>
        OBVIOUS
      <4>3. /\ t \in Seq(Nat) /\ Len(t) = 0 /\ Len(h) \in Nat
            /\ MaxCalls \in Nat /\ h \in Seq(Nat)
        BY <2>1, <4>1, <4>2, LimitIsPositive, LenProperties, EmptySeq DEF Tracks
      <4>4. /\ \A i \in 1 .. Len(h) : h[i] =< now
            /\ \A i, j \in 1 .. Len(h) : i =< j => h[i] =< h[j]
        BY <2>1, <4>1 DEF Tracks
      <4>5. Tracks(t, h, Len(h), now)
        BY <4>3, <4>4 DEF Tracks
      <4> QED
        BY <4>1, <4>2, <4>5
    <3> QED
      BY <2>1, <2>5, <3>1 DEF RateInv, Reload
  <2>6. CASE Tick
    <3>1. PICK n : n = now + 1
      OBVIOUS
    <3>2. ASSUME NEW k \in Callers
          PROVE  Tracks(tracked[k], permitted[k], base[k], n)
      <4>1. PICK t, h, b : t = tracked[k] /\ h = permitted[k] /\ b = base[k]
        OBVIOUS
      <4>2. Tracks(t, h, b, now)
        BY <2>1, <4>1
      <4>3. /\ \A i \in 1 .. Len(h) : h[i] \in Nat /\ h[i] =< n
            /\ \A i \in b + 1 .. Len(h) - Len(t) : n - h[i] >= Window
        <5>1. /\ Len(h) \in Nat /\ Len(t) \in Nat /\ b \in Nat /\ Window \in Nat
              /\ \A i \in 1 .. Len(h) : h[i] \in Nat
          BY <4>2, LimitIsPositive, LenProperties, ElementOfSeq DEF Tracks
        <5>2. ASSUME NEW i \in 1 .. Len(h)
              PROVE  h[i] =< n
          <6>1. h[i] =< now
            BY <4>2 DEF Tracks
          <6> QED
            BY <2>1, <3>1, <5>1, <6>1
        <5>3. ASSUME NEW i \in b + 1 .. Len(h) - Len(t)
              PROVE  n - h[i] >= Window
          <6>1. now - h[i] >= Window
            BY <4>2 DEF Tracks
          <6>2. i \in 1 .. Len(h)
            BY <5>1
          <6> QED
            BY <2>1, <3>1, <5>1, <6>1, <6>2
        <5> QED
          BY <5>1, <5>2, <5>3
      <4>4. Tracks(t, h, b, n)
        BY <4>2, <4>3 DEF Tracks
      <4> QED
        BY <4>1, <4>4
    <3>3. now' = n /\ n \in Nat /\ UNCHANGED <<tracked, permitted, base>>
      BY <2>1, <2>6, <3>1 DEF Tick
    <3> QED
      BY <3>2, <3>3 DEF RateInv
  <2>7. CASE UNCHANGED rateVars
    BY <2>1, <2>7 DEF RateInv, rateVars
  <2> QED
    BY <2>2, <2>3, <2>4, <2>5, <2>6, <2>7 DEF RateNext
<1> QED
  BY <1>1, <1>2, PTL DEF RateSpec

(* Under one engine the sliding window is exact: a call is refused if and  *)
(* only if it would be one too many within some window, however often the  *)
(* window has been slid, and the timestamps kept are bounded.              *)
THEOREM RateLimitTheorem == RateSpec => []LimitIsExact
<1>1. RateInv => LimitIsExact
  <2> SUFFICES ASSUME RateInv, NEW k \in Callers
               PROVE  /\ \A i \in base[k] + 1 .. Len(permitted[k]) - MaxCalls :
                            permitted[k][i + MaxCalls] - permitted[k][i] >= Window
                      /\ Exceeded(k) <=>
                            /\ Len(permitted[k]) - base[k] >= MaxCalls
                            /\ now - permitted[k][Len(permitted[k]) - MaxCalls + 1] < Window
                      /\ Len(tracked[k]) =< MaxCalls
    BY DEF LimitIsExact
  <2>1. now \in Nat /\ Tracks(tracked[k], permitted[k], base[k], now)
    BY DEF RateInv
  <2>2. Exceeded(k) <=> /\ Len(permitted[k]) - base[k] >= MaxCalls
                        /\ now - permitted[k][Len(permitted[k]) - MaxCalls + 1] < Window
    BY <2>1, RefusedExactly DEF Exceeded
  <2> QED
    BY <2>1, <2>2 DEF Tracks
<1> QED
  BY <1>1, RateInvariant, PTL

-----------------------------------------------------------------------------
(* The daily budget.                                                       *)

(* What is true of the budget at every moment.  An entry that was not lost *)
(* is in the log, and on a day that lost none the tracker has counted what *)
(* the day has counted, no more while it is its own day, and at least what *)
(* was let through.                                                        *)
Limit(limit) == limit = NoLimit \/ limit \in Nat \ {0}
Unreached(n, limit) == limit # NoLimit => n < limit

BudgetInv ==
  /\ today \in 0 .. MaxDay
  /\ log \in [tokens : [0 .. MaxDay -> Nat], torn : BOOLEAN]
  /\ budget \in [day : Nat, tokens : Nat, hard : BOOLEAN, limit : Int, costLimit : Int]
  /\ budget.day =< today /\ Limit(budget.limit) /\ Limit(budget.costLimit)
  /\ spent \in [0 .. MaxDay -> [counted : Nat, admitted : Nat, lost : BOOLEAN]]
  /\ \A d \in 0 .. MaxDay : ~ spent[d].lost => log.tokens[d] = spent[d].counted
  /\ \A d \in 0 .. MaxDay : d > today => spent[d].counted = 0 /\ spent[d].admitted = 0
  /\ ~ spent[today].lost =>
        /\ spent[today].admitted =< spent[today].counted
        /\ spent[today].counted =< budget.tokens
        /\ budget.hard => /\ Unreached(spent[today].admitted, budget.limit)
                          /\ Unreached(estimateCost(Model, spent[today].admitted),
                                       budget.costLimit)
  /\ budget.day = today /\ ~ spent[today].lost => budget.tokens = spent[today].counted

(* A price is a number, whatever the model.                                *)
LEMMA PriceIsNat ==
  ASSUME NEW model
  PROVE  resolvePricing(model) \in Nat
<1> DEFINE keys == {i \in DOMAIN PRICING : IsPrefix(PRICING[i][1], model)}
           better(i) == \A j \in keys : Len(PRICING[j][1]) =< Len(PRICING[i][1])
           rests == {10 - Len(PRICING[i][1]) : i \in keys}
<1>1. DOMAIN PRICING = 1 .. 8
  BY DEF PRICING
<1>2. \A i \in 1 .. 8 : PRICING[i][2] \in Nat /\ Len(PRICING[i][1]) \in 1 .. 3
  BY DEF PRICING
<1> HIDE DEF keys
<1>3. CASE keys = {}
  BY <1>3 DEF resolvePricing, keys
<1>4. CASE keys # {}
  <2>1. keys \subseteq 1 .. 8
    BY <1>1 DEF keys
  <2>2. rests \subseteq Nat /\ rests # {}
    <3>1. \A i \in keys : Len(PRICING[i][1]) \in 1 .. 3
      BY <1>2, <2>1
    <3>2. \A x \in 1 .. 3 : 10 - x \in Nat
      OBVIOUS
    <3>3. \A i \in keys : 10 - Len(PRICING[i][1]) \in Nat
      BY <3>1, <3>2, Zenon
    <3> QED
      BY <1>4, <3>3
  <2> HIDE DEF rests
  <2>3. PICK r \in rests : \A q \in rests : r =< q
    BY <2>2, LeastNatural
  <2>4. \E i \in keys : better(i)
    <3>1. PICK i \in keys : r = 10 - Len(PRICING[i][1])
      BY <2>3 DEF rests
    <3>2. ASSUME NEW j \in keys
          PROVE  Len(PRICING[j][1]) =< Len(PRICING[i][1])
      <4>1. r =< 10 - Len(PRICING[j][1])
        BY <2>3 DEF rests
      <4>2. Len(PRICING[j][1]) \in 1 .. 3 /\ Len(PRICING[i][1]) \in 1 .. 3
        BY <1>2, <2>1
      <4> QED
        BY <3>1, <4>1, <4>2
    <3> QED
      BY <3>2
  <2>5. PICK best : best = CHOOSE i \in keys : better(i)
    OBVIOUS
  <2>6. best \in keys
    BY <2>4, <2>5
  <2>7. resolvePricing(model) = PRICING[best][2]
    BY <1>4, <2>5 DEF resolvePricing, keys
  <2> QED
    BY <1>2, <2>1, <2>6, <2>7
<1> QED
  BY <1>3, <1>4

(* More tokens do not cost less.                                           *)
LEMMA CostsGrow ==
  ASSUME NEW a \in Nat, NEW b \in Nat, a =< b
  PROVE  /\ estimateCost(Model, a) \in Nat /\ estimateCost(Model, b) \in Nat
         /\ estimateCost(Model, a) =< estimateCost(Model, b)
         /\ estimateCost(Model, 0) = 0
<1>1. PICK p \in Nat : p = resolvePricing(Model)
  BY PriceIsNat
<1>2. PICK c \in Nat : b = a + c
  <2>1. PICK c : c = b - a
    OBVIOUS
  <2>2. c \in Nat /\ b = a + c
    BY <2>1
  <2> QED
    BY <2>2
<1>3. p * b = p * a + p * c /\ p * a \in Nat /\ p * c \in Nat /\ p * b \in Nat /\ p * 0 = 0
  BY <1>2
<1> QED
  BY <1>1, <1>3 DEF estimateCost

(* Nothing has been counted or let through.                                *)
LEMMA BudgetInitInv ==
  BudgetInit => BudgetInv
<1> SUFFICES ASSUME BudgetInit
             PROVE  BudgetInv
  OBVIOUS
<1> USE BudgetBounds DEF BudgetInit
<1>1. Limit(budget.limit) /\ Limit(budget.costLimit)
  BY DEF Limit, NoLimit
<1>2. /\ today \in 0 .. MaxDay /\ budget.day = 0 /\ budget.tokens = 0
      /\ log \in [tokens : [0 .. MaxDay -> Nat], torn : BOOLEAN]
      /\ spent \in [0 .. MaxDay -> [counted : Nat, admitted : Nat, lost : BOOLEAN]]
      /\ \A d \in 0 .. MaxDay : log.tokens[d] = 0 /\ spent[d].counted = 0
                                /\ spent[d].admitted = 0
  OBVIOUS
<1>3. budget \in [day : Nat, tokens : Nat, hard : BOOLEAN, limit : Int, costLimit : Int]
  BY DEF NoLimit
<1>4. /\ Unreached(spent[today].admitted, budget.limit)
      /\ Unreached(estimateCost(Model, spent[today].admitted), budget.costLimit)
  <2>1. estimateCost(Model, 0) = 0
    <3>1. 0 \in Nat /\ 0 =< 0
      OBVIOUS
    <3> QED
      BY <3>1, CostsGrow
  <2> QED
    BY <1>1, <1>2, <2>1 DEF Limit, Unreached
<1>5. budget.tokens = spent[today].counted
  BY <1>2
<1> QED
  BY <1>1, <1>2, <1>3, <1>4, <1>5 DEF BudgetInv

(* A call is counted, and let through only while the count is below the    *)
(* limits; its entry is in the log unless it was lost.                     *)
LEMMA BudgetCallInv ==
  ASSUME BudgetInv, NEW n \in 1 .. MaxTokens, BudgetCall(n)
  PROVE  BudgetInv'
<1> USE BudgetBounds
<1>1. n \in Nat
  OBVIOUS
<1>2. /\ today \in 0 .. MaxDay /\ today' = today
      /\ log \in [tokens : [0 .. MaxDay -> Nat], torn : BOOLEAN]
      /\ budget \in [day : Nat, tokens : Nat, hard : BOOLEAN, limit : Int, costLimit : Int]
      /\ budget.day =< today /\ Limit(budget.limit) /\ Limit(budget.costLimit)
      /\ spent \in [0 .. MaxDay -> [counted : Nat, admitted : Nat, lost : BOOLEAN]]
      /\ budget' = [budget EXCEPT !.tokens = budget.tokens + n]
  BY DEF BudgetInv, BudgetCall
<1>3. /\ \A d \in 0 .. MaxDay : ~ spent[d].lost => log.tokens[d] = spent[d].counted
      /\ \A d \in 0 .. MaxDay : d > today => spent[d].counted = 0 /\ spent[d].admitted = 0
  BY DEF BudgetInv
<1>4. ~ spent[today].lost =>
        /\ spent[today].admitted =< spent[today].counted
        /\ spent[today].counted =< budget.tokens
        /\ budget.hard => /\ Unreached(spent[today].admitted, budget.limit)
                          /\ Unreached(estimateCost(Model, spent[today].admitted),
                                       budget.costLimit)
  BY DEF BudgetInv
<1>5. budget.day = today /\ ~ spent[today].lost => budget.tokens = spent[today].counted
  BY DEF BudgetInv
<1>6. PICK how \in {"whole", "torn", "failed"} :
        /\ log' = Written(n, how)
        /\ spent' = [spent EXCEPT ![today] =
              [counted |-> spent[today].counted + n,
               admitted |-> IF check THEN spent[today].admitted
                                     ELSE spent[today].admitted + n,
               lost |-> spent[today].lost \/ how # "whole" \/ log.torn]]
  BY DEF BudgetCall
<1>7. PICK blocked \in BOOLEAN : blocked <=> check
  OBVIOUS
<1>8. PICK row \in [counted : Nat, admitted : Nat, lost : BOOLEAN] :
        /\ row.counted = spent[today].counted + n
        /\ row.admitted = IF blocked THEN spent[today].admitted ELSE spent[today].admitted + n
        /\ row.lost <=> spent[today].lost \/ how # "whole" \/ log.torn
        /\ spent' = [spent EXCEPT ![today] = row]
  <2>1. PICK row : row = [counted |-> spent[today].counted + n,
                          admitted |-> IF check THEN spent[today].admitted
                                                ELSE spent[today].admitted + n,
                          lost |-> spent[today].lost \/ how # "whole" \/ log.torn]
    OBVIOUS
  <2>2. /\ row.counted = spent[today].counted + n
        /\ row.admitted = IF check THEN spent[today].admitted ELSE spent[today].admitted + n
        /\ row.lost = (spent[today].lost \/ how # "whole" \/ log.torn)
        /\ row = [counted |-> row.counted, admitted |-> row.admitted, lost |-> row.lost]
    BY <2>1
  <2>3. spent[today] \in [counted : Nat, admitted : Nat, lost : BOOLEAN] /\ log.torn \in BOOLEAN
    BY <1>2
  <2>4. row.counted \in Nat /\ row.admitted \in Nat
    BY <1>1, <2>2, <2>3
  <2>5. row.lost \in BOOLEAN
    BY <2>2, Zenon
  <2>6. row \in [counted : Nat, admitted : Nat, lost : BOOLEAN]
    BY <2>2, <2>4, <2>5
  <2>7. spent' = [spent EXCEPT ![today] = row]
    BY <1>6, <2>1
  <2> QED
    BY <1>7, <2>2, <2>6, <2>7
<1>9. /\ spent' \in [0 .. MaxDay -> [counted : Nat, admitted : Nat, lost : BOOLEAN]]
      /\ spent'[today] = row
      /\ \A d \in 0 .. MaxDay : d # today => spent'[d] = spent[d]
  BY <1>2, <1>8
<1>10. /\ budget' \in [day : Nat, tokens : Nat, hard : BOOLEAN, limit : Int, costLimit : Int]
      /\ budget'.day = budget.day /\ budget'.tokens = budget.tokens + n
      /\ budget'.hard = budget.hard /\ budget'.limit = budget.limit
      /\ budget'.costLimit = budget.costLimit
  <2>1. PICK k : k = budget.tokens + n
    OBVIOUS
  <2>2. k \in Nat
    BY <1>1, <1>2, <2>1
  <2>3. budget' = [budget EXCEPT !.tokens = k]
    BY <1>2, <2>1
  <2> QED
    BY <1>2, <2>1, <2>2, <2>3
<1>11. /\ log' \in [tokens : [0 .. MaxDay -> Nat], torn : BOOLEAN]
       /\ \A d \in 0 .. MaxDay : d # today => log'.tokens[d] = log.tokens[d]
       /\ how = "whole" /\ ~ log.torn => log'.tokens[today] = log.tokens[today] + n
  <2>1. PICK e : e = [log.tokens EXCEPT ![today] = log.tokens[today] + n]
    OBVIOUS
  <2>2. log.tokens \in [0 .. MaxDay -> Nat]
    BY <1>2
  <2>3. /\ e \in [0 .. MaxDay -> Nat] /\ e[today] = log.tokens[today] + n
        /\ \A d \in 0 .. MaxDay : d # today => e[d] = log.tokens[d]
    <3>1. PICK t \in [0 .. MaxDay -> Nat], d \in 0 .. MaxDay : t = log.tokens /\ d = today
      BY <1>2, <2>2
    <3>2. t[d] + n \in Nat /\ e = [t EXCEPT ![d] = t[d] + n]
      BY <1>1, <2>1, <3>1
    <3> QED
      BY <3>1, <3>2
  <2>4. log' = [tokens |-> IF how = "whole" /\ ~ log.torn THEN e ELSE log.tokens,
                torn |-> CASE how = "whole" -> FALSE [] how = "torn" -> TRUE
                           [] OTHER -> log.torn]
    BY <1>6, <2>1 DEF Written
  <2>5. /\ log'.tokens = IF how = "whole" /\ ~ log.torn THEN e ELSE log.tokens
        /\ log'.torn = CASE how = "whole" -> FALSE [] how = "torn" -> TRUE
                         [] OTHER -> log.torn
        /\ log' = [tokens |-> log'.tokens, torn |-> log'.torn]
    BY <2>4
  <2>6. log'.torn \in BOOLEAN
    BY <1>2, <1>6, <2>5
  <2>7. log'.tokens \in [0 .. MaxDay -> Nat]
    BY <1>2, <2>3, <2>5
  <2> QED
    BY <2>3, <2>5, <2>6, <2>7
<1>12. \A d \in 0 .. MaxDay : ~ spent'[d].lost => log'.tokens[d] = spent'[d].counted
  <2> SUFFICES ASSUME NEW d \in 0 .. MaxDay, ~ spent'[d].lost
               PROVE  log'.tokens[d] = spent'[d].counted
    OBVIOUS
  <2>1. CASE d = today
    <3>1. ~ spent[today].lost /\ how = "whole" /\ ~ log.torn
      BY <1>8, <1>9, <2>1
    <3> QED
      BY <1>2, <1>3, <1>8, <1>9, <1>11, <2>1, <3>1
  <2>2. CASE d # today
    BY <1>3, <1>9, <1>11, <2>2
  <2> QED
    BY <2>1, <2>2
<1>13. \A d \in 0 .. MaxDay : d > today' => spent'[d].counted = 0 /\ spent'[d].admitted = 0
  <2>1. \A d \in 0 .. MaxDay : d > today' => d > today /\ d # today
    BY <1>2
  <2> QED
    BY <1>3, <1>9, <2>1
<1>14. ASSUME ~ spent'[today].lost
       PROVE  /\ spent'[today].admitted =< spent'[today].counted
              /\ spent'[today].counted =< budget'.tokens
              /\ budget'.hard => /\ Unreached(spent'[today].admitted, budget'.limit)
                                 /\ Unreached(estimateCost(Model, spent'[today].admitted),
                                              budget'.costLimit)
  <2>1. ~ spent[today].lost
    BY <1>8, <1>9, <1>14
  <2>2. spent[today] \in [counted : Nat, admitted : Nat, lost : BOOLEAN]
    BY <1>2
  <2>3. /\ row.admitted =< row.counted /\ row.counted =< budget.tokens + n
        /\ row.admitted \in Nat /\ budget.tokens + n \in Nat
        /\ row.admitted =< budget.tokens + n
    <3>1. PICK b \in Nat, k \in Nat, a \in Nat :
            b = budget.tokens /\ k = spent[today].counted /\ a = spent[today].admitted
      BY <1>2, <2>2
    <3>2. a =< k /\ k =< b
      BY <1>4, <2>1, <3>1
    <3>3. row.counted = k + n /\ (row.admitted = a \/ row.admitted = a + n)
      BY <1>8, <3>1
    <3> QED
      BY <1>1, <3>1, <3>2, <3>3
  <2>4. ASSUME budget'.hard
        PROVE  /\ Unreached(row.admitted, budget.limit)
               /\ Unreached(estimateCost(Model, row.admitted), budget.costLimit)
    <3>1. CASE blocked
      <4>1. row.admitted = spent[today].admitted
        BY <1>8, <3>1
      <4> QED
        BY <1>4, <1>10, <2>1, <2>4, <4>1
    <3>2. CASE ~ blocked
      <4>1. /\ ~ Reaches(budget.tokens + n, budget.limit)
            /\ ~ Reaches(estimateCost(Model, budget.tokens + n), budget.costLimit)
        BY <1>7, <1>10, <2>4, <3>2 DEF check
      <4>2. PICK a \in Nat, b \in Nat : a = row.admitted /\ b = budget.tokens + n /\ a =< b
        BY <2>3
      <4>3. /\ estimateCost(Model, a) \in Nat /\ estimateCost(Model, b) \in Nat
            /\ estimateCost(Model, a) =< estimateCost(Model, b)
        BY <4>2, CostsGrow
      <4>4. PICK l \in Int, m \in Int : l = budget.limit /\ m = budget.costLimit
        BY <1>2
      <4>5. /\ l # NoLimit => ~ (b >= l)
            /\ m # NoLimit => ~ (estimateCost(Model, b) >= m)
        BY <4>1, <4>2, <4>4 DEF Reaches
      <4>6. /\ l # NoLimit => a < l
            /\ m # NoLimit => estimateCost(Model, a) < m
        BY <4>2, <4>3, <4>5
      <4> QED
        BY <4>2, <4>4, <4>6 DEF Unreached
    <3> QED
      BY <3>1, <3>2
  <2> QED
    BY <1>9, <1>10, <2>3, <2>4
<1>15. budget'.day = today' /\ ~ spent'[today'].lost =>
          budget'.tokens = spent'[today'].counted
  BY <1>2, <1>5, <1>8, <1>9, <1>10
<1> QED
  BY <1>2, <1>9, <1>10, <1>11, <1>12, <1>13, <1>14, <1>15 DEF BudgetInv

(* Nothing has been counted of the new day; the tracker does not notice it.*)
LEMMA MidnightInv ==
  ASSUME BudgetInv, Midnight
  PROVE  BudgetInv'
<1> USE BudgetBounds
<1>1. /\ today \in 0 .. MaxDay /\ today < MaxDay /\ today' = today + 1
      /\ today' \in 0 .. MaxDay /\ today' > today
      /\ log' = log /\ budget' = budget /\ spent' = spent
      /\ log \in [tokens : [0 .. MaxDay -> Nat], torn : BOOLEAN]
      /\ budget \in [day : Nat, tokens : Nat, hard : BOOLEAN, limit : Int, costLimit : Int]
      /\ budget.day =< today /\ Limit(budget.limit) /\ Limit(budget.costLimit)
      /\ spent \in [0 .. MaxDay -> [counted : Nat, admitted : Nat, lost : BOOLEAN]]
  BY DEF BudgetInv, Midnight
<1>2. /\ \A d \in 0 .. MaxDay : ~ spent[d].lost => log.tokens[d] = spent[d].counted
      /\ \A d \in 0 .. MaxDay : d > today => spent[d].counted = 0 /\ spent[d].admitted = 0
  BY DEF BudgetInv
<1>3. PICK e : e = today'
  OBVIOUS
<1>4. /\ spent[e].admitted = 0 /\ spent[e].counted = 0 /\ 0 =< budget.tokens
      /\ Unreached(0, budget.limit) /\ Unreached(estimateCost(Model, 0), budget.costLimit)
  <2>1. estimateCost(Model, 0) = 0
    <3>1. 0 \in Nat /\ 0 =< 0
      OBVIOUS
    <3> QED
      BY <3>1, CostsGrow
  <2> QED
    BY <1>1, <1>2, <1>3, <2>1 DEF Limit, Unreached
<1>5. budget'.day # today'
  BY <1>1
<1>6. \A d \in 0 .. MaxDay : d > e => spent[d].counted = 0 /\ spent[d].admitted = 0
  BY <1>1, <1>2, <1>3
<1>7. e \in 0 .. MaxDay /\ budget.day =< e
  BY <1>1, <1>3
<1>8. ~ spent'[today'].lost =>
         /\ spent'[today'].admitted =< spent'[today'].counted
         /\ spent'[today'].counted =< budget'.tokens
         /\ budget'.hard => /\ Unreached(spent'[today'].admitted, budget'.limit)
                            /\ Unreached(estimateCost(Model, spent'[today'].admitted),
                                         budget'.costLimit)
  <2>1. spent'[today'].admitted = 0 /\ spent'[today'].counted = 0 /\ budget' = budget
    BY <1>1, <1>3, <1>4
  <2>2. 0 =< 0
    OBVIOUS
  <2> QED
    BY <1>4, <2>1, <2>2
<1>9. \A d \in 0 .. MaxDay : d > today' => spent'[d].counted = 0 /\ spent'[d].admitted = 0
  BY <1>1, <1>3, <1>6
<1>10. \A d \in 0 .. MaxDay : ~ spent'[d].lost => log'.tokens[d] = spent'[d].counted
  BY <1>1, <1>2
<1>11. /\ today' \in 0 .. MaxDay
       /\ log' \in [tokens : [0 .. MaxDay -> Nat], torn : BOOLEAN]
       /\ budget' \in [day : Nat, tokens : Nat, hard : BOOLEAN, limit : Int, costLimit : Int]
       /\ budget'.day =< today' /\ Limit(budget'.limit) /\ Limit(budget'.costLimit)
       /\ spent' \in [0 .. MaxDay -> [counted : Nat, admitted : Nat, lost : BOOLEAN]]
  BY <1>1, <1>3, <1>7
<1> QED
  BY <1>5, <1>8, <1>9, <1>10, <1>11 DEF BudgetInv

(* A new tracker counts what the log holds of the day.                     *)
LEMMA BudgetRestartInv ==
  ASSUME BudgetInv, NEW readable \in BOOLEAN, BudgetRestart(readable)
  PROVE  BudgetInv'
<1> USE BudgetBounds
<1>1. /\ today \in 0 .. MaxDay /\ today' = today /\ log' = log
      /\ log \in [tokens : [0 .. MaxDay -> Nat], torn : BOOLEAN]
      /\ budget \in [day : Nat, tokens : Nat, hard : BOOLEAN, limit : Int, costLimit : Int]
      /\ budget.day =< today /\ Limit(budget.limit) /\ Limit(budget.costLimit)
      /\ spent \in [0 .. MaxDay -> [counted : Nat, admitted : Nat, lost : BOOLEAN]]
      /\ budget' = Rebuilt(readable)
      /\ spent' = [spent EXCEPT ![today].lost = spent[today].lost \/ ~ readable]
  BY DEF BudgetInv, BudgetRestart
<1>2. /\ \A d \in 0 .. MaxDay : ~ spent[d].lost => log.tokens[d] = spent[d].counted
      /\ \A d \in 0 .. MaxDay : d > today => spent[d].counted = 0 /\ spent[d].admitted = 0
      /\ ~ spent[today].lost =>
            /\ spent[today].admitted =< spent[today].counted
            /\ spent[today].counted =< budget.tokens
            /\ budget.hard => /\ Unreached(spent[today].admitted, budget.limit)
                              /\ Unreached(estimateCost(Model, spent[today].admitted),
                                           budget.costLimit)
  BY DEF BudgetInv
<1>3. PICK k : k = IF readable THEN log.tokens[today] ELSE 0
  OBVIOUS
<1>4. k \in Nat /\ today \in Nat
  BY <1>1, <1>3
<1>5. budget' = [budget EXCEPT !.day = today, !.tokens = k]
  BY <1>1, <1>3 DEF Rebuilt, readTodayTotals
<1>6. /\ budget' \in [day : Nat, tokens : Nat, hard : BOOLEAN, limit : Int, costLimit : Int]
      /\ budget'.day = today /\ budget'.tokens = k /\ budget'.hard = budget.hard
      /\ budget'.limit = budget.limit /\ budget'.costLimit = budget.costLimit
  BY <1>1, <1>4, <1>5
<1>7. PICK l \in BOOLEAN : l <=> spent[today].lost \/ ~ readable
  OBVIOUS
<1>8. spent' = [spent EXCEPT ![today] = [spent[today] EXCEPT !.lost = l]]
  <2>1. (spent[today].lost \/ ~ readable) = l
    BY <1>7, Zenon
  <2> QED
    BY <1>1, <2>1
<1>9. /\ spent' \in [0 .. MaxDay -> [counted : Nat, admitted : Nat, lost : BOOLEAN]]
      /\ \A d \in 0 .. MaxDay : /\ spent'[d].counted = spent[d].counted
                                /\ spent'[d].admitted = spent[d].admitted
                                /\ ~ spent'[d].lost => ~ spent[d].lost
      /\ ~ spent'[today].lost => ~ spent[today].lost /\ readable
  <2>1. PICK row \in [counted : Nat, admitted : Nat, lost : BOOLEAN] :
           row = [spent[today] EXCEPT !.lost = l]
    BY <1>1
  <2>2. /\ row.counted = spent[today].counted /\ row.admitted = spent[today].admitted
        /\ row.lost = l
    BY <1>1, <2>1
  <2>3. /\ spent' \in [0 .. MaxDay -> [counted : Nat, admitted : Nat, lost : BOOLEAN]]
        /\ spent'[today] = row
        /\ \A d \in 0 .. MaxDay : d # today => spent'[d] = spent[d]
    BY <1>1, <1>8, <2>1
  <2> QED
    BY <1>7, <2>2, <2>3
<1>10. ASSUME ~ spent'[today].lost
       PROVE  k = spent[today].counted
  BY <1>1, <1>2, <1>3, <1>9, <1>10
<1>11. ~ spent'[today].lost =>
        /\ spent'[today].admitted =< spent'[today].counted
        /\ spent'[today].counted =< budget'.tokens
        /\ budget'.hard => /\ Unreached(spent'[today].admitted, budget'.limit)
                           /\ Unreached(estimateCost(Model, spent'[today].admitted),
                                        budget'.costLimit)
  BY <1>1, <1>2, <1>4, <1>6, <1>9, <1>10
<1>12. ~ spent'[today].lost => budget'.tokens = spent'[today].counted
  BY <1>1, <1>6, <1>9, <1>10
<1>13. /\ \A d \in 0 .. MaxDay : ~ spent'[d].lost => log'.tokens[d] = spent'[d].counted
       /\ \A d \in 0 .. MaxDay : d > today' =>
             spent'[d].counted = 0 /\ spent'[d].admitted = 0
  BY <1>1, <1>2, <1>9
<1>14. today =< today
  BY <1>1
<1> QED
  BY <1>1, <1>6, <1>9, <1>11, <1>12, <1>13, <1>14 DEF BudgetInv

(* So it is true of the budget at every moment.                            *)
THEOREM BudgetInvariant == BudgetSpec => []BudgetInv
<1>1. BudgetInv /\ UNCHANGED budgetVars => BudgetInv'
  <2> SUFFICES ASSUME BudgetInv, UNCHANGED budgetVars
               PROVE  BudgetInv'
    OBVIOUS
  <2>1. today' = today /\ log' = log /\ budget' = budget /\ spent' = spent
    BY DEF budgetVars
  <2> QED
    BY <2>1 DEF BudgetInv
<1>2. BudgetInv /\ BudgetNext => BudgetInv'
  BY BudgetCallInv, MidnightInv, BudgetRestartInv DEF BudgetNext
<1>3. BudgetInv /\ [BudgetNext]_budgetVars => BudgetInv'
  BY <1>1, <1>2
<1> QED
  BY <1>3, BudgetInitInv, PTL DEF BudgetSpec

(* A restart of the gateway forgets nothing of the day's budget: while it  *)
(* is the day of the tracker and every entry of the day was written and    *)
(* could be read, the tracker counts all that was counted since midnight,  *)
(* whoever counted it, and what is let through stays below both limits.    *)
THEOREM BudgetTheorem == BudgetSpec => []BudgetSurvivesRestart
<1>1. BudgetInv => BudgetSurvivesRestart
  BY DEF BudgetInv, BudgetSurvivesRestart, Unreached
<1> QED
  BY <1>1, BudgetInvariant, PTL

-----------------------------------------------------------------------------
(* The tool manifests and the action registry.                             *)

(* The name of a tool leads to the one entry that lists it.                *)
LEMMA EntryOfAlias ==
  ASSUME NEW E \in REGISTRY, NEW n \in E.aliases
  PROVE  getRegistryEntry(n) = E
<1>1. n \in DOMAIN ALIAS_INDEX
  BY DEF ALIAS_INDEX
<1>2. \A e \in REGISTRY : n \in e.aliases => e = E
  BY AliasesAreUnambiguous
<1>3. ALIAS_INDEX[n] = E
  BY <1>1, <1>2 DEF ALIAS_INDEX
<1> QED
  BY <1>1, <1>3 DEF getRegistryEntry

(* The two tools whose names no entry lists.                               *)
Unlisted == {"append_file", "send_webhook"}

(* No entry lists them, so they are of the unknown class.                  *)
LEMMA UnlistedAreUnknown == \A n \in Unlisted : getRegistryEntry(n) = UNKNOWN_ENTRY
<1>1. \A e \in REGISTRY, n \in Unlisted : n \notin e.aliases
  BY DEF REGISTRY, Entry, Unlisted, FilesystemRead, FilesystemWrite, FilesystemDelete,
         FilesystemList, WebSearch, WebFetch, BrowserScrape, WebPost, ShellExec, CommunicationEmail,
         CommunicationSlack, CommunicationWebhook, MemoryRead, MemoryWrite,
         CredentialRead, CredentialWrite, CredentialRotate, CredentialList, CodeExecute,
         PaymentInitiate, SystemRead, SystemService, PermissionsModify,
         PermissionsElevate, ProcessSignal, NetworkDiagnose, NetworkScan,
         SchedulingPersist, NetworkTransfer, NetworkShell, ClusterRead, ClusterWrite,
         VcsRead, VcsWrite, VcsRemote, PackageInstall, PackageRun, PackageRead,
         BuildCompile, BuildTest, BuildLint, ArchiveCreate, ArchiveExtract, ArchiveRead,
         UnknownSensitiveAction
<1> QED
  BY <1>1 DEF getRegistryEntry, ALIAS_INDEX

(* A manifest declares a class of the registry, with the risk and the mode *)
(* of its entry, and is listed there; it is closed, no legacy exemption    *)
(* and no wrapper of the shell.                                            *)
InClass(man, E) ==
    /\ E \in REGISTRY
    /\ man.action_class = E.action_class
    /\ man.risk_tier = E.default_risk /\ man.default_hitl_mode = E.default_hitl_mode
    /\ man.name \in E.aliases \cup Unlisted
    /\ man.closed /\ ~ man.unsafe_legacy
    /\ man.name \notin EXEC_WRAPPER_TOOL_NAMES
    /\ man.unsafe_admin \/ man.action_class # "shell.exec"

(* So does every tool that is shipped.                                     *)
LEMMA ManifestsDeclareTheirClass == \A man \in Manifests : \E E : InClass(man, E)
<1>1. /\ \A man \in {checkExistsManifest, findFilesManifest, grepFilesManifest,
                     readFileManifest, readFilesBatchManifest} : InClass(man, FilesystemRead)
      /\ \A man \in {appendFileManifest, copyFileManifest, createDirectoryManifest,
                     editFileManifest, makeDirManifest, moveFileManifest,
                     writeFileManifest} : InClass(man, FilesystemWrite)
      /\ \A man \in {deleteFileManifest} : InClass(man, FilesystemDelete)
      /\ \A man \in {listDirManifest, listDirectoryManifest} : InClass(man, FilesystemList)
      /\ \A man \in {archiveCreateManifest} : InClass(man, ArchiveCreate)
      /\ \A man \in {archiveExtractManifest} : InClass(man, ArchiveExtract)
      /\ \A man \in {archiveListManifest} : InClass(man, ArchiveRead)
  BY DEF InClass, REGISTRY, Manifest, Entry, EXEC_WRAPPER_TOOL_NAMES, Unlisted,
         FilesystemRead, FilesystemWrite, FilesystemDelete, FilesystemList,
         ArchiveCreate, ArchiveExtract, ArchiveRead, checkExistsManifest,
         findFilesManifest, grepFilesManifest, readFileManifest, readFilesBatchManifest,
         appendFileManifest, copyFileManifest, createDirectoryManifest,
         editFileManifest, makeDirManifest, moveFileManifest, writeFileManifest,
         deleteFileManifest, listDirManifest, listDirectoryManifest,
         archiveCreateManifest, archiveExtractManifest, archiveListManifest
<1>2. /\ \A man \in {searchWebManifest} : InClass(man, WebSearch)
      /\ \A man \in {fetchUrlManifest, httpGetManifest} : InClass(man, WebFetch)
      /\ \A man \in {scrapePageManifest} : InClass(man, BrowserScrape)
      /\ \A man \in {httpDeleteManifest, httpPatchManifest, httpPostManifest,
                     httpPutManifest} : InClass(man, WebPost)
      /\ \A man \in {sendEmailManifest} : InClass(man, CommunicationEmail)
      /\ \A man \in {postMessageManifest, sendSlackManifest} : InClass(man, CommunicationSlack)
      /\ \A man \in {callWebhookManifest, sendNotificationManifest, sendWebhookManifest,
                     webhookManifest} : InClass(man, CommunicationWebhook)
  BY DEF InClass, REGISTRY, Manifest, Entry, EXEC_WRAPPER_TOOL_NAMES, Unlisted,
         WebSearch, WebFetch, BrowserScrape, WebPost, CommunicationEmail,
         CommunicationSlack, CommunicationWebhook, searchWebManifest, fetchUrlManifest,
         httpGetManifest, scrapePageManifest, httpDeleteManifest, httpPatchManifest,
         httpPostManifest, httpPutManifest, sendEmailManifest, postMessageManifest,
         sendSlackManifest, callWebhookManifest, sendNotificationManifest,
         sendWebhookManifest, webhookManifest
<1>3. /\ \A man \in {readSecretManifest} : InClass(man, CredentialRead)
      /\ \A man \in {storeSecretManifest, writeSecretManifest} : InClass(man, CredentialWrite)
      /\ \A man \in {rotateSecretManifest} : InClass(man, CredentialRotate)
      /\ \A man \in {listSecretsManifest} : InClass(man, CredentialList)
      /\ \A man \in {getEnvVarManifest, getSystemInfoManifest} : InClass(man, SystemRead)
      /\ \A man \in {rebootManifest, shutdownManifest, systemctlUnitActionManifest} :
          InClass(man, SystemService)
      /\ \A man \in {chmodPathManifest, chownPathManifest} : InClass(man, PermissionsModify)
      /\ \A man \in {killProcessManifest, pkillPatternManifest} : InClass(man, ProcessSignal)
      /\ \A man \in {crontabInstallFromFileManifest, crontabListManifest,
                     crontabRemoveManifest} : InClass(man, SchedulingPersist)
  BY DEF InClass, REGISTRY, Manifest, Entry, EXEC_WRAPPER_TOOL_NAMES, Unlisted,
         CredentialRead, CredentialWrite, CredentialRotate, CredentialList, SystemRead,
         SystemService, PermissionsModify, ProcessSignal, SchedulingPersist,
         readSecretManifest, storeSecretManifest, writeSecretManifest,
         rotateSecretManifest, listSecretsManifest, getEnvVarManifest,
         getSystemInfoManifest, rebootManifest, shutdownManifest,
         systemctlUnitActionManifest, chmodPathManifest, chownPathManifest,
         killProcessManifest, pkillPatternManifest, crontabInstallFromFileManifest,
         crontabListManifest, crontabRemoveManifest
<1>4. /\ \A man \in {unsafeAdminExecManifest} : InClass(man, ShellExec)
      /\ \A man \in {dockerRunManifest, runCodeManifest} : InClass(man, CodeExecute)
      /\ \A man \in {kubectlGetManifest} : InClass(man, ClusterRead)
      /\ \A man \in {dockerPushManifest, kubectlApplyManifest, kubectlDeleteManifest,
                     kubectlRolloutManifest} : InClass(man, ClusterWrite)
      /\ \A man \in {gitDiffManifest, gitLogManifest, gitStatusManifest} :
          InClass(man, VcsRead)
      /\ \A man \in {gitAddManifest, gitBranchManifest, gitCheckoutManifest,
                     gitCommitManifest, gitMergeManifest, gitResetManifest} :
          InClass(man, VcsWrite)
      /\ \A man \in {gitCloneManifest, gitPushManifest} : InClass(man, VcsRemote)
  BY DEF InClass, REGISTRY, Manifest, AdminManifest, Entry, EXEC_WRAPPER_TOOL_NAMES,
         Unlisted, ShellExec, CodeExecute, ClusterRead, ClusterWrite, VcsRead, VcsWrite,
         VcsRemote, unsafeAdminExecManifest, dockerRunManifest, runCodeManifest,
         kubectlGetManifest, dockerPushManifest, kubectlApplyManifest,
         kubectlDeleteManifest, kubectlRolloutManifest, gitDiffManifest, gitLogManifest,
         gitStatusManifest, gitAddManifest, gitBranchManifest, gitCheckoutManifest,
         gitCommitManifest, gitMergeManifest, gitResetManifest, gitCloneManifest,
         gitPushManifest
<1>5. /\ \A man \in {npmInstallManifest, pipInstallManifest} : InClass(man, PackageInstall)
      /\ \A man \in {makeRunManifest, npmRunManifest} : InClass(man, PackageRun)
      /\ \A man \in {pipListManifest} : InClass(man, PackageRead)
      /\ \A man \in {npmRunBuildManifest} : InClass(man, BuildCompile)
      /\ \A man \in {pytestManifest, runTestsManifest} : InClass(man, BuildTest)
      /\ \A man \in {runLinterManifest} : InClass(man, BuildLint)
  BY DEF InClass, REGISTRY, Manifest, Entry, EXEC_WRAPPER_TOOL_NAMES, Unlisted,
         PackageInstall, PackageRun, PackageRead, BuildCompile, BuildTest, BuildLint,
         npmInstallManifest, pipInstallManifest, makeRunManifest, npmRunManifest,
         pipListManifest, npmRunBuildManifest, pytestManifest, runTestsManifest,
         runLinterManifest
<1> QED
  BY <1>1, <1>2, <1>3, <1>4, <1>5 DEF Manifests

(* What the tables of risks and modes rank.                                *)
LEMMA Ranks ==
  /\ riskRank("low") = 1 /\ riskRank("medium") = 2
  /\ riskRank("high") = 3 /\ riskRank("critical") = 4
  /\ hitlRank("none") = 1 /\ hitlRank("session_approval") = 2 /\ hitlRank("per_request") = 3
BY DEF riskRank, hitlRank

(* An entry of the registry is told by its class, its risk and its mode    *)
(* are ranked, and a file is written at medium risk.                       *)
LEMMA RegistryEntries ==
  \A E \in REGISTRY : /\ EntryOfClass(E.action_class) = E
                      /\ riskRank(E.default_risk) \in 1..4 /\ hitlRank(E.default_hitl_mode) \in 1..3
                      /\ E.action_class = "filesystem.write" => E.default_risk = "medium"
<1>1. \A d, e \in REGISTRY : d.action_class = e.action_class => d = e
  BY DEF REGISTRY, Entry, FilesystemRead, FilesystemWrite, FilesystemDelete,
         FilesystemList, WebSearch, WebFetch, BrowserScrape, WebPost, ShellExec, CommunicationEmail,
         CommunicationSlack, CommunicationWebhook, MemoryRead, MemoryWrite,
         CredentialRead, CredentialWrite, CredentialRotate, CredentialList, CodeExecute,
         PaymentInitiate, SystemRead, SystemService, PermissionsModify,
         PermissionsElevate, ProcessSignal, NetworkDiagnose, NetworkScan,
         SchedulingPersist, NetworkTransfer, NetworkShell, ClusterRead, ClusterWrite,
         VcsRead, VcsWrite, VcsRemote, PackageInstall, PackageRun, PackageRead,
         BuildCompile, BuildTest, BuildLint, ArchiveCreate, ArchiveExtract, ArchiveRead,
         UnknownSensitiveAction
<1>2. \A E \in REGISTRY : /\ E.default_risk \in {"low", "medium", "high", "critical"}
                          /\ E.default_hitl_mode \in {"none", "per_request"}
                          /\ E.action_class = "filesystem.write" => E.default_risk = "medium"
  BY DEF REGISTRY, Entry, FilesystemRead, FilesystemWrite, FilesystemDelete,
         FilesystemList, WebSearch, WebFetch, BrowserScrape, WebPost, ShellExec, CommunicationEmail,
         CommunicationSlack, CommunicationWebhook, MemoryRead, MemoryWrite,
         CredentialRead, CredentialWrite, CredentialRotate, CredentialList, CodeExecute,
         PaymentInitiate, SystemRead, SystemService, PermissionsModify,
         PermissionsElevate, ProcessSignal, NetworkDiagnose, NetworkScan,
         SchedulingPersist, NetworkTransfer, NetworkShell, ClusterRead, ClusterWrite,
         VcsRead, VcsWrite, VcsRemote, PackageInstall, PackageRun, PackageRead,
         BuildCompile, BuildTest, BuildLint, ArchiveCreate, ArchiveExtract, ArchiveRead,
         UnknownSensitiveAction
<1> QED
  BY <1>1, <1>2, Ranks DEF EntryOfClass

(* A shipped manifest passes the validator, on any day and in either mode. *)
LEMMA ShippedIsValid ==
  ASSUME NEW man \in Manifests, NEW day, NEW openMode
  PROVE  validate(man, day, openMode)
<1>1. PICK E : InClass(man, E)
  BY ManifestsDeclareTheirClass
<1>2. E \in REGISTRY /\ EntryOfClass(man.action_class) = E
  BY <1>1, RegistryEntries DEF InClass
<1>3. MatchesRegistry(man)
  BY <1>1, <1>2 DEF MatchesRegistry, InClass, Classes
<1>4. validateToolManifest(man) /\ ~ man.unsafe_legacy
  BY <1>1 DEF validateToolManifest, InClass
<1> QED
  BY <1>1, <1>3, <1>4 DEF validate, InClass

(* What a name of a shipped tool leads to.                                 *)
LEMMA ShippedEntry ==
  ASSUME NEW man \in Manifests
  PROVE  /\ getRegistryEntry(man.name) \in REGISTRY
         /\ \/ getRegistryEntry(man.name) = UNKNOWN_ENTRY
            \/ /\ getRegistryEntry(man.name).action_class = man.action_class
               /\ getRegistryEntry(man.name).default_risk = man.risk_tier
               /\ getRegistryEntry(man.name).default_hitl_mode = man.default_hitl_mode
         /\ riskRank(man.risk_tier) \in 1..4 /\ hitlRank(man.default_hitl_mode) \in 1..3
<1>1. PICK E : InClass(man, E)
  BY ManifestsDeclareTheirClass
<1>2. man.name \in Unlisted => getRegistryEntry(man.name) = UNKNOWN_ENTRY
  BY UnlistedAreUnknown
<1>3. man.name \in E.aliases => getRegistryEntry(man.name) = E
  BY <1>1, EntryOfAlias DEF InClass
<1>4. UNKNOWN_ENTRY \in REGISTRY
  BY DEF REGISTRY, UNKNOWN_ENTRY
<1> QED
  BY <1>1, <1>2, <1>3, <1>4, RegistryEntries DEF InClass

(* What normalisation makes of an entry and the marks of the target.       *)
LEMMA NormalizedEffect ==
  ASSUME NEW tool, NEW params, getRegistryEntry(tool) \in REGISTRY
  PROVE  LET e == getRegistryEntry(tool)
             a == normalize_action(tool, params)
         IN  /\ a.action_class = e.action_class \/ e.action_class = "filesystem.write"
             /\ \/ a.risk \in {"critical", e.default_risk}
                \/ e.action_class = "filesystem.write" /\ a.risk \in {"medium", "high"}
             /\ a.hitl_mode = e.default_hitl_mode
             /\ hasShellMetacharsInParams(params) => a.risk = "critical"
<1> DEFINE e == getRegistryEntry(tool)
           n == Normalized(tool, params)
           a == normalize_action(tool, params)
<1>1. PICK marks : n = [action_class |-> Reclassified(e, marks).class,
                        risk |-> Reclassified(e, marks).risk,
                        hitl_mode |-> e.default_hitl_mode,
                        target |-> extractTarget(e.action_class, params),
                        intent_group |-> e.intent_group]
  BY DEF Normalized
<1>2. /\ Reclassified(e, marks).class = e.action_class \/ e.action_class = "filesystem.write"
      /\ \/ Reclassified(e, marks).risk = e.default_risk
         \/ e.action_class = "filesystem.write" /\ Reclassified(e, marks).risk \in {"medium", "high"}
  BY DEF Reclassified, WebPost, Entry
<1>3. a = IF hasShellMetacharsInParams(params) THEN [n EXCEPT !.risk = "critical"] ELSE n
  BY DEF normalize_action
<1> HIDE DEF n, a, e
<1>4. /\ a.action_class = n.action_class /\ a.hitl_mode = n.hitl_mode
      /\ hasShellMetacharsInParams(params) => a.risk = "critical"
      /\ ~ hasShellMetacharsInParams(params) => a.risk = n.risk
  BY <1>1, <1>3
<1> QED
  BY <1>1, <1>2, <1>4 DEF a, e

(* A call of a shipped tool is treated no more leniently than its manifest *)
(* says.                                                                   *)
LEMMA ShippedIsNoLaxer ==
  ASSUME NEW man \in Manifests, NEW params
  PROVE  LET a == normalize_action(man.name, params)
         IN  /\ \/ a.action_class \in {man.action_class, UNKNOWN_ENTRY.action_class}
                \/ man.action_class = "filesystem.write"
             /\ riskRank(a.risk) >= riskRank(man.risk_tier)
             /\ hitlRank(a.hitl_mode) >= hitlRank(man.default_hitl_mode)
             /\ hasShellMetacharsInParams(params) => a.risk = "critical"
<1>1. PICK e : e = getRegistryEntry(man.name)
  OBVIOUS
<1>2. PICK a : a = normalize_action(man.name, params)
  OBVIOUS
<1>3. /\ e \in REGISTRY
      /\ \/ e = UNKNOWN_ENTRY
         \/ /\ e.action_class = man.action_class /\ e.default_risk = man.risk_tier
            /\ e.default_hitl_mode = man.default_hitl_mode
      /\ riskRank(man.risk_tier) \in 1..4 /\ hitlRank(man.default_hitl_mode) \in 1..3
  BY <1>1, ShippedEntry
<1>4. /\ a.action_class = e.action_class \/ e.action_class = "filesystem.write"
      /\ \/ a.risk \in {"critical", e.default_risk}
         \/ e.action_class = "filesystem.write" /\ a.risk \in {"medium", "high"}
      /\ a.hitl_mode = e.default_hitl_mode
      /\ hasShellMetacharsInParams(params) => a.risk = "critical"
  BY <1>1, <1>2, <1>3, NormalizedEffect
<1>5. CASE e = UNKNOWN_ENTRY
  <2>1. /\ e.action_class = UNKNOWN_ENTRY.action_class /\ e.action_class # "filesystem.write"
        /\ e.default_risk = "critical" /\ e.default_hitl_mode = "per_request"
    BY <1>5 DEF UNKNOWN_ENTRY, UnknownSensitiveAction, Entry
  <2> QED
    BY <1>2, <1>3, <1>4, <2>1, Ranks
<1>6. CASE e # UNKNOWN_ENTRY
  <2>1. e.action_class = "filesystem.write" => man.risk_tier = "medium"
    BY <1>3, <1>6, RegistryEntries
  <2> QED
    BY <1>2, <1>3, <1>4, <1>6, <2>1, Ranks
<1> QED
  BY <1>5, <1>6

(* Whatever its parameters bear, a call of a shipped tool is never treated *)
(* more leniently than the manifest says, and the validator accepts every  *)
(* shipped manifest.                                                       *)
THEOREM CatalogTheorem == CatalogSpec => []NoLaxerThanManifest
<1>1. CatalogInit => NoLaxerThanManifest
  BY DEF CatalogInit, NoLaxerThanManifest
<1>2. ASSUME NoLaxerThanManifest, NEW man \in Manifests, NEW params, Normalize(man, params)
      PROVE  NoLaxerThanManifest'
  <2>1. /\ answer'.question = "normalize" /\ answer'.man = man /\ answer'.params = params
        /\ answer'.action = normalize_action(man.name, params)
    BY <1>2 DEF Normalize
  <2> QED
    BY <2>1, ShippedIsNoLaxer DEF NoLaxerThanManifest
<1>3. ASSUME NEW man, NEW day, NEW openMode, Register(man, day, openMode)
      PROVE  NoLaxerThanManifest'
  <2>1. /\ answer'.question = "register" /\ answer'.man = man
        /\ answer'.valid = validate(man, day, openMode)
    BY <1>3 DEF Register
  <2>2. man \in Manifests => validate(man, day, openMode)
    BY ShippedIsValid
  <2> QED
    BY <2>1, <2>2 DEF NoLaxerThanManifest
<1>4. NoLaxerThanManifest /\ [CatalogNext]_answer => NoLaxerThanManifest'
  <2>1. NoLaxerThanManifest /\ UNCHANGED answer => NoLaxerThanManifest'
    BY DEF NoLaxerThanManifest
  <2> QED
    BY <1>2, <1>3, <2>1 DEF CatalogNext
<1> QED
  BY <1>1, <1>4, PTL DEF CatalogSpec

-----------------------------------------------------------------------------
(* The tools that run a program.                                           *)

(* The names of their manifests tell the tools apart.                      *)
LEMMA CommandNames ==
  /\ gitAddManifest.name = "git_add" /\ gitBranchManifest.name = "git_branch"
  /\ gitCheckoutManifest.name = "git_checkout" /\ gitCloneManifest.name = "git_clone"
  /\ gitCommitManifest.name = "git_commit" /\ gitDiffManifest.name = "git_diff"
  /\ gitLogManifest.name = "git_log" /\ gitMergeManifest.name = "git_merge"
  /\ gitPushManifest.name = "git_push" /\ gitResetManifest.name = "git_reset"
  /\ gitStatusManifest.name = "git_status" /\ dockerPushManifest.name = "docker_push"
  /\ dockerRunManifest.name = "docker_run" /\ killProcessManifest.name = "kill_process"
  /\ pkillPatternManifest.name = "pkill_pattern" /\ kubectlGetManifest.name = "kubectl_get"
  /\ kubectlApplyManifest.name = "kubectl_apply" /\ kubectlDeleteManifest.name = "kubectl_delete"
  /\ kubectlRolloutManifest.name = "kubectl_rollout"
  /\ crontabInstallFromFileManifest.name = "crontab_install_from_file"
  /\ crontabListManifest.name = "crontab_list" /\ crontabRemoveManifest.name = "crontab_remove"
  /\ rebootManifest.name = "reboot" /\ shutdownManifest.name = "shutdown"
  /\ systemctlUnitActionManifest.name = "systemctl_unit_action"
  /\ chmodPathManifest.name = "chmod_path"
  /\ chownPathManifest.name = "chown_path" /\ makeRunManifest.name = "make_run"
  /\ npmInstallManifest.name = "npm_install" /\ npmRunManifest.name = "npm_run"
  /\ pipInstallManifest.name = "pip_install" /\ pytestManifest.name = "pytest"
  /\ getSystemInfoManifest.name = "get_system_info"
BY DEF Manifest, gitAddManifest, gitBranchManifest, gitCheckoutManifest, gitCloneManifest,
       gitCommitManifest, gitDiffManifest, gitLogManifest, gitMergeManifest,
       gitPushManifest, gitResetManifest, gitStatusManifest, dockerPushManifest,
       dockerRunManifest, killProcessManifest, pkillPatternManifest, kubectlGetManifest,
       kubectlApplyManifest, kubectlDeleteManifest, kubectlRolloutManifest,
       crontabInstallFromFileManifest, crontabListManifest, crontabRemoveManifest,
       rebootManifest, shutdownManifest, systemctlUnitActionManifest, chmodPathManifest,
       chownPathManifest, makeRunManifest, npmInstallManifest, npmRunManifest,
       pipInstallManifest, pytestManifest, getSystemInfoManifest

(* What is needed to know of a list to look through it.                    *)
IsList(list) ==
    Len(list) \in Nat /\ DOMAIN list = 1..Len(list) /\ (Len(list) = 0 => list = <<>>)

(* The plan of a tool: no check of it reports a success, and a failure is  *)
(* thrown as a success by the log of git alone.                            *)
PlanSound(man, plan) ==
    /\ IsList(plan.gates) /\ \A i \in DOMAIN plan.gates : plan.gates[i].code # "ok"
    /\ IsList(plan.codes)
    /\ plan.skip \/ man.name = "git_log" \/ \A i \in DOMAIN plan.codes : plan.codes[i] # "ok"
    /\ plan.onOne # "ok"

(* A list of checks that report no success.                                *)
Refuses(list) == \E T : list \in Seq(T) /\ \A g \in T : g.code # "ok"

LEMMA RefusesIfAll ==
  ASSUME NEW T, NEW list \in Seq(T), \A x \in T : x.code # "ok"
  PROVE  Refuses(list)
BY DEF Refuses

LEMMA RefusesIsSound ==
  ASSUME NEW list, Refuses(list)
  PROVE  IsList(list) /\ \A i \in DOMAIN list : list[i].code # "ok"
BY LenProperties, ElementOfSeq, EmptySeq DEF Refuses, IsList

LEMMA RefusesConcat ==
  ASSUME NEW f, NEW g, Refuses(f), Refuses(g)
  PROVE  Refuses(f \o g)
<1>1. PICK T, U : /\ f \in Seq(T) /\ \A x \in T : x.code # "ok"
                  /\ g \in Seq(U) /\ \A x \in U : x.code # "ok"
  BY DEF Refuses
<1>2. f \in Seq(T \cup U) /\ g \in Seq(T \cup U)
  BY <1>1, SeqMonotonic
<1>3. f \o g \in Seq(T \cup U)
  BY <1>2, ConcatProperties
<1> QED
  BY <1>1, <1>3 DEF Refuses

LEMMA RefusesTuples ==
  ASSUME NEW f, NEW g, f.code # "ok", g.code # "ok"
  PROVE  Refuses(<<f>>) /\ Refuses(<<f, g>>)
<1>1. <<f>> \in Seq({f, g}) /\ <<f, g>> \in Seq({f, g})
  OBVIOUS
<1>2. \A x \in {f, g} : x.code # "ok"
  OBVIOUS
<1>3. \A list \in Seq({f, g}) : Refuses(list)
  <2> TAKE list \in Seq({f, g})
  <2> DEFINE Q(T) == list \in Seq(T) /\ \A x \in T : x.code # "ok"
  <2>1. Q({f, g})
    BY <1>2
  <2> HIDE DEF Q
  <2>2. \E T : Q(T)
    BY <2>1
  <2> QED
    BY <2>2 DEF Refuses, Q
<1> QED
  BY <1>1, <1>3

(* The checks that kubectl and crontab put together from shared ones.      *)
LEMMA SharedGatesRefuse ==
  ASSUME NEW p
  PROVE  /\ Refuses(kubectlGet(p).gates) /\ Refuses(kubectlApply(p).gates)
         /\ Refuses(kubectlDelete(p).gates) /\ Refuses(kubectlRollout(p).gates)
         /\ Refuses(crontabInstallFromFile(p).gates)
<1>1. /\ Refuses(ResourceGates(p)) /\ Refuses(NamespaceGate(p)) /\ Refuses(UserGate(p))
      /\ Refuses(<<Gate(Required(p, "resource"), "invalid-resource"),
                   Gate(Valid(p, "name"), "invalid-name")>>)
      /\ Refuses(<<Gate(Valid(p, "output"), "invalid-output")>>)
      /\ Refuses(<<Gate(Required(p, "manifest_path"), "invalid-manifest-path")>>)
      /\ Refuses(<<Gate(Valid(p, "grace_period"), "invalid-grace-period")>>)
      /\ Refuses(<<Gate(Required(p, "action"), "invalid-action")>>)
      /\ Refuses(<<Gate(Required(p, "replace_confirm"), "replace-confirm-required"),
                   Gate(Required(p, "file_path"), "invalid-file-path")>>)
  <2>1. /\ Gate(Required(p, "resource"), "invalid-resource").code # "ok"
        /\ Gate(Required(p, "name"), "invalid-name").code # "ok"
        /\ Gate(Valid(p, "namespace"), "invalid-namespace").code # "ok"
        /\ Gate(Valid(p, "user"), "invalid-user").code # "ok"
        /\ Gate(Valid(p, "name"), "invalid-name").code # "ok"
        /\ Gate(Valid(p, "output"), "invalid-output").code # "ok"
        /\ Gate(Required(p, "manifest_path"), "invalid-manifest-path").code # "ok"
        /\ Gate(Valid(p, "grace_period"), "invalid-grace-period").code # "ok"
        /\ Gate(Required(p, "action"), "invalid-action").code # "ok"
        /\ Gate(Required(p, "replace_confirm"), "replace-confirm-required").code # "ok"
        /\ Gate(Required(p, "file_path"), "invalid-file-path").code # "ok"
    BY DEF Gate
  <2> QED
    BY <2>1, RefusesTuples, Zenon DEF ResourceGates, NamespaceGate, UserGate
<1>2. /\ kubectlGet(p).gates =
            <<Gate(Required(p, "resource"), "invalid-resource"),
              Gate(Valid(p, "name"), "invalid-name")>>
            \o NamespaceGate(p) \o <<Gate(Valid(p, "output"), "invalid-output")>>
      /\ kubectlApply(p).gates =
            <<Gate(Required(p, "manifest_path"), "invalid-manifest-path")>> \o NamespaceGate(p)
      /\ kubectlDelete(p).gates =
            ResourceGates(p) \o NamespaceGate(p)
            \o <<Gate(Valid(p, "grace_period"), "invalid-grace-period")>>
      /\ kubectlRollout(p).gates =
            <<Gate(Required(p, "action"), "invalid-action")>> \o ResourceGates(p) \o NamespaceGate(p)
      /\ crontabInstallFromFile(p).gates =
            <<Gate(Required(p, "replace_confirm"), "replace-confirm-required"),
              Gate(Required(p, "file_path"), "invalid-file-path")>> \o UserGate(p)
  BY DEF kubectlGet, kubectlApply, kubectlDelete, kubectlRollout, crontabInstallFromFile, Plan
<1> QED
  BY <1>1, <1>2, RefusesConcat, Zenon

(* The empty list.                                                         *)
LEMMA EmptyIsList == IsList(<<>>) /\ DOMAIN <<>> = {}
BY DEF IsList

(* The plan of a tool that returns its exit code.                          *)
LEMMA ReturningIsSound ==
  ASSUME NEW man, NEW plan, Refuses(plan.gates), plan.codes = <<>>, plan.onOne = ""
  PROVE  PlanSound(man, plan)
<1>1. IsList(<<>>) /\ DOMAIN <<>> = {}
  BY EmptyIsList
<1>2. IsList(plan.gates) /\ \A i \in DOMAIN plan.gates : plan.gates[i].code # "ok"
  BY RefusesIsSound
<1>3. IsList(plan.codes) /\ \A i \in DOMAIN plan.codes : plan.codes[i] # "ok"
  BY <1>1
<1> QED
  BY <1>2, <1>3 DEF PlanSound

(* The plan of every tool is sound, whatever the call.                     *)
LEMMA PlansAreSound == \A man \in CommandManifests : \A p : PlanSound(man, PlanOf(man, p))
<1> SUFFICES ASSUME NEW p PROVE \A man \in CommandManifests : PlanSound(man, PlanOf(man, p))
  OBVIOUS
<1>1. /\ PlanSound(gitAddManifest, gitAdd(p))
      /\ PlanSound(gitBranchManifest, gitBranch(p))
      /\ PlanSound(gitCheckoutManifest, gitCheckout(p))
      /\ PlanSound(gitCloneManifest, gitClone(p))
      /\ PlanSound(gitCommitManifest, gitCommit(p))
      /\ PlanSound(gitDiffManifest, gitDiff(p))
      /\ PlanSound(gitLogManifest, gitLog(p))
      /\ PlanSound(gitMergeManifest, gitMerge(p))
      /\ PlanSound(gitPushManifest, gitPush(p))
      /\ PlanSound(gitResetManifest, gitReset(p))
      /\ PlanSound(gitStatusManifest, gitStatus(p))
  BY DEF PlanSound, IsList, Plan, Gate, Manifest, gitAdd, gitAddManifest, gitBranch,
         gitBranchManifest, gitCheckout, gitCheckoutManifest, gitClone,
         gitCloneManifest, gitCommit, gitCommitManifest, gitDiff, gitDiffManifest,
         gitLog, gitLogManifest, gitMerge, gitMergeManifest, gitPush, gitPushManifest,
         gitReset, gitResetManifest, gitStatus, gitStatusManifest
<1>2. /\ PlanSound(kubectlGetManifest, kubectlGet(p))
      /\ PlanSound(kubectlApplyManifest, kubectlApply(p))
      /\ PlanSound(kubectlDeleteManifest, kubectlDelete(p))
      /\ PlanSound(kubectlRolloutManifest, kubectlRollout(p))
      /\ PlanSound(crontabInstallFromFileManifest, crontabInstallFromFile(p))
  <2>1. kubectlGet(p).codes = <<>> /\ kubectlGet(p).onOne = ""
    BY DEF kubectlGet, Plan
  <2>2. kubectlApply(p).codes = <<>> /\ kubectlApply(p).onOne = ""
    BY DEF kubectlApply, Plan
  <2>3. kubectlDelete(p).codes = <<>> /\ kubectlDelete(p).onOne = ""
    BY DEF kubectlDelete, Plan
  <2>4. kubectlRollout(p).codes = <<>> /\ kubectlRollout(p).onOne = ""
    BY DEF kubectlRollout, Plan
  <2>5. crontabInstallFromFile(p).codes = <<>> /\ crontabInstallFromFile(p).onOne = ""
    BY DEF crontabInstallFromFile, Plan
  <2> QED
    BY <2>1, <2>2, <2>3, <2>4, <2>5, SharedGatesRefuse, ReturningIsSound
<1>3. /\ PlanSound(dockerPushManifest, dockerPush(p))
      /\ PlanSound(dockerRunManifest, dockerRun(p))
      /\ PlanSound(killProcessManifest, killProcess(p))
      /\ PlanSound(pkillPatternManifest, pkillPattern(p))
      /\ PlanSound(crontabListManifest, crontabList(p))
      /\ PlanSound(crontabRemoveManifest, crontabRemove(p))
      /\ PlanSound(rebootManifest, reboot(p))
      /\ PlanSound(shutdownManifest, shutdown(p))
      /\ PlanSound(systemctlUnitActionManifest, systemctlUnitAction(p))
      /\ PlanSound(chmodPathManifest, chmodPath(p))
      /\ PlanSound(chownPathManifest, chownPath(p))
  <2>1. PlanSound(dockerPushManifest, dockerPush(p))
    <3>1. \A a, b, c : LET list == <<Gate(a, "invalid-image-ref"), Gate(b, "invalid-registry"),
                                     Gate(c, "all-tags-with-tag")>>
                       IN  IsList(list) /\ \A i \in DOMAIN list : list[i].code # "ok"
      BY DEF IsList, Gate
    <3>2. IsList(dockerPush(p).gates)
            /\ \A i \in DOMAIN dockerPush(p).gates : dockerPush(p).gates[i].code # "ok"
      BY <3>1, Zenon DEF dockerPush, Plan
    <3>3. dockerPush(p).codes = <<>> /\ dockerPush(p).onOne = ""
      BY DEF Plan, dockerPush
    <3>4. IsList(<<>>) /\ DOMAIN <<>> = {}
      BY DEF IsList
    <3> QED
      BY <3>2, <3>3, <3>4 DEF PlanSound
  <2>2. PlanSound(dockerRunManifest, dockerRun(p))
    BY DEF PlanSound, IsList, Plan, Gate, Manifest, dockerRunGates, dockerRun,
           dockerRunManifest
  <2>3. PlanSound(killProcessManifest, killProcess(p))
    BY DEF PlanSound, IsList, Plan, Gate, Manifest, killProcess, killProcessManifest
  <2>4. PlanSound(pkillPatternManifest, pkillPattern(p))
    BY DEF PlanSound, IsList, Plan, Gate, Manifest, pkillPattern, pkillPatternManifest
  <2>5. PlanSound(crontabListManifest, crontabList(p))
    BY DEF PlanSound, IsList, Plan, Gate, Manifest, UserGate, crontabList,
           crontabListManifest
  <2>6. PlanSound(crontabRemoveManifest, crontabRemove(p))
    BY DEF PlanSound, IsList, Plan, Gate, Manifest, UserGate, crontabRemove,
           crontabRemoveManifest
  <2>7. PlanSound(rebootManifest, reboot(p))
    BY DEF PlanSound, IsList, Plan, Gate, Manifest, reboot, rebootManifest
  <2>8. PlanSound(shutdownManifest, shutdown(p))
    BY DEF PlanSound, IsList, Plan, Gate, Manifest, shutdown, shutdownManifest
  <2>9. PlanSound(systemctlUnitActionManifest, systemctlUnitAction(p))
    BY DEF PlanSound, IsList, Plan, Gate, Manifest, systemctlUnitAction,
           systemctlUnitActionManifest
  <2>10. PlanSound(chmodPathManifest, chmodPath(p))
    BY DEF PlanSound, IsList, Plan, Gate, Manifest, chmodPath, chmodPathManifest
  <2>11. PlanSound(chownPathManifest, chownPath(p))
    BY DEF PlanSound, IsList, Plan, Gate, Manifest, chownPath, chownPathManifest
  <2> QED
    BY <2>1, <2>2, <2>3, <2>4, <2>5, <2>6, <2>7, <2>8, <2>9, <2>10, <2>11
<1>4. /\ PlanSound(makeRunManifest, makeRun(p))
      /\ PlanSound(npmInstallManifest, npmInstall(p))
      /\ PlanSound(npmRunManifest, npmRun(p))
      /\ PlanSound(pipInstallManifest, pipInstall(p))
      /\ PlanSound(pytestManifest, runPytest(p))
      /\ PlanSound(getSystemInfoManifest, getSystemInfo(p))
  BY DEF PlanSound, IsList, Plan, Gate, Manifest, PackageGate, makeRun, makeRunManifest,
         npmInstall, npmInstallManifest, npmRun, npmRunManifest, pipInstall,
         pipInstallManifest, runPytest, pytestManifest, getSystemInfo,
         getSystemInfoManifest
<1> HIDE DEF PlanSound
<1>5. \A man \in {gitAddManifest, gitBranchManifest, gitCheckoutManifest,
                  gitCloneManifest, gitCommitManifest, gitDiffManifest, gitLogManifest,
                  gitMergeManifest, gitPushManifest, gitResetManifest, gitStatusManifest} :
          PlanSound(man, PlanOf(man, p))
  BY <1>1, CommandNames DEF PlanOf
<1>6. \A man \in {kubectlGetManifest, kubectlApplyManifest, kubectlDeleteManifest,
                  kubectlRolloutManifest, crontabInstallFromFileManifest} :
          PlanSound(man, PlanOf(man, p))
  BY <1>2, CommandNames DEF PlanOf
<1>7. \A man \in {dockerPushManifest, dockerRunManifest, killProcessManifest,
                  pkillPatternManifest, crontabListManifest, crontabRemoveManifest,
                  rebootManifest, shutdownManifest, systemctlUnitActionManifest,
                  chmodPathManifest, chownPathManifest} :
          PlanSound(man, PlanOf(man, p))
  BY <1>3, CommandNames DEF PlanOf
<1>8. \A man \in {makeRunManifest, npmInstallManifest, npmRunManifest,
                  pipInstallManifest, pytestManifest, getSystemInfoManifest} :
          PlanSound(man, PlanOf(man, p))
  BY <1>4, CommandNames DEF PlanOf
<1> QED
  BY <1>5, <1>6, <1>7, <1>8 DEF CommandManifests

(* The first check that fails ends the call with its code; a failure of    *)
(* the program is thrown with one of the codes of the plan, or the one of  *)
(* status 1.                                                               *)
LEMMA FirstFailureRefuses ==
  ASSUME NEW gates, IsList(gates), \A i \in DOMAIN gates : gates[i].code # "ok"
  PROVE  FirstFailure(gates) # "ok"
<1> DEFINE failing == {i \in DOMAIN gates : ~ gates[i].passes}
<1>1. failing # {} => Min(failing) \in failing
  <2>1. failing \subseteq Nat
    BY DEF IsList
  <2> QED
    BY <2>1, MinIsLeast
<1>2. FirstFailure(gates) = IF failing = {} THEN "pass" ELSE gates[Min(failing)].code
  BY DEF FirstFailure
<1> HIDE DEF failing
<1>3. failing # {} => gates[Min(failing)].code # "ok"
  BY <1>1 DEF failing
<1> QED
  BY <1>2, <1>3

LEMMA ThrownIsNoSuccess ==
  ASSUME NEW plan, NEW status, NEW signs, IsList(plan.codes), plan.codes # <<>>,
         \A i \in DOMAIN plan.codes : plan.codes[i] # "ok", plan.onOne # "ok"
  PROVE  Thrown(plan, status, signs) # "ok"
<1> DEFINE last == Len(plan.codes)
           hits == {i \in 1..(last - 1) : plan.codes[i] \in signs}
<1>1. last \in DOMAIN plan.codes /\ hits \subseteq DOMAIN plan.codes /\ hits \subseteq Nat
  BY DEF IsList
<1>2. hits # {} => Min(hits) \in DOMAIN plan.codes
  <2> HIDE DEF hits
  <2> QED
    BY <1>1, MinIsLeast
<1>3. Thrown(plan, status, signs) =
          CASE hits # {} -> plan.codes[Min(hits)]
            [] hits = {} /\ status = 1 /\ plan.onOne # "" -> plan.onOne
            [] OTHER -> plan.codes[last]
  BY DEF Thrown
<1> HIDE DEF hits, last
<1>4. CASE hits # {}
  BY <1>2, <1>3, <1>4
<1>5. CASE hits = {} /\ status = 1 /\ plan.onOne # ""
  BY <1>3, <1>5
<1>6. CASE hits = {} /\ ~ (status = 1 /\ plan.onOne # "")
  BY <1>1, <1>3, <1>6
<1> QED
  BY <1>4, <1>5, <1>6

(* The call under way is one of a shipped tool, whose plan is sound; only  *)
(* one that has ended reports anything, and a success is that of its       *)
(* program.                                                                *)
CallOf(pc, man, plan, code, exit, status) ==
    [pc |-> pc, tool |-> man.name, plan |-> plan, code |-> code, exit |-> exit,
     status |-> status]

Reported(man, plan) ==
    \E code, exit, status :
        /\ cmd = CallOf("ended", man, plan, code, exit, status)
        /\ code = "ok" \/ exit = 0 => status = 0 \/ plan.skip \/ man.name = "git_log"

CommandInv ==
    \/ cmd = [pc |-> "idle"]
    \/ \E man \in CommandManifests : \E plan :
          /\ PlanSound(man, plan)
          /\ \/ cmd = CallOf("running", man, plan, "pass", NotRun, NotRun)
             \/ Reported(man, plan)

(* It holds of every call, through its checks and its program.             *)
LEMMA CommandInvariant == CommandSpec => []CommandInv
<1>1. CommandInit => CommandInv
  BY DEF CommandInit, CommandInv
<1>2. ASSUME NEW man \in CommandManifests, NEW p, Invoke(man, p)
      PROVE  CommandInv'
  <2>1. PICK plan : plan = PlanOf(man, p)
    OBVIOUS
  <2>2. PICK code : code = IF plan.skip THEN "ok" ELSE FirstFailure(plan.gates)
    OBVIOUS
  <2>3. PlanSound(man, plan)
    BY <2>1, PlansAreSound
  <2>4. cmd' = CallOf(IF code = "pass" THEN "running" ELSE "ended", man, plan, code,
                    NotRun, NotRun)
    BY <1>2, <2>1, <2>2 DEF Invoke, CallOf
  <2>5. CASE code = "pass"
    BY <2>3, <2>4, <2>5 DEF CommandInv
  <2>6. CASE code # "pass"
    <3>1. ~ plan.skip => FirstFailure(plan.gates) # "ok"
      BY <2>3, FirstFailureRefuses DEF PlanSound
    <3>2. code = "ok" => plan.skip
      BY <2>2, <3>1
    <3>3. Reported(man, plan)'
      BY <2>4, <2>6, <3>2 DEF Reported, NotRun
    <3> QED
      BY <2>3, <3>3 DEF CommandInv
  <2> QED
    BY <2>5, <2>6
<1>3. ASSUME CommandInv, NEW status, NEW signs, ProgramEnds(status, signs)
      PROVE  CommandInv'
  <2>1. PICK man \in CommandManifests : \E plan :
            /\ PlanSound(man, plan)
            /\ cmd = CallOf("running", man, plan, "pass", NotRun, NotRun)
    BY <1>3 DEF CommandInv, Reported, CallOf, ProgramEnds
  <2>2. PICK plan : /\ PlanSound(man, plan)
                    /\ cmd = CallOf("running", man, plan, "pass", NotRun, NotRun)
    BY <2>1
  <2>3. PICK code : code = IF plan.codes = <<>> THEN "returned"
                           ELSE IF status = 0 THEN "ok" ELSE Thrown(plan, status, signs)
    OBVIOUS
  <2>4. PICK exit : exit = IF plan.codes = <<>> THEN exitCode(status) ELSE NotRun
    OBVIOUS
  <2>5. cmd.plan = plan /\ cmd' = CallOf("ended", man, plan, code, exit, status)
    BY <1>3, <2>2, <2>3, <2>4 DEF ProgramEnds, CallOf
  <2>7. exit = 0 => status = 0
    BY <2>4 DEF exitCode, NotRun
  <2>8. code = "ok" => status = 0 \/ plan.skip \/ man.name = "git_log"
    BY <2>2, <2>3, ThrownIsNoSuccess DEF PlanSound
  <2>9. Reported(man, plan)'
    BY <2>5, <2>7, <2>8 DEF Reported
  <2> QED
    BY <2>2, <2>9 DEF CommandInv
<1>4. CommandInv /\ UNCHANGED cmd => CommandInv'
  BY DEF CommandInv, Reported
<1>5. CommandInv /\ [CommandNext]_cmd => CommandInv'
  BY <1>2, <1>3, <1>4 DEF CommandNext
<1> QED
  BY <1>1, <1>5, PTL DEF CommandSpec

(* A call that reports a success had its program exit with status 0, for   *)
(* every tool that runs one and whatever its parameters.                   *)
THEOREM SuccessTheorem == CommandSpec => []SuccessMeansExitZero
<1>1. CommandInv => SuccessMeansExitZero
  BY DEF CommandInv, Reported, CallOf, SuccessMeansExitZero
<1> QED
  BY <1>1, CommandInvariant, PTL

-----------------------------------------------------------------------------
(* The patterns of Approve Always.                                         *)

(* The pieces of commands, tool names and patterns.                        *)
Pieces == {Star} \cup UNION {ToSet(w) : w \in Words \cup ToolNames}

(* Commands, tool names and what they are joined to are made of them.      *)
LEMMA CommandsArePieces ==
  /\ \A w \in Words \cup ToolNames : w \in Seq(Pieces) /\ w # <<>>
  /\ \A e \in Commands \cup {<<t>> : t \in ToolNames} :
        /\ e \in Seq(Seq(Pieces))
        /\ \A i \in 1..Len(e) : e[i] \in Seq(Pieces) /\ e[i] # <<>>
  /\ Star \in Pieces
<1>1. \A w \in Words \cup ToolNames : w \in Seq(Pieces) /\ w # <<>>
  <2> TAKE w \in Words \cup ToolNames
  <2>1. w \in Seq(ToSet(w)) /\ w # <<>>
    BY PatternBounds
  <2>2. ToSet(w) \subseteq Pieces
    BY DEF Pieces
  <2> QED
    BY <2>1, <2>2, SeqMonotonic
<1>2. ASSUME NEW e \in Commands
      PROVE  /\ e \in Seq(Seq(Pieces))
             /\ \A i \in 1..Len(e) : e[i] \in Seq(Pieces) /\ e[i] # <<>>
  <2>1. PICK m \in 0..MaxWords : e \in [1..m -> Words]
    BY DEF Commands, SeqOf
  <2>2. m \in Nat
    BY <2>1, PatternBounds
  <2>3. e \in Seq(Words) /\ Len(e) = m
    BY <2>1, <2>2, SeqDef, LenProperties
  <2>4. \A i \in 1..Len(e) : e[i] \in Words
    BY <2>1, <2>3
  <2> QED
    BY <1>1, <2>3, <2>4, SeqMonotonic
<1>3. ASSUME NEW t \in ToolNames
      PROVE  /\ <<t>> \in Seq(Seq(Pieces))
             /\ \A i \in 1..Len(<<t>>) : <<t>>[i] \in Seq(Pieces) /\ <<t>>[i] # <<>>
  <2>1. t \in Seq(Pieces) /\ t # <<>>
    BY <1>1
  <2>2. Len(<<t>>) = 1 /\ <<t>>[1] = t
    OBVIOUS
  <2> QED
    BY <2>1, <2>2
<1>4. Star \in Pieces
  BY DEF Pieces
<1>5. ASSUME NEW e \in Commands \cup {<<t>> : t \in ToolNames}
      PROVE  /\ e \in Seq(Seq(Pieces))
             /\ \A i \in 1..Len(e) : e[i] \in Seq(Pieces) /\ e[i] # <<>>
  <2>1. e \in Commands \/ \E t \in ToolNames : e = <<t>>
    BY <1>5
  <2> QED
    BY <1>2, <1>3, <2>1
<1> QED
  BY <1>1, <1>4, <1>5

(* What a pattern that ends in the wildcard matches.                       *)
LEMMA WildcardMatches ==
  ASSUME NEW r \in Seq(Pieces), NEW e \in Seq(Seq(Pieces)), e # <<>>
  PROVE  /\ r \o <<Star>> # NoPattern
         /\ matchCommand(r \o <<Star>>, e) <=> IsPrefix(r, join(e))
<1>1. <<Star>> \in Seq(Pieces) /\ Len(<<Star>>) = 1 /\ <<Star>>[1] = Star
  <2>1. Star \in Pieces
    BY DEF Pieces
  <2> QED
    BY <2>1
<1>2. /\ r \o <<Star>> \in Seq(Pieces) /\ Len(r \o <<Star>>) = Len(r) + 1
      /\ (r \o <<Star>>)[Len(r) + 1] = Star
      /\ Len(r) \in Nat
      /\ \A i \in 1..Len(r) : (r \o <<Star>>)[i] = r[i]
  BY <1>1, ConcatProperties, LenProperties
<1>3. Last(r \o <<Star>>) = Star
  BY <1>2 DEF Last
<1>4. Front(r \o <<Star>>) = r
  <2>1. Front(r \o <<Star>>) = SubSeq(r \o <<Star>>, 1, Len(r))
    BY <1>2 DEF Front
  <2>2. /\ SubSeq(r \o <<Star>>, 1, Len(r)) \in Seq(Pieces)
        /\ Len(SubSeq(r \o <<Star>>, 1, Len(r))) = Len(r)
        /\ \A i \in 1..Len(r) : SubSeq(r \o <<Star>>, 1, Len(r))[i] = r[i]
    BY <1>2, SubSeqProperties
  <2> QED
    BY <2>1, <2>2, SeqEqual
<1>5. r \o <<Star>> # NoPattern
  BY <1>2, EmptySeq DEF NoPattern
<1> QED
  BY <1>3, <1>4, <1>5 DEF matchCommand, compilePatternRegex

(* The first argument that is no flag follows the binary only if it is the *)
(* second word.                                                            *)
LEMMA PositionalFollows ==
  ASSUME NEW c \in Commands, Positionals(c) # {}
  PROVE  /\ Min(Positionals(c)) \in 2..Len(c) /\ firstPositional(c) = Min(Positionals(c))
         /\ IsPrefix(c[1] \o c[Min(Positionals(c))], join(c)) <=> Min(Positionals(c)) = 2
<1>1. PICK p : p = Min(Positionals(c))
  OBVIOUS
<1>2. Positionals(c) \subseteq 2..Len(c) /\ c \in Seq(Seq(Pieces)) /\ Len(c) \in Nat
  BY CommandsArePieces, LenProperties DEF Positionals
<1>3. p \in Positionals(c) /\ \A i \in Positionals(c) : p =< i
  <2>1. PICK P : P = Positionals(c)
    OBVIOUS
  <2>2. P \subseteq Nat /\ P # {}
    BY <1>2, <2>1
  <2> QED
    BY <1>1, <2>1, <2>2, MinIsLeast
<1>4. p \in 2..Len(c) /\ c[p][1] \notin Flags /\ (2 \in Positionals(c) => p = 2)
  <2>1. p \in 2..Len(c) /\ c[p][1] \notin Flags
    BY <1>3 DEF Positionals
  <2>2. p \in Nat /\ p >= 2
    BY <1>2, <2>1
  <2>3. 2 \in Positionals(c) => p =< 2
    BY <1>3
  <2> QED
    BY <2>1, <2>2, <2>3
<1>5. firstPositional(c) = p
  BY <1>1 DEF firstPositional, Min
<1>6. /\ c[1] \in Seq(Pieces) /\ c[2] \in Seq(Pieces) /\ c[p] \in Seq(Pieces)
      /\ c[2] # <<>> /\ c[p] # <<>> /\ c # <<>> /\ Len(c) > 1
  <2>1. 1 \in 1..Len(c) /\ 2 \in 1..Len(c) /\ p \in 1..Len(c)
    BY <1>2, <1>4
  <2> QED
    BY <1>2, <2>1, CommandsArePieces, EmptySeq
<1>7. join(c) \in Seq(Pieces) /\ IsPrefix(c[1] \o c[2], join(c))
  BY <1>2, <1>6, FlattenBegins DEF join
<1>8. CASE p # 2
  <2>1. c[2][1] \in Flags
    BY <1>2, <1>4, <1>8 DEF Positionals
  <2> SUFFICES ASSUME IsPrefix(c[1] \o c[p], join(c)) PROVE FALSE
    BY <1>1, <1>4, <1>5, <1>8
  <2>2. PICK n : n = Len(c[1]) + 1
    OBVIOUS
  <2>3. /\ c[1] \o c[2] \in Seq(Pieces) /\ c[1] \o c[p] \in Seq(Pieces)
        /\ n \in 1..Len(c[1] \o c[2]) /\ n \in 1..Len(c[1] \o c[p])
        /\ (c[1] \o c[2])[n] = c[2][1] /\ (c[1] \o c[p])[n] = c[p][1]
    <3>1. ASSUME NEW w \in Seq(Pieces), w # <<>>
          PROVE  c[1] \o w \in Seq(Pieces) /\ n \in 1..Len(c[1] \o w) /\ (c[1] \o w)[n] = w[1]
      <4>1. /\ Len(c[1]) \in Nat /\ Len(w) \in Nat \ {0} /\ Len(c[1] \o w) = Len(c[1]) + Len(w)
            /\ \A i \in (Len(c[1])+1)..(Len(c[1])+Len(w)) : (c[1] \o w)[i] = w[i - Len(c[1])]
            /\ c[1] \o w \in Seq(Pieces)
        BY <1>6, <3>1, EmptySeq, LenProperties, ConcatProperties
      <4>2. n \in (Len(c[1])+1)..(Len(c[1])+Len(w)) /\ n - Len(c[1]) = 1 /\ n \in Nat \ {0}
        BY <2>2, <4>1
      <4> QED
        BY <4>1, <4>2
    <3> QED
      BY <1>6, <3>1
  <2>4. /\ \A i \in 1..Len(c[1] \o c[2]) : (c[1] \o c[2])[i] = join(c)[i]
        /\ \A i \in 1..Len(c[1] \o c[p]) : (c[1] \o c[p])[i] = join(c)[i]
    <3>1. \A s \in Seq(Pieces) : IsPrefix(s, join(c)) => \A i \in 1..Len(s) : s[i] = join(c)[i]
      BY <1>7, PrefixByPlace
    <3> QED
      BY <1>7, <2>3, <3>1
  <2>5. join(c)[n] = c[2][1] /\ join(c)[n] = c[p][1]
    BY <2>3, <2>4
  <2> QED
    BY <1>4, <2>1, <2>5
<1>9. CASE p = 2
  BY <1>1, <1>4, <1>5, <1>7, <1>9
<1> QED
  BY <1>8, <1>9

(* What the pattern of an approved command matches.                        *)
LEMMA DefaultCovers ==
  ASSUME NEW c \in Commands, c # <<>>, NEW q, q = derivePattern(c, "default"), q # NoPattern
  PROVE  LET p == IF Positionals(c) = {} THEN 0 ELSE Min(Positionals(c))
             binary == IF Len(c) = 1 /\ Last(c[1]) = Star THEN Front(c[1]) ELSE c[1]
         IN  /\ \A d \in Commands : matchCommand(q, d) =>
                    /\ IsPrefix(binary, join(d))
                    /\ p # 0 => IsPrefix(c[1] \o c[p], join(d))
             /\ matchCommand(q, c) <=> p \in {0, 2}
<1>1. PICK p : p = IF Positionals(c) = {} THEN 0 ELSE Min(Positionals(c))
  OBVIOUS
<1>2. PICK binary : binary = IF Len(c) = 1 /\ Last(c[1]) = Star THEN Front(c[1]) ELSE c[1]
  OBVIOUS
<1>3. /\ c \in Seq(Seq(Pieces)) /\ Len(c) \in Nat \ {0}
      /\ \A i \in 1..Len(c) : c[i] \in Seq(Pieces) /\ c[i] # <<>>
  BY CommandsArePieces, EmptySeq, LenProperties
<1>4. /\ join(c) \in Seq(Pieces) /\ IsPrefix(c[1], join(c))
      /\ Len(c) = 1 => join(c) = c[1]
  BY <1>3, FlattenBegins DEF join
<1>5. \A d \in Commands : d \in Seq(Seq(Pieces)) /\ (d # <<>> => join(d) \in Seq(Pieces))
  BY CommandsArePieces, FlattenBegins DEF join
<1>6. q = defaultPattern(c)
  BY DEF derivePattern
<1>7. firstPositional(c) = p /\ (p # 0 => p \in 2..Len(c))
  <2>1. CASE Positionals(c) = {}
    BY <1>1, <2>1 DEF firstPositional
  <2>2. CASE Positionals(c) # {}
    BY <1>1, <2>2, PositionalFollows
  <2> QED
    BY <2>1, <2>2
<1>8. c[1] \in Seq(Pieces) /\ c[1] # <<>>
  BY <1>3
<1>9. \A d : matchCommand(q, d) => d # <<>>
  BY DEF matchCommand
<1>10. CASE Len(c) = 1
  <2>1. q = c[1] /\ p = 0
    BY <1>6, <1>7, <1>10, <1>3 DEF defaultPattern
  <2>2. \A d : matchCommand(q, d) <=>
            d # <<>> /\ IF Last(q) = Star THEN IsPrefix(Front(q), join(d)) ELSE q = join(d)
    BY DEF matchCommand, compilePatternRegex
  <2>3. binary = IF Last(q) = Star THEN Front(q) ELSE q
    BY <1>2, <1>10, <2>1
  <2>4. IsPrefix(q, q) /\ IsPrefix(Front(q), q)
    BY <1>8, <2>1, PrefixOrder
  <2>5. matchCommand(q, c)
    BY <1>4, <1>10, <2>1, <2>2, <2>4
  <2>6. \A d \in Commands : matchCommand(q, d) => IsPrefix(binary, join(d))
    BY <2>2, <2>3, <2>4
  <2> QED
    BY <1>1, <1>2, <2>1, <2>5, <2>6
<1>11. CASE Len(c) # 1 /\ p # 0
  <2>1. binary = c[1] /\ c[p] \in Seq(Pieces) /\ c[1] \o c[p] \in Seq(Pieces)
    <3>1. p \in 1..Len(c)
      BY <1>3, <1>7, <1>11
    <3> QED
      BY <1>2, <1>3, <1>8, <1>11, <3>1, ConcatProperties
  <2>2. q = (c[1] \o c[p]) \o <<Star>>
    <3>1. Len(c) > 1 /\ Len(c) # 1
      <4>1. PICK n \in Nat : n = Len(c) /\ n # 0
        BY <1>3
      <4> QED
        BY <1>11, <4>1
    <3>2. defaultPattern(c) = c[1] \o c[firstPositional(c)] \o <<Star>>
      BY <1>7, <1>11, <3>1, Zenon DEF defaultPattern
    <3> QED
      BY <1>6, <1>7, <3>2
  <2>3. \A d \in Commands : d # <<>> => (matchCommand(q, d) <=> IsPrefix(c[1] \o c[p], join(d)))
    BY <1>5, <2>1, <2>2, WildcardMatches
  <2>4. IsPrefix(c[1], c[1] \o c[p])
    BY <1>8, <2>1, PrefixOrder
  <2>5. \A d \in Commands : matchCommand(q, d) =>
            IsPrefix(c[1] \o c[p], join(d)) /\ IsPrefix(c[1], join(d))
    <3> SUFFICES ASSUME NEW d \in Commands, matchCommand(q, d)
                 PROVE  IsPrefix(c[1] \o c[p], join(d)) /\ IsPrefix(c[1], join(d))
      OBVIOUS
    <3>1. IsPrefix(c[1] \o c[p], join(d)) /\ join(d) \in Seq(Pieces)
      BY <1>5, <1>9, <2>3
    <3>2. PICK a \in Seq(Pieces) : a = c[1] \o c[p]
      BY <2>1
    <3>3. IsPrefix(c[1], a) /\ IsPrefix(a, join(d))
      BY <2>4, <3>1, <3>2
    <3>4. IsPrefix(c[1], join(d))
      BY <1>8, <3>1, <3>3, PrefixOrder
    <3> QED
      BY <3>1, <3>4
  <2>6. matchCommand(q, c) <=> p = 2
    BY <1>1, <1>11, <2>3, PositionalFollows
  <2> QED
    BY <1>1, <1>2, <1>11, <2>1, <2>5, <2>6
<1>12. CASE Len(c) # 1 /\ p = 0
  <2>1. binary = c[1] /\ q = c[1] \o <<Star>>
    BY <1>2, <1>3, <1>6, <1>7, <1>12 DEF defaultPattern
  <2>2. \A d \in Commands : d # <<>> => (matchCommand(q, d) <=> IsPrefix(c[1], join(d)))
    BY <1>5, <1>8, <2>1, WildcardMatches
  <2>3. matchCommand(q, c)
    BY <1>4, <2>2
  <2> QED
    BY <1>1, <1>2, <1>9, <1>12, <2>1, <2>2, <2>3
<1> QED
  BY <1>10, <1>11, <1>12

(* A last word that is the last of what is joined.                         *)
LEMMA LoneWord ==
  ASSUME NEW c \in Commands, c # <<>>, Len(c) = 1
  PROVE  join(c) = c[1]
<1>1. c \in Seq(Seq(Pieces)) /\ \A i \in 1..Len(c) : c[i] \in Seq(Pieces) /\ c[i] # <<>>
  BY CommandsArePieces
<1> QED
  BY <1>1, FlattenBegins DEF join

(* What an exact pattern matches.                                          *)
LEMMA ExactCovers ==
  ASSUME NEW c \in Commands, c # <<>>, NEW q, q = derivePattern(c, "exact"), q # NoPattern
  PROVE  /\ \A d : matchCommand(q, d) => join(d) = join(c) \/ Last(join(c)) = Star
         /\ matchCommand(q, c)
<1>1. q = join(c)
  BY DEF derivePattern
<1>2. \A d : matchCommand(q, d) <=>
          d # <<>> /\ IF Last(q) = Star THEN IsPrefix(Front(q), join(d)) ELSE q = join(d)
  BY DEF matchCommand, compilePatternRegex
<1>3. join(c) \in Seq(Pieces)
  BY CommandsArePieces, FlattenBegins DEF join
<1>4. IsPrefix(Front(join(c)), join(c))
  BY <1>3, PrefixOrder
<1> QED
  BY <1>1, <1>2, <1>4

(* What the pattern of a tool name matches.                                *)
LEMMA ToolCovers ==
  ASSUME NEW t \in ToolNames, NEW q, q = derivePattern(<<t>>, "tool"), q # NoPattern
  PROVE  /\ \A d \in Commands : d # <<>> => (matchCommand(q, d) <=> IsPrefix(t, join(d)))
         /\ matchCommand(q, <<t>>)
<1>1. t \in Seq(Pieces) /\ <<t>> \in Seq(Seq(Pieces)) /\ <<t>> # <<>> /\ <<t>>[1] = t
      /\ Len(<<t>>) = 1
  <2>1. t \in Seq(Pieces)
    BY CommandsArePieces
  <2> QED
    BY <2>1
<1>2. q = t \o <<Star>>
  BY <1>1 DEF derivePattern
<1>3. IsPrefix(t, join(<<t>>))
  BY <1>1, FlattenBegins DEF join
<1>4. \A d \in Seq(Seq(Pieces)) : d # <<>> => (matchCommand(q, d) <=> IsPrefix(t, join(d)))
  BY <1>1, <1>2, WildcardMatches
<1> QED
  BY <1>1, <1>3, <1>4, CommandsArePieces

(* A pattern that Approve Always derives from a command matches only       *)
(* commands that begin with its binary and the argument behind it, one     *)
(* derived from a tool name only what begins with that name, an exact one  *)
(* only the command itself; and the approved call is permitted next time,  *)
(* whatever the words and however many.                                    *)
THEOREM PatternsTheorem == PatternSpec => []PatternCoversApproved
<1>1. PatternInit => PatternCoversApproved
  BY DEF PatternInit, PatternCoversApproved
<1>2. ASSUME NEW c \in Commands \ {<<>>}, NEW class \in {"exec", "unknown", "tool"},
             NEW t \in ToolNames, ApproveCall(class, t, c)
      PROVE  PatternCoversApproved'
  <2>1. PICK q : q = persistAutoPermitPattern(class, t, c)
    OBVIOUS
  <2>2. permit' = [class |-> class, tool |-> t, command |-> c, pattern |-> q]
    BY <1>2, <2>1 DEF ApproveCall
  <2>3. CASE class = "exec" /\ q # NoPattern
    <3> SUFFICES ASSUME Last(join(c)) # Star
                 PROVE  LET p == IF Positionals(c) = {} THEN 0 ELSE Min(Positionals(c))
                        IN  /\ \A d \in Commands : matchCommand(q, d) =>
                                  IsPrefix(c[1] \o (IF p = 0 THEN <<>> ELSE c[p]), join(d))
                            /\ p \in {0, 2} => matchCommand(q, c)
      BY <2>2, <2>3 DEF PatternCoversApproved
    <3>1. q = derivePattern(c, "default") /\ c \in Commands /\ c # <<>>
      BY <2>1, <2>3 DEF persistAutoPermitPattern
    <3>2. PICK p : p = IF Positionals(c) = {} THEN 0 ELSE Min(Positionals(c))
      OBVIOUS
    <3>3. ~ (Len(c) = 1 /\ Last(c[1]) = Star)
      BY <3>1, LoneWord
    <3>4. /\ \A d \in Commands : matchCommand(q, d) =>
                /\ IsPrefix(c[1], join(d))
                /\ p # 0 => IsPrefix(c[1] \o c[p], join(d))
          /\ matchCommand(q, c) <=> p \in {0, 2}
      BY <2>3, <3>1, <3>2, <3>3, DefaultCovers
    <3>5. c[1] \o <<>> = c[1]
      <4>1. c \in Seq(Seq(Pieces)) /\ 1 \in 1..Len(c) /\ \A i \in 1..Len(c) : c[i] \in Seq(Pieces)
        BY <3>1, CommandsArePieces, EmptySeq, LenProperties
      <4> QED
        BY <4>1, ConcatEmptySeq
    <3> QED
      BY <3>2, <3>4, <3>5
  <2>4. CASE class # "exec" /\ q # NoPattern
    <3>1. q = derivePattern(<<t>>, "tool")
      BY <2>1, <2>4 DEF persistAutoPermitPattern
    <3>2. /\ \A d \in Commands : d # <<>> => (matchCommand(q, d) <=> IsPrefix(t, join(d)))
          /\ matchCommand(q, <<t>>)
      BY <2>4, <3>1, ToolCovers
    <3>3. \A d : matchCommand(q, d) => d # <<>>
      BY DEF matchCommand
    <3> QED
      BY <2>2, <2>4, <3>2, <3>3 DEF PatternCoversApproved, cmdToMatch
  <2>5. CASE q = NoPattern
    BY <2>2, <2>5 DEF PatternCoversApproved
  <2> QED
    BY <2>3, <2>4, <2>5
<1>3. ASSUME NEW c \in Commands \ {<<>>}, DeriveExact(c)
      PROVE  PatternCoversApproved'
  <2>1. PICK q : q = derivePattern(c, "exact")
    OBVIOUS
  <2>2. permit' = [class |-> "exact", tool |-> <<>>, command |-> c, pattern |-> q]
    BY <1>3, <2>1 DEF DeriveExact
  <2>3. CASE q # NoPattern
    BY <2>1, <2>2, <2>3, ExactCovers DEF PatternCoversApproved
  <2>4. CASE q = NoPattern
    BY <2>2, <2>4 DEF PatternCoversApproved
  <2> QED
    BY <2>3, <2>4
<1>4. PatternCoversApproved /\ UNCHANGED permit => PatternCoversApproved'
  BY DEF PatternCoversApproved
<1>5. PatternCoversApproved /\ [PatternNext]_permit => PatternCoversApproved'
  BY <1>2, <1>3, <1>4 DEF PatternNext
<1> QED
  BY <1>1, <1>5, PTL DEF PatternSpec
=============================================================================
