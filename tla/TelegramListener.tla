-------------------------- MODULE TelegramListener --------------------------
(***************************************************************************)
(* The long poll of the Telegram channel, TelegramListener of              *)
(* src/src/hitl/telegram.ts: the start with its session takeover, the poll *)
(* and what each answer leads to, the updates of a batch, stop.            *)
(*                                                                         *)
(* Telegram is external: it keeps the updates, whose numbers ascend, hands *)
(* them out in that order, forgets those below the offset of a getUpdates, *)
(* and for the offset -1 of the takeover all but the last.  activate       *)
(* builds a new listener, whose offset is 0, after deactivate has stopped  *)
(* the last one, which may still be at work.                               *)
(***************************************************************************)
EXTENDS Naturals

CONSTANTS
    Lives,       \* the listeners are 1 .. Lives
    MaxUpdates   \* bound on the updates

ASSUME TelegramBounds == Lives \in Nat \ {0} /\ MaxUpdates \in Nat

VARIABLES
    queue,     \* the updates Telegram keeps: <<update_id, kind>>
    updates,   \* how many there have been
    listener,  \* [pc, running, offset, batch] of each
    handled,   \* handled[l][u]: how often listener l has handled update u
    dropped    \* updates a takeover made Telegram forget

telegramVars == <<queue, updates, listener, handled, dropped>>

Listeners == 1 .. Lives
Updates == 1 .. MaxUpdates
\* A callback or a /approve or /deny command, a management command, and what
\* none of the patterns matches.
Kinds == {"command", "management", "other"}

TelegramInit ==
    /\ queue = {} /\ updates = 0
    /\ listener =
          [l \in Listeners |-> [pc |-> "new", running |-> FALSE, offset |-> 0, batch |-> {}]]
    /\ handled = [l \in Listeners |-> [u \in Updates |-> 0]]
    /\ dropped = {}

Ids(s) == {u[1] : u \in s}
Earliest(s) == CHOOSE u \in s : \A w \in s : u[1] <= w[1]
Latest(s) == CHOOSE u \in s : \A w \in s : w[1] <= u[1]
At(l, pc) == listener[l].pc = pc
Goes(l, pc) == listener' = [listener EXCEPT ![l].pc = pc]
\* The loop condition: while (this.running).
Loops(l) == IF listener[l].running THEN "polling" ELSE "ended"

Operator(kind) ==
    /\ updates < MaxUpdates
    /\ updates' = updates + 1
    /\ queue' = queue \cup {<<updates + 1, kind>>}
    /\ UNCHANGED <<listener, handled, dropped>>

-----------------------------------------------------------------------------
\* start, with or without takeOverSession.
start(l, takeOver) ==
    /\ At(l, "new")
    /\ \A k \in Listeners : k < l => ~At(k, "new") /\ ~listener[k].running
    /\ listener' = [listener EXCEPT ![l].running = TRUE,
                                    ![l].pc = IF takeOver THEN "taking over" ELSE "starting"]
    /\ UNCHANGED <<queue, updates, handled, dropped>>

\* closeOtherSessions: getUpdates with offset -1, unless it fails; then
\* deleteWebhook, whose result does not matter, and a pause.
closeOtherSessions(l) ==
    /\ At(l, "taking over")
    /\ Goes(l, "starting")
    /\ \E kept \in {queue, {u \in queue : u = Latest(queue)}} :
          /\ queue' = kept
          /\ dropped' = dropped \cup (Ids(queue) \ Ids(kept))
    /\ UNCHANGED <<updates, handled>>

Started(l) ==
    At(l, "starting") /\ Goes(l, Loops(l)) /\ UNCHANGED <<queue, updates, handled, dropped>>

Unconfirmed(l) == {u \in queue : u[1] >= listener[l].offset}

\* getUpdates reaches Telegram, and its answer the listener.
poll(l) ==
    /\ At(l, "polling")
    /\ queue' = Unconfirmed(l)
    /\ listener' = [listener EXCEPT ![l].pc = "handling", ![l].batch = Unconfirmed(l)]
    /\ UNCHANGED <<updates, handled, dropped>>

\* 429, 409, any other status, a body without a result, or an exception: the
\* listener waits; whether Telegram saw the offset is open.
pollFails(l) ==
    /\ At(l, "polling")
    /\ Goes(l, "waiting")
    /\ queue' \in {queue, Unconfirmed(l)}
    /\ UNCHANGED <<updates, handled, dropped>>

NextUpdate(l) == Earliest(listener[l].batch)

\* The next update of the batch.  The offset moves past it first.
\* A plausible slip: past the whole batch.
OffsetPastBatch(l) == Latest(listener[l].batch)[1] + 1
Offset(l) == NextUpdate(l)[1] + 1

Take(l, pc, batch) ==
    listener' = [listener EXCEPT ![l].pc = pc, ![l].offset = Offset(l), ![l].batch = batch]
Handled(l) == handled' = [handled EXCEPT ![l][NextUpdate(l)[1]] = @ + 1]

\* onCommand, or nothing; for a management command the listener awaits the
\* answer and sends it.
handleUpdate(l) ==
    /\ At(l, "handling") /\ listener[l].batch # {}
    /\ Handled(l)
    /\ Take(l, IF NextUpdate(l)[2] = "management" THEN "answering" ELSE "handling",
            listener[l].batch \ {NextUpdate(l)})
    /\ UNCHANGED <<queue, updates, dropped>>

\* A handler throws: the rest of the batch is left for the next poll.
handlerThrows(l) ==
    /\ At(l, "handling") /\ listener[l].batch # {}
    /\ NextUpdate(l)[2] \in {"command", "management"}
    /\ Handled(l)
    /\ Take(l, IF listener[l].running THEN "waiting" ELSE "ended", {})
    /\ UNCHANGED <<queue, updates, dropped>>

Answered(l) ==
    At(l, "answering") /\ Goes(l, "handling") /\ UNCHANGED <<queue, updates, handled, dropped>>

BatchDone(l) ==
    /\ At(l, "handling") /\ listener[l].batch = {}
    /\ Goes(l, Loops(l))
    /\ UNCHANGED <<queue, updates, handled, dropped>>

DelayEnds(l) ==
    At(l, "waiting") /\ Goes(l, Loops(l)) /\ UNCHANGED <<queue, updates, handled, dropped>>

\* stop aborts a poll under way; a batch, a startup and a delay go on to the
\* next look at running.
stop(l) ==
    /\ listener[l].running
    /\ listener' = [listener EXCEPT ![l].running = FALSE,
                                    ![l].pc = IF @ = "polling" THEN "ended" ELSE @]
    /\ UNCHANGED <<queue, updates, handled, dropped>>

TelegramNext ==
    \/ \E kind \in Kinds : Operator(kind)
    \/ \E l \in Listeners :
          \/ \E takeOver \in BOOLEAN : start(l, takeOver)
          \/ closeOtherSessions(l) \/ Started(l) \/ poll(l) \/ pollFails(l)
          \/ handleUpdate(l) \/ handlerThrows(l) \/ Answered(l) \/ BatchDone(l)
          \/ DelayEnds(l) \/ stop(l)

TelegramSpec == TelegramInit /\ [][TelegramNext]_telegramVars

-----------------------------------------------------------------------------
\* Whatever polls fail, handlers throw and listeners stop or take over, no
\* answer of the operator is skipped and none is handled twice by a listener:
\* an update that Telegram no longer keeps was handed to a handler or dropped by
\* a takeover.  (The next listener gets the last updates again that no poll had
\* confirmed: approvals are consumed tokens by then, but /revoke N would revoke
\* another rule.)
UpdatesHandledOnce ==
    /\ \A u \in 1 .. updates :
          u \in Ids(queue) \cup dropped \/ \E l \in Listeners : handled[l][u] > 0
    /\ \A l \in Listeners : \A u \in Updates : handled[l][u] <= 1
=============================================================================
