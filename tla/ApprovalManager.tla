--------------------------- MODULE ApprovalManager ---------------------------
(***************************************************************************)
(* The in-memory store of human-in-the-loop approval requests, class       *)
(* ApprovalManager of src/src/hitl/approval-manager.ts.                    *)
(*                                                                         *)
(* A request is one call of createApprovalRequest.  It owns a promise that *)
(* its creator awaits and a time-to-live timer, and it is filed in the map *)
(* `pending' under a token: a fresh UUID v7 (modelled by the request       *)
(* itself, since a UUID is never reused), or the shared key                *)
(* session_id:action_class when the request is made in session_approval    *)
(* mode.  JavaScript runs each method to completion, so every method is    *)
(* one action; what interleaves is the order of method calls and timers.   *)
(*                                                                         *)
(* A method that finds nothing to do (resolveApproval or cancel on an      *)
(* unknown token, a binding mismatch) changes no state: it is a stuttering *)
(* step, and the guards of the actions say when it is not one.             *)
(***************************************************************************)
EXTENDS FiniteSets

CONSTANTS
    Requests,      \* identities of the calls of createApprovalRequest
    SessionKeys,   \* the session_id:action_class tokens
    Bindings,      \* values of computeBinding (SHA-256 of class|target|payload)
    ApprovalKeys,  \* the channelId:action_class keys of Approve Always
    None           \* "no entry", "no binding argument"

ASSUME TokensDisjoint == Requests \cap SessionKeys = {}
ASSUME NoneIsNotAValue == None \notin Requests \cup SessionKeys \cup Bindings

Tokens == Requests \cup SessionKeys
Answers == {"approved", "denied"}
Decisions == Answers \cup {"expired"}

VARIABLES
    pending,   \* Map token -> the request filed under it, or None
    consumed,  \* Set of tokens approved, denied, expired or cancelled
    sessionAutoApprovals,  \* Set of channel:class keys approved "always"
    tokenOf,   \* the token each created request was given
    bindingOf, \* the binding stored in its entry
    timer,     \* its setTimeout handle
    promise,   \* the promise its creator awaits
    acked      \* history: answers resolveApproval acknowledged, per token

storeVars == <<pending, consumed, tokenOf, bindingOf, timer, promise, acked>>
vars == <<storeVars, sessionAutoApprovals>>

TypeOK ==
    /\ pending \in [Tokens -> Requests \cup {None}]
    /\ consumed \in SUBSET Tokens
    /\ sessionAutoApprovals \in SUBSET ApprovalKeys
    /\ tokenOf \in [Requests -> Tokens \cup {None}]
    /\ bindingOf \in [Requests -> Bindings \cup {None}]
    /\ timer \in [Requests -> {"unset", "armed", "cleared", "fired", "gone"}]
    /\ promise \in [Requests -> Decisions \cup {"absent", "waiting", "lost"}]
    /\ acked \in [Tokens -> SUBSET Answers]

Init ==
    /\ pending = [t \in Tokens |-> None]
    /\ consumed = {}
    /\ sessionAutoApprovals = {}
    /\ tokenOf = [r \in Requests |-> None]
    /\ bindingOf = [r \in Requests |-> None]
    /\ timer = [r \in Requests |-> "unset"]
    /\ promise = [r \in Requests |-> "absent"]
    /\ acked = [t \in Tokens |-> {}]

-----------------------------------------------------------------------------
(* Settling: the resolve function of a promise is called on every request  *)
(* of a set.  As in JavaScript, only the first call on a promise counts.   *)
Settle(rs, d) ==
    promise' = [r \in Requests |-> IF r \in rs /\ promise[r] = "waiting"
                                     THEN d ELSE promise[r]]

(* clearTimeout on the timers of a set of requests.                        *)
ClearTimers(rs) ==
    timer' = [r \in Requests |-> IF r \in rs /\ timer[r] = "armed"
                                   THEN "cleared" ELSE timer[r]]

(* Mutated form: consumed only, the entry is left in `pending'.            *)
ConsumeKeepsEntries(ts) ==
    /\ pending' = pending
    /\ consumed' = consumed \cup ts

(* The entries leave `pending' and their tokens become consumed.           *)
Consume(ts) ==
    /\ pending' = [t \in Tokens |-> IF t \in ts THEN None ELSE pending[t]]
    /\ consumed' = consumed \cup ts

(* The tokens of a set that have an entry, and the requests filed there.   *)
Filed(ts) == {t \in ts : pending[t] # None}
Entries(ts) == {pending[t] : t \in Filed(ts)}

-----------------------------------------------------------------------------
(* Mutated form: setTimeout is never called.                               *)
CreateWithoutTimer(r, t, b) ==
    /\ promise[r] = "absent"
    /\ t \in {r} \cup SessionKeys
    /\ pending' = [pending EXCEPT ![t] = r]
    /\ tokenOf' = [tokenOf EXCEPT ![r] = t]
    /\ bindingOf' = [bindingOf EXCEPT ![r] = b]
    /\ promise' = [promise EXCEPT ![r] = "waiting"]
    /\ UNCHANGED <<timer, consumed, acked, sessionAutoApprovals>>

(* createApprovalRequest: in per_request mode t is the request's own UUID, *)
(* in session_approval mode a session key.  pending.set(token, entry)      *)
(* replaces whatever entry the session key already had; the older request  *)
(* keeps its timer and its promise but is no longer filed anywhere.        *)
CreateApprovalRequest(r, t, b) ==
    /\ promise[r] = "absent"
    /\ t \in {r} \cup SessionKeys
    /\ pending' = [pending EXCEPT ![t] = r]
    /\ tokenOf' = [tokenOf EXCEPT ![r] = t]
    /\ bindingOf' = [bindingOf EXCEPT ![r] = b]
    /\ timer' = [timer EXCEPT ![r] = "armed"]
    /\ promise' = [promise EXCEPT ![r] = "waiting"]
    /\ UNCHANGED <<consumed, acked, sessionAutoApprovals>>

(* Mutated form: the timer's callback forgets pending.delete(token).       *)
ExpireKeepsEntry(r) ==
    /\ timer[r] = "armed"
    /\ consumed' = consumed \cup {tokenOf[r]}
    /\ timer' = [timer EXCEPT ![r] = "fired"]
    /\ Settle({r}, "expired")
    /\ UNCHANGED <<pending, tokenOf, bindingOf, acked, sessionAutoApprovals>>

(* The TTL timer's callback: it deletes by token, whoever is filed there.  *)
Expire(r) ==
    /\ timer[r] = "armed"
    /\ Consume({tokenOf[r]})
    /\ timer' = [timer EXCEPT ![r] = "fired"]
    /\ Settle({r}, "expired")
    /\ UNCHANGED <<tokenOf, bindingOf, acked, sessionAutoApprovals>>

(* When resolveApproval(token, decision, binding?) returns true.           *)
CanResolve(t, b) ==
    /\ pending[t] # None
    /\ b \in {None, bindingOf[pending[t]]}

(* The entries of ts are answered with d: what resolveApproval does for a  *)
(* token, and what the loop of batchResolve adds up to for several.  With  *)
(* no entry under ts it does nothing.  It leaves the session approvals to  *)
(* the action that uses it.                                                *)
Answer(ts, d) ==
    /\ ClearTimers(Entries(ts))
    /\ Consume(Filed(ts))
    /\ Settle(Entries(ts), d)
    /\ acked' = [t \in Tokens |-> IF t \in Filed(ts)
                                    THEN acked[t] \cup {d} ELSE acked[t]]
    /\ UNCHANGED <<tokenOf, bindingOf>>

ResolveApproval(t, d, b) ==
    /\ CanResolve(t, b)
    /\ Answer({t}, d)
    /\ UNCHANGED sessionAutoApprovals

BatchResolve(ts, d) ==
    /\ Filed(ts) # {}
    /\ Answer(ts, d)
    /\ UNCHANGED sessionAutoApprovals

(* cancel: the notification could not be delivered.                        *)
Cancel(t) ==
    /\ pending[t] # None
    /\ ClearTimers(Entries({t}))
    /\ Consume({t})
    /\ Settle(Entries({t}), "expired")
    /\ UNCHANGED <<tokenOf, bindingOf, acked, sessionAutoApprovals>>

AddSessionAutoApproval(k) ==
    /\ sessionAutoApprovals' = sessionAutoApprovals \cup {k}
    /\ UNCHANGED storeVars

ClearSessionAutoApprovals ==
    /\ sessionAutoApprovals' = {}
    /\ UNCHANGED storeVars

(* Mutated form: shutdown empties the map without resolving its entries.   *)
ShutdownWithoutResolve ==
    /\ ClearTimers(Entries(Tokens))
    /\ Consume(Filed(Tokens))
    /\ sessionAutoApprovals' = {}
    /\ UNCHANGED <<promise, tokenOf, bindingOf, acked>>

(* shutdown: every filed entry expires, consumed tokens are kept.          *)
Shutdown ==
    /\ ClearTimers(Entries(Tokens))
    /\ Consume(Filed(Tokens))
    /\ Settle(Entries(Tokens), "expired")
    /\ sessionAutoApprovals' = {}
    /\ UNCHANGED <<tokenOf, bindingOf, acked>>

(* A process restart: the manager is built anew with empty maps (the F-02  *)
(* limitation); the awaiting callers and all timers die with the process.  *)
Restart ==
    /\ pending' = [t \in Tokens |-> None]
    /\ consumed' = {}
    /\ sessionAutoApprovals' = {}
    /\ timer' = [r \in Requests |-> IF timer[r] = "armed"
                                      THEN "gone" ELSE timer[r]]
    /\ promise' = [r \in Requests |-> IF promise[r] = "waiting"
                                        THEN "lost" ELSE promise[r]]
    /\ UNCHANGED <<tokenOf, bindingOf, acked>>

-----------------------------------------------------------------------------
Next ==
    \/ \E r \in Requests, t \in Tokens, b \in Bindings :
          CreateApprovalRequest(r, t, b)
    \/ \E r \in Requests : Expire(r)
    \/ \E t \in Tokens, d \in Answers, b \in Bindings \cup {None} :
          ResolveApproval(t, d, b)
    \/ \E ts \in SUBSET Tokens, d \in Answers : BatchResolve(ts, d)
    \/ \E t \in Tokens : Cancel(t)
    \/ \E k \in ApprovalKeys : AddSessionAutoApproval(k)
    \/ ClearSessionAutoApprovals
    \/ Shutdown
    \/ Restart

(* A live process runs a timer whose delay has passed.                     *)
Fairness == \A r \in Requests : WF_vars(Expire(r))

Spec == Init /\ [][Next]_vars /\ Fairness

-----------------------------------------------------------------------------
(* Properties                                                              *)

(* An entry of `pending' is live: its promise still waits, its timer is    *)
(* armed and it is filed under its own token.  resolveApproval, cancel and *)
(* shutdown settle whatever entry they find, so an entry that outlived its *)
(* promise would let them acknowledge an answer nobody receives.           *)
PendingIsLive ==
    \A t \in Tokens : pending[t] # None =>
        /\ promise[pending[t]] = "waiting"
        /\ timer[pending[t]] = "armed"
        /\ tokenOf[pending[t]] = t

(* A promise waits exactly while its timer is armed: no caller of          *)
(* createApprovalRequest waits without a deadline, and no timer outlives   *)
(* its request to delete, by token, an entry that is not its own.          *)
WaitingHasDeadline ==
    \A r \in Requests : promise[r] = "waiting" <=> timer[r] = "armed"

(* A request with a token of its own (per_request mode) can be answered    *)
(* exactly as long as its caller waits: never lost from `pending' before   *)
(* it is decided, never resolvable again after (no replay of a token, also *)
(* after a restart has emptied the consumed set).                          *)
AnswerableIffWaiting ==
    \A r \in Requests : tokenOf[r] = r =>
        /\ promise[r] = "waiting" <=> pending[r] = r
        /\ promise[r] = "waiting" => r \notin consumed

(* What resolveApproval acknowledges is what the caller gets, and the      *)
(* caller gets an answer only from an acknowledged resolveApproval: a      *)
(* timeout, a cancel or a shutdown that races the operator cannot turn an  *)
(* acknowledged approval into an expiry, nor an expiry into an approval.   *)
AckedIsOutcome ==
    /\ \A r \in Requests : promise[r] \in Answers => promise[r] \in acked[tokenOf[r]]
    /\ \A r \in Requests : \A d \in acked[r] : promise[r] = d
    /\ \A k \in SessionKeys : \A d \in acked[k] :
          \E r \in Requests : tokenOf[r] = k /\ promise[r] = d

(* shutdown leaves no per_request caller waiting: the promises the plugin  *)
(* awaits are all settled when deactivate has run approvalManager.shutdown *)
(* (a caller left waiting would hang until a timer that may never come).   *)
ShutdownDrains ==
    [][Shutdown => \A r \in Requests : tokenOf[r] = r => promise'[r] # "waiting"]_vars

(* Every caller of createApprovalRequest is released: its promise settles  *)
(* (or dies with the process), in both keying modes, whatever the operator *)
(* does and even when its entry has been replaced under a session key.     *)
EveryRequestSettles ==
    \A r \in Requests : promise[r] = "waiting" ~> promise[r] # "waiting"
=============================================================================
