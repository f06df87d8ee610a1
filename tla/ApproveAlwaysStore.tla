------------------------- MODULE ApproveAlwaysStore -------------------------
(***************************************************************************)
(* Approve Always end to end: the taps of ApproveAlways over the store of  *)
(* AutoPermitStore.  Saving a pattern starts persistAutoPermitPattern,     *)
(* which nobody awaits: the operator is told that the pattern is saved     *)
(* before the file is read.  /revoke ends by clearing every session        *)
(* approval.  A restart hits both.                                         *)
(***************************************************************************)
EXTENDS ApproveAlways, Naturals, SequencesExt

CONSTANTS
    Ops, Stored, MaxInFlight, MaxLoads,  \* those of AutoPermitStore
    MaxRevokes                           \* bound on the revocations and removals

VARIABLES store, tmp, content, phase, seen, fd, checker, changed, reads,
          shared, mixed, before, overwritten, overtaken

historyVars == <<shared, mixed, before, overwritten, overtaken>>
storeVars == <<store, tmp, content, phase, seen, fd, checker, changed, reads, historyVars>>
operatorVars == <<vars, storeVars>>

Store == INSTANCE AutoPermitStore

\* Every derivable request has its persist operation, and no other has one.
ASSUME OpsFitRequests ==
    /\ \A t \in Derivable : \E o \in Ops : o.kind = "persist" /\ o.request = t
    /\ \A o \in Ops : o.kind = "persist" => o.request \in Derivable
    /\ MaxRevokes \in Nat

\* Operations are separate runs of the code: each has an id, and each can make
\* an inode of its own; no inode is None.
ASSUME OpsAreDistinct ==
    /\ IsFiniteSet(Ops) /\ None # 0
    /\ \A o \in Ops : o.id \notin {0, None}
    /\ \A o, q \in Ops : o.id = q.id => o = q
ASSUME StoredIsSequence == Stored \in Seq(Range(Stored))

OperatorInit == Init /\ Store!Init

\* A step of the dialog; the save it may set out to make begins with it.
PersistsSaves ==
    IF saves' = saves THEN UNCHANGED storeVars
    ELSE \E o \in Ops : o.kind = "persist" /\ o.request \in saves' \ saves /\ Store!Begin(o)
Dialog == Step /\ PersistsSaves

\* The last step of revokeAutoPermitForTelegram clears the session approvals.
ClearsSessions == sessionAutoApprovals' = {}
Finishes(o) ==
    /\ Store!RevokeAnswers(o)
    /\ ClearsSessions
    /\ UNCHANGED <<pending, consumed, tokenOf, bindingOf, timer, promise, acked,
                   dialogVars, saves, reply, told>>

Revokes == {o \in Ops : o.kind # "persist" /\ phase[o] # "idle"}
BeginRevoke(o) ==
    /\ o.kind # "persist"
    /\ Cardinality(Revokes) < MaxRevokes
    /\ Store!Begin(o)
    /\ UNCHANGED vars

OperatorNext ==
    \/ Dialog
    \/ \E o \in Ops : \/ BeginRevoke(o)
                      \/ Store!Proceed(o) /\ UNCHANGED vars
                      \/ Finishes(o)
    \/ Store!Watcher /\ UNCHANGED vars
    \/ Restart /\ Store!Restart

\* Timers fire and the file operations of the gateway return.
OperatorFairness ==
    /\ \A t \in Requests : /\ WF_operatorVars(DialogTimesOut(t) /\ PersistsSaves)
                           /\ WF_operatorVars(RequestExpires(t) /\ PersistsSaves)
    /\ WF_operatorVars(Store!WatcherReads /\ UNCHANGED vars)
    /\ WF_operatorVars(Store!WatcherInstalls /\ UNCHANGED vars)

OperatorSpec == OperatorInit /\ [][OperatorNext]_operatorVars /\ OperatorFairness

-----------------------------------------------------------------------------
(* The properties of the store, with the taps as its clients.              *)

\* store.ts: write-to-temp-then-rename "to ensure the file is never left in a
\* partially written state", a crash or a failed write at any point included; it
\* is left so only when two operations had the temporary file in hand at once.
NeverPartial == Store!NeverPartial

\* As long as no file that two operations had in hand has become the store: a
\* pattern reported saved is in the store, one reported revoked or removed is not,
\* unless another operation undid it or had read the file before and landed after;
\* and neither costs another rule.
ReportedIsStored == Store!ReportedIsStored

\* Unless an operation is under way, the rules stage 2 consults end up being
\* those of the file, but for a reload installed after one that began later.
CheckerFollowsStore == Store!CheckerFollowsStore

\* Whenever no file event waits and no reload is under way, the rules stage 2
\* consults are those of the file, with the same exception.
CheckerInStep == Store!CheckerInStep

\* A rule enters the store only with an approval: a pattern that was not there
\* at the start belongs to a request that the operator approved or that was
\* lost with the process after it was approved, and the request's key was then
\* approved for the session; a request denied, expired or cancelled while its
\* dialog was open leaves nothing in the store, not even after a restart.
StoredWasApproved ==
    \A o \in Ops : o.kind = "persist" /\ o.pattern \in Range(Store!StoredRules) =>
        "approved" \in acked[o.request]
=============================================================================
