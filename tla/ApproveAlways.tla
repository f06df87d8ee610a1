----------------------------- MODULE ApproveAlways -----------------------------
(***************************************************************************)
(* The Approve Always dialog of the Telegram channel, the listener that    *)
(* activate of src/src/index.ts installs, over the ApprovalManager.        *)
(*                                                                         *)
(* A tap on Approve Always does not answer the request: it derives a       *)
(* pattern and opens a Save / Cancel dialog with a timer of its own, while *)
(* the request goes on ageing toward its own deadline.  Taps come in any   *)
(* order, late and twice (Telegram delivers an update again when the       *)
(* offset was not acknowledged), on the request and on the dialog.         *)
(***************************************************************************)
EXTENDS FiniteSets

CONSTANTS
    Requests,   \* approval requests, by their UUID
    Key,        \* Key[t]: the channel:class key of the request
    Derivable,  \* requests from whose command derivePattern makes a pattern
    Enabled,    \* FEATURES.approveAlwaysEnabled
    AutoConfirm, \* FEATURES.approveAlwaysAutoConfirm
    None

ASSUME FlagsAreBoolean == Enabled \in BOOLEAN /\ AutoConfirm \in BOOLEAN
ASSUME DerivableAreRequests == Derivable \subseteq Requests
ASSUME NoneIsNoAnswer ==
    None \notin Requests /\ None \notin {"binding", "saved", "cancelled"}

VARIABLES
    pending, consumed, sessionAutoApprovals, tokenOf, bindingOf, timer,
    promise, acked,   \* the approvalManager
    dialog,    \* tokens in pendingApproveAlwaysConfirmations
    armed,     \* tokens with a confirmation timer running
    settled,   \* settledApproveAlwaysConfirmations, None if absent
    saves,     \* tokens whose pattern persistAutoPermitPattern set out to store
    reply,     \* what the last tap on the token's buttons was told
    told       \* history: tokens told "saved" by this process

amVars == <<pending, consumed, sessionAutoApprovals, tokenOf, bindingOf, timer,
            promise, acked>>
dialogVars == <<dialog, armed, settled>>
vars == <<amVars, dialogVars, saves, reply, told>>

AM == INSTANCE ApprovalManager WITH
        SessionKeys <- {}, Bindings <- {"binding"},
        ApprovalKeys <- {Key[t] : t \in Requests}

Replies == {None, "saved", "alreadySaved", "cancelled", "wasCancelled", "decided",
            "noDialog", "unknown"}

TypeOK ==
    /\ AM!TypeOK
    /\ dialog \subseteq Requests /\ armed \subseteq Requests
    /\ settled \in [Requests -> {None, "saved", "cancelled"}]
    /\ saves \subseteq Requests
    /\ reply \in [Requests -> Replies]
    /\ told \subseteq Requests

Init ==
    /\ AM!Init
    /\ dialog = {} /\ armed = {}
    /\ settled = [t \in Requests |-> None]
    /\ saves = {}
    /\ reply = [t \in Requests |-> None]
    /\ told = {}

-----------------------------------------------------------------------------
Filed(t) == pending[t] # None

(* What the listener returns, shown to the operator as a toast.            *)
Say(t, text) ==
    /\ reply' = [reply EXCEPT ![t] = text]
    /\ told' = IF text = "saved" THEN told \cup {t} ELSE told

CloseDialog(t) == dialog' = dialog \ {t} /\ armed' = armed \ {t}

(* The answer and, when the request is still filed, the session approval   *)
(* and the save: the tail of Save and of Approve Always without a dialog.  *)
ApproveAndRemember(t) ==
    /\ AM!Answer({t}, "approved")
    /\ sessionAutoApprovals' =
         IF Filed(t) THEN sessionAutoApprovals \cup {Key[t]} ELSE sessionAutoApprovals
    /\ saves' = IF Filed(t) /\ t \in Derivable THEN saves \cup {t} ELSE saves

(* What a tap on the buttons of a dialog that is gone is told.             *)
NoDialogReply(t) ==
    CASE settled[t] = "saved" -> "alreadySaved"
      [] settled[t] = "cancelled" -> "wasCancelled"
      [] OTHER -> IF t \in consumed THEN "decided" ELSE "noDialog"

TapGoneDialog(t) ==
    /\ t \notin dialog
    /\ Say(t, NoDialogReply(t))
    /\ UNCHANGED <<amVars, dialogVars, saves>>

(* Mutated form: the session approval comes from the dialog, not from the  *)
(* request that may be gone.                                               *)
TapSaveFromDialog(t) ==
    /\ t \in dialog
    /\ CloseDialog(t)
    /\ settled' = [settled EXCEPT ![t] = "saved"]
    /\ AM!Answer({t}, "approved")
    /\ sessionAutoApprovals' = sessionAutoApprovals \cup {Key[t]}
    /\ saves' = saves \cup {t}
    /\ Say(t, IF Filed(t) \/ t \in consumed THEN "saved" ELSE "unknown")

(* confirm_approve_always on an open dialog.                               *)
TapSave(t) ==
    /\ t \in dialog
    /\ CloseDialog(t)
    /\ settled' = [settled EXCEPT ![t] = "saved"]
    /\ ApproveAndRemember(t)
    /\ Say(t, IF Filed(t) \/ t \in consumed THEN "saved" ELSE "unknown")

(* cancel_approve_always on an open dialog: the request stays pending.     *)
TapCancel(t) ==
    /\ t \in dialog
    /\ CloseDialog(t)
    /\ settled' = [settled EXCEPT ![t] = "cancelled"]
    /\ Say(t, "cancelled")
    /\ UNCHANGED <<amVars, saves>>

(* Mutated form: the dialog is opened without its timer.                   *)
OpenDialogWithoutTimer(t) == dialog' = dialog \cup {t} /\ armed' = armed \ {t}

(* A dialog that is already open is replaced, its timer started again.     *)
OpenDialog(t) == dialog' = dialog \cup {t} /\ armed' = armed \cup {t}

(* approve_always, first form: the request is filed and a pattern can be   *)
(* derived, so the operator is asked to confirm it.                        *)
TapAlwaysOpensDialog(t) ==
    /\ Enabled /\ Filed(t) /\ t \in Derivable /\ ~AutoConfirm
    /\ OpenDialog(t)
    /\ settled' = [settled EXCEPT ![t] = None]
    /\ Say(t, None)
    /\ UNCHANGED <<amVars, saves>>

(* Second form: nothing to confirm, the request is approved at once; on a  *)
(* request that is gone nothing happens but the reply.                     *)
TapAlwaysAtOnce(t) ==
    /\ Enabled /\ ~(Filed(t) /\ t \in Derivable /\ ~AutoConfirm)
    /\ CloseDialog(t)
    /\ settled' = [settled EXCEPT ![t] = None]
    /\ ApproveAndRemember(t)
    /\ Say(t, IF t \in consumed THEN "decided" ELSE None)

(* Mutated form: the dialog of an answered request stays open.             *)
TapAnswerKeepsDialog(t, d) ==
    /\ UNCHANGED <<dialog, armed>>
    /\ AM!Answer({t}, d)
    /\ Say(t, IF t \in consumed THEN "decided" ELSE None)
    /\ UNCHANGED <<sessionAutoApprovals, settled, saves>>

(* approve and deny on the request (with the feature disabled a tap on     *)
(* Approve Always is an approve): a dialog left open is discarded.         *)
TapAnswer(t, d) ==
    /\ CloseDialog(t)
    /\ AM!Answer({t}, d)
    /\ Say(t, IF t \in consumed THEN "decided" ELSE None)
    /\ UNCHANGED <<sessionAutoApprovals, settled, saves>>

(* The dialog's timer.                                                     *)
DialogTimesOut(t) ==
    /\ t \in armed
    /\ CloseDialog(t)
    /\ UNCHANGED <<amVars, settled, saves, reply, told>>

-----------------------------------------------------------------------------
(* The request itself: created by the hook, expiring, or cancelled because *)
(* its notification seemed not to arrive.                                  *)
CreateRequest(t) ==
    AM!CreateApprovalRequest(t, t, "binding") /\ UNCHANGED <<dialogVars, saves, reply, told>>

RequestExpires(t) == AM!Expire(t) /\ UNCHANGED <<dialogVars, saves, reply, told>>

SendFails(t) == AM!Cancel(t) /\ UNCHANGED <<dialogVars, saves, reply, told>>

(* deactivate, and activate again: taps made in between are delivered to   *)
(* the new listener.                                                       *)
Deactivate ==
    /\ AM!Shutdown
    /\ dialog' = {} /\ armed' = {}
    /\ settled' = [t \in Requests |-> None]
    /\ UNCHANGED <<saves, reply, told>>

(* The process dies; the buttons stay in the operator's chat.              *)
Restart ==
    /\ AM!Restart
    /\ dialog' = {} /\ armed' = {}
    /\ settled' = [t \in Requests |-> None]
    /\ told' = {}
    /\ UNCHANGED <<saves, reply>>

(* Taps reach buttons that exist: those of a request that was created, and *)
(* of a dialog that was shown.                                             *)
Created(t) == promise[t] # "absent"

Step ==
    \/ \E t \in Requests :
          /\ Created(t)
          /\ \/ TapSave(t) \/ TapCancel(t) \/ TapGoneDialog(t)
             \/ TapAlwaysOpensDialog(t) \/ TapAlwaysAtOnce(t)
             \/ \E d \in AM!Answers : TapAnswer(t, d)
    \/ \E t \in Requests :
          \/ DialogTimesOut(t) \/ CreateRequest(t) \/ RequestExpires(t) \/ SendFails(t)
    \/ Deactivate

Next == Step \/ Restart

(* Timers whose delay has passed run.                                      *)
Fairness == \A t \in Requests : WF_vars(DialogTimesOut(t)) /\ WF_vars(RequestExpires(t))

Spec == Init /\ [][Next]_vars /\ Fairness

-----------------------------------------------------------------------------
(* Properties                                                              *)

(* A lasting permission is given only together with the answer to a live   *)
(* request: whenever a session approval or a stored pattern comes into     *)
(* being, a request with that key is approved in the same step.  A Save    *)
(* tapped after the request expired, was cancelled or was denied grants    *)
(* nothing.                                                                *)
GrantsOnlyWithApproval ==
    [][\A t \in Requests :
          \/ t \in saves' \ saves
          \/ Key[t] \in sessionAutoApprovals' \ sessionAutoApprovals
          => \E q \in Requests : /\ Key[q] = Key[t] /\ promise[q] = "waiting"
                                 /\ promise'[q] = "approved"]_vars

(* index.ts: settled confirmations are remembered "so duplicate Telegram   *)
(* callback deliveries/taps get a clear idempotent response".  Once a tap  *)
(* was told that the pattern is saved, no later tap is told it was         *)
(* cancelled or never asked for; and after Deny no tap is told so.         *)
SavedIsNotContradicted ==
    \A t \in told : /\ reply[t] \in {"saved", "alreadySaved", "decided"}
                    /\ promise[t] # "denied"

(* A dialog never stays open for ever, though nobody taps it.              *)
DialogsClose == \A t \in Requests : t \in dialog ~> t \notin dialog
================================================================================
