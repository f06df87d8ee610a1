------------------------- MODULE ApproveAlwaysProofs -------------------------
(***************************************************************************)
(* What Approve Always promises, from the tap to the file, for any set of  *)
(* requests, commands and operations on the store.                         *)
(*                                                                         *)
(* AMP is ApprovalManagerProofs for the requests of the dialog.            *)
(***************************************************************************)
EXTENDS ApproveAlwaysStore, SequenceFacts, FiniteSetTheorems, TLAPS

AMP == INSTANCE ApprovalManagerProofs WITH
         SessionKeys <- {}, Bindings <- {"binding"},
         ApprovalKeys <- {Key[t] : t \in Requests}

(* A dialog is open only over a request nobody has answered.  A request    *)
(* whose pattern was reported saved is over, its token consumed, and no    *)
(* tap finds a dialog or a Cancel to report.                               *)
DialogDiscipline ==
    /\ \A t \in dialog : promise[t] \in {"waiting", "expired"}
    /\ \A t \in told : /\ t \in consumed \ dialog
                       /\ promise[t] \in {"approved", "expired"}
                       /\ settled[t] # "cancelled"
                       /\ reply[t] \in {"saved", "alreadySaved", "decided"}

DInv ==
    /\ TypeOK
    /\ AMP!IInv
    /\ DialogDiscipline

-----------------------------------------------------------------------------
(* The assumptions of ApprovalManager hold for this instance of it.        *)
LEMMA ManagerAssumptions ==
    Requests \cap {} = {} /\ None \notin (Requests \cup {}) \cup {"binding"}
BY NoneIsNoAnswer

(* A request is filed, under its own token, exactly while its promise      *)
(* waits; the token of a settled one is consumed.                          *)
LEMMA WaitingIsFiled ==
  ASSUME AMP!IInv, NEW t \in Requests
  PROVE  /\ promise[t] = "waiting" <=> pending[t] # None
         /\ pending[t] # None => pending[t] = t
         /\ promise[t] = "waiting" <=> timer[t] = "armed"
         /\ timer[t] = "armed" => tokenOf[t] = t
         /\ t \in consumed => promise[t] \notin {"absent", "waiting"}
BY ManagerAssumptions, AMP!WaitingIsFiled

(* What an answer does, seen from the dialog: it reaches a request that is *)
(* filed and nothing else.                                                 *)
LEMMA AnswerEffect ==
  ASSUME AMP!IInv, NEW t \in Requests, NEW d, AM!Answer({t}, d)
  PROVE  /\ \A q \in Requests :
              promise'[q] = IF q = t /\ Filed(t) THEN d ELSE promise[q]
         /\ consumed' = IF Filed(t) THEN consumed \cup {t} ELSE consumed
         /\ \A q \in Requests : acked[q] \subseteq acked'[q]
         /\ Filed(t) => d \in acked'[t]
<1>1. AM!Filed({t}) = IF Filed(t) THEN {t} ELSE {}
  BY DEF AM!Filed, Filed
<1>2. AM!Entries({t}) = IF Filed(t) THEN {t} ELSE {}
  BY <1>1, WaitingIsFiled DEF AM!Entries, Filed
<1>3. \A q \in Requests : promise'[q] = IF q = t /\ Filed(t) THEN d ELSE promise[q]
  BY <1>2, WaitingIsFiled DEF AM!Answer, AM!Settle, Filed
<1>4. consumed' = IF Filed(t) THEN consumed \cup {t} ELSE consumed
  BY <1>1 DEF AM!Answer, AM!Consume
<1>5. /\ \A q \in Requests : acked[q] \subseteq acked'[q]
      /\ Filed(t) => d \in acked'[t]
  BY <1>1 DEF AM!Answer, AM!Tokens
<1> QED
  BY <1>3, <1>4, <1>5

(* What the steps that answer nothing do: a request is created, or one     *)
(* that waits expires.                                                     *)
Passive ==
    /\ \A q \in Requests : \/ promise'[q] = promise[q]
                           \/ promise[q] = "absent" /\ promise'[q] = "waiting"
                           \/ promise[q] = "waiting" /\ promise'[q] = "expired"
    /\ consumed \subseteq consumed'
    /\ acked' = acked
    /\ sessionAutoApprovals' \subseteq sessionAutoApprovals

LEMMA PassiveSteps ==
  ASSUME AMP!IInv, NEW t \in Requests,
         \/ AM!CreateApprovalRequest(t, t, "binding")
         \/ AM!Expire(t)
         \/ AM!Cancel(t)
         \/ AM!Shutdown
         \/ UNCHANGED amVars
  PROVE  Passive
<1>1. CASE AM!CreateApprovalRequest(t, t, "binding")
  BY <1>1 DEF AM!CreateApprovalRequest, Passive, AMP!IInv, AMP!TypeOK
<1>2. CASE AM!Expire(t)
  BY <1>2, WaitingIsFiled DEF AM!Expire, AM!Consume, AM!Settle, Passive
<1>3. CASE AM!Cancel(t)
  BY <1>3, WaitingIsFiled DEF AM!Cancel, AM!Consume, AM!Settle, Passive
<1>4. CASE AM!Shutdown
  BY <1>4, WaitingIsFiled DEF AM!Shutdown, AM!Consume, AM!Settle, Passive
<1>5. CASE UNCHANGED amVars
  BY <1>5 DEF amVars, Passive
<1> QED
  BY <1>1, <1>2, <1>3, <1>4, <1>5

-----------------------------------------------------------------------------
(* The manager's operations in the dialog's module are those of AMP.       *)
LEMMA SameOperations ==
  ASSUME NEW t \in Requests, NEW d \in {"approved", "denied"}
  PROVE  /\ AM!CreateApprovalRequest(t, t, "binding") => AMP!CallerStep
         /\ /\ AM!Answer({t}, d)
            /\ sessionAutoApprovals' \subseteq {Key[q] : q \in Requests}
            => AMP!CallerStep
         /\ AM!Cancel(t) => AMP!CallerStep
         /\ AM!Expire(t) => AMP!CallerStep
<1>1. t \in AMP!Tokens /\ d \in AMP!Answers /\ {t} \in SUBSET AMP!Tokens
  BY DEF AMP!Tokens, AMP!Answers
<1>2. AM!CreateApprovalRequest(t, t, "binding") => AMP!CreateApprovalRequest(t, t, "binding")
  BY DEF AM!CreateApprovalRequest, AMP!CreateApprovalRequest
<1>3. AM!Answer({t}, d) => AMP!Answer({t}, d)
  BY DEF AM!Answer, AMP!Answer, AM!ClearTimers, AMP!ClearTimers, AM!Consume, AMP!Consume,
     AM!Settle, AMP!Settle, AM!Filed, AMP!Filed, AM!Entries, AMP!Entries,
     AM!Tokens, AMP!Tokens
<1>4. AM!Cancel(t) => AMP!Cancel(t)
  BY DEF AM!Cancel, AMP!Cancel, AM!ClearTimers, AMP!ClearTimers, AM!Consume, AMP!Consume,
     AM!Settle, AMP!Settle, AM!Filed, AMP!Filed, AM!Entries, AMP!Entries,
     AM!Tokens, AMP!Tokens
<1>5. AM!Expire(t) => AMP!Expire(t)
  BY DEF AM!Expire, AMP!Expire, AM!Consume, AMP!Consume, AM!Settle, AMP!Settle,
     AM!Tokens, AMP!Tokens
<1> QED
  BY <1>1, <1>2, <1>3, <1>4, <1>5 DEF AMP!Next, AMP!CallerStep

(* So are the operations without a request, and doing nothing.             *)
LEMMA SameLifeCycle ==
  \/ AM!Shutdown \/ AM!Restart \/ UNCHANGED amVars
  \/ /\ UNCHANGED <<pending, consumed, tokenOf, bindingOf, timer, promise, acked>>
     /\ sessionAutoApprovals' = {}
  => AMP!CallerStep
<1>1. AM!Shutdown => AMP!Shutdown
  BY DEF AM!Shutdown, AMP!Shutdown, AM!ClearTimers, AMP!ClearTimers, AM!Consume, AMP!Consume,
     AM!Settle, AMP!Settle, AM!Filed, AMP!Filed, AM!Entries, AMP!Entries,
     AM!Tokens, AMP!Tokens
<1>2. AM!Restart => AMP!Restart
  BY DEF AM!Restart, AMP!Restart, AM!Tokens, AMP!Tokens
<1>3. /\ UNCHANGED <<pending, consumed, tokenOf, bindingOf, timer, promise, acked>>
      /\ sessionAutoApprovals' = {}
      => AMP!ClearSessionAutoApprovals
  BY DEF AMP!ClearSessionAutoApprovals, AMP!storeVars
<1>4. UNCHANGED amVars => UNCHANGED AMP!vars
  BY DEF amVars, AMP!vars, AMP!storeVars
<1> QED
  BY <1>1, <1>2, <1>3, <1>4 DEF AMP!Next, AMP!CallerStep

(* Every tap, timer and life cycle step does one of the manager's          *)
(* operations, or none.                                                    *)
LEMMA StepIsCallerStep ==
  ASSUME TypeOK, Step \/ Restart \/ UNCHANGED vars
  PROVE  AMP!CallerStep
<1>0. sessionAutoApprovals \subseteq {Key[q] : q \in Requests}
  BY DEF TypeOK, AM!TypeOK
<1>1. ASSUME NEW t \in Requests, NEW d \in {"approved", "denied"},
             TapSave(t) \/ TapAlwaysAtOnce(t) \/ TapAnswer(t, d)
      PROVE  AMP!CallerStep
  <2>1. \E e \in {"approved", "denied"} : AM!Answer({t}, e)
    BY <1>1 DEF TapSave, TapAlwaysAtOnce, TapAnswer, ApproveAndRemember
  <2>2. sessionAutoApprovals' \subseteq {Key[q] : q \in Requests}
    BY <1>0, <1>1 DEF TapSave, TapAlwaysAtOnce, TapAnswer, ApproveAndRemember
  <2> QED
    BY <2>1, <2>2, SameOperations
<1>2. ASSUME NEW t \in Requests,
             TapCancel(t) \/ TapGoneDialog(t) \/ TapAlwaysOpensDialog(t) \/ DialogTimesOut(t)
      PROVE  AMP!CallerStep
  BY <1>2, SameLifeCycle DEF TapCancel, TapGoneDialog, TapAlwaysOpensDialog, DialogTimesOut
<1>3. ASSUME NEW t \in Requests, CreateRequest(t) \/ RequestExpires(t) \/ SendFails(t)
      PROVE  AMP!CallerStep
  BY <1>3, SameOperations DEF CreateRequest, RequestExpires, SendFails
<1>4. CASE Deactivate \/ Restart \/ UNCHANGED vars
  BY <1>4, SameLifeCycle DEF Deactivate, Restart, vars
<1> QED
  BY <1>1, <1>2, <1>3, <1>4 DEF Step, AM!Answers

(* What a step of the whole does to the dialog and the manager: a tap, a   *)
(* timer or a life cycle step, nothing, or the end of /revoke, which       *)
(* clears the session approvals.                                           *)
SessionsCleared ==
    /\ sessionAutoApprovals' = {}
    /\ UNCHANGED <<pending, consumed, tokenOf, bindingOf, timer, promise, acked,
                   dialogVars, saves, reply, told>>

DialogStep == Step \/ Restart \/ SessionsCleared \/ UNCHANGED vars

LEMMA OperatorStepIsDialogStep == [OperatorNext]_operatorVars => DialogStep
<1>1. ASSUME NEW o \in Ops, Finishes(o)
      PROVE  SessionsCleared
  BY <1>1 DEF Finishes, ClearsSessions, SessionsCleared
<1>2. ASSUME NEW o \in Ops, BeginRevoke(o)
      PROVE  UNCHANGED vars
  BY <1>2 DEF BeginRevoke
<1> QED
  BY <1>1, <1>2 DEF OperatorNext, Dialog, DialogStep, operatorVars

(* The manager keeps its invariant, and its maps their types.              *)
LEMMA ManagerKeeps == DInv /\ DialogStep => AMP!IInv' /\ AM!TypeOK'
<1>1. DInv /\ DialogStep => AMP!CallerStep
  BY StepIsCallerStep, SameLifeCycle DEF DInv, DialogStep, SessionsCleared
<1>2. AMP!IInv' => AM!TypeOK'
  BY DEF AMP!IInv, AMP!TypeOK, AM!TypeOK, AMP!Tokens, AM!Tokens,
     AMP!Decisions, AM!Decisions, AMP!Answers, AM!Answers
<1> QED
  BY <1>1, <1>2, ManagerAssumptions, AMP!CallerIInv DEF DInv

(* The dialog's sets and tables keep their types.                          *)
DialogTypes ==
    /\ dialog \subseteq Requests /\ armed \subseteq Requests
    /\ settled \in [Requests -> {None, "saved", "cancelled"}]
    /\ saves \subseteq Requests
    /\ reply \in [Requests -> Replies]
    /\ told \subseteq Requests

LEMMA SayTypes ==
  ASSUME DialogTypes, NEW t \in Requests, NEW text \in Replies, Say(t, text)
  PROVE  reply' \in [Requests -> Replies] /\ told' \subseteq Requests
BY DEF Say, DialogTypes

LEMMA DialogKeepsTypes == DialogTypes /\ DialogStep => DialogTypes'
<1> SUFFICES ASSUME DialogTypes, DialogStep PROVE DialogTypes'
  OBVIOUS
<1> USE DEF Replies
<1>1. ASSUME NEW t \in Requests, NEW text \in Replies, Say(t, text), saves' \subseteq saves \cup {t},
             dialog' \subseteq dialog \cup {t}, armed' \subseteq armed \cup {t},
             settled' \in {settled} \cup {[settled EXCEPT ![t] = v] : v \in {None, "saved", "cancelled"}}
      PROVE  DialogTypes'
  BY <1>1, SayTypes DEF DialogTypes
<1>2. ASSUME NEW t \in Requests, TapSave(t)
      PROVE  DialogTypes'
  BY <1>1, <1>2 DEF TapSave, CloseDialog, ApproveAndRemember
<1>3. ASSUME NEW t \in Requests, TapCancel(t) \/ TapAlwaysOpensDialog(t)
      PROVE  DialogTypes'
  BY <1>1, <1>3 DEF TapCancel, TapAlwaysOpensDialog, OpenDialog, CloseDialog
<1>4. ASSUME NEW t \in Requests, TapGoneDialog(t)
      PROVE  DialogTypes'
  BY <1>1, <1>4 DEF TapGoneDialog, NoDialogReply, dialogVars
<1>5. ASSUME NEW t \in Requests, TapAlwaysAtOnce(t)
      PROVE  DialogTypes'
  BY <1>1, <1>5 DEF TapAlwaysAtOnce, ApproveAndRemember, CloseDialog
<1>6. ASSUME NEW t \in Requests, NEW d \in AM!Answers, TapAnswer(t, d)
      PROVE  DialogTypes'
  BY <1>1, <1>6 DEF TapAnswer, CloseDialog
<1>7. ASSUME NEW t \in Requests,
             DialogTimesOut(t) \/ CreateRequest(t) \/ RequestExpires(t) \/ SendFails(t)
      PROVE  DialogTypes'
  BY <1>7 DEF DialogTimesOut, CreateRequest, RequestExpires, SendFails, CloseDialog,
     dialogVars, DialogTypes
<1>8. CASE Deactivate \/ Restart \/ SessionsCleared \/ UNCHANGED vars
  BY <1>8 DEF Deactivate, Restart, SessionsCleared, vars, dialogVars, DialogTypes
<1> QED
  BY <1>2, <1>3, <1>4, <1>5, <1>6, <1>7, <1>8 DEF DialogStep, Step

(* Steps that answer nothing and say nothing keep the discipline of the    *)
(* dialog: a request that waited may expire under an open dialog.          *)
LEMMA PassiveKeepsDiscipline ==
  ASSUME DInv, Passive, dialog' \subseteq dialog,
         \A t \in Requests : settled'[t] \in {settled[t], None},
         reply' = reply, told' = told
  PROVE  DialogDiscipline'
<1>1. \A t \in dialog' : promise'[t] \in {"waiting", "expired"}
  BY DEF DInv, TypeOK, DialogDiscipline, Passive
<1>2. ASSUME NEW t \in told
      PROVE  /\ t \in consumed' \ dialog'
             /\ promise'[t] \in {"approved", "expired"}
             /\ settled'[t] # "cancelled"
             /\ reply'[t] \in {"saved", "alreadySaved", "decided"}
  BY NoneIsNoAnswer DEF DInv, TypeOK, DialogDiscipline, Passive
<1> QED
  BY <1>1, <1>2 DEF DialogDiscipline

(* A tap on the buttons of t leaves the other requests alone and closes,   *)
(* answers or reports t only as the discipline of the dialog allows.       *)
LEMMA TapKeepsDiscipline ==
  ASSUME DInv, NEW t \in Requests, NEW text \in Replies, Say(t, text),
         \A q \in Requests \ {t} : /\ promise'[q] = promise[q]
                                   /\ settled'[q] = settled[q]
                                   /\ q \in dialog' => q \in dialog,
         consumed \subseteq consumed',
         t \in dialog' => promise'[t] \in {"waiting", "expired"},
         t \in told' => /\ t \in consumed' \ dialog'
                        /\ promise'[t] \in {"approved", "expired"}
                        /\ settled'[t] # "cancelled"
                        /\ text \in {"saved", "alreadySaved", "decided"},
         dialog' \subseteq Requests
  PROVE  DialogDiscipline'
<1>1. \A q \in dialog' : promise'[q] \in {"waiting", "expired"}
  BY DEF DInv, DialogDiscipline
<1>2. reply'[t] = text /\ \A q \in Requests \ {t} : reply'[q] = reply[q]
  BY DEF DInv, TypeOK, Say
<1>3. told' \subseteq told \cup {t}
  BY DEF Say
<1>4. ASSUME NEW q \in told', q # t
      PROVE  /\ q \in consumed' \ dialog'
             /\ promise'[q] \in {"approved", "expired"}
             /\ settled'[q] # "cancelled"
             /\ reply'[q] \in {"saved", "alreadySaved", "decided"}
  BY <1>2, <1>3, <1>4 DEF DInv, TypeOK, DialogDiscipline
<1> QED
  BY <1>1, <1>2, <1>4 DEF DialogDiscipline

(* Every step keeps the discipline of the dialog.                          *)
LEMMA NextDiscipline == DInv /\ DialogStep => DialogDiscipline'
<1> SUFFICES ASSUME DInv, DialogStep PROVE DialogDiscipline'
  OBVIOUS
<1>0. AMP!IInv /\ TypeOK /\ DialogDiscipline
  BY DEF DInv
<1> USE NoneIsNoAnswer DEF Replies
<1>1. ASSUME NEW t \in Requests, TapSave(t)
      PROVE  DialogDiscipline'
  <2>0. t \in dialog /\ AM!Answer({t}, "approved")
    BY <1>1 DEF TapSave, ApproveAndRemember
  <2>1. Filed(t) \/ t \in consumed => t \in consumed' /\ promise'[t] \in {"approved", "expired"}
    <3>1. promise[t] \in {"waiting", "expired"} /\ (Filed(t) <=> promise[t] = "waiting")
      BY <1>0, <2>0, WaitingIsFiled DEF DialogDiscipline, Filed
    <3>2. /\ promise'[t] = IF Filed(t) THEN "approved" ELSE promise[t]
          /\ consumed' = IF Filed(t) THEN consumed \cup {t} ELSE consumed
      BY <1>0, <2>0, AnswerEffect
    <3> QED
      BY <3>1, <3>2
  <2>2. consumed \subseteq consumed' /\ \A q \in Requests \ {t} : promise'[q] = promise[q]
    BY <1>0, <2>0, AnswerEffect
  <2>3. t \notin dialog' /\ settled'[t] = "saved" /\ t \notin told
    BY <1>0, <1>1 DEF TapSave, CloseDialog, DialogDiscipline, TypeOK
  <2> QED
    BY <1>0, <1>1, <2>1, <2>2, <2>3, TapKeepsDiscipline DEF TapSave, CloseDialog, Say, TypeOK
<1>2. ASSUME NEW t \in Requests, TapCancel(t)
      PROVE  DialogDiscipline'
  <2>1. t \notin told /\ t \notin dialog' /\ UNCHANGED <<consumed, promise>>
    BY <1>0, <1>2 DEF TapCancel, CloseDialog, DialogDiscipline, amVars
  <2> QED
    BY <1>0, <1>2, <2>1, TapKeepsDiscipline DEF TapCancel, CloseDialog, Say, TypeOK
<1>3. ASSUME NEW t \in Requests, TapGoneDialog(t)
      PROVE  DialogDiscipline'
  <2>1. /\ UNCHANGED <<consumed, promise, dialog, settled>>
        /\ NoDialogReply(t) \in Replies \ {"saved"}
        /\ t \in told => NoDialogReply(t) \in {"alreadySaved", "decided"}
    BY <1>0, <1>3 DEF TapGoneDialog, NoDialogReply, amVars, dialogVars, DialogDiscipline
  <2> QED
    BY <1>0, <1>3, <2>1, TapKeepsDiscipline
       DEF TapGoneDialog, Say, DialogDiscipline, TypeOK
<1>4. ASSUME NEW t \in Requests, TapAlwaysOpensDialog(t)
      PROVE  DialogDiscipline'
  <2>1. promise[t] = "waiting" /\ t \notin told /\ UNCHANGED <<consumed, promise>>
    BY <1>0, <1>4, WaitingIsFiled DEF TapAlwaysOpensDialog, Filed, DialogDiscipline, amVars
  <2> QED
    BY <1>0, <1>4, <2>1, TapKeepsDiscipline
       DEF TapAlwaysOpensDialog, OpenDialog, Say, TypeOK
<1>5. ASSUME NEW t \in Requests, NEW d \in {"approved", "denied"}, AM!Answer({t}, d),
             CloseDialog(t), Say(t, IF t \in consumed THEN "decided" ELSE None),
             settled' \in {settled, [settled EXCEPT ![t] = None]}
      PROVE  DialogDiscipline'
  <2>1. /\ consumed \subseteq consumed'
        /\ \A q \in Requests \ {t} : promise'[q] = promise[q]
    BY <1>0, <1>5, AnswerEffect
  <2>2. t \in told => /\ t \in consumed /\ settled[t] # "cancelled"
                      /\ promise'[t] \in {"approved", "expired"}
    <3>1. t \in told => /\ t \in consumed /\ settled[t] # "cancelled"
                        /\ promise[t] \in {"approved", "expired"}
      BY <1>0 DEF DialogDiscipline
    <3>2. t \in consumed => ~Filed(t)
      BY <1>0, WaitingIsFiled DEF Filed
    <3>3. ~Filed(t) => promise'[t] = promise[t]
      BY <1>0, <1>5, AnswerEffect
    <3> QED
      BY <3>1, <3>2, <3>3
  <2>3. t \notin dialog' /\ told' = told /\ \A q \in Requests \ {t} : settled'[q] = settled[q]
    BY <1>0, <1>5 DEF CloseDialog, Say, TypeOK
  <2> QED
    BY <1>0, <1>5, <2>1, <2>2, <2>3, TapKeepsDiscipline DEF CloseDialog, TypeOK
<1>6. ASSUME NEW t \in Requests,
             TapAlwaysAtOnce(t) \/ \E d \in AM!Answers : TapAnswer(t, d)
      PROVE  DialogDiscipline'
  BY <1>5, <1>6 DEF TapAlwaysAtOnce, TapAnswer, ApproveAndRemember, AM!Answers
<1>7. ASSUME NEW t \in Requests,
             DialogTimesOut(t) \/ CreateRequest(t) \/ RequestExpires(t) \/ SendFails(t)
      PROVE  DialogDiscipline'
  <2>1. Passive
    BY <1>0, <1>7, PassiveSteps DEF DialogTimesOut, CreateRequest, RequestExpires, SendFails
  <2> QED
    BY <1>7, <2>1, PassiveKeepsDiscipline
       DEF DialogTimesOut, CreateRequest, RequestExpires, SendFails, CloseDialog, dialogVars
<1>8. CASE Deactivate
  <2>1. CASE Requests = {}
    BY <1>0, <1>8, <2>1 DEF Deactivate, TypeOK, DialogDiscipline
  <2>2. CASE Requests # {}
    BY <1>8, <1>0, <2>2, PassiveSteps, PassiveKeepsDiscipline DEF Deactivate
  <2> QED
    BY <2>1, <2>2
<1>9. CASE Restart
  BY <1>9 DEF Restart, DialogDiscipline
<1>10. CASE SessionsCleared \/ UNCHANGED vars
  BY <1>0, <1>10 DEF SessionsCleared, vars, amVars, dialogVars, DialogDiscipline
<1>11. CASE Step
  BY <1>1, <1>2, <1>3, <1>4, <1>6, <1>7, <1>8, <1>11 DEF Step
<1> QED
  BY <1>9, <1>10, <1>11 DEF DialogStep

(* The initial state satisfies the invariant of the dialog.                *)
LEMMA InitDInv == Init => DInv
<1> SUFFICES ASSUME Init PROVE DInv
  OBVIOUS
<1>1. AMP!IInv
  <2>1. AMP!Init
    BY DEF Init, AM!Init, AMP!Init, AM!Tokens, AMP!Tokens
  <2> QED
    BY <2>1, ManagerAssumptions, AMP!InitIInv
<1>2. AM!TypeOK
  BY <1>1 DEF AMP!IInv, AMP!TypeOK, AM!TypeOK, AMP!Tokens, AM!Tokens,
     AMP!Decisions, AM!Decisions, AMP!Answers, AM!Answers
<1>3. TypeOK
  BY <1>2 DEF Init, TypeOK, Replies
<1>4. DialogDiscipline
  BY DEF Init, DialogDiscipline
<1> QED
  BY <1>1, <1>3, <1>4 DEF DInv

(* Every step preserves the invariant of the dialog.                       *)
LEMMA NextDInv == DInv /\ [OperatorNext]_operatorVars => DInv'
<1>1. DInv => DialogTypes
  BY DEF DInv, TypeOK, DialogTypes
<1>2. AM!TypeOK' /\ DialogTypes' => TypeOK'
  BY DEF TypeOK, DialogTypes
<1> QED
  BY <1>1, <1>2, OperatorStepIsDialogStep, ManagerKeeps, DialogKeepsTypes, NextDiscipline
     DEF DInv

-----------------------------------------------------------------------------
(* The invariant of the dialog and the manager under it, with any number   *)
(* of requests, taps, restarts and operations on the store.                *)
THEOREM DialogInvariant == OperatorSpec => []DInv
<1>1. OperatorInit => DInv
  BY InitDInv DEF OperatorInit
<1> QED
  BY <1>1, NextDInv, PTL DEF OperatorSpec

(* Once a tap was told that the pattern is saved, no later tap is told     *)
(* that it was cancelled or never asked for, nor is the request denied.    *)
THEOREM SavedTheorem == OperatorSpec => []SavedIsNotContradicted
<1>1. DInv => SavedIsNotContradicted
  BY DEF DInv, DialogDiscipline, SavedIsNotContradicted
<1> QED
  BY <1>1, DialogInvariant, PTL

(* A session approval or a saved pattern comes into being only in a step   *)
(* that approves a request with that key which was still waiting.          *)
LEMMA NextGrants ==
  ASSUME DInv, [OperatorNext]_operatorVars, NEW t \in Requests,
         \/ t \in saves' \ saves
         \/ Key[t] \in sessionAutoApprovals' \ sessionAutoApprovals
  PROVE  \E q \in Requests : Key[q] = Key[t] /\ promise[q] = "waiting" /\ promise'[q] = "approved"
<1>1. ASSUME NEW q \in Requests, ApproveAndRemember(q)
      PROVE  /\ Key[q] = Key[t] /\ promise[q] = "waiting" /\ promise'[q] = "approved"
  <2>1. Filed(q) /\ (t = q \/ Key[t] = Key[q])
    BY <1>1 DEF ApproveAndRemember
  <2> QED
    BY <1>1, <2>1, AnswerEffect, WaitingIsFiled DEF ApproveAndRemember, Filed, DInv
<1>2. ASSUME NEW q \in Requests,
             \/ TapCancel(q) \/ TapGoneDialog(q) \/ TapAlwaysOpensDialog(q)
             \/ \E d \in AM!Answers : TapAnswer(q, d)
             \/ DialogTimesOut(q) \/ CreateRequest(q) \/ RequestExpires(q) \/ SendFails(q)
      PROVE  FALSE
  BY <1>2 DEF TapCancel, TapGoneDialog, TapAlwaysOpensDialog, TapAnswer, DialogTimesOut,
     CreateRequest, RequestExpires, SendFails, amVars, AM!CreateApprovalRequest, AM!Expire, AM!Cancel
<1>3. ~ (Deactivate \/ Restart \/ SessionsCleared \/ UNCHANGED vars)
  BY DEF Deactivate, Restart, SessionsCleared, vars, amVars, AM!Shutdown, AM!Restart
<1>4. Step /\ ~Deactivate
  BY <1>3, OperatorStepIsDialogStep DEF DialogStep
<1>5. \E q \in Requests : ApproveAndRemember(q)
  BY <1>2, <1>4 DEF Step, TapSave, TapAlwaysAtOnce
<1> QED
  BY <1>1, <1>5

(* A Save tapped after its request was denied, expired or cancelled grants *)
(* nothing.                                                                *)
THEOREM GrantTheorem == OperatorSpec => GrantsOnlyWithApproval
<1>1. DInv /\ [OperatorNext]_operatorVars =>
        [\A t \in Requests :
           \/ t \in saves' \ saves
           \/ Key[t] \in sessionAutoApprovals' \ sessionAutoApprovals
           => \E q \in Requests : /\ Key[q] = Key[t] /\ promise[q] = "waiting"
                                  /\ promise'[q] = "approved"]_vars
  BY NextGrants
<1> QED
  BY <1>1, DialogInvariant, PTL DEF OperatorSpec, GrantsOnlyWithApproval

-----------------------------------------------------------------------------
(* A pattern that may be in the store: it was there at the start, or the   *)
(* operator approved a request it was derived from.                        *)
Granted(p) ==
    \/ p \in Range(Stored)
    \/ \E o \in Ops : o.kind = "persist" /\ o.pattern = p /\ "approved" \in acked[o.request]

RulesGranted(rules) ==
    rules \in Seq(Store!Patterns) /\ \A p \in Range(rules) : Granted(p)

(* Names refer to inodes, and the tables have an entry per inode or        *)
(* operation.                                                              *)
StoreShape ==
    /\ store \in Store!Inodes \cup {None} /\ tmp \in Store!Inodes \cup {None}
    /\ DOMAIN content = Store!Inodes /\ DOMAIN phase = Ops
    /\ DOMAIN seen = Ops /\ DOMAIN fd = Ops

(* Every file that reads as JSON holds granted patterns only.              *)
FilesGranted == \A i \in Store!Inodes : content[i].json => RulesGranted(content[i].rules)

(* A save that has begun was approved; what an operation is about to write *)
(* back are granted patterns, and a removal that goes on found its rule.   *)
OpGranted(o) ==
    /\ phase[o] # "idle" /\ o.kind = "persist" => "approved" \in acked[o.request]
    /\ phase[o] \in {"read", "opened", "written"} =>
          /\ RulesGranted(seen[o].rules)
          /\ o.kind = "persist" \/ Store!findRule(o, seen[o].rules) # 0
    /\ phase[o] = "opened" => fd[o] \in Store!Inodes

OpsGranted == \A o \in Ops : OpGranted(o)

StoreDiscipline == StoreShape /\ FilesGranted /\ OpsGranted

-----------------------------------------------------------------------------
(* A rule that was found is at a place of the list.                        *)
LEMMA FoundIsInList ==
  ASSUME NEW T, NEW rules \in Seq(T), NEW o, Store!findRule(o, rules) # 0
  PROVE  Store!findRule(o, rules) \in 1..Len(rules)
<1>1. CASE o \in Store!ByIndex
  BY <1>1 DEF Store!findRule
<1>2. CASE o \notin Store!ByIndex
  <2> DEFINE I == {i \in 1..Len(rules) : rules[i] = o.pattern}
  <2>1. Store!findRule(o, rules) = IF I # {} THEN Min(I) ELSE 0
    BY <1>2 DEF Store!findRule, Store!SelectInSeq, Store!Min, Min
  <2>2. I \subseteq Nat
    OBVIOUS
  <2> QED
    BY <2>1, <2>2, MinIsLeast
<1> QED
  BY <1>1, <1>2

(* What an operation writes holds granted patterns only.                   *)
LEMMA WrittenIsGranted ==
  ASSUME StoreDiscipline, NEW o \in Ops, phase[o] = "opened"
  PROVE  RulesGranted(Store!NewFile(o).rules)
<1> DEFINE rules == seen[o].rules
           new == Store!NewRules(o, rules)
<1>1. RulesGranted(rules) /\ (o.kind = "persist" \/ Store!findRule(o, rules) # 0)
  BY DEF StoreDiscipline, OpsGranted, OpGranted
<1>2. Store!NewFile(o).rules = new
  BY DEF Store!NewFile, Store!File
<1>3. CASE o.kind = "persist"
  <2>1. new = Append(rules, o.pattern) /\ o.pattern \in Store!Patterns
    BY <1>3 DEF Store!NewRules, Store!Patterns
  <2>2. Granted(o.pattern)
    BY <1>3 DEF StoreDiscipline, OpsGranted, OpGranted, Granted
  <2>3. new \in Seq(Store!Patterns) /\ Range(new) \subseteq Range(rules) \cup {o.pattern}
    BY <1>1, <2>1, AppendGrows DEF RulesGranted
  <2> QED
    BY <1>1, <1>2, <2>2, <2>3 DEF RulesGranted
<1>4. CASE o.kind # "persist"
  <2>1. new = RemoveAt(rules, Store!findRule(o, rules))
    BY <1>4 DEF Store!NewRules, Store!RemoveAt, RemoveAt
  <2>2. Store!findRule(o, rules) \in 1..Len(rules) /\ rules \in Seq(Store!Patterns)
    BY <1>1, <1>4, FoundIsInList DEF RulesGranted
  <2>3. new \in Seq(Store!Patterns) /\ Range(new) \subseteq Range(rules)
    BY <2>1, <2>2, RemoveAtShrinks
  <2> QED
    BY <1>1, <1>2, <2>3 DEF RulesGranted
<1> QED
  BY <1>3, <1>4

(* So does what is read from the file, whatever its state.                 *)
LEMMA ReadIsGranted ==
  ASSUME StoreDiscipline
  PROVE  RulesGranted(Store!loadAutoPermitRulesFromFile.rules)
<1>1. RulesGranted(<<>>)
  BY DEF RulesGranted, Range
<1> QED
  BY <1>1 DEF StoreDiscipline, StoreShape, FilesGranted, Store!loadAutoPermitRulesFromFile, Store!Truncated

-----------------------------------------------------------------------------
(* No step takes back the record of an answer, and a pattern is saved in a *)
(* step that records the approval of its request.                          *)
LEMMA AnswersStay ==
  ASSUME DInv, DialogStep
  PROVE  /\ \A t \in Requests : acked[t] \subseteq acked'[t]
         /\ \A t \in saves' \ saves : "approved" \in acked'[t]
<1> DEFINE Stays == /\ \A t \in Requests : acked[t] \subseteq acked'[t]
                    /\ \A t \in saves' \ saves : "approved" \in acked'[t]
<1>0. AMP!IInv
  BY DEF DInv
<1>1. ASSUME NEW t \in Requests, ApproveAndRemember(t)
      PROVE  Stays
  BY <1>0, <1>1, AnswerEffect DEF ApproveAndRemember
<1>2. ASSUME NEW t \in Requests, NEW d \in AM!Answers, TapAnswer(t, d)
      PROVE  Stays
  BY <1>0, <1>2, AnswerEffect DEF TapAnswer
<1>3. ASSUME NEW t \in Requests,
             \/ TapCancel(t) \/ TapGoneDialog(t) \/ TapAlwaysOpensDialog(t)
             \/ DialogTimesOut(t) \/ CreateRequest(t) \/ RequestExpires(t) \/ SendFails(t)
      PROVE  Stays
  BY <1>3 DEF TapCancel, TapGoneDialog, TapAlwaysOpensDialog, DialogTimesOut, CreateRequest,
     RequestExpires, SendFails, amVars, AM!CreateApprovalRequest, AM!Expire, AM!Cancel
<1>4. CASE Deactivate \/ Restart \/ SessionsCleared \/ UNCHANGED vars
  BY <1>4 DEF Deactivate, Restart, SessionsCleared, vars, amVars, AM!Shutdown, AM!Restart
<1>5. CASE Step
  BY <1>1, <1>2, <1>3, <1>4, <1>5 DEF Step, TapSave, TapAlwaysAtOnce
<1> QED
  BY <1>4, <1>5 DEF DialogStep

(* What was granted stays granted.                                         *)
LEMMA GrantedStays ==
  ASSUME \A t \in Requests : acked[t] \subseteq acked'[t], NEW p, Granted(p)
  PROVE  Granted(p)'
BY OpsFitRequests, DerivableAreRequests DEF Granted

LEMMA RulesStayGranted ==
  ASSUME \A t \in Requests : acked[t] \subseteq acked'[t], NEW rules, RulesGranted(rules)
  PROVE  rules \in Seq(Store!Patterns) /\ \A p \in Range(rules) : Granted(p)'
BY GrantedStays DEF RulesGranted

(* What a step of the whole does to the store: an operation begins, after  *)
(* the approval if it saves a pattern, or goes on, or the gateway restarts.*)
BeginsGranted(o) ==
    Store!Begin(o) /\ (o.kind = "persist" => "approved" \in acked'[o.request])

StoreStep ==
    \/ \E o \in Ops : BeginsGranted(o) \/ Store!Proceed(o) \/ Store!RevokeAnswers(o)
    \/ Store!Watcher
    \/ Store!Restart
    \/ UNCHANGED storeVars

LEMMA OperatorStepIsStoreStep ==
  ASSUME DInv, [OperatorNext]_operatorVars
  PROVE  StoreStep /\ \A t \in Requests : acked[t] \subseteq acked'[t]
<1>1. /\ \A t \in Requests : acked[t] \subseteq acked'[t]
      /\ \A t \in saves' \ saves : "approved" \in acked'[t]
  BY OperatorStepIsDialogStep, AnswersStay
<1>2. CASE Dialog
  BY <1>1, <1>2 DEF Dialog, PersistsSaves, StoreStep, BeginsGranted
<1>3. ASSUME NEW o \in Ops, BeginRevoke(o)
      PROVE  StoreStep
  BY <1>3 DEF BeginRevoke, BeginsGranted, StoreStep
<1>4. ASSUME NEW o \in Ops, Store!Proceed(o) \/ Finishes(o)
      PROVE  StoreStep
  BY <1>4 DEF Finishes, StoreStep
<1>5. ASSUME Store!Watcher \/ Store!Restart \/ UNCHANGED operatorVars
      PROVE  StoreStep
  BY <1>5 DEF operatorVars, storeVars, StoreStep
<1> QED
  BY <1>1, <1>2, <1>3, <1>4, <1>5 DEF OperatorNext

(* No step breaks the shape of the store.                                  *)
LEMMA StepKeepsShape ==
  ASSUME StoreShape, OpsGranted, StoreStep
  PROVE  StoreShape'
<1> USE DEF StoreShape
<1>1. ASSUME NEW o \in Ops,
             \/ Store!Begin(o) \/ Store!ReloadReads(o) \/ Store!ReloadInstalls(o)
             \/ Store!RevokeAnswers(o)
      PROVE  StoreShape'
  BY <1>1 DEF Store!Begin, Store!ReloadReads, Store!ReloadInstalls, Store!RevokeAnswers
<1>2. ASSUME NEW o \in Ops, Store!Reads(o) \/ Store!NotConfirmed(o)
      PROVE  StoreShape'
  BY <1>2 DEF Store!Reads, Store!NotConfirmed
<1>3. ASSUME NEW o \in Ops, Store!OpenTmp(o)
      PROVE  StoreShape'
  BY <1>3 DEF Store!OpenTmp, Store!Inodes
<1>4. ASSUME NEW o \in Ops, Store!WriteTmp(o) \/ Store!WriteFails(o)
      PROVE  StoreShape'
  BY <1>4 DEF Store!WriteTmp, Store!WriteFails
<1>5. ASSUME NEW o \in Ops, Store!RenameTmp(o)
      PROVE  StoreShape'
  BY <1>5 DEF Store!RenameTmp
<1>6. CASE Store!Watcher \/ Store!Restart \/ UNCHANGED storeVars
  BY <1>6 DEF Store!Watcher, Store!WatcherReads, Store!WatcherInstalls, Store!Restart, storeVars
<1> QED
  BY <1>1, <1>2, <1>3, <1>4, <1>5, <1>6
     DEF StoreStep, BeginsGranted, Store!Proceed, Store!ReadStore, Store!cmdRevoke, Store!cmdRemove

(* No step leaves a pattern in a file that was not granted.                *)
LEMMA StepKeepsFiles ==
  ASSUME StoreDiscipline, StoreStep, \A t \in Requests : acked[t] \subseteq acked'[t]
  PROVE  FilesGranted'
<1>1. ASSUME \A i \in Store!Inodes :
                content'[i].json => content'[i] = content[i] \/ RulesGranted(content'[i].rules)
      PROVE  FilesGranted'
  BY <1>1, RulesStayGranted DEF StoreDiscipline, FilesGranted, RulesGranted
<1>2. ASSUME NEW o \in Ops, Store!OpenTmp(o)
      PROVE  FilesGranted'
  BY <1>1, <1>2 DEF Store!OpenTmp, Store!Truncated, StoreDiscipline, StoreShape
<1>3. ASSUME NEW o \in Ops, Store!WriteTmp(o)
      PROVE  FilesGranted'
  <2>1. phase[o] = "opened" /\ fd[o] \in Store!Inodes
    BY <1>3 DEF Store!WriteTmp, StoreDiscipline, OpsGranted, OpGranted
  <2>2. PICK bytes \in {Store!NewFile(o), Store!Garbled} :
           content' = [content EXCEPT ![fd[o]] = bytes]
    BY <1>3 DEF Store!WriteTmp
  <2>3. bytes.json => RulesGranted(bytes.rules)
    BY <2>1, WrittenIsGranted DEF Store!Garbled
  <2> QED
    BY <1>1, <2>1, <2>2, <2>3 DEF StoreDiscipline, StoreShape
<1>4. CASE UNCHANGED content
  BY <1>1, <1>4
<1>5. ASSUME NEW o \in Ops, ~Store!OpenTmp(o), ~Store!WriteTmp(o),
             Store!Begin(o) \/ Store!Proceed(o) \/ Store!RevokeAnswers(o)
      PROVE  UNCHANGED content
  BY <1>5 DEF Store!Proceed, Store!Begin, Store!ReadStore, Store!cmdRevoke, Store!cmdRemove,
     Store!Reads, Store!NotConfirmed, Store!WriteFails, Store!RenameTmp, Store!ReloadReads,
     Store!ReloadInstalls, Store!RevokeAnswers
<1>6. Store!Watcher \/ Store!Restart \/ UNCHANGED storeVars => UNCHANGED content
  BY DEF Store!Watcher, Store!WatcherReads, Store!WatcherInstalls, Store!Restart, storeVars
<1> QED
  BY <1>2, <1>3, <1>4, <1>5, <1>6 DEF StoreStep, BeginsGranted

(* No step takes an operation past what it was granted or has found.       *)
LEMMA StepKeepsOps ==
  ASSUME StoreDiscipline, StoreStep, \A t \in Requests : acked[t] \subseteq acked'[t]
  PROVE  OpsGranted'
<1> SUFFICES ASSUME NEW o \in Ops PROVE OpGranted(o)'
  BY DEF OpsGranted
<1>0. StoreShape /\ OpGranted(o) /\ (o.kind = "persist" => o.request \in Requests)
  BY OpsFitRequests, DerivableAreRequests DEF StoreDiscipline, OpsGranted
<1>1. ASSUME \/ phase'[o] = phase[o]
             \/ phase[o] # "idle" /\ phase'[o] \notin {"read", "opened", "written"}
             \/ phase[o] = "opened" /\ phase'[o] = "written",
             seen'[o] = seen[o], fd'[o] = fd[o] \/ phase'[o] # "opened"
      PROVE  OpGranted(o)'
  BY <1>0, <1>1, RulesStayGranted DEF OpGranted, RulesGranted
<1>2. ASSUME NEW q \in Ops, BeginsGranted(q)
      PROVE  OpGranted(o)'
  <2>1. CASE q = o
    BY <1>0, <1>2, <2>1 DEF BeginsGranted, Store!Begin, OpGranted, StoreShape
  <2> QED
    BY <1>0, <1>1, <1>2, <2>1 DEF BeginsGranted, Store!Begin, StoreShape
<1>3. ASSUME NEW q \in Ops, Store!Reads(q)
      PROVE  OpGranted(o)'
  <2>1. CASE q = o
    <3> DEFINE r == Store!loadAutoPermitRulesFromFile
    <3>1. RulesGranted(r.rules)
      BY ReadIsGranted
    <3>2. r.rules \in Seq(Store!Patterns) /\ \A p \in Range(r.rules) : Granted(p)'
      BY <3>1, RulesStayGranted
    <3>3. /\ phase[o] = "begun" /\ seen'[o] = r
          /\ phase'[o] = IF o.kind # "persist" /\ Store!findRule(o, r.rules) = 0
                           THEN "failed" ELSE "read"
      BY <1>0, <1>3, <2>1 DEF Store!Reads, StoreShape
    <3> HIDE DEF r
    <3> QED
      BY <1>0, <3>2, <3>3 DEF OpGranted, RulesGranted
  <2> QED
    BY <1>0, <1>1, <1>3, <2>1 DEF Store!Reads, StoreShape
<1>4. ASSUME NEW q \in Ops, Store!OpenTmp(q)
      PROVE  OpGranted(o)'
  <2>1. CASE q = o
    <3>1. /\ phase[o] = "read" /\ phase'[o] = "opened" /\ seen'[o] = seen[o]
          /\ fd'[o] \in Store!Inodes
      BY <1>0, <1>4, <2>1 DEF Store!OpenTmp, StoreShape, Store!Inodes
    <3> QED
      BY <1>0, <3>1, RulesStayGranted DEF OpGranted, RulesGranted
  <2> QED
    BY <1>0, <1>1, <1>4, <2>1 DEF Store!OpenTmp, StoreShape
<1>5. ASSUME NEW q \in Ops,
             \/ Store!NotConfirmed(q) \/ Store!WriteTmp(q) \/ Store!WriteFails(q)
             \/ Store!RenameTmp(q) \/ Store!ReloadReads(q) \/ Store!ReloadInstalls(q)
             \/ Store!RevokeAnswers(q)
      PROVE  OpGranted(o)'
  <2>1. /\ phase' = [phase EXCEPT ![q] = phase'[q]] /\ phase[q] # "idle"
        /\ \/ phase'[q] \notin {"read", "opened", "written"}
           \/ phase[q] = "opened" /\ phase'[q] = "written"
        /\ seen' = seen /\ (fd' = fd \/ fd' = [fd EXCEPT ![q] = None])
    BY <1>0, <1>5
       DEF Store!NotConfirmed, Store!WriteTmp, Store!WriteFails, Store!RenameTmp,
           Store!ReloadReads, Store!ReloadInstalls, Store!RevokeAnswers, StoreShape
  <2> QED
    BY <1>0, <1>1, <2>1 DEF StoreShape
<1>6. CASE Store!Restart
  BY <1>0, <1>1, <1>6 DEF Store!Restart, Store!Busy
<1>7. CASE Store!Watcher \/ UNCHANGED storeVars
  BY <1>1, <1>7 DEF Store!Watcher, Store!WatcherReads, Store!WatcherInstalls, storeVars
<1>8. ASSUME NEW q \in Ops, Store!Proceed(q)
      PROVE  OpGranted(o)'
  BY <1>3, <1>4, <1>5, <1>8
     DEF Store!Proceed, Store!ReadStore, Store!cmdRevoke, Store!cmdRemove
<1> QED
  BY <1>2, <1>5, <1>6, <1>7, <1>8 DEF StoreStep

(* The initial store holds the rules it holds.                             *)
LEMMA InitStoreDiscipline == OperatorInit => StoreDiscipline
<1> SUFFICES ASSUME OperatorInit PROVE StoreDiscipline
  OBVIOUS
<1> USE DEF OperatorInit, Store!Init, Store!Inodes
<1>1. StoreShape
  BY DEF StoreShape
<1>2. RulesGranted(Stored)
  BY StoredIsSequence, SeqMonotonic DEF RulesGranted, Granted, Store!Patterns, Store!Range, Range
<1>3. FilesGranted
  BY <1>2 DEF FilesGranted, Store!File, Store!Truncated
<1>4. OpsGranted
  BY DEF OpsGranted, OpGranted
<1> QED
  BY <1>1, <1>3, <1>4 DEF StoreDiscipline

(* The discipline of the store holds throughout every behaviour.           *)
THEOREM StoreInvariant == OperatorSpec => [](DInv /\ StoreDiscipline)
<1>1. OperatorInit => DInv /\ StoreDiscipline
  BY InitDInv, InitStoreDiscipline DEF OperatorInit
<1>2. DInv /\ StoreDiscipline /\ [OperatorNext]_operatorVars => (DInv /\ StoreDiscipline)'
  BY NextDInv, OperatorStepIsStoreStep, StepKeepsShape, StepKeepsFiles, StepKeepsOps
     DEF StoreDiscipline
<1> QED
  BY <1>1, <1>2, PTL DEF OperatorSpec

(* Whatever overlaps, fails or restarts, and however often the file is     *)
(* garbled: a rule stage 2 can read from the store was there at the start, *)
(* or the operator approved a request its pattern was derived from.        *)
THEOREM GrantedRulesTheorem ==
  OperatorSpec => [](\A p \in Range(Store!StoredRules) : Granted(p))
<1>1. StoreDiscipline => \A p \in Range(Store!StoredRules) : Granted(p)
  BY ReadIsGranted DEF RulesGranted, Store!StoredRules
<1> QED
  BY <1>1, StoreInvariant, PTL

(* Patterns that tell requests apart: none was in the store at the start,  *)
(* and different requests have different ones.                             *)
PatternsTell ==
    \A o \in Ops : o.kind = "persist" =>
        /\ o.pattern \notin Range(Stored)
        /\ \A q \in Ops : q.kind = "persist" /\ q.pattern = o.pattern => q.request = o.request

(* Where the pattern tells the request, a stored pattern's own request was *)
(* approved.                                                               *)
THEOREM StoredTheorem == PatternsTell => (OperatorSpec => []StoredWasApproved)
<1> SUFFICES ASSUME PatternsTell PROVE OperatorSpec => []StoredWasApproved
  OBVIOUS
<1>1. (\A p \in Range(Store!StoredRules) : Granted(p)) => StoredWasApproved
  BY DEF PatternsTell, StoredWasApproved, Granted
<1> QED
  BY <1>1, GrantedRulesTheorem, PTL

-----------------------------------------------------------------------------
(* Inodes in hand.  An operation has a file open exactly while it writes   *)
(* one, and the inode it may create is not in use before.  The store is    *)
(* never the temporary name.  An inode that no two operations had in hand  *)
(* at once is whole when it is the store and out of every hand; while an   *)
(* operation has it open, it holds what that operation put there.          *)
OpenWhileWriting ==
    \A o \in Ops : /\ fd[o] \in Store!Inodes \cup {None}
                   /\ fd[o] # None <=> phase[o] \in {"opened", "written"}
NewInodes ==
    \A o \in Ops : phase[o] \in {"idle", "begun", "read"} =>
        o.id \notin {store, tmp} /\ \A q \in Ops : fd[q] # o.id
StoreIsNotTmp == store # None => store # tmp
StoreIsWhole ==
    store # None /\ store \notin shared =>
        content[store].json /\ \A q \in Ops : fd[q] # store
InOneHand ==
    \A o \in Ops : fd[o] # None /\ fd[o] \notin shared =>
        /\ \A q \in Ops \ {o} : fd[q] # fd[o]
        /\ phase[o] = "opened" => content[fd[o]] = Store!Truncated
        /\ phase[o] = "written" => content[fd[o]] = Store!NewFile(o)

HandsInv ==
    /\ StoreShape /\ OpenWhileWriting /\ NewInodes
    /\ StoreIsNotTmp /\ StoreIsWhole /\ InOneHand

(* The step of an operation that has no file in hand and takes none.       *)
Bystands(o) ==
    /\ UNCHANGED <<store, tmp, content, fd, shared, mixed, overwritten>>
    /\ phase' = [phase EXCEPT ![o] = phase'[o]]
    /\ phase[o] \notin {"opened", "written"}
    /\ phase'[o] \notin {"idle", "opened", "written"}
    /\ phase'[o] \in {"begun", "read"} => phase[o] \in {"idle", "begun"}
    /\ \A q \in Ops \ {o} : seen'[q] = seen[q] /\ before'[q] = before[q]

LEMMA Bystanders ==
  ASSUME StoreShape, before \in [Ops -> SUBSET Ops], NEW o \in Ops,
         \/ Store!Begin(o) \/ Store!Reads(o) \/ Store!NotConfirmed(o)
         \/ Store!ReloadReads(o) \/ Store!ReloadInstalls(o) \/ Store!RevokeAnswers(o)
  PROVE  Bystands(o)
<1>1. CASE Store!Begin(o)
  BY <1>1 DEF Store!Begin, Bystands, StoreShape, historyVars, Store!historyVars
<1>2. CASE Store!Reads(o)
  BY <1>2 DEF Store!Reads, Bystands, StoreShape
<1>3. CASE Store!NotConfirmed(o)
  BY <1>3 DEF Store!NotConfirmed, Bystands, StoreShape, historyVars, Store!historyVars
<1>4. CASE Store!ReloadReads(o) \/ Store!ReloadInstalls(o) \/ Store!RevokeAnswers(o)
  BY <1>4 DEF Store!ReloadReads, Store!ReloadInstalls, Store!RevokeAnswers, Bystands,
     StoreShape, historyVars, Store!historyVars
<1> QED
  BY <1>1, <1>2, <1>3, <1>4

(* The steps of the whole store, sorted by what they do to the files: an   *)
(* operation bystands, opens, writes, gives up or renames, or the watcher  *)
(* or a restart leaves the files alone.                                    *)
Rests ==
    /\ UNCHANGED <<store, tmp, content, seen, before, shared, mixed, overwritten>>
    /\ \/ UNCHANGED <<phase, fd>>
       \/ Store!Restart

LEMMA StepsOnFiles ==
  ASSUME StoreShape, before \in [Ops -> SUBSET Ops], StoreStep
  PROVE  \/ Rests
         \/ \E o \in Ops : \/ Bystands(o) \/ Store!OpenTmp(o) \/ Store!WriteTmp(o)
                           \/ Store!WriteFails(o) \/ Store!RenameTmp(o)
<1>1. CASE Store!Watcher \/ UNCHANGED storeVars
  BY <1>1 DEF Store!Watcher, Store!WatcherReads, Store!WatcherInstalls, storeVars,
     historyVars, Store!historyVars, Rests
<1>2. CASE Store!Restart
  BY <1>2 DEF Store!Restart, Rests
<1> QED
  BY <1>1, <1>2, Bystanders
     DEF StoreStep, BeginsGranted, Store!Proceed, Store!ReadStore, Store!cmdRevoke, Store!cmdRemove

(* The history of an operation is a set of operations.                     *)
HistoryShape == before \in [Ops -> SUBSET Ops] /\ overwritten \subseteq Ops

LEMMA StepKeepsHistoryShape ==
  ASSUME StoreShape, HistoryShape, StoreStep
  PROVE  HistoryShape'
<1>1. Store!MayHaveLanded \subseteq Ops
  BY DEF Store!MayHaveLanded, Store!Landed
<1>2. ASSUME NEW o \in Ops, Store!Reads(o)
      PROVE  HistoryShape'
  BY <1>1, <1>2 DEF Store!Reads, HistoryShape
<1>3. ASSUME NEW o \in Ops, Store!RenameTmp(o)
      PROVE  HistoryShape'
  BY <1>1, <1>3 DEF Store!RenameTmp, Store!Records, HistoryShape
<1>4. ASSUME NEW o \in Ops,
             \/ Store!Begin(o) \/ Store!NotConfirmed(o) \/ Store!OpenTmp(o) \/ Store!WriteTmp(o)
             \/ Store!WriteFails(o) \/ Store!ReloadReads(o) \/ Store!ReloadInstalls(o)
             \/ Store!RevokeAnswers(o)
      PROVE  HistoryShape'
  BY <1>4 DEF Store!Begin, Store!NotConfirmed, Store!OpenTmp, Store!WriteTmp, Store!WriteFails,
     Store!ReloadReads, Store!ReloadInstalls, Store!RevokeAnswers, Store!historyVars, HistoryShape
<1>5. CASE Store!Watcher \/ Store!Restart \/ UNCHANGED storeVars
  BY <1>5 DEF Store!Watcher, Store!WatcherReads, Store!WatcherInstalls, Store!Restart, storeVars,
     historyVars, Store!historyVars, HistoryShape
<1> QED
  BY <1>2, <1>3, <1>4, <1>5
     DEF StoreStep, BeginsGranted, Store!Proceed, Store!ReadStore, Store!cmdRevoke, Store!cmdRemove

(* Every step keeps the inodes in their hands.                             *)
LEMMA NextHands ==
  ASSUME HandsInv, HistoryShape, OpsGranted, StoreStep
  PROVE  HandsInv'
<1> USE OpsAreDistinct DEF HandsInv, HistoryShape
<1>0. StoreShape'
  BY StepKeepsShape
<1>1. ASSUME NEW o \in Ops, Bystands(o)
      PROVE  HandsInv'
  <2>1. \A q \in Ops : fd'[q] # None => phase'[q] = phase[q] /\ seen'[q] = seen[q]
    BY <1>1 DEF Bystands, OpenWhileWriting, StoreShape
  <2>2. InOneHand'
    <3>1. \A q \in Ops : fd'[q] # None => Store!NewFile(q)' = Store!NewFile(q)
      BY <2>1 DEF Store!NewFile, Store!NewRules
    <3> QED
      BY <1>1, <2>1, <3>1 DEF Bystands, InOneHand
  <2>3. OpenWhileWriting' /\ NewInodes'
    BY <1>1 DEF Bystands, OpenWhileWriting, NewInodes, StoreShape
  <2> QED
    BY <1>0, <1>1, <2>2, <2>3 DEF Bystands, StoreIsNotTmp, StoreIsWhole
<1>2. ASSUME NEW o \in Ops, Store!OpenTmp(o)
      PROVE  HandsInv'
  <2>1. PICK i \in Store!Inodes :
           /\ i # None /\ i # store /\ (i = tmp \/ i = o.id) /\ tmp' = i /\ store' = store
           /\ content' = [content EXCEPT ![i] = Store!Truncated]
           /\ fd' = [fd EXCEPT ![o] = i]
           /\ shared' = IF \E q \in Ops : fd[q] = i THEN shared \cup {i} ELSE shared \ {i}
           /\ seen' = seen
    BY <1>2 DEF Store!OpenTmp, Store!Inodes, StoreShape, NewInodes, StoreIsNotTmp
  <2>2. phase[o] = "read" /\ fd[o] = None /\ phase' = [phase EXCEPT ![o] = "opened"]
    BY <1>2 DEF Store!OpenTmp, OpenWhileWriting
  <2>3. OpenWhileWriting' /\ NewInodes' /\ StoreIsNotTmp'
    BY <2>1, <2>2 DEF OpenWhileWriting, NewInodes, StoreIsNotTmp, StoreShape
  <2>4. StoreIsWhole'
    BY <2>1 DEF StoreIsWhole, StoreShape
  <2>5. ASSUME NEW q \in Ops, fd'[q] # None, fd'[q] \notin shared'
        PROVE  /\ \A r \in Ops \ {q} : fd'[r] # fd'[q]
               /\ phase'[q] = "opened" => content'[fd'[q]] = Store!Truncated
               /\ phase'[q] = "written" => content'[fd'[q]] = Store!NewFile(q)'
    <3>1. CASE q = o
      BY <2>1, <2>2, <2>5, <3>1 DEF StoreShape
    <3>2. CASE q # o
      <4>1. fd'[q] = fd[q] /\ fd[q] # i /\ fd[q] \notin shared /\ phase'[q] = phase[q]
        BY <2>1, <2>2, <2>5, <3>2 DEF StoreShape
      <4>2. content'[fd[q]] = content[fd[q]] /\ Store!NewFile(q)' = Store!NewFile(q)
        BY <2>1, <2>5, <4>1 DEF StoreShape, OpenWhileWriting, Store!NewFile, Store!NewRules
      <4> QED
        BY <2>1, <2>5, <4>1, <4>2 DEF InOneHand, StoreShape
    <3> QED
      BY <3>1, <3>2
  <2> QED
    BY <1>0, <2>3, <2>4, <2>5 DEF InOneHand
<1>3. ASSUME NEW o \in Ops, Store!WriteTmp(o)
      PROVE  HandsInv'
  <2>1. PICK i \in Store!Inodes : i = fd[o] /\ i # None
    BY <1>3 DEF Store!WriteTmp, OpenWhileWriting
  <2>2. PICK bytes : /\ content' = [content EXCEPT ![i] = bytes]
                     /\ content[i] = Store!Truncated => bytes = Store!NewFile(o)
    BY <1>3, <2>1 DEF Store!WriteTmp
  <2>3. /\ phase[o] = "opened" /\ phase' = [phase EXCEPT ![o] = "written"]
        /\ UNCHANGED <<store, tmp, fd, seen, shared>>
    BY <1>3 DEF Store!WriteTmp, Store!historyVars
  <2>4. OpenWhileWriting' /\ NewInodes' /\ StoreIsNotTmp'
    BY <2>3 DEF OpenWhileWriting, NewInodes, StoreIsNotTmp, StoreShape
  <2>5. StoreIsWhole'
    BY <2>1, <2>2, <2>3 DEF StoreIsWhole, StoreShape
  <2>6. \A q \in Ops : Store!NewFile(q)' = Store!NewFile(q)
    BY <2>3 DEF Store!NewFile, Store!NewRules
  <2>7. InOneHand'
    BY <2>1, <2>2, <2>3, <2>6 DEF InOneHand, StoreShape, OpenWhileWriting
  <2> QED
    BY <1>0, <2>4, <2>5, <2>7
<1>4. ASSUME NEW o \in Ops, Store!WriteFails(o)
      PROVE  HandsInv'
  <2>1. /\ phase' = [phase EXCEPT ![o] = "failed"] /\ fd' = [fd EXCEPT ![o] = None]
        /\ UNCHANGED <<store, tmp, content, seen, shared>>
    BY <1>4 DEF Store!WriteFails, Store!historyVars
  <2>2. \A q \in Ops : Store!NewFile(q)' = Store!NewFile(q)
    BY <2>1 DEF Store!NewFile, Store!NewRules
  <2> QED
    BY <1>0, <2>1, <2>2
       DEF OpenWhileWriting, NewInodes, StoreIsNotTmp, StoreIsWhole, InOneHand, StoreShape
<1>5. ASSUME NEW o \in Ops, Store!RenameTmp(o)
      PROVE  HandsInv'
  <2>1. /\ phase[o] = "written" /\ phase' = [phase EXCEPT ![o] = phase'[o]]
        /\ phase'[o] \in {"failed", "done", "renamed"}
        /\ fd' = [fd EXCEPT ![o] = None] /\ content' = content /\ seen' = seen
        /\ shared \subseteq shared'
    BY <1>5 DEF Store!RenameTmp, Store!Records, StoreShape
  <2>2. \A q \in Ops : Store!NewFile(q)' = Store!NewFile(q)
    BY <2>1 DEF Store!NewFile, Store!NewRules
  <2>3. OpenWhileWriting' /\ InOneHand'
    BY <2>1, <2>2 DEF OpenWhileWriting, InOneHand, StoreShape
  <2>4. CASE tmp = None
    BY <1>0, <1>5, <2>1, <2>3, <2>4
       DEF Store!RenameTmp, NewInodes, StoreIsNotTmp, StoreIsWhole, StoreShape
  <2>5. CASE tmp # None
    <3>1. /\ store' = tmp /\ tmp' = None
          /\ shared' = IF fd[o] = tmp THEN shared ELSE shared \cup {tmp}
      BY <1>5, <2>5 DEF Store!RenameTmp, Store!Records
    <3>2. NewInodes' /\ StoreIsNotTmp'
      BY <2>1, <2>5, <3>1 DEF NewInodes, StoreIsNotTmp, StoreShape, Store!Inodes
    <3>3. StoreIsWhole'
      <4> SUFFICES ASSUME tmp \notin shared'
                   PROVE  content[tmp].json /\ \A q \in Ops : fd'[q] # tmp
        BY <2>1, <3>1 DEF StoreIsWhole
      <4>1. fd[o] = tmp /\ tmp \notin shared
        BY <3>1
      <4>2. content[tmp] = Store!NewFile(o) /\ \A q \in Ops \ {o} : fd[q] # tmp
        BY <2>1, <2>5, <4>1 DEF InOneHand
      <4> QED
        BY <2>1, <2>5, <4>2 DEF Store!NewFile, Store!File, StoreShape
    <3> QED
      BY <1>0, <2>3, <3>2, <3>3
  <2> QED
    BY <2>4, <2>5
<1>6. CASE Rests
  <2>1. /\ UNCHANGED <<store, tmp, content, seen, shared>>
        /\ \A q \in Ops : \/ phase'[q] = phase[q] /\ fd'[q] = fd[q]
                          \/ phase'[q] = "dead" /\ fd'[q] = None
    BY <1>6 DEF Rests, Store!Restart, Store!Busy, OpenWhileWriting
  <2>2. \A q \in Ops : Store!NewFile(q)' = Store!NewFile(q)
    BY <2>1 DEF Store!NewFile, Store!NewRules
  <2> QED
    BY <1>0, <2>1, <2>2
       DEF OpenWhileWriting, NewInodes, StoreIsNotTmp, StoreIsWhole, InOneHand
<1> QED
  BY <1>1, <1>2, <1>3, <1>4, <1>5, <1>6, StepsOnFiles

(* Initially no file is open and the store is whole.                       *)
LEMMA InitHands == OperatorInit => HandsInv /\ HistoryShape
<1> SUFFICES ASSUME OperatorInit PROVE HandsInv /\ HistoryShape
  OBVIOUS
<1> USE OpsAreDistinct DEF OperatorInit, Store!Init, Store!Inodes
<1>1. StoreShape
  BY DEF StoreShape
<1>2. OpenWhileWriting /\ NewInodes /\ StoreIsNotTmp /\ InOneHand /\ HistoryShape
  BY DEF OpenWhileWriting, NewInodes, StoreIsNotTmp, InOneHand, HistoryShape
<1>3. StoreIsWhole
  BY DEF StoreIsWhole, Store!File
<1> QED
  BY <1>1, <1>2, <1>3 DEF HandsInv

(* The invariant of the files, with any number of overlapping operations.  *)
FilesInv == StoreDiscipline /\ HandsInv /\ HistoryShape

THEOREM HandsInvariant == OperatorSpec => [](DInv /\ FilesInv)
<1>1. OperatorInit => FilesInv
  BY InitStoreDiscipline, InitHands DEF FilesInv
<1>2. DInv /\ FilesInv /\ [OperatorNext]_operatorVars => FilesInv'
  <2> SUFFICES ASSUME DInv, FilesInv, [OperatorNext]_operatorVars PROVE FilesInv'
    OBVIOUS
  <2>1. StoreStep /\ \A t \in Requests : acked[t] \subseteq acked'[t]
    BY OperatorStepIsStoreStep
  <2>2. StoreDiscipline'
    BY <2>1, StepKeepsShape, StepKeepsFiles, StepKeepsOps DEF FilesInv, StoreDiscipline
  <2> QED
    BY <2>1, <2>2, NextHands, StepKeepsHistoryShape DEF FilesInv, StoreDiscipline
<1> QED
  BY <1>1, <1>2, DialogInvariant, PTL DEF OperatorSpec

(* However operations of the gateway and of the command line overlap and   *)
(* whatever crashes, fails or restarts: the store is partially written     *)
(* only if two operations had that file in hand at once.                   *)
THEOREM NeverPartialTheorem == OperatorSpec => []NeverPartial
<1>1. FilesInv => NeverPartial
  BY DEF FilesInv, HandsInv, StoreIsWhole, NeverPartial, Store!NeverPartial
<1> QED
  BY <1>1, HandsInvariant, PTL

-----------------------------------------------------------------------------
(* A view of the store: some rules, the operations whose effect they are   *)
(* answerable for (S), and those that may have had one (M).  A pattern     *)
(* saved is there and one removed is not, unless that was undone; a rule   *)
(* is there twice only if it was saved again; and of the initial rules at  *)
(* most as many are gone as removals may have been at work.                *)
Kept(rules, S, M) ==
    \A o \in S \ Store!ByIndex :
       \/ (o.kind = "persist") <=> (o.pattern \in Range(rules))
       \/ \E q \in M : Store!Undoes(q, o)
NoCopies(rules, M) ==
    \A i, j \in 1..Len(rules) :
       i # j /\ rules[i] = rules[j] => \E q \in M : q.kind = "persist" /\ q.pattern = rules[i]
Gone(rules) == Range(Stored) \ Range(rules)
Removals(M) == {o \in M : o.kind # "persist"}
FewGone(rules, M) == Cardinality(Gone(rules)) <= Cardinality(Removals(M))

View(rules, S, M) == Kept(rules, S, M) /\ NoCopies(rules, M) /\ FewGone(rules, M)

(* The sets that are counted are finite.                                   *)
LEMMA FiniteCounts ==
  ASSUME NEW rules, NEW M \in SUBSET Ops
  PROVE  /\ IsFiniteSet(Gone(rules)) /\ Cardinality(Gone(rules)) \in Nat
         /\ IsFiniteSet(Removals(M)) /\ Cardinality(Removals(M)) \in Nat
<1>1. /\ IsFiniteSet(Range(Stored)) /\ IsFiniteSet(Ops)
      /\ Removals(M) \subseteq Ops /\ Gone(rules) \subseteq Range(Stored)
  <2>1. Stored \in Seq(Range(Stored))
    BY StoredIsSequence DEF Store!Range, Range
  <2>2. DOMAIN Stored = 1..Len(Stored) /\ Len(Stored) \in Nat
    BY <2>1, LenProperties
  <2>3. IsFiniteSet(DOMAIN Stored)
    BY <2>2, FS_Interval
  <2>4. Stored \in Surjection(DOMAIN Stored, Range(Stored))
    BY <2>1, <2>2 DEF Surjection, Range
  <2> QED
    BY <2>3, <2>4, FS_Surjection, OpsAreDistinct DEF Removals, Gone, ExistsSurjection
<1> QED
  BY <1>1, FS_Subset, FS_CardinalityType

(* Being answerable for less, or excused by more, is no harder.            *)
LEMMA ViewWeakens ==
  ASSUME NEW rules, NEW S, NEW M, NEW R, NEW N \in SUBSET Ops, View(rules, S, M),
         R \subseteq S, M \subseteq N
  PROVE  View(rules, R, N)
<1>1. Kept(rules, R, N) /\ NoCopies(rules, N)
  BY DEF View, Kept, NoCopies
<1>2. Cardinality(Removals(M)) <= Cardinality(Removals(N)) /\ Cardinality(Removals(M)) \in Nat
  <2>1. Removals(M) \subseteq Removals(N) /\ M \in SUBSET Ops
    BY DEF Removals
  <2> QED
    BY <2>1, FiniteCounts, FS_Subset
<1>3. Cardinality(Gone(rules)) \in Nat /\ Cardinality(Removals(N)) \in Nat
  BY FiniteCounts
<1> QED
  BY <1>1, <1>2, <1>3 DEF View, FewGone

(* What the new rules of an operation are.                                 *)
LEMMA NewRulesEffect ==
  ASSUME NEW T, NEW rules \in Seq(T), NEW o \in Ops, o.pattern \in T,
         o.kind = "persist" \/ Store!findRule(o, rules) # 0
  PROVE  /\ o.kind = "persist" => Store!NewRules(o, rules) = Append(rules, o.pattern)
         /\ o.kind # "persist" =>
               \E i \in 1..Len(rules) :
                  /\ Store!NewRules(o, rules) = RemoveAt(rules, i)
                  /\ o \notin Store!ByIndex => rules[i] = o.pattern
<1>1. o.kind = "persist" => Store!NewRules(o, rules) = Append(rules, o.pattern)
  BY DEF Store!NewRules
<1>2. ASSUME o.kind # "persist"
      PROVE  \E i \in 1..Len(rules) :
                  /\ Store!NewRules(o, rules) = RemoveAt(rules, i)
                  /\ o \notin Store!ByIndex => rules[i] = o.pattern
  <2>1. PICK i : i = Store!findRule(o, rules)
    OBVIOUS
  <2>2. i \in 1..Len(rules) /\ Store!NewRules(o, rules) = RemoveAt(rules, i)
    BY <1>2, <2>1, FoundIsInList DEF Store!NewRules, Store!RemoveAt, RemoveAt
  <2>3. ASSUME o \notin Store!ByIndex
        PROVE  rules[i] = o.pattern
    <3> DEFINE I == {k \in 1..Len(rules) : rules[k] = o.pattern}
    <3>1. i = IF I # {} THEN Min(I) ELSE 0
      BY <2>1, <2>3 DEF Store!findRule, Store!SelectInSeq, Store!Min, Min
    <3>2. I \subseteq Nat /\ I # {}
      BY <1>2, <2>1, <3>1
    <3> QED
      BY <3>1, <3>2, MinIsLeast
  <2> QED
    BY <2>2, <2>3
<1> QED
  BY <1>1, <1>2

(* An operation that can be carried out on a list of patterns.             *)
Fits(o, rules) ==
    /\ rules \in Seq(Store!Patterns)
    /\ o.kind = "persist" \/ Store!findRule(o, rules) # 0

(* The elements of the new rules, and which rule is lost.                  *)
LEMMA NewElements ==
  ASSUME NEW o \in Ops, NEW rules, Fits(o, rules)
  PROVE  /\ o.kind = "persist" =>
               Range(Store!NewRules(o, rules)) = Range(rules) \cup {o.pattern}
         /\ o.kind # "persist" =>
               \E p : /\ Range(rules) \ {p} \subseteq Range(Store!NewRules(o, rules))
                      /\ Range(Store!NewRules(o, rules)) \subseteq Range(rules)
                      /\ o \notin Store!ByIndex => p = o.pattern
<1>1. /\ rules \in Seq(Store!Patterns) /\ o.pattern \in Store!Patterns
      /\ o.kind = "persist" \/ Store!findRule(o, rules) # 0
  BY DEF Fits, Store!Patterns
<1>2. ASSUME o.kind = "persist"
      PROVE  Range(Store!NewRules(o, rules)) = Range(rules) \cup {o.pattern}
  <2>1. Store!NewRules(o, rules) = Append(rules, o.pattern)
    BY <1>1, <1>2, NewRulesEffect
  <2> QED
    BY <1>1, <2>1, AppendProperties DEF Range
<1>3. ASSUME o.kind # "persist"
      PROVE  \E p : /\ Range(rules) \ {p} \subseteq Range(Store!NewRules(o, rules))
                    /\ Range(Store!NewRules(o, rules)) \subseteq Range(rules)
                    /\ o \notin Store!ByIndex => p = o.pattern
  <2>1. PICK i \in 1..Len(rules) : /\ Store!NewRules(o, rules) = RemoveAt(rules, i)
                                   /\ o \notin Store!ByIndex => rules[i] = o.pattern
    BY <1>1, <1>3, NewRulesEffect
  <2>2. /\ Range(RemoveAt(rules, i)) \subseteq Range(rules)
        /\ Range(rules) \ {rules[i]} \subseteq Range(RemoveAt(rules, i))
    BY <1>1, RemoveAtShrinks, RemoveAtLosesOne
  <2> QED
    BY <2>1, <2>2
<1> QED
  BY <1>2, <1>3

(* Only saving a pattern again brings a second copy of it.                 *)
LEMMA NewCopies ==
  ASSUME NEW o \in Ops, NEW rules, NEW M, Fits(o, rules), NoCopies(rules, M)
  PROVE  NoCopies(Store!NewRules(o, rules), M \cup {o})
<1>1. PICK new : new = Store!NewRules(o, rules)
  OBVIOUS
<1>2. /\ rules \in Seq(Store!Patterns) /\ o.pattern \in Store!Patterns
      /\ o.kind = "persist" \/ Store!findRule(o, rules) # 0
  BY DEF Fits, Store!Patterns
<1> SUFFICES ASSUME NEW j \in 1..Len(new), NEW k \in 1..Len(new), j # k, new[j] = new[k]
             PROVE  \E q \in M \cup {o} : q.kind = "persist" /\ q.pattern = new[j]
  BY <1>1 DEF NoCopies
<1>3. CASE o.kind = "persist"
  <2>1. new = Append(rules, o.pattern)
    BY <1>1, <1>2, <1>3, NewRulesEffect
  <2>2. /\ Len(new) = Len(rules) + 1 /\ Len(rules) \in Nat
        /\ \A n \in 1..Len(rules) : new[n] = rules[n]
        /\ new[Len(rules) + 1] = o.pattern
    BY <1>2, <2>1, AppendProperties, LenProperties
  <2>3. CASE j = Len(rules) + 1 \/ k = Len(rules) + 1
    BY <1>3, <2>2, <2>3
  <2>4. CASE ~ (j = Len(rules) + 1 \/ k = Len(rules) + 1)
    <3>1. j \in 1..Len(rules) /\ k \in 1..Len(rules)
      BY <2>2, <2>4
    <3> QED
      BY <2>2, <3>1 DEF NoCopies
  <2> QED
    BY <2>3, <2>4
<1>4. CASE o.kind # "persist"
  <2>1. PICK i \in 1..Len(rules) : new = RemoveAt(rules, i)
    BY <1>1, <1>2, <1>4, NewRulesEffect
  <2>2. /\ rules \in Seq(Store!Patterns) /\ j \in 1..Len(RemoveAt(rules, i))
        /\ k \in 1..Len(RemoveAt(rules, i)) /\ RemoveAt(rules, i)[j] = RemoveAt(rules, i)[k]
    BY <1>2, <2>1
  <2>3. \E m, n \in 1..Len(rules) : /\ m # n /\ rules[m] = rules[n]
                                     /\ rules[m] = RemoveAt(rules, i)[j]
    BY <2>2, RemoveAtCopies
  <2>4. PICK m, n \in 1..Len(rules) : m # n /\ rules[m] = rules[n] /\ rules[m] = new[j]
    BY <2>1, <2>3
  <2> QED
    BY <2>4 DEF NoCopies
<1> QED
  BY <1>3, <1>4

(* A pattern taken out once is out, unless it was saved more than once.    *)
LEMMA RemovedIsOut ==
  ASSUME NEW o \in Ops, NEW rules, NEW M, Fits(o, rules), NoCopies(rules, M),
         o.kind # "persist", o \notin Store!ByIndex,
         o.pattern \in Range(Store!NewRules(o, rules))
  PROVE  \E q \in M : q.kind = "persist" /\ q.pattern = o.pattern
<1>1. PICK new : new = Store!NewRules(o, rules)
  OBVIOUS
<1>2. /\ rules \in Seq(Store!Patterns) /\ o.pattern \in Store!Patterns
      /\ Store!findRule(o, rules) # 0
  BY DEF Fits, Store!Patterns
<1>3. PICK i \in 1..Len(rules) : new = RemoveAt(rules, i) /\ rules[i] = o.pattern
  BY <1>1, <1>2, NewRulesEffect
<1>4. PICK j \in 1..Len(new) : new[j] = o.pattern
  BY <1>1, <1>2, <1>3, RemoveAtShrinks, LenProperties DEF Range
<1>5. PICK n \in 1..Len(rules) : n # i /\ rules[n] = o.pattern
  <2>1. j \in 1..Len(rules) - 1 /\ Len(rules) \in Nat /\ i \in 1..Len(rules)
    BY <1>2, <1>3, <1>4, RemoveAtPlaces, LenProperties
  <2>2. rules[IF j < i THEN j ELSE j + 1] = o.pattern
    BY <1>2, <1>3, <1>4, <2>1, RemoveAtPlaces
  <2>3. (IF j < i THEN j ELSE j + 1) \in 1..Len(rules) /\ (IF j < i THEN j ELSE j + 1) # i
    BY <2>1
  <2> QED
    BY <2>2, <2>3
<1> QED
  BY <1>3, <1>5 DEF NoCopies

(* What was saved or removed stays so until an operation undoes it.        *)
LEMMA NewKept ==
  ASSUME NEW o \in Ops, NEW rules, NEW S \in SUBSET Ops, NEW M \in SUBSET Ops,
         Fits(o, rules), NoCopies(rules, M), Kept(rules, S, M)
  PROVE  Kept(Store!NewRules(o, rules), S \cup {o}, M \cup {o})
<1> DEFINE new == Store!NewRules(o, rules)
<1> SUFFICES ASSUME NEW s \in (S \cup {o}) \ Store!ByIndex
             PROVE  \/ (s.kind = "persist") <=> (s.pattern \in Range(new))
                    \/ \E q \in M \cup {o} : Store!Undoes(q, s)
  BY DEF Kept
<1>1. CASE s # o
  <2>1. \/ (s.kind = "persist") <=> (s.pattern \in Range(rules))
        \/ \E q \in M : Store!Undoes(q, s)
    BY <1>1 DEF Kept
  <2>2. CASE ~ Store!Undoes(o, s) /\ ((s.kind = "persist") <=> (s.pattern \in Range(rules)))
    BY <2>2, NewElements DEF Store!Undoes
  <2> QED
    BY <2>1, <2>2
<1>2. CASE s = o /\ o.kind = "persist"
  BY <1>2, NewElements
<1>3. CASE s = o /\ o.kind # "persist" /\ o.pattern \in Range(new)
  <2>1. PICK q \in M : q.kind = "persist" /\ q.pattern = o.pattern
    BY <1>3, RemovedIsOut
  <2> QED
    BY <1>3, <2>1 DEF Store!Undoes
<1> QED
  BY <1>1, <1>2, <1>3

(* A removal costs one rule, and nothing else costs any.                   *)
LEMMA NewGone ==
  ASSUME NEW o \in Ops, NEW rules, NEW M \in SUBSET Ops, o \notin M,
         Fits(o, rules), FewGone(rules, M)
  PROVE  FewGone(Store!NewRules(o, rules), M \cup {o})
<1>1. PICK G, H, R, Q : /\ G = Gone(rules) /\ H = Gone(Store!NewRules(o, rules))
                        /\ R = Removals(M) /\ Q = Removals(M \cup {o})
  OBVIOUS
<1>2. /\ IsFiniteSet(G) /\ Cardinality(G) \in Nat /\ IsFiniteSet(H) /\ Cardinality(H) \in Nat
      /\ IsFiniteSet(R) /\ Cardinality(R) \in Nat /\ IsFiniteSet(Q) /\ Cardinality(Q) \in Nat
      /\ Cardinality(G) <= Cardinality(R)
  BY <1>1, FiniteCounts DEF FewGone
<1>3. ASSUME o.kind = "persist"
      PROVE  Cardinality(H) <= Cardinality(Q)
  <2>1. H \subseteq G /\ R \subseteq Q
    BY <1>1, <1>3, NewElements DEF Gone, Removals
  <2>2. Cardinality(H) <= Cardinality(G) /\ Cardinality(R) <= Cardinality(Q)
    BY <1>2, <2>1, FS_Subset
  <2> QED
    BY <1>2, <2>2
<1>4. ASSUME o.kind # "persist"
      PROVE  Cardinality(H) <= Cardinality(Q)
  <2>1. PICK p : H \subseteq G \cup {p}
    BY <1>1, <1>4, NewElements DEF Gone
  <2>2. /\ IsFiniteSet(G \cup {p})
        /\ Cardinality(G \cup {p}) = IF p \in G THEN Cardinality(G) ELSE Cardinality(G) + 1
    BY <1>2, FS_AddElement
  <2>3. Cardinality(H) <= Cardinality(G \cup {p})
    BY <2>1, <2>2, FS_Subset
  <2>4. Q = R \cup {o} /\ o \notin R
    BY <1>1, <1>4 DEF Removals
  <2>5. Cardinality(Q) = Cardinality(R) + 1
    BY <1>2, <2>4, FS_AddElement
  <2> QED
    BY <1>2, <2>2, <2>3, <2>5
<1> QED
  BY <1>1, <1>3, <1>4 DEF FewGone

(* An operation that lands on a view adds itself to it.                    *)
LEMMA NewView ==
  ASSUME NEW o \in Ops, NEW rules, NEW S \in SUBSET Ops, NEW M \in SUBSET Ops, o \notin M,
         Fits(o, rules), View(rules, S, M)
  PROVE  View(Store!NewRules(o, rules), S \cup {o}, M \cup {o})
BY NewCopies, NewKept, NewGone DEF View

-----------------------------------------------------------------------------
(* While no file that two operations had in hand has become the store: the *)
(* store is a view of the operations that have landed and were not         *)
(* overwritten; and what an operation read, and is going to write back     *)
(* with its own change, is a view of those that had landed by then.        *)
HadLanded(o) == (before[o] \cap Store!Landed) \ overwritten

Views ==
    /\ \A o \in Ops : before[o] \subseteq Store!MayHaveLanded
    /\ ~mixed =>
         /\ store # None => store \notin shared
         /\ View(Store!StoredRules, Store!Landed \ overwritten, Store!MayHaveLanded)
         /\ \A o \in Ops : phase[o] \in {"read", "opened", "written"} =>
               View(seen[o].rules, HadLanded(o), before[o])

(* The rules are those of the store's inode.                               *)
LEMMA RulesOfInode ==
  /\ store' = store /\ (store # None => content'[store] = content[store])
     => Store!loadAutoPermitRulesFromFile' = Store!loadAutoPermitRulesFromFile
  /\ store' # None /\ content'[store'].json => Store!StoredRules' = content'[store'].rules
BY DEF Store!StoredRules, Store!loadAutoPermitRulesFromFile

(* Only a rename, or a write through an inode that has become the store,   *)
(* changes what the store reads as; the watcher is told of either.         *)
LEMMA StoreInodeStays ==
  ASSUME HandsInv, HistoryShape, StoreStep, \A o \in Ops : ~Store!RenameTmp(o)
  PROVE  \/ Store!loadAutoPermitRulesFromFile' = Store!loadAutoPermitRulesFromFile
         \/ /\ \E o \in Ops : Store!WriteTmp(o) /\ fd[o] = store
            /\ store # None /\ changed'
<1> USE DEF HandsInv, HistoryShape, StoreShape
<1>1. ASSUME NEW o \in Ops, Store!OpenTmp(o)
      PROVE  Store!loadAutoPermitRulesFromFile' = Store!loadAutoPermitRulesFromFile
  <2>1. PICK i \in Store!Inodes : i # store /\ content' = [content EXCEPT ![i] = Store!Truncated]
    BY <1>1, OpsAreDistinct DEF Store!OpenTmp, NewInodes, StoreIsNotTmp, Store!Inodes
  <2> QED
    BY <1>1, <2>1, RulesOfInode DEF Store!OpenTmp
<1>2. ASSUME NEW o \in Ops, Store!WriteTmp(o)
      PROVE  \/ Store!loadAutoPermitRulesFromFile' = Store!loadAutoPermitRulesFromFile
             \/ fd[o] = store /\ store # None /\ changed'
  <2>1. PICK bytes : content' = [content EXCEPT ![fd[o]] = bytes]
    BY <1>2 DEF Store!WriteTmp
  <2>2. store' = store /\ (changed' = (changed \/ fd[o] = store)) /\ fd[o] # None
    BY <1>2 DEF Store!WriteTmp, OpenWhileWriting
  <2> QED
    BY <2>1, <2>2, RulesOfInode
<1>3. ASSUME NEW o \in Ops, Bystands(o) \/ Store!WriteFails(o)
      PROVE  Store!loadAutoPermitRulesFromFile' = Store!loadAutoPermitRulesFromFile
  BY <1>3, RulesOfInode DEF Bystands, Store!WriteFails
<1>4. CASE Rests
  BY <1>4, RulesOfInode DEF Rests
<1> QED
  BY <1>1, <1>2, <1>3, <1>4, StepsOnFiles

(* An operation that does not rename does not land, and one that may have  *)
(* landed stays one.                                                       *)
LandsNone ==
    /\ Store!Landed' \subseteq Store!Landed
    /\ Store!MayHaveLanded \subseteq Store!MayHaveLanded'

LEMMA OthersLandNone ==
  ASSUME HandsInv, HistoryShape, StoreStep, \A o \in Ops : ~Store!RenameTmp(o)
  PROVE  LandsNone
<1> USE DEF HandsInv, HistoryShape, StoreShape
<1>1. ASSUME NEW o \in Ops,
             \/ Store!Begin(o) \/ Store!Reads(o) \/ Store!NotConfirmed(o) \/ Store!WriteFails(o)
             \/ Store!OpenTmp(o) \/ Store!WriteTmp(o)
             \/ Store!ReloadReads(o) \/ Store!ReloadInstalls(o) \/ Store!RevokeAnswers(o)
      PROVE  /\ \A q \in Ops \ {o} : phase'[q] = phase[q]
             /\ phase[o] \in {"renamed", "reloading", "installed"} =>
                   phase'[o] \in {"reloading", "installed", "done"}
             /\ phase[o] \notin {"renamed", "reloading", "installed"} =>
                   /\ phase[o] \notin {"done", "dead"}
                   /\ phase'[o] \notin {"renamed", "reloading", "installed", "done"}
  BY <1>1 DEF Store!Begin, Store!Reads, Store!NotConfirmed, Store!WriteFails, Store!OpenTmp,
     Store!WriteTmp, Store!ReloadReads, Store!ReloadInstalls, Store!RevokeAnswers
<1>2. ASSUME NEW o \in Ops,
             \/ Store!Begin(o) \/ Store!Reads(o) \/ Store!NotConfirmed(o) \/ Store!WriteFails(o)
             \/ Store!OpenTmp(o) \/ Store!WriteTmp(o)
             \/ Store!ReloadReads(o) \/ Store!ReloadInstalls(o) \/ Store!RevokeAnswers(o)
      PROVE  LandsNone
  BY <1>1, <1>2 DEF LandsNone, Store!Landed, Store!MayHaveLanded
<1>3. CASE Store!Restart
  BY <1>3 DEF Store!Restart, Store!Busy, LandsNone, Store!Landed, Store!MayHaveLanded
<1>4. CASE Store!Watcher \/ UNCHANGED storeVars
  BY <1>4 DEF Store!Watcher, Store!WatcherReads, Store!WatcherInstalls, storeVars,
     LandsNone, Store!Landed, Store!MayHaveLanded
<1> QED
  BY <1>2, <1>3, <1>4
     DEF StoreStep, BeginsGranted, Store!Proceed, Store!ReadStore, Store!cmdRevoke, Store!cmdRemove

(* The sets of operations a view is about.                                 *)
LEMMA LandedAreOps ==
  /\ Store!MayHaveLanded \subseteq Ops /\ Store!Landed \subseteq Store!MayHaveLanded
  /\ Store!MayHaveLanded' \subseteq Ops
BY DEF Store!MayHaveLanded, Store!Landed

(* Every step without a rename keeps the views, and a read takes that of   *)
(* the store.                                                              *)
LEMMA OthersKeepViews ==
  ASSUME FilesInv, Views, StoreStep, \A o \in Ops : ~Store!RenameTmp(o)
  PROVE  Views'
<1> USE DEF FilesInv
<1>0. HandsInv /\ HistoryShape /\ LandsNone
  BY OthersLandNone
<1>1. UNCHANGED <<mixed, overwritten>> /\ (store' = store)
      /\ (store # None => (store \in shared' <=> store \in shared))
  <2>1. ASSUME NEW o \in Ops, Store!OpenTmp(o)
        PROVE  /\ UNCHANGED <<mixed, overwritten>> /\ store' = store
               /\ store # None => (store \in shared' <=> store \in shared)
    BY <1>0, <2>1, OpsAreDistinct DEF Store!OpenTmp, HandsInv, NewInodes, StoreIsNotTmp
  <2> QED
    BY <1>0, <2>1, StepsOnFiles
       DEF HandsInv, HistoryShape, Bystands, Rests, Store!WriteTmp, Store!WriteFails, Store!historyVars
<1>2. ~mixed => Store!loadAutoPermitRulesFromFile' = Store!loadAutoPermitRulesFromFile
  BY <1>0, StoreInodeStays DEF Views, HandsInv, StoreIsWhole
<1>3. ASSUME NEW o \in Ops
      PROVE  /\ before'[o] \subseteq Store!MayHaveLanded'
             /\ ~mixed /\ phase'[o] \in {"read", "opened", "written"} =>
                  View(seen'[o].rules, HadLanded(o)', before'[o])
  <2>1. CASE Store!Reads(o)
    <3>1. /\ seen'[o] = Store!loadAutoPermitRulesFromFile /\ before'[o] = Store!MayHaveLanded
      BY <1>0, <2>1 DEF Store!Reads, HandsInv, StoreShape, HistoryShape
    <3>2. HadLanded(o)' \subseteq Store!Landed \ overwritten
      BY <1>0, <1>1 DEF HadLanded, LandsNone
    <3>3. ~mixed => View(Store!StoredRules, HadLanded(o)', Store!MayHaveLanded)
      BY <3>2, ViewWeakens, LandedAreOps DEF Views
    <3> QED
      BY <1>0, <3>1, <3>3 DEF LandsNone, Store!StoredRules
  <2>2. CASE ~Store!Reads(o)
    <3> DEFINE Stays ==
          /\ before'[o] = before[o] /\ seen'[o] = seen[o]
          /\ phase'[o] \in {"read", "opened", "written"} =>
                phase[o] \in {"read", "opened", "written"}
    <3>1. Stays
      <4>1. ASSUME NEW q \in Ops,
                   \/ Store!Begin(q) \/ Store!Reads(q) \/ Store!NotConfirmed(q)
                   \/ Store!OpenTmp(q) \/ Store!WriteTmp(q) \/ Store!WriteFails(q)
                   \/ Store!ReloadReads(q) \/ Store!ReloadInstalls(q) \/ Store!RevokeAnswers(q)
            PROVE  Stays
        BY <1>0, <2>2, <4>1
           DEF Store!Begin, Store!Reads, Store!NotConfirmed, Store!OpenTmp, Store!WriteTmp,
               Store!WriteFails, Store!ReloadReads, Store!ReloadInstalls, Store!RevokeAnswers,
               Store!historyVars, HandsInv, StoreShape, HistoryShape
      <4>2. CASE Store!Watcher \/ Store!Restart \/ UNCHANGED storeVars
        BY <4>2 DEF Store!Watcher, Store!WatcherReads, Store!WatcherInstalls, Store!Restart,
           storeVars, historyVars, Store!historyVars
      <4> QED
        BY <4>1, <4>2
           DEF StoreStep, BeginsGranted, Store!Proceed, Store!ReadStore, Store!cmdRevoke, Store!cmdRemove
    <3>2. before[o] \subseteq Store!MayHaveLanded' /\ before[o] \subseteq Ops
      BY <1>0 DEF Views, LandsNone, HistoryShape
    <3>3. HadLanded(o)' \subseteq HadLanded(o)
      BY <1>0, <1>1, <3>1 DEF HadLanded, LandsNone
    <3> QED
      BY <3>1, <3>2, <3>3, ViewWeakens DEF Views
  <2> QED
    BY <2>1, <2>2
<1>4. ~mixed => View(Store!StoredRules', Store!Landed' \ overwritten', Store!MayHaveLanded')
  <2>1. ~mixed => View(Store!StoredRules, Store!Landed' \ overwritten', Store!MayHaveLanded')
    BY <1>0, <1>1, ViewWeakens, LandedAreOps DEF Views, LandsNone
  <2> QED
    BY <1>2, <2>1 DEF Store!StoredRules
<1> QED
  BY <1>1, <1>3, <1>4 DEF Views

(* A rename brings what its operation read with the operation's change,    *)
(* and those that landed in between are overwritten.                       *)
LEMMA RenameKeepsViews ==
  ASSUME FilesInv, Views, NEW o \in Ops, Store!RenameTmp(o)
  PROVE  Views'
<1> USE DEF FilesInv
<1>0. HandsInv /\ HistoryShape /\ StoreShape /\ phase[o] = "written"
  BY DEF HandsInv, Store!RenameTmp
<1>1. /\ UNCHANGED <<content, seen, before>> /\ \A q \in Ops \ {o} : phase'[q] = phase[q]
      /\ phase'[o] \in {"failed", "done", "renamed"}
  BY <1>0 DEF Store!RenameTmp, StoreShape
<1>2. CASE tmp = None
  <2>1. UNCHANGED <<store, shared, mixed, overwritten>> /\ phase'[o] = "failed"
    BY <1>0, <1>2 DEF Store!RenameTmp, StoreShape
  <2>2. Store!Landed' = Store!Landed /\ Store!MayHaveLanded' = Store!MayHaveLanded
    BY <1>0, <1>1, <2>1 DEF Store!Landed, Store!MayHaveLanded
  <2>3. Store!StoredRules' = Store!StoredRules
    BY <1>1, <2>1, RulesOfInode DEF Store!StoredRules
  <2>4. \A q \in Ops : HadLanded(q)' = HadLanded(q)
    BY <1>1, <2>1, <2>2 DEF HadLanded
  <2> QED
    BY <1>1, <2>1, <2>2, <2>3, <2>4 DEF Views
<1>3. CASE tmp # None
  <2>1. /\ store' = tmp /\ tmp \in Store!Inodes /\ phase'[o] \in {"done", "renamed"}
        /\ shared' = IF fd[o] = tmp THEN shared ELSE shared \cup {tmp}
        /\ mixed' = (mixed \/ tmp \in shared')
        /\ overwritten' = overwritten \cup (Store!MayHaveLanded \ before[o])
    BY <1>0, <1>3 DEF Store!RenameTmp, Store!Records, StoreShape
  <2>2. /\ o \notin Store!MayHaveLanded /\ Store!Landed' = Store!Landed \cup {o}
        /\ Store!MayHaveLanded' = Store!MayHaveLanded \cup {o}
    BY <1>0, <1>1, <2>1 DEF Store!Landed, Store!MayHaveLanded
  <2>3. \A q \in Ops : before[q] \subseteq Store!MayHaveLanded /\ before[q] \subseteq Ops
    BY <1>0 DEF Views, HistoryShape
  <2>4. \A q \in Ops : HadLanded(q)' \subseteq HadLanded(q)
    BY <1>1, <2>1, <2>2, <2>3 DEF HadLanded
  <2>5. ASSUME ~mixed'
        PROVE  View(Store!StoredRules', Store!Landed' \ overwritten', Store!MayHaveLanded')
    <3>1. ~mixed /\ fd[o] = tmp /\ tmp \notin shared
      BY <2>1, <2>5
    <3>2. content[tmp] = Store!NewFile(o)
      BY <1>0, <1>3, <3>1 DEF HandsInv, InOneHand
    <3>3. Store!StoredRules' = Store!NewRules(o, seen[o].rules)
      BY <1>1, <1>3, <2>1, <3>2, RulesOfInode DEF Store!NewFile, Store!File
    <3>4. Fits(o, seen[o].rules) /\ View(seen[o].rules, HadLanded(o), before[o])
      BY <1>0, <3>1 DEF Views, Fits, StoreDiscipline, OpsGranted, OpGranted, RulesGranted
    <3>5. HadLanded(o) \subseteq Ops /\ o \notin before[o]
      BY <2>2, <2>3, LandedAreOps DEF HadLanded
    <3>6. View(Store!StoredRules', HadLanded(o) \cup {o}, before[o] \cup {o})
      BY <2>3, <3>3, <3>4, <3>5, NewView
    <3>7. /\ Store!Landed' \ overwritten' \subseteq HadLanded(o) \cup {o}
          /\ before[o] \cup {o} \subseteq Store!MayHaveLanded'
      BY <2>1, <2>2, <2>3, LandedAreOps DEF HadLanded
    <3> QED
      BY <3>6, <3>7, ViewWeakens, LandedAreOps
  <2>6. ASSUME NEW q \in Ops, ~mixed', phase'[q] \in {"read", "opened", "written"}
        PROVE  View(seen'[q].rules, HadLanded(q)', before'[q])
    <3>1. ~mixed /\ phase[q] \in {"read", "opened", "written"}
      BY <1>0, <2>1, <2>6, <1>1
    <3>2. View(seen[q].rules, HadLanded(q), before[q])
      BY <3>1 DEF Views
    <3> QED
      BY <1>1, <2>3, <2>4, <3>2, ViewWeakens
  <2> QED
    BY <1>1, <2>1, <2>2, <2>3, <2>5, <2>6 DEF Views
<1> QED
  BY <1>2, <1>3

(* The store starts with no rule twice.                                    *)
StoredOnce == \A i, j \in 1..Len(Stored) : Stored[i] = Stored[j] => i = j

(* The initial store is a view of no operation.                            *)
LEMMA InitStoredRules == OperatorInit => Store!StoredRules = Stored
<1> SUFFICES ASSUME OperatorInit PROVE Store!StoredRules = Stored
  OBVIOUS
<1> USE DEF OperatorInit, Store!Init, Store!Inodes
<1>1. CASE Stored = <<>>
  BY <1>1 DEF Store!StoredRules, Store!loadAutoPermitRulesFromFile, Store!Truncated
<1>2. CASE Stored # <<>>
  <2>1. store # None /\ content[store] = Store!File(1, Stored)
    BY <1>2, OpsAreDistinct
  <2> QED
    BY <2>1 DEF Store!File, Store!StoredRules, Store!loadAutoPermitRulesFromFile
<1> QED
  BY <1>1, <1>2

LEMMA InitViews == StoredOnce /\ OperatorInit => Views
<1> SUFFICES ASSUME StoredOnce, OperatorInit PROVE Views
  OBVIOUS
<1>1. Store!StoredRules = Stored
  BY InitStoredRules
<1>2. Store!MayHaveLanded = {} /\ Store!Landed = {}
  BY DEF OperatorInit, Store!Init, Store!MayHaveLanded, Store!Landed
<1>3. Kept(Stored, {}, {}) /\ NoCopies(Stored, {})
  BY DEF Kept, NoCopies, StoredOnce
<1>4. FewGone(Stored, {})
  <2>1. Gone(Stored) = {} /\ Removals({}) = {}
    BY DEF Gone, Removals
  <2> QED
    BY <2>1, FS_EmptySet DEF FewGone
<1>5. View(Store!StoredRules, Store!Landed \ overwritten, Store!MayHaveLanded)
  BY <1>1, <1>2, <1>3, <1>4 DEF View, OperatorInit, Store!Init
<1> QED
  BY <1>5 DEF Views, OperatorInit, Store!Init

(* What the view of the store says is what was reported.                   *)
LEMMA ViewIsReported == Views => ReportedIsStored
<1> SUFFICES ASSUME Views, ~mixed PROVE Store!ReportedIsStored
  BY DEF ReportedIsStored, Store!ReportedIsStored
<1>1. View(Store!StoredRules, Store!Landed \ overwritten, Store!MayHaveLanded)
  BY DEF Views
<1>2. Store!Cardinality(Store!Range(Stored) \ Store!Range(Store!StoredRules))
        = Cardinality(Gone(Store!StoredRules))
  BY DEF Store!Cardinality, Cardinality, Store!Range, Range, Gone
<1>3. Store!Cardinality({o \in Store!MayHaveLanded : o.kind # "persist"})
        = Cardinality(Removals(Store!MayHaveLanded))
  BY DEF Store!Cardinality, Cardinality, Removals
<1> QED
  BY <1>1, <1>2, <1>3 DEF View, Kept, FewGone, Store!ReportedIsStored, Store!Range, Range

(* Where no rule was there twice at the start, and however operations      *)
(* overlap, crash, fail or restart, until a file that two of them had in   *)
(* hand becomes the store: what was reported saved is in the file and what *)
(* was reported removed is not, unless another operation undid it or had   *)
(* read the file before and landed after; and the file loses at most one   *)
(* rule for each removal.                                                  *)
THEOREM ReportedTheorem == StoredOnce => (OperatorSpec => []ReportedIsStored)
<1> SUFFICES ASSUME StoredOnce PROVE OperatorSpec => []ReportedIsStored
  OBVIOUS
<1>1. OperatorInit => Views
  BY InitViews
<1>2. DInv /\ FilesInv /\ Views /\ [OperatorNext]_operatorVars => Views'
  BY OperatorStepIsStoreStep, OthersKeepViews, RenameKeepsViews
<1> QED
  BY <1>1, <1>2, ViewIsReported, HandsInvariant, PTL DEF OperatorSpec

-----------------------------------------------------------------------------
(* The reloads.  Unless the watcher has an event still to see, either the  *)
(* last reload that began read the file as it is and no later one has been *)
(* installed, so that the checker will be right when that one is; or the   *)
(* reloads under way have read the file as it is or are late, and the      *)
(* checker is that of the file or comes from a late one.                   *)
Current == Store!loadAutoPermitRulesFromFile

Reload(r) == r \in [op : {r.op}, saw : {r.saw}, late : BOOLEAN]
ReloadsShape ==
    /\ reads \in Seq(Range(reads)) /\ overtaken \in BOOLEAN
    /\ \A i \in 1..Len(reads) : Reload(reads[i])
LastIsCurrent ==
    reads # <<>> /\ ~reads[Len(reads)].late /\ reads[Len(reads)].saw = Current
RestAreLate ==
    /\ \A i \in 1..Len(reads) : reads[i].late \/ reads[i].saw = Current
    /\ checker = Store!StoredRules \/ overtaken

CheckerInv ==
    /\ ReloadsShape
    /\ ~changed /\ store # None => LastIsCurrent \/ RestAreLate

(* The empty sequence is one.                                              *)
LEMMA NoReloads ==
  ASSUME NEW s, s = <<>>
  PROVE  s \in Seq(Range(s)) /\ 1..Len(s) = {}
<1>1. <<>> \in Seq(Range(<<>>)) /\ Len(<<>>) = 0
  BY EmptySeq
<1> QED
  BY <1>1

(* A reload that begins is the last, and has read the file as it is.       *)
LEMMA ReadBegins ==
  ASSUME NEW o, ReloadsShape, Store!BeginsRead(o), UNCHANGED overtaken
  PROVE  /\ ReloadsShape' /\ reads' # <<>>
         /\ ~reads'[Len(reads')].late /\ reads'[Len(reads')].saw = Current
<1> DEFINE r == [op |-> o, saw |-> Current, late |-> FALSE]
           T == Range(reads) \cup {r}
<1>1. reads' = Append(reads, r)
  BY DEF Store!BeginsRead, Current
<1>2. reads \in Seq(T) /\ r \in T
  BY SeqMonotonic DEF ReloadsShape
<1>3. Reload(r)
  BY DEF Reload
<1>4. r.late = FALSE /\ r.saw = Current
  OBVIOUS
<1> HIDE DEF T, r
<1>5. /\ reads' \in Seq(T) /\ Len(reads') = Len(reads) + 1 /\ Len(reads) \in Nat
      /\ reads'[Len(reads) + 1] = r
      /\ \A i \in 1..Len(reads) : reads'[i] = reads[i]
  BY <1>1, <1>2, AppendProperties, LenProperties
<1>6. reads' \in Seq(Range(reads')) /\ reads' # <<>>
  BY <1>5, SeqOfRange, EmptySeq
<1>7. \A i \in 1..Len(reads') : Reload(reads'[i])
  BY <1>3, <1>5 DEF ReloadsShape
<1> QED
  BY <1>4, <1>5, <1>6, <1>7 DEF ReloadsShape

(* Marking a reload as late leaves the rest of it.                         *)
LEMMA MarkedReload ==
  ASSUME NEW r, Reload(r)
  PROVE  Reload([r EXCEPT !.late = TRUE]) /\ [r EXCEPT !.late = TRUE].late
<1>1. PICK X, Y : r \in [op : X, saw : Y, late : BOOLEAN]
  BY DEF Reload
<1>2. PICK m : m = [r EXCEPT !.late = TRUE]
  OBVIOUS
<1>3. m \in [op : X, saw : Y, late : BOOLEAN] /\ m.late
  BY <1>1, <1>2
<1> QED
  BY <1>2, <1>3 DEF Reload

(* A reload that is installed leaves the others, those before it late.     *)
LEMMA ReadEnds ==
  ASSUME ReloadsShape, NEW i \in DOMAIN reads, Store!Installs(i)
  PROVE  /\ ReloadsShape'
         /\ i \in 1..Len(reads) /\ Len(reads) \in Nat /\ Len(reads') = Len(reads) - 1
         /\ \A k \in 1..Len(reads) - 1 :
               /\ k < i => reads'[k].late
               /\ k >= i => reads'[k] = reads[k + 1]
<1> DEFINE marked == [j \in DOMAIN reads |->
                        IF j < i THEN [reads[j] EXCEPT !.late = TRUE] ELSE reads[j]]
           T == Range(marked)
<1>0. reads \in Seq(Range(reads)) /\ DOMAIN reads = 1..Len(reads) /\ Len(reads) \in Nat
  BY LenProperties DEF ReloadsShape
<1>1. reads' = RemoveAt(marked, i) /\ overtaken' = reads[i].late
  BY DEF Store!Installs, Store!RemoveAt, RemoveAt
<1>2. \A j \in 1..Len(reads) : Reload(marked[j]) /\ (j < i => marked[j].late)
  <2> SUFFICES ASSUME NEW j \in 1..Len(reads)
               PROVE  Reload(marked[j]) /\ (j < i => marked[j].late)
    OBVIOUS
  <2>1. Reload(reads[j])
    BY DEF ReloadsShape
  <2> QED
    BY <1>0, <2>1, MarkedReload
<1>3. marked \in Seq(T) /\ Len(marked) = Len(reads)
  <2>1. marked \in [1..Len(reads) -> T]
    BY <1>0 DEF Range
  <2> HIDE DEF marked, T
  <2> QED
    BY <1>0, <2>1, SeqDef, LenProperties
<1>4. \A k \in 1..Len(reads) : k >= i => marked[k] = reads[k]
  BY <1>0
<1> HIDE DEF marked, T
<1>5. /\ reads' \in Seq(T) /\ Len(reads') = Len(reads) - 1
      /\ \A k \in 1..Len(reads) - 1 : reads'[k] = IF k < i THEN marked[k] ELSE marked[k + 1]
  BY <1>0, <1>1, <1>3, RemoveAtShrinks, RemoveAtPlaces
<1>6. \A k \in 1..Len(reads) - 1 : /\ Reload(reads'[k])
                                   /\ k < i => reads'[k].late
                                   /\ k >= i => reads'[k] = reads[k + 1]
  <2> SUFFICES ASSUME NEW k \in 1..Len(reads) - 1
               PROVE  /\ Reload(reads'[k])
                      /\ k < i => reads'[k].late
                      /\ k >= i => reads'[k] = reads[k + 1]
    OBVIOUS
  <2>1. CASE k < i
    <3>1. reads'[k] = marked[k] /\ k \in 1..Len(reads)
      BY <1>0, <1>5, <2>1
    <3> QED
      BY <1>0, <1>2, <2>1, <3>1
  <2>2. CASE k >= i
    <3>1. reads'[k] = marked[k + 1] /\ k + 1 \in 1..Len(reads) /\ k + 1 >= i
      BY <1>0, <1>5, <2>2
    <3>2. marked[k + 1] = reads[k + 1]
      BY <1>4, <3>1
    <3> QED
      BY <1>0, <1>2, <2>2, <3>1, <3>2
  <2> QED
    BY <1>0, <2>1, <2>2
<1>7. ReloadsShape'
  BY <1>0, <1>1, <1>5, <1>6, SeqOfRange DEF ReloadsShape, Reload
<1> QED
  BY <1>0, <1>5, <1>6, <1>7

(* The steps that begin no reload, install none and restart nothing.       *)
LEMMA OthersLeaveReloads ==
  ASSUME NEW o \in Ops,
         \/ Store!Begin(o) \/ Store!Reads(o) \/ Store!NotConfirmed(o) \/ Store!OpenTmp(o)
         \/ Store!WriteTmp(o) \/ Store!WriteFails(o) \/ Store!RenameTmp(o) \/ Store!RevokeAnswers(o)
  PROVE  /\ UNCHANGED <<checker, reads, overtaken>>
         /\ \/ UNCHANGED changed
            \/ changed'
            \/ Store!WriteTmp(o) /\ fd[o] # store
<1>1. CASE Store!RenameTmp(o)
  BY <1>1 DEF Store!RenameTmp
<1>2. CASE Store!WriteTmp(o)
  BY <1>2 DEF Store!WriteTmp, Store!historyVars
<1>3. CASE ~Store!RenameTmp(o) /\ ~Store!WriteTmp(o)
  BY <1>3 DEF Store!Begin, Store!Reads, Store!NotConfirmed, Store!OpenTmp, Store!WriteFails,
     Store!RevokeAnswers, Store!historyVars
<1> QED
  BY <1>1, <1>2, <1>3

(* Installing the file as it is, when there is one.                        *)
LEMMA InstallCurrent ==
  ASSUME NEW r, r = Current, Store!Install(r), store # None
  PROVE  checker' = Store!StoredRules
BY DEF Current, Store!Install, Store!StoredRules, Store!loadAutoPermitRulesFromFile

(* A reload that is installed keeps the checker in step.                   *)
LEMMA InstallKeepsStep ==
  ASSUME CheckerInv, NEW i \in DOMAIN reads, Store!Installs(i), UNCHANGED <<changed, store>>,
         Current' = Current
  PROVE  CheckerInv'
<1>1. /\ ReloadsShape'
      /\ i \in 1..Len(reads) /\ Len(reads) \in Nat /\ Len(reads') = Len(reads) - 1
      /\ \A k \in 1..Len(reads) - 1 : /\ k < i => reads'[k].late
                                      /\ k >= i => reads'[k] = reads[k + 1]
  BY ReadEnds DEF CheckerInv
<1>2. Store!Install(reads[i].saw) /\ overtaken' = reads[i].late /\ reads[i].late \in BOOLEAN
  BY <1>1 DEF Store!Installs, CheckerInv, ReloadsShape, Reload
<1>3. Store!StoredRules' = Store!StoredRules
  BY DEF Current, Store!StoredRules
<1>4. ASSUME ~changed, store # None
      PROVE  LastIsCurrent' \/ RestAreLate'
  <2>1. CASE LastIsCurrent /\ i # Len(reads)
    <3>1. Len(reads') \in 1..Len(reads) - 1 /\ Len(reads') >= i
      BY <1>1, <2>1
    <3>2. reads'[Len(reads')] = reads[Len(reads)] /\ reads' # <<>>
      BY <1>1, <3>1, EmptySeq DEF ReloadsShape
    <3> QED
      BY <2>1, <3>2 DEF LastIsCurrent
  <2>2. CASE LastIsCurrent /\ i = Len(reads)
    <3>1. checker' = Store!StoredRules
      BY <1>2, <1>4, <2>2, InstallCurrent DEF LastIsCurrent
    <3>2. \A k \in 1..Len(reads') : reads'[k].late
      BY <1>1, <2>2
    <3> QED
      BY <1>3, <3>1, <3>2 DEF RestAreLate
  <2>3. CASE RestAreLate
    <3>1. \A k \in 1..Len(reads') : reads'[k].late \/ reads'[k].saw = Current
      <4> SUFFICES ASSUME NEW k \in 1..Len(reads) - 1, k >= i
                   PROVE  reads'[k].late \/ reads'[k].saw = Current
        BY <1>1
      <4>1. reads'[k] = reads[k + 1] /\ k + 1 \in 1..Len(reads)
        BY <1>1
      <4> QED
        BY <2>3, <4>1 DEF RestAreLate
    <3>2. checker' = Store!StoredRules \/ overtaken'
      <4>1. reads[i].late \/ reads[i].saw = Current
        BY <1>1, <2>3 DEF RestAreLate
      <4> QED
        BY <1>2, <1>4, <4>1, InstallCurrent
    <3> QED
      BY <1>3, <3>1, <3>2 DEF RestAreLate
  <2> QED
    BY <1>4, <2>1, <2>2, <2>3 DEF CheckerInv
<1> QED
  BY <1>1, <1>4 DEF CheckerInv

(* Every step keeps the checker in step with the file.                     *)
LEMMA NextChecker ==
  ASSUME HandsInv, HistoryShape, CheckerInv, StoreStep
  PROVE  CheckerInv'
\* Steps that may bring another file, but tell the watcher of it.
<1>1. ASSUME NEW o \in Ops,
             \/ Store!Begin(o) \/ Store!Reads(o) \/ Store!NotConfirmed(o) \/ Store!OpenTmp(o)
             \/ Store!WriteTmp(o) \/ Store!WriteFails(o) \/ Store!RenameTmp(o) \/ Store!RevokeAnswers(o)
      PROVE  CheckerInv'
  <2>1. UNCHANGED <<checker, reads, overtaken>>
    BY <1>1, OthersLeaveReloads
  <2>2. CASE changed'
    BY <2>1, <2>2 DEF CheckerInv, ReloadsShape
  <2>3. CASE ~changed'
    <3>1. changed' = changed \/ Store!WriteTmp(o)
      BY <1>1, <2>3, OthersLeaveReloads
    <3>2. ~changed
      BY <2>3, <3>1 DEF Store!WriteTmp
    <3>3. Current' = Current /\ store' = store
      <4>1. CASE Store!RenameTmp(o)
        BY <2>3, <4>1, RulesOfInode DEF Store!RenameTmp, Current
      <4>2. CASE ~Store!RenameTmp(o)
        <5>1. store' = store
          BY <1>1, <4>2 DEF Store!Begin, Store!Reads, Store!NotConfirmed, Store!OpenTmp,
             Store!WriteTmp, Store!WriteFails, Store!RevokeAnswers
        <5>2. CASE \E q \in Ops : Store!RenameTmp(q)
          BY <2>3, <5>1, <5>2, RulesOfInode DEF Store!RenameTmp, Current
        <5> QED
          BY <2>3, <5>1, <5>2, StoreInodeStays DEF Current
      <4> QED
        BY <4>1, <4>2
    <3>4. Store!StoredRules' = Store!StoredRules
      BY <3>3 DEF Current, Store!StoredRules
    <3> QED
      BY <2>1, <3>2, <3>3, <3>4 DEF CheckerInv, ReloadsShape, LastIsCurrent, RestAreLate
  <2> QED
    BY <2>2, <2>3
\* The other steps leave the file alone.
<1>2. ASSUME UNCHANGED <<store, content>>
      PROVE  Current' = Current /\ Store!StoredRules' = Store!StoredRules
  BY <1>2, RulesOfInode DEF Current, Store!StoredRules
<1>3. ASSUME NEW o, Store!BeginsRead(o), UNCHANGED <<store, content, overtaken>>
      PROVE  CheckerInv'
  <2>1. ReloadsShape' /\ LastIsCurrent'
    BY <1>2, <1>3, ReadBegins DEF CheckerInv, LastIsCurrent
  <2> QED
    BY <2>1 DEF CheckerInv
<1>4. ASSUME NEW o \in Ops, Store!ReloadReads(o)
      PROVE  CheckerInv'
  BY <1>3, <1>4 DEF Store!ReloadReads, Store!historyVars
<1>5. CASE Store!WatcherReads
  BY <1>3, <1>5 DEF Store!WatcherReads, Store!historyVars
<1>6. ASSUME NEW o \in Ops, Store!ReloadInstalls(o)
      PROVE  CheckerInv'
  BY <1>2, <1>6, InstallKeepsStep DEF Store!ReloadInstalls
<1>7. CASE Store!WatcherInstalls
  BY <1>2, <1>7, InstallKeepsStep DEF Store!WatcherInstalls
<1>8. CASE Store!Restart
  <2>1. /\ store # None => checker' = Store!StoredRules
        /\ reads' = <<>> /\ overtaken' = FALSE /\ UNCHANGED <<store, content>>
    BY <1>8 DEF Store!Restart, Store!StoredRules, Store!loadAutoPermitRulesFromFile
  <2>2. ReloadsShape'
    BY <2>1, NoReloads DEF ReloadsShape
  <2> QED
    BY <1>2, <2>1, <2>2, NoReloads DEF CheckerInv, RestAreLate
<1>9. CASE UNCHANGED storeVars
  BY <1>2, <1>9 DEF storeVars, historyVars, CheckerInv, ReloadsShape, LastIsCurrent, RestAreLate
<1> QED
  BY <1>1, <1>4, <1>5, <1>6, <1>7, <1>8, <1>9
     DEF StoreStep, BeginsGranted, Store!Proceed, Store!ReadStore, Store!cmdRevoke, Store!cmdRemove,
         Store!Watcher

(* The safety half of CheckerFollowsStore, with any number of overlapping  *)
(* operations and reloads: the rules stage 2 consults are those of the     *)
(* file whenever no file event waits and no reload is under way, after a   *)
(* crash or a restart as well, unless the last reload to be installed was  *)
(* not the last that began.                                                *)
THEOREM CheckerTheorem == OperatorSpec => []CheckerInStep
<1>1. OperatorInit => CheckerInv
  <2> SUFFICES ASSUME OperatorInit PROVE CheckerInv
    OBVIOUS
  <2>1. reads = <<>> /\ overtaken = FALSE /\ (store # None => checker = Stored)
    BY OpsAreDistinct DEF OperatorInit, Store!Init
  <2> QED
    BY <2>1, InitStoredRules, NoReloads DEF CheckerInv, ReloadsShape, RestAreLate
<1>2. DInv /\ FilesInv /\ CheckerInv /\ [OperatorNext]_operatorVars => CheckerInv'
  BY OperatorStepIsStoreStep, NextChecker DEF FilesInv
<1>3. CheckerInv => CheckerInStep
  BY DEF CheckerInv, LastIsCurrent, RestAreLate, CheckerInStep, Store!CheckerInStep
<1> QED
  BY <1>1, <1>2, <1>3, HandsInvariant, PTL DEF OperatorSpec
=============================================================================
