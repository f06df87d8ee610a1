--------------------------- MODULE ToolCallContract ---------------------------
(***************************************************************************)
(* What the before_tool_call hook promises about human approval, without   *)
(* saying how (index.ts, beforeToolCallHandler): a tool call is decided    *)
(* once; an operator is asked about it at most once and answers at most    *)
(* once; and a call about which an operator was asked is allowed only if   *)
(* the answer was an approval.  The promise is the one of a policy whose   *)
(* fallback is "deny" and whose channel exists.                            *)
(***************************************************************************)
CONSTANT Calls

VARIABLES
    outcome,  \* what the hook returned for a call, "lost" if the process died
    asked,    \* whether an approval request was created for it
    reply     \* the operator's answer to that request

contractVars == <<outcome, asked, reply>>

ContractInit ==
    /\ outcome = [c \in Calls |-> "open"]
    /\ asked = [c \in Calls |-> FALSE]
    /\ reply = [c \in Calls |-> "none"]

Ask(c) ==
    /\ outcome[c] = "open" /\ ~asked[c]
    /\ asked' = [asked EXCEPT ![c] = TRUE]
    /\ UNCHANGED <<outcome, reply>>

Reply(c, d) ==
    /\ outcome[c] = "open" /\ asked[c] /\ reply[c] = "none"
    /\ reply' = [reply EXCEPT ![c] = d]
    /\ UNCHANGED <<outcome, asked>>

Allow(c) ==
    /\ outcome[c] = "open"
    /\ asked[c] => reply[c] = "approved"
    /\ outcome' = [outcome EXCEPT ![c] = "allowed"]
    /\ UNCHANGED <<asked, reply>>

(* A call may be refused although it was approved: the approval can cross  *)
(* a failure report of the notification.                                   *)
Block(c) ==
    /\ outcome[c] = "open"
    /\ outcome' = [outcome EXCEPT ![c] = "blocked"]
    /\ UNCHANGED <<asked, reply>>

(* The process dies: the open calls it was working on are lost.            *)
Lose(cs) ==
    /\ outcome' = [c \in Calls |-> IF c \in cs /\ outcome[c] = "open"
                                     THEN "lost" ELSE outcome[c]]
    /\ UNCHANGED <<asked, reply>>

ContractNext ==
    \/ \E c \in Calls :
          \/ Ask(c) \/ Allow(c) \/ Block(c)
          \/ \E d \in {"approved", "denied"} : Reply(c, d)
    \/ \E cs \in SUBSET Calls : Lose(cs)

ContractSpec == ContractInit /\ [][ContractNext]_contractVars
=============================================================================
