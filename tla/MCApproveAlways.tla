---------------------------- MODULE MCApproveAlways ----------------------------
(***************************************************************************)
(* Instances of ApproveAlwaysStore for TLC: two requests with the same     *)
(* key, a pattern can be derived from the command of one of them; a stored *)
(* rule is revoked in the chat, or by its index on the command line, or    *)
(* another is removed there by its pattern.                                *)
(*                                                                         *)
(* A behaviour is about one of two things: the taps, with one operation on *)
(* the store at a time, or the operations, with one request.               *)
(***************************************************************************)
EXTENDS ApproveAlwaysStore

CONSTANTS t1, t2

MCKey == [t \in Requests |-> "web:exec"]
MCOps == {[id |-> 1, kind |-> "persist", pattern |-> "git", request |-> t1],
          [id |-> 2, kind |-> "revoke", pattern |-> "ls"],
          [id |-> 3, kind |-> "cliRevoke", pattern |-> "none", index |-> 0],
          [id |-> 4, kind |-> "cliRemove", pattern |-> "npm"]}
MCStored == <<"ls", "npm">>

VARIABLE focus

MCInit == OperatorInit /\ focus \in {"taps", "operations"}
MCNext ==
    /\ OperatorNext /\ focus' = focus
    /\ focus = "taps" => Cardinality(Store!Busy') <= 1
    /\ focus = "operations" => ~Created(t2)'
MCSpec == MCInit /\ [][MCNext]_<<operatorVars, focus>> /\ OperatorFairness
================================================================================
