------------------------------- MODULE Gates -------------------------------
(***************************************************************************)
(* The checks a tool makes before it acts, in the order of the code: the   *)
(* first that does not pass ends the call with its error code.             *)
(***************************************************************************)
EXTENDS Naturals, Sequences, FiniteSetsExt

Gate(passes, code) == [passes |-> passes, code |-> code]

FirstFailure(gates) ==
    LET failing == {i \in DOMAIN gates : ~gates[i].passes}
    IN  IF failing = {} THEN "pass" ELSE gates[Min(failing)].code
=============================================================================
