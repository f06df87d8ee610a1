-------------------------- MODULE MCCapabilityDispatch --------------------------
(* Four calls of one class: two with the same payload, one of them bound  *)
(* to a session; one with another payload that no HITL policy covers; and  *)
(* one caused by content from outside.                                     *)
EXTENDS CapabilityDispatch

Call(id, payload, session, untrusted, covered) ==
    [id |-> id, cls |-> "filesystem.delete", target |-> "path", payload |-> payload,
     session |-> session, untrusted |-> untrusted, risk |-> "high",
     covered |-> covered]

MCCalls ==
    {Call(1, "p", "s", FALSE, TRUE), Call(2, "p", None, FALSE, TRUE),
     Call(3, "q", "s", FALSE, FALSE), Call(4, "p", "s", TRUE, TRUE)}
MCVerdicts == {"permit", "gated", "forbid"}
=============================================================================
