---------------------------- MODULE MCToolCallGate ----------------------------
(***************************************************************************)
(* Instances of ToolCallGate for TLC: one action class, two calls on the   *)
(* same channel, the second by an agent whose identity is not verified,    *)
(* and HITL policy files that differ in channel, fallback and credentials. *)
(***************************************************************************)
EXTENDS ToolCallGate

Verified == [id |-> 1, cls |-> "k", channel |-> "web", verified |-> TRUE, risky |-> FALSE]
Unverified == [id |-> 2, cls |-> "k", channel |-> "web", verified |-> FALSE, risky |-> FALSE]
Untrusted == [id |-> 3, cls |-> "k", channel |-> "web", verified |-> TRUE, risky |-> TRUE]

Policy(channel, fallback) == [channel |-> channel, fallback |-> fallback]
Config(p, remote) == [policies |-> [k \in {"k"} |-> p], remote |-> remote]

MCTwoCalls == {Verified, Unverified}
MCOneCall == {Verified}
MCTrustCalls == {Verified, Untrusted}

RemoteDeny == Config(Policy("remote", "deny"), TRUE)
NoPolicy == Config(None, TRUE)

(* The policy asks and denies by default, and may be dropped and restored  *)
(* while calls are under way.                                              *)
DenyConfigs == {RemoteDeny, NoPolicy}

(* Every way of dispatching: with and without credentials, the console, a  *)
(* channel without an adapter, both fallbacks.                             *)
AllConfigs == {RemoteDeny, Config(Policy("remote", "auto-approve"), FALSE),
               Config(Policy("console", "auto-approve"), TRUE),
               Config(Policy("email", "deny"), TRUE)}
AutoApprove == {Config(Policy("remote", "auto-approve"), TRUE)}
================================================================================
