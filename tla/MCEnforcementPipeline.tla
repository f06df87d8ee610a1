------------------------- MODULE MCEnforcementPipeline -------------------------
(***************************************************************************)
(* Instances of EnforcementPipeline for TLC.  The pools hold one rule of   *)
(* each form (class, resource, tool, intent group), in the HITL tier (90), *)
(* unconditional (100 or none) and the permits that compete with them; one *)
(* permit is rate limited and one condition throws.                        *)
(***************************************************************************)
EXTENDS EnforcementPipeline

Main == [agentId |-> "main", channel |-> "webchat"]
Other == [agentId |-> "other", channel |-> "cron"]
Contexts == {Main, Other}

Delete == <<"filesystem", "delete">>
Exec == <<"shell", "exec">>

(* A rule with no condition and none of the optional fields.               *)
PlainRule(effect, priority) ==
    [effect |-> effect, priority |-> priority, resource |-> None, match |-> None,
     action_class |-> None, intent_group |-> None, target_match |-> None,
     condition |-> Contexts, throws |-> {}]

OnClass(effect, cls, priority) == [PlainRule(effect, priority) EXCEPT !.action_class = cls]
OnResource(effect, res, name, priority) ==
    [PlainRule(effect, priority) EXCEPT !.resource = res, !.match = name]
OnGroup(effect, group, priority) == [PlainRule(effect, priority) EXCEPT !.intent_group = group]

RateLimited == OnResource("permit", "file", "*", 10)

MCCedarPool ==
    {OnClass("permit", Delete, 10), OnClass("forbid", Delete, 90),
     OnClass("forbid", Exec, 100), OnResource("forbid", "file", "notes", None),
     OnGroup("forbid", "destructive_fs", 100), RateLimited,
     [OnClass("permit", Exec, 10) EXCEPT !.condition = {Main}, !.throws = {Other}]}

MCJsonPool ==
    {OnClass("forbid", Delete, 90), OnClass("forbid", Delete, 100),
     OnResource("forbid", "tool", "rm", None), OnGroup("forbid", "destructive_fs", None),
     [OnResource("permit", "tool", "*", 50) EXCEPT !.target_match = "notes"]}

MCCalls ==
    {[tool |-> "rm", cls |-> Delete, target |-> "notes", group |-> "destructive_fs",
      ctx |-> Main, source |-> None, risk |-> "high"],
     [tool |-> "rm", cls |-> Delete, target |-> "notes", group |-> "destructive_fs",
      ctx |-> Main, source |-> "web", risk |-> "high"],
     [tool |-> "rm", cls |-> Delete, target |-> "cache", group |-> None,
      ctx |-> Main, source |-> "web", risk |-> "low"],
     [tool |-> "bash", cls |-> Exec, target |-> "ls", group |-> None,
      ctx |-> Other, source |-> "agent", risk |-> "high"]}

MCWindows == {<<RateLimited, "main", "notes">>}
================================================================================
