----------------------------- MODULE PolicyEngine -----------------------------
(***************************************************************************)
(* The Cedar-style rule engine, src/src/policy/engine.ts, as operators on  *)
(* an engine [rules, default]: the ordered rule list and the effect when   *)
(* no rule matches.                                                        *)
(*                                                                         *)
(* A rule is a record with the fields of interface Rule; a field that is   *)
(* absent is None.  Names, targets and patterns are abstract values: "*"   *)
(* matches everything, any other pattern the value equal to it (a regular  *)
(* expression or target_in stands for one such class of values).  An       *)
(* action class is the sequence of its dot-separated segments.             *)
(*                                                                         *)
(* condition is the set of contexts in which the rule's condition function *)
(* returns true, throws the set of those in which it throws.               *)
(*                                                                         *)
(* Rate limiting is a parameter here: `full' is the set of windows <<rule, *)
(* agentId, name>> that already hold maxCalls calls.                       *)
(***************************************************************************)
EXTENDS Integers, SequencesExt

CONSTANT None   \* undefined

matchesPattern(pattern, value) == pattern = "*" \/ pattern = value

mapActionClassToResource(cls) ==
    LET byPrefix == [filesystem |-> "file", communication |-> "external",
                     payment |-> "payment", system |-> "system",
                     credential |-> "credential", browser |-> "web",
                     memory |-> "memory"]
    IN  IF cls[1] \in DOMAIN byPrefix THEN byPrefix[cls[1]] ELSE "unknown"

-----------------------------------------------------------------------------
(* EvaluationDecision: the effect and the rule that produced it, None for  *)
(* the engine's default.  The effect "error" is an exception thrown by a   *)
(* rule's condition.                                                       *)
Decision(effect, rule) == [effect |-> effect, rule |-> rule]

(* The first rule of the list that satisfies Test; only used when one does.*)
FirstRule(rules, Test(_)) == rules[SelectInSeq(rules, Test)]
HasRule(rules, Test(_)) == \E i \in DOMAIN rules : Test(rules[i])

TargetApplies(rule, target) ==
    rule.target_match # None => matchesPattern(rule.target_match, target)

(* The tests of the three scans, up to the call of rule.condition.         *)
NamesResource(rule, resource, name, target) ==
    /\ rule.resource = resource
    /\ rule.match # None /\ matchesPattern(rule.match, name)
    /\ TargetApplies(rule, target)

NamesClass(rule, cls, target) ==
    rule.action_class = cls /\ TargetApplies(rule, target)

NamesGroup(rule, group) == rule.intent_group = group

(* Forbid wins over permit among the rules of a scan that Names selects    *)
(* and whose condition holds; Permit(rule) is the decision of the first    *)
(* matching permit; otherwise is the decision when nothing matches.        *)
Scan(rules, Names(_), ctx, Permit(_), otherwise) ==
    LET Throws(r) == Names(r) /\ ctx \in r.throws
        Forbids(r) == Names(r) /\ ctx \in r.condition /\ r.effect = "forbid"
        Permits(r) == Names(r) /\ ctx \in r.condition /\ r.effect = "permit"
    IN  CASE HasRule(rules, Throws) -> Decision("error", None)
          [] ~HasRule(rules, Throws) /\ HasRule(rules, Forbids) ->
               Decision("forbid", FirstRule(rules, Forbids))
          [] /\ ~HasRule(rules, Throws)
             /\ ~HasRule(rules, Forbids)
             /\ HasRule(rules, Permits) -> Permit(FirstRule(rules, Permits))
          [] OTHER -> otherwise

(* evaluate: the first matching permit is a forbid when its rate limit is  *)
(* exhausted; nothing matching leaves the default effect.                  *)
evaluate(engine, resource, name, target, ctx, full) ==
    LET Names(r) == NamesResource(r, resource, name, target)
        Permit(r) == Decision(IF <<r, ctx.agentId, name>> \in full
                                THEN "forbid" ELSE "permit", r)
    IN  Scan(engine.rules, Names, ctx, Permit, Decision(engine.default, None))

(* evaluateByActionClass: a forbid on the class itself wins, then an       *)
(* explicit forbid from the resource rules, then a permit on the class,    *)
(* then whatever the resource rules (or the default) said.                 *)
evaluateByActionClass(engine, cls, target, ctx, full) ==
    LET Names(r) == NamesClass(r, cls, target)
        byResource == evaluate(engine, mapActionClassToResource(cls), target,
                               target, ctx, full)
        Permit(r) == IF \/ byResource.effect = "error"
                        \/ byResource.effect = "forbid" /\ byResource.rule # None
                       THEN byResource ELSE Decision("permit", r)
    IN  Scan(engine.rules, Names, ctx, Permit, byResource)

(* evaluateByIntentGroup: no opinion (a permit without a rule) unless a    *)
(* rule names the group.                                                   *)
evaluateByIntentGroup(engine, group, ctx) ==
    LET Names(r) == NamesGroup(r, group)
        Permit(r) == Decision("permit", r)
    IN  Scan(engine.rules, Names, ctx, Permit, Decision("permit", None))
=============================================================================
