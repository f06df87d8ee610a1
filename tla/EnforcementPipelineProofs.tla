---------------------- MODULE EnforcementPipelineProofs ----------------------
(***************************************************************************)
(* What the two-stage pipeline decides, for any rule pools, calls, stored  *)
(* patterns and rate-limit windows and for rule lists of any length: a     *)
(* permit means that no forbid rule matches, and an operator may release   *)
(* only what opted into the HITL tier.                                     *)
(*                                                                         *)
(* The proofs follow the code from the inside: one lemma per scan of the   *)
(* engine says what its decision tells about the rules, one on stage 2     *)
(* says what the verdict tells about the opinions.                         *)
(***************************************************************************)
EXTENDS EnforcementPipeline, SequenceFacts, TLAPS

(* An engine with rules of a pool that does not hold None.                 *)
IsEngine(e, T) == e.rules \in Seq(T) /\ None \notin T

(* What a decision d tells about the rules S it was taken over: a forbid   *)
(* among them makes it a forbid with a rule (or an exception), and a       *)
(* forbid with a rule comes from one of them.                              *)
ForbidWins(d, S) ==
    (\E r \in S : r.effect = "forbid")
       => d.effect = "error" \/ (d.effect = "forbid" /\ d.rule # None)

RuleIsFrom(d, S) == d.effect = "forbid" /\ d.rule # None => d.rule \in S

(* The rules of an engine that a scan selects in a context.                *)
ByResource(e, resource, name, target, ctx) ==
    {r \in Range(e.rules) : NamesResource(r, resource, name, target) /\ ctx \in r.condition}
ByClass(e, cls, target, ctx) ==
    {r \in Range(e.rules) : NamesClass(r, cls, target) /\ ctx \in r.condition}
ByGroup(e, group, ctx) ==
    {r \in Range(e.rules) : NamesGroup(r, group) /\ ctx \in r.condition}

-----------------------------------------------------------------------------
(* evaluate, the scan by resource and name.                                *)
LEMMA EvaluateFacts ==
  ASSUME NEW T, NEW e, IsEngine(e, T), NEW resource, NEW name, NEW target, NEW ctx, NEW windows
  PROVE  LET d == evaluate(e, resource, name, target, ctx, windows)
             S == ByResource(e, resource, name, target, ctx)
         IN  /\ ForbidWins(d, S) /\ RuleIsFrom(d, S)
             /\ d.effect = "forbid" /\ d.rule = None => e.default = "forbid"
<1> DEFINE d == evaluate(e, resource, name, target, ctx, windows)
           S == ByResource(e, resource, name, target, ctx)
           Throws(r) == NamesResource(r, resource, name, target) /\ ctx \in r.throws
           Forbids(r) == /\ NamesResource(r, resource, name, target)
                         /\ ctx \in r.condition /\ r.effect = "forbid"
           Permits(r) == /\ NamesResource(r, resource, name, target)
                         /\ ctx \in r.condition /\ r.effect = "permit"
           Limited(r) == Decision(IF <<r, ctx.agentId, name>> \in windows
                                    THEN "forbid" ELSE "permit", r)
<1>1. d = CASE HasRule(e.rules, Throws) -> Decision("error", None)
            [] ~HasRule(e.rules, Throws) /\ HasRule(e.rules, Forbids) ->
                 Decision("forbid", FirstRule(e.rules, Forbids))
            [] /\ ~HasRule(e.rules, Throws)
               /\ ~HasRule(e.rules, Forbids)
               /\ HasRule(e.rules, Permits) -> Limited(FirstRule(e.rules, Permits))
            [] OTHER -> Decision(e.default, None)
  BY DEF evaluate, Scan
<1>2. HasRule(e.rules, Forbids) <=> \E r \in S : r.effect = "forbid"
  BY DEF HasRule, ByResource, Range
<1>3. ASSUME HasRule(e.rules, Forbids)
      PROVE  FirstRule(e.rules, Forbids) \in S /\ FirstRule(e.rules, Forbids) # None
  <2> DEFINE I == {i \in 1..Len(e.rules) : Forbids(e.rules[i])}
  <2>1. I # {} /\ I \subseteq 1..Len(e.rules)
    BY <1>3 DEF HasRule, IsEngine
  <2>2. FirstRule(e.rules, Forbids) = e.rules[Min(I)]
    BY <2>1 DEF FirstRule, SelectInSeq
  <2>3. Min(I) \in I /\ e.rules[Min(I)] \in Range(e.rules) /\ e.rules[Min(I)] \in T
    BY <2>1, FirstPlace DEF IsEngine
  <2> QED
    BY <2>2, <2>3 DEF ByResource, IsEngine
<1>4. ASSUME HasRule(e.rules, Permits)
      PROVE  FirstRule(e.rules, Permits) \in S /\ FirstRule(e.rules, Permits) # None
  <2> DEFINE I == {i \in 1..Len(e.rules) : Permits(e.rules[i])}
  <2>1. I # {} /\ I \subseteq 1..Len(e.rules)
    BY <1>4 DEF HasRule, IsEngine
  <2>2. FirstRule(e.rules, Permits) = e.rules[Min(I)]
    BY <2>1 DEF FirstRule, SelectInSeq
  <2>3. Min(I) \in I /\ e.rules[Min(I)] \in Range(e.rules) /\ e.rules[Min(I)] \in T
    BY <2>1, FirstPlace DEF IsEngine
  <2> QED
    BY <2>2, <2>3 DEF ByResource, IsEngine
<1> QED
  BY <1>1, <1>2, <1>3, <1>4 DEF Decision, ForbidWins, RuleIsFrom

(* evaluateByActionClass, the scan by class over the one by resource.      *)
LEMMA ByActionClassFacts ==
  ASSUME NEW T, NEW e, IsEngine(e, T), NEW cls, NEW target, NEW ctx, NEW windows
  PROVE  LET d == evaluateByActionClass(e, cls, target, ctx, windows)
             S == ByClass(e, cls, target, ctx) \cup
                  ByResource(e, mapActionClassToResource(cls), target, target, ctx)
         IN  /\ ForbidWins(d, S) /\ RuleIsFrom(d, S)
             /\ d.effect = "forbid" /\ d.rule = None => e.default = "forbid"
<1> DEFINE d == evaluateByActionClass(e, cls, target, ctx, windows)
           res == mapActionClassToResource(cls)
           R == ByResource(e, res, target, target, ctx)
           C == ByClass(e, cls, target, ctx)
           byResource == evaluate(e, res, target, target, ctx, windows)
           Throws(r) == NamesClass(r, cls, target) /\ ctx \in r.throws
           Forbids(r) == NamesClass(r, cls, target) /\ ctx \in r.condition /\ r.effect = "forbid"
           Permits(r) == NamesClass(r, cls, target) /\ ctx \in r.condition /\ r.effect = "permit"
           Unless(r) == IF \/ byResource.effect = "error"
                           \/ byResource.effect = "forbid" /\ byResource.rule # None
                          THEN byResource ELSE Decision("permit", r)
<1>1. d = CASE HasRule(e.rules, Throws) -> Decision("error", None)
            [] ~HasRule(e.rules, Throws) /\ HasRule(e.rules, Forbids) ->
                 Decision("forbid", FirstRule(e.rules, Forbids))
            [] /\ ~HasRule(e.rules, Throws)
               /\ ~HasRule(e.rules, Forbids)
               /\ HasRule(e.rules, Permits) -> Unless(FirstRule(e.rules, Permits))
            [] OTHER -> byResource
  BY DEF evaluateByActionClass, Scan
<1>2. HasRule(e.rules, Forbids) <=> \E r \in C : r.effect = "forbid"
  BY DEF HasRule, ByClass, Range
<1>3. ASSUME HasRule(e.rules, Forbids)
      PROVE  FirstRule(e.rules, Forbids) \in C /\ FirstRule(e.rules, Forbids) # None
  <2> DEFINE I == {i \in 1..Len(e.rules) : Forbids(e.rules[i])}
  <2>1. I # {} /\ I \subseteq 1..Len(e.rules)
    BY <1>3 DEF HasRule, IsEngine
  <2>2. FirstRule(e.rules, Forbids) = e.rules[Min(I)]
    BY <2>1 DEF FirstRule, SelectInSeq
  <2>3. Min(I) \in I /\ e.rules[Min(I)] \in Range(e.rules) /\ e.rules[Min(I)] \in T
    BY <2>1, FirstPlace DEF IsEngine
  <2> QED
    BY <2>2, <2>3 DEF ByClass, IsEngine
<1>4. /\ ForbidWins(byResource, R) /\ RuleIsFrom(byResource, R)
      /\ byResource.effect = "forbid" /\ byResource.rule = None => e.default = "forbid"
  BY EvaluateFacts
<1> HIDE DEF d, C, R, byResource, Throws, Forbids, Permits
<1>5. /\ ForbidWins(d, C \cup R) /\ RuleIsFrom(d, C \cup R)
      /\ d.effect = "forbid" /\ d.rule = None => e.default = "forbid"
  BY <1>1, <1>2, <1>3, <1>4 DEF Decision, ForbidWins, RuleIsFrom
<1> QED
  BY <1>5 DEF d, C, R

(* evaluateByIntentGroup has an opinion only by a rule.                    *)
LEMMA ByIntentGroupFacts ==
  ASSUME NEW T, NEW e, IsEngine(e, T), NEW group, NEW ctx
  PROVE  LET d == evaluateByIntentGroup(e, group, ctx)
             S == ByGroup(e, group, ctx)
         IN  /\ d.effect \in {"permit", "forbid", "error"}
             /\ ForbidWins(d, S) /\ RuleIsFrom(d, S)
             /\ d.effect = "forbid" => d.rule # None
<1> DEFINE d == evaluateByIntentGroup(e, group, ctx)
           S == ByGroup(e, group, ctx)
           Throws(r) == NamesGroup(r, group) /\ ctx \in r.throws
           Forbids(r) == NamesGroup(r, group) /\ ctx \in r.condition /\ r.effect = "forbid"
           Permits(r) == NamesGroup(r, group) /\ ctx \in r.condition /\ r.effect = "permit"
<1>1. d = CASE HasRule(e.rules, Throws) -> Decision("error", None)
            [] ~HasRule(e.rules, Throws) /\ HasRule(e.rules, Forbids) ->
                 Decision("forbid", FirstRule(e.rules, Forbids))
            [] /\ ~HasRule(e.rules, Throws)
               /\ ~HasRule(e.rules, Forbids)
               /\ HasRule(e.rules, Permits) -> Decision("permit", FirstRule(e.rules, Permits))
            [] OTHER -> Decision("permit", None)
  BY DEF evaluateByIntentGroup, Scan
<1>2. HasRule(e.rules, Forbids) <=> \E r \in S : r.effect = "forbid"
  BY DEF HasRule, ByGroup, Range
<1>3. ASSUME HasRule(e.rules, Forbids)
      PROVE  FirstRule(e.rules, Forbids) \in S /\ FirstRule(e.rules, Forbids) # None
  <2> DEFINE I == {i \in 1..Len(e.rules) : Forbids(e.rules[i])}
  <2>1. I # {} /\ I \subseteq 1..Len(e.rules)
    BY <1>3 DEF HasRule, IsEngine
  <2>2. FirstRule(e.rules, Forbids) = e.rules[Min(I)]
    BY <2>1 DEF FirstRule, SelectInSeq
  <2>3. Min(I) \in I /\ e.rules[Min(I)] \in Range(e.rules) /\ e.rules[Min(I)] \in T
    BY <2>1, FirstPlace DEF IsEngine
  <2> QED
    BY <2>2, <2>3 DEF ByGroup, IsEngine
<1> QED
  BY <1>1, <1>2, <1>3 DEF Decision, ForbidWins, RuleIsFrom

-----------------------------------------------------------------------------
(* The opinions stage 2 asks for, as sets.                                 *)
OpinionSet(c) ==
    {evaluateByActionClass(cedar, c.cls, c.target, c.ctx, full)} \cup
    IF json = None THEN {}
    ELSE {evaluateByActionClass(json, c.cls, c.target, c.ctx, full),
          evaluate(json, "tool", c.tool, c.target, c.ctx, full)}
GroupOpinionSet(c) ==
    IF c.group = None THEN {}
    ELSE {evaluateByIntentGroup(cedar, c.group, c.ctx)} \cup
         IF json = None THEN {} ELSE {evaluateByIntentGroup(json, c.group, c.ctx)}

LEMMA OpinionsAsSet ==
  ASSUME NEW c
  PROVE  /\ Opinions(c) \in Seq(OpinionSet(c)) /\ Range(Opinions(c)) = OpinionSet(c)
         /\ GroupOpinions(c) \in Seq(GroupOpinionSet(c))
         /\ Range(GroupOpinions(c)) = GroupOpinionSet(c)
<1> DEFINE class(e) == evaluateByActionClass(e, c.cls, c.target, c.ctx, full)
           tool == evaluate(json, "tool", c.tool, c.target, c.ctx, full)
           group(e) == evaluateByIntentGroup(e, c.group, c.ctx)
           first == <<class(cedar)>>
           firstGroup == <<group(cedar)>>
           others == IF json = None THEN <<>> ELSE <<class(json), tool>>
           otherGroup == IF json = None THEN <<>> ELSE <<group(json)>>
<1>1. /\ Opinions(c) = first \o others
      /\ GroupOpinions(c) = IF c.group = None THEN <<>> ELSE firstGroup \o otherGroup
  BY DEF Opinions, GroupOpinions
<1>2. /\ OpinionSet(c) = {class(cedar)} \cup IF json = None THEN {} ELSE {class(json), tool}
      /\ GroupOpinionSet(c) =
           IF c.group = None THEN {}
           ELSE {group(cedar)} \cup IF json = None THEN {} ELSE {group(json)}
  BY DEF OpinionSet, GroupOpinionSet
<1> HIDE DEF class, tool, group
<1>3. /\ first \in Seq(OpinionSet(c)) /\ Range(first) = {class(cedar)}
      /\ others \in Seq(OpinionSet(c))
      /\ Range(others) = IF json = None THEN {} ELSE {class(json), tool}
  BY <1>2, ShortSequences
<1>4. ASSUME c.group # None
      PROVE  /\ firstGroup \in Seq(GroupOpinionSet(c))
             /\ Range(firstGroup) = {group(cedar)}
             /\ otherGroup \in Seq(GroupOpinionSet(c))
             /\ Range(otherGroup) = IF json = None THEN {} ELSE {group(json)}
  BY <1>2, <1>4, ShortSequences
<1> HIDE DEF others, otherGroup, first, firstGroup
<1>5. Opinions(c) \in Seq(OpinionSet(c)) /\ Range(Opinions(c)) = OpinionSet(c)
  <2>1. /\ first \o others \in Seq(OpinionSet(c))
        /\ Range(first \o others) = Range(first) \cup Range(others)
    BY <1>3, JoinedSequences
  <2> QED
    BY <1>1, <1>2, <1>3, <2>1
<1>6. /\ GroupOpinions(c) \in Seq(GroupOpinionSet(c))
      /\ Range(GroupOpinions(c)) = GroupOpinionSet(c)
  <2>1. CASE c.group = None
    <3>1. GroupOpinions(c) = <<>> /\ GroupOpinionSet(c) = {}
      BY <1>1, <1>2, <2>1
    <3> QED
      BY <3>1 DEF Range
  <2>2. CASE c.group # None
    <3>1. /\ firstGroup \o otherGroup \in Seq(GroupOpinionSet(c))
          /\ Range(firstGroup \o otherGroup)
               = Range(firstGroup) \cup Range(otherGroup)
      BY <1>4, <2>2, JoinedSequences
    <3> QED
      BY <1>1, <1>2, <1>4, <2>2, <3>1
  <2> QED
    BY <2>1, <2>2
<1> QED
  BY <1>5, <1>6

(* The loaded rules that each kind of opinion is about.                    *)
ClassOrToolRules(c) ==
    {r \in LoadedRules : (AboutClass(r, c) \/ AboutResource(r, c)) /\ c.ctx \in r.condition}
GroupRules(c) == {r \in LoadedRules : AboutGroup(r, c) /\ c.ctx \in r.condition}

(* The engines hold rules of the pools, and the JSON engine permits what   *)
(* no rule names.                                                          *)
LEMMA EnginesAreTyped ==
  ASSUME TypeOK
  PROVE  /\ IsEngine(cedar, CedarPool)
         /\ json # None => IsEngine(json, JsonPool) /\ json.default = "permit"
BY NoneIsNoRule DEF TypeOK, IsEngine

(* The opinions on class and tool speak up when a forbid is about the call,*)
(* and a forbid among them names such a rule or is the implicit deny.      *)
LEMMA OpinionFacts ==
  ASSUME TypeOK, NEW c
  PROVE  /\ (\E r \in ClassOrToolRules(c) : r.effect = "forbid")
              => \E d \in OpinionSet(c) : d.effect \in {"error", "forbid"}
         /\ \A d \in OpinionSet(c) :
               /\ RuleIsFrom(d, ClassOrToolRules(c))
               /\ d.effect = "forbid" /\ d.rule = None => cedar.default = "forbid"
<1> DEFINE class(e) == evaluateByActionClass(e, c.cls, c.target, c.ctx, full)
           tool == evaluate(json, "tool", c.tool, c.target, c.ctx, full)
           res == mapActionClassToResource(c.cls)
           C(e) == ByClass(e, c.cls, c.target, c.ctx) \cup
                   ByResource(e, res, c.target, c.target, c.ctx)
           R == ByResource(json, "tool", c.tool, c.target, c.ctx)
<1>1. /\ ForbidWins(class(cedar), C(cedar)) /\ RuleIsFrom(class(cedar), C(cedar))
      /\ class(cedar).effect = "forbid" /\ class(cedar).rule = None => cedar.default = "forbid"
  BY EnginesAreTyped, ByActionClassFacts
<1>2. ASSUME json # None
      PROVE  /\ ForbidWins(class(json), C(json)) /\ RuleIsFrom(class(json), C(json))
             /\ class(json).effect = "forbid" => class(json).rule # None
             /\ ForbidWins(tool, R) /\ RuleIsFrom(tool, R)
             /\ tool.effect = "forbid" => tool.rule # None
  <2>1. IsEngine(json, JsonPool) /\ json.default = "permit"
    BY <1>2, EnginesAreTyped
  <2> QED
    BY <2>1, ByActionClassFacts, EvaluateFacts
<1>3. ClassOrToolRules(c) = C(cedar) \cup IF json = None THEN {} ELSE C(json) \cup R
  BY DEF ClassOrToolRules, LoadedRules, AboutClass, AboutResource, ByClass, ByResource
<1>4. OpinionSet(c) = {class(cedar)} \cup IF json = None THEN {} ELSE {class(json), tool}
  BY DEF OpinionSet
<1> HIDE DEF class, tool, C, R
<1> QED
  BY <1>1, <1>2, <1>3, <1>4 DEF ForbidWins, RuleIsFrom

(* So do the opinions on the intent group, which are never a default.      *)
LEMMA GroupOpinionFacts ==
  ASSUME TypeOK, NEW c
  PROVE  /\ (\E r \in GroupRules(c) : r.effect = "forbid")
              => \E d \in GroupOpinionSet(c) : d.effect \in {"error", "forbid"}
         /\ \A d \in GroupOpinionSet(c) :
               /\ d.effect \in {"permit", "forbid", "error"}
               /\ RuleIsFrom(d, GroupRules(c))
               /\ d.effect = "forbid" => d.rule # None
<1> DEFINE group(e) == evaluateByIntentGroup(e, c.group, c.ctx)
           G(e) == ByGroup(e, c.group, c.ctx)
<1>1. /\ group(cedar).effect \in {"permit", "forbid", "error"}
      /\ ForbidWins(group(cedar), G(cedar)) /\ RuleIsFrom(group(cedar), G(cedar))
      /\ group(cedar).effect = "forbid" => group(cedar).rule # None
  BY EnginesAreTyped, ByIntentGroupFacts
<1>2. ASSUME json # None
      PROVE  /\ group(json).effect \in {"permit", "forbid", "error"}
             /\ ForbidWins(group(json), G(json)) /\ RuleIsFrom(group(json), G(json))
             /\ group(json).effect = "forbid" => group(json).rule # None
  BY <1>2, EnginesAreTyped, ByIntentGroupFacts
<1>3. GroupRules(c) = IF c.group = None THEN {}
                      ELSE G(cedar) \cup IF json = None THEN {} ELSE G(json)
  BY DEF GroupRules, LoadedRules, AboutGroup, ByGroup
<1>4. GroupOpinionSet(c) = IF c.group = None THEN {}
                           ELSE {group(cedar)} \cup IF json = None THEN {} ELSE {group(json)}
  BY DEF GroupOpinionSet
<1> HIDE DEF group, G
<1> QED
  BY <1>1, <1>2, <1>3, <1>4 DEF ForbidWins, RuleIsFrom

-----------------------------------------------------------------------------
(* The verdict of the engines permits only when no opinion objects, and    *)
(* one that an operator may release is taken over from a forbid: from its  *)
(* rule with the rule's priority, or from the implicit deny.               *)
LEMMA VerdictFacts ==
  ASSUME TypeOK, NEW c
  PROVE  LET v == PolicyVerdict(c)
             all == OpinionSet(c) \cup GroupOpinionSet(c)
         IN  /\ v.effect = "permit" => \A d \in all : d.effect \notin {"error", "forbid"}
             /\ Releasable(v) =>
                  /\ v.by = "policy"
                  /\ \E d \in all : /\ d.effect = "forbid"
                                    /\ d.rule = None \/ d.rule.priority = v.priority
<1> DEFINE v == PolicyVerdict(c)
           ops == Opinions(c)
           groups == GroupOpinions(c)
           firstStop == FirstRule(ops, Stops)
           firstGate == FirstRule(ops, Gates)
           firstGroup == FirstRule(groups, Speaks)
<1>1. /\ ops \in Seq(OpinionSet(c)) /\ Range(ops) = OpinionSet(c)
      /\ groups \in Seq(GroupOpinionSet(c)) /\ Range(groups) = GroupOpinionSet(c)
  BY OpinionsAsSet
<1>2. /\ HasRule(ops, Stops) <=> \E d \in OpinionSet(c) : Stops(d)
      /\ HasRule(ops, Gates) <=> \E d \in OpinionSet(c) : Gates(d)
      /\ HasRule(groups, Speaks) <=> \E d \in GroupOpinionSet(c) : Speaks(d)
  BY <1>1 DEF HasRule, Range
<1>3. ASSUME HasRule(ops, Stops)
      PROVE  firstStop \in OpinionSet(c) /\ Stops(firstStop)
  <2> DEFINE I == {i \in 1..Len(ops) : Stops(ops[i])}
  <2>1. I # {} /\ I \subseteq 1..Len(ops)
    BY <1>1, <1>3 DEF HasRule
  <2>2. firstStop = ops[Min(I)]
    BY <2>1 DEF FirstRule, SelectInSeq
  <2>3. Min(I) \in I /\ ops[Min(I)] \in Range(ops)
    BY <1>1, <2>1, FirstPlace
  <2> QED
    BY <1>1, <2>2, <2>3
<1>4. ASSUME HasRule(ops, Gates)
      PROVE  firstGate \in OpinionSet(c) /\ Gates(firstGate)
  <2> DEFINE I == {i \in 1..Len(ops) : Gates(ops[i])}
  <2>1. I # {} /\ I \subseteq 1..Len(ops)
    BY <1>1, <1>4 DEF HasRule
  <2>2. firstGate = ops[Min(I)]
    BY <2>1 DEF FirstRule, SelectInSeq
  <2>3. Min(I) \in I /\ ops[Min(I)] \in Range(ops)
    BY <1>1, <2>1, FirstPlace
  <2> QED
    BY <1>1, <2>2, <2>3
<1>5. ASSUME HasRule(groups, Speaks)
      PROVE  firstGroup \in GroupOpinionSet(c) /\ Speaks(firstGroup)
  <2> DEFINE I == {i \in 1..Len(groups) : Speaks(groups[i])}
  <2>1. I # {} /\ I \subseteq 1..Len(groups)
    BY <1>1, <1>5 DEF HasRule
  <2>2. firstGroup = groups[Min(I)]
    BY <2>1 DEF FirstRule, SelectInSeq
  <2>3. Min(I) \in I /\ groups[Min(I)] \in Range(groups)
    BY <1>1, <2>1, FirstPlace
  <2> QED
    BY <1>1, <2>2, <2>3
<1>6. v = CASE HasRule(ops, Stops) -> Stopped(firstStop)
            [] ~HasRule(ops, Stops) /\ HasRule(ops, Gates) -> toStagedForbid(firstGate)
            [] /\ ~HasRule(ops, Stops) /\ ~HasRule(ops, Gates)
               /\ HasRule(groups, Speaks) -> Stopped(firstGroup)
            [] OTHER -> Verdict("permit", "policy", None)
  BY DEF PolicyVerdict
<1> HIDE DEF v, ops, groups, firstStop, firstGate, firstGroup
<1>7. v.effect = "permit" =>
        \A d \in OpinionSet(c) \cup GroupOpinionSet(c) : d.effect \notin {"error", "forbid"}
  BY <1>2, <1>6
     DEF Stopped, Stage2Error, toStagedForbid, Verdict, Stops, Gates, Speaks
<1>8. ASSUME Releasable(v)
      PROVE  /\ v.by = "policy"
             /\ \E d \in OpinionSet(c) \cup GroupOpinionSet(c) :
                   d.effect = "forbid" /\ (d.rule = None \/ d.rule.priority = v.priority)
  <2>1. ASSUME NEW d, d.effect # "permit", v = Stopped(d)
        PROVE  d.effect # "error" /\ v = toStagedForbid(d)
    BY <1>8, <2>1 DEF Stopped, Stage2Error, Verdict, Releasable
  <2>2. ASSUME NEW d, v = toStagedForbid(d)
        PROVE  v.by = "policy" /\ (d.rule = None \/ d.rule.priority = v.priority)
    BY <2>2 DEF toStagedForbid, Verdict
  <2>3. v.effect = "forbid"
    BY <1>8 DEF Releasable
  <2> QED
    BY <1>2, <1>3, <1>4, <1>5, <1>6, <2>1, <2>2, <2>3, GroupOpinionFacts
       DEF Stops, Gates, Speaks, Verdict
<1> QED
  BY <1>7, <1>8 DEF v

-----------------------------------------------------------------------------
(* The engines, the approvals and the windows keep their types: every      *)
(* reload installs a list of rules of the pool.                            *)
LEMMA NextTypeOK == TypeOK /\ [Next]_vars => TypeOK'
<1> SUFFICES ASSUME TypeOK, [Next]_vars PROVE TypeOK'
  OBVIOUS
<1>1. ASSUME NEW T, NEW rs \in RuleLists(T)
      PROVE  rs \in Seq(T)
  BY <1>1, MaxRulesIsNat DEF RuleLists, BoundedSeq, SeqOf
<1>2. ASSUME NEW rs \in RuleLists(CedarPool), NEW e \in {"permit", "forbid"},
             RebuildEngine(rs, e)
      PROVE  TypeOK'
  BY <1>1, <1>2 DEF RebuildEngine, Engine, TypeOK
<1>3. ASSUME NEW rs \in RuleLists(JsonPool), SwapJsonRules(rs)
      PROVE  TypeOK'
  BY <1>1, <1>3 DEF SwapJsonRules, Engine, TypeOK
<1>4. ASSUME \/ \E ps \in SUBSET Patterns : SwapAutoPermits(ps)
             \/ \E k \in ApprovalKeys : AddSessionAutoApproval(k)
             \/ ClearSessionAutoApprovals
             \/ \E w \in Windows : WindowFills(w) \/ WindowSlides(w)
             \/ UNCHANGED vars
      PROVE  TypeOK'
  BY <1>4 DEF SwapAutoPermits, AddSessionAutoApproval, ClearSessionAutoApprovals,
     WindowFills, WindowSlides, vars, TypeOK
<1> QED
  BY <1>2, <1>3, <1>4 DEF Next

(* Type correctness of the policy state, through every reload.             *)
THEOREM PolicyStateTyped == Spec => []TypeOK
<1>1. Init => TypeOK
  BY DEF Init, TypeOK, Engine
<1> QED
  BY <1>1, NextTypeOK, PTL DEF Spec

(* Forbid wins across the whole policy: what the pipeline permits without  *)
(* a pre-approval no forbid rule of either engine is about, and untrusted  *)
(* content never causes a risky action.                                    *)
THEOREM ForbidWinsTheorem == Spec => []PermitMeansNoForbid
<1>1. ASSUME TypeOK, NEW c \in Calls, ~installing, runPipeline(c).effect = "permit"
      PROVE  ~TrustRefuses(c) /\ (PreApproved(c) \/ \A r \in LoadedRules : ~ForbidsCall(r, c))
  <2>1. ~TrustRefuses(c) /\ runPipeline(c) = createCombinedStage2(c)
    BY <1>1 DEF runPipeline, Verdict
  <2>2. CASE ~PreApproved(c)
    <3>1. PolicyVerdict(c).effect = "permit"
      BY <1>1, <2>1, <2>2 DEF createCombinedStage2, PreApproved
    <3>2. \A d \in OpinionSet(c) \cup GroupOpinionSet(c) : d.effect \notin {"error", "forbid"}
      BY <1>1, <3>1, VerdictFacts
    <3>3. \A r \in ClassOrToolRules(c) \cup GroupRules(c) : r.effect # "forbid"
      BY <1>1, <3>2, OpinionFacts, GroupOpinionFacts
    <3> QED
      BY <2>1, <3>3 DEF ForbidsCall, About, ClassOrToolRules, GroupRules
  <2> QED
    BY <2>1, <2>2
<1>2. TypeOK => PermitMeansNoForbid
  BY <1>1 DEF PermitMeansNoForbid
<1> QED
  BY <1>2, PolicyStateTyped, PTL

(* What an operator may release comes from a rule about the call with that *)
(* priority, or from the implicit deny of a closed engine: never from the  *)
(* trust gate, an exception or a rule that did not opt in.                 *)
THEOREM ReleasableTheorem == Spec => []ReleasableIsOptIn
<1>1. ASSUME TypeOK, NEW c \in Calls, Releasable(runPipeline(c))
      PROVE  /\ runPipeline(c).by = "policy"
             /\ \/ cedar.default = "forbid"
                \/ \E r \in LoadedRules : /\ About(r, c) /\ c.ctx \in r.condition
                                          /\ r.priority = runPipeline(c).priority
  <2>1. runPipeline(c) = PolicyVerdict(c)
    BY <1>1 DEF runPipeline, createCombinedStage2, Releasable, Verdict
  <2>2. PICK d \in OpinionSet(c) \cup GroupOpinionSet(c) :
           /\ d.effect = "forbid"
           /\ d.rule = None \/ d.rule.priority = runPipeline(c).priority
    BY <1>1, <2>1, VerdictFacts
  <2>3. runPipeline(c).by = "policy"
    BY <1>1, <2>1, VerdictFacts
  <2>4. CASE d.rule = None
    BY <1>1, <2>2, <2>3, <2>4, OpinionFacts, GroupOpinionFacts
  <2>5. CASE d.rule # None
    <3>1. d.rule \in ClassOrToolRules(c) \cup GroupRules(c)
      BY <1>1, <2>2, <2>5, OpinionFacts, GroupOpinionFacts DEF RuleIsFrom
    <3> QED
      BY <2>2, <2>3, <2>5, <3>1 DEF About, ClassOrToolRules, GroupRules
  <2> QED
    BY <2>4, <2>5
<1>2. TypeOK => ReleasableIsOptIn
  BY <1>1 DEF ReleasableIsOptIn
<1> QED
  BY <1>2, PolicyStateTyped, PTL
=============================================================================
