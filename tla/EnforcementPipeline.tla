-------------------------- MODULE EnforcementPipeline --------------------------
(***************************************************************************)
(* What the two-stage pipeline decides about a tool call: runPipeline of   *)
(* src/src/enforcement/pipeline.ts over the trust gate of                  *)
(* stage1-capability.ts and createCombinedStage2 of stage2-policy.ts, with *)
(* the policy state it reads: the Cedar engine, the optional JSON engine,  *)
(* the session approvals and the auto-permit patterns.                     *)
(*                                                                         *)
(* The hook calls the pipeline with hitl_mode 'none' and takes the engines *)
(* once, when it builds stage 2, so one evaluation sees one policy state:  *)
(* it is an operator of the state.  The actions are the ways the policy    *)
(* state changes between evaluations.                                      *)
(***************************************************************************)
EXTENDS PolicyEngine

CONSTANTS
    CedarPool,  \* rules a reload can put into the Cedar engine
    JsonPool,   \* rules a reload can put into the JSON engine
    Calls,      \* tool calls [tool, cls, target, group, ctx, source, risk]
    Patterns,   \* what stored auto-permit patterns match: commands, tools
    Windows,    \* rate-limit windows <<rule, agentId, name>>
    MaxRules    \* bound on the length of a rule list

ASSUME MaxRulesIsNat == MaxRules \in Nat
ASSUME NoneIsNoRule == None \notin CedarPool \cup JsonPool

VARIABLES
    cedar,        \* cedarEngineRef.current
    json,         \* jsonRulesEngineRef.current, None until rules are loaded
    approved,     \* sessionAutoApprovals: set of <<channel, action class>>
    autoPermits,  \* patterns of autoPermitCheckerRef.current
    full,         \* the rate-limit windows that are exhausted
    installing    \* isInstallPhase(): the environment of the process

vars == <<cedar, json, approved, autoPermits, full, installing>>

HITL_PRIORITY_THRESHOLD == 100
IMPLICIT_DENY_PRIORITY == 0

(* Action classes whose target is the command line itself.                 *)
EXEC_ACTION_CLASSES ==
    {<<"shell", "exec">>, <<"code", "execute">>, <<"unknown_sensitive_action">>}

RuleLists(pool) == BoundedSeq(pool, MaxRules)
Engine(rules, default) == [rules |-> rules, default |-> default]
ApprovalKeys == {<<c.ctx.channel, c.cls>> : c \in Calls}

TypeOK ==
    /\ cedar.rules \in Seq(CedarPool) /\ cedar.default \in {"permit", "forbid"}
    /\ json # None => (json.rules \in Seq(JsonPool) /\ json.default = "permit")
    /\ approved \subseteq ApprovalKeys
    /\ autoPermits \subseteq Patterns
    /\ full \subseteq Windows
    /\ installing \in BOOLEAN

Init ==
    /\ \E default \in {"permit", "forbid"} : cedar = Engine(<<>>, default)
    /\ json = None
    /\ approved = {}
    /\ autoPermits = {}
    /\ full = {}
    /\ installing \in BOOLEAN

-----------------------------------------------------------------------------
(* The trust gate, check 0 of validateCapability: content that came from   *)
(* neither the user nor the agent may not cause a risky action.            *)
determineSourceTrustLevel(source) ==
    CASE source = "user" -> "user"
      [] source \in {"agent", None} -> "agent"
      [] OTHER -> "untrusted"

TrustRefuses(c) ==
    /\ determineSourceTrustLevel(c.source) = "untrusted"
    /\ c.risk \in {"high", "critical"}

-----------------------------------------------------------------------------
(* A forbid is HITL-gated (an operator may release it) when it is the      *)
(* implicit deny or its rule has a priority below the threshold.           *)
isHitlGatedDecision(d) ==
    \/ d.rule = None
    \/ d.rule.priority # None /\ d.rule.priority < HITL_PRIORITY_THRESHOLD

(* A CeeDecision: the effect, who took it, and the priority of a forbid.   *)
Verdict(effect, by, priority) == [effect |-> effect, by |-> by, priority |-> priority]

(* Mutated form: every missing priority is the implicit deny's.            *)
toStagedForbidDefaulted(d) ==
    Verdict("forbid", "policy",
            IF d.rule = None \/ d.rule.priority = None
              THEN IMPLICIT_DENY_PRIORITY ELSE d.rule.priority)

toStagedForbid(d) ==
    Verdict("forbid", "policy",
            IF d.rule = None THEN IMPLICIT_DENY_PRIORITY ELSE d.rule.priority)

(* The catch of stage 2: a forbid that carries no priority.                *)
Stage2Error == Verdict("forbid", "error", None)

(* The decisions on class and tool, in the order stage 2 asks for them.    *)
Opinions(c) ==
    <<evaluateByActionClass(cedar, c.cls, c.target, c.ctx, full)>> \o
    IF json = None THEN <<>>
    ELSE <<evaluateByActionClass(json, c.cls, c.target, c.ctx, full),
           evaluate(json, "tool", c.tool, c.target, c.ctx, full)>>

(* Mutated form: stage 2 asks only the Cedar engine about intent groups.   *)
GroupOpinionsCedarOnly(c) ==
    IF c.group = None THEN <<>> ELSE <<evaluateByIntentGroup(cedar, c.group, c.ctx)>>

(* The decisions on the intent group: a forbid counts only with its rule,  *)
(* which evaluateByIntentGroup always supplies.                            *)
GroupOpinions(c) ==
    IF c.group = None THEN <<>>
    ELSE <<evaluateByIntentGroup(cedar, c.group, c.ctx)>> \o
         IF json = None THEN <<>>
         ELSE <<evaluateByIntentGroup(json, c.group, c.ctx)>>

(* An opinion that ends the evaluation at once, and one that is kept.      *)
Stops(d) == d.effect = "error" \/ (d.effect = "forbid" /\ ~isHitlGatedDecision(d))
Gates(d) == d.effect = "forbid" /\ isHitlGatedDecision(d)
Speaks(d) == d.effect # "permit"

Stopped(d) == IF d.effect = "error" THEN Stage2Error ELSE toStagedForbid(d)

(* The engines' verdict: the first opinion that stops, else the first that *)
(* gates, else the first intent-group forbid, else permit.                 *)
PolicyVerdict(c) ==
    LET ops == Opinions(c)
        groups == GroupOpinions(c)
    IN  CASE HasRule(ops, Stops) -> Stopped(FirstRule(ops, Stops))
          [] ~HasRule(ops, Stops) /\ HasRule(ops, Gates) ->
               toStagedForbid(FirstRule(ops, Gates))
          [] /\ ~HasRule(ops, Stops) /\ ~HasRule(ops, Gates)
             /\ HasRule(groups, Speaks) -> Stopped(FirstRule(groups, Speaks))
          [] OTHER -> Verdict("permit", "policy", None)

(* The command a stored pattern is matched against.                        *)
CommandToMatch(c) == IF c.cls \in EXEC_ACTION_CLASSES THEN c.target ELSE c.tool

createCombinedStage2(c) ==
    CASE <<c.ctx.channel, c.cls>> \in approved -> Verdict("permit", "session", None)
      [] /\ <<c.ctx.channel, c.cls>> \notin approved
         /\ CommandToMatch(c) \in autoPermits -> Verdict("permit", "auto-permit", None)
      [] OTHER -> PolicyVerdict(c)

runPipeline(c) ==
    CASE installing -> Verdict("permit", "install", None)
      [] ~installing /\ TrustRefuses(c) -> Verdict("forbid", "trust", None)
      [] OTHER -> createCombinedStage2(c)

-----------------------------------------------------------------------------
LoadedRules == Range(cedar.rules) \cup (IF json = None THEN {} ELSE Range(json.rules))

(* rebuildEngine of the rules watcher: a new engine with the merged rules  *)
(* and the mode's default effect replaces the old one; its rate-limit      *)
(* windows start empty.                                                    *)
RebuildEngine(rules, default) ==
    /\ cedar' = Engine(rules, default)
    /\ full' = {w \in full : json # None /\ w[1] \in Range(json.rules)}
    /\ UNCHANGED <<json, approved, autoPermits, installing>>

(* The end of loadJsonRules: a new engine, default permit, is swapped in.  *)
SwapJsonRules(rules) ==
    /\ json' = Engine(rules, "permit")
    /\ full' = {w \in full : w[1] \in Range(cedar.rules)}
    /\ UNCHANGED <<cedar, approved, autoPermits, installing>>

(* The end of loadAutoPermitRules: a new FileAutoPermitChecker.            *)
SwapAutoPermits(patterns) ==
    /\ autoPermits' = patterns
    /\ UNCHANGED <<cedar, json, approved, full, installing>>

AddSessionAutoApproval(k) ==
    /\ approved' = approved \cup {k}
    /\ UNCHANGED <<cedar, json, autoPermits, full, installing>>

ClearSessionAutoApprovals ==
    /\ approved' = {}
    /\ UNCHANGED <<cedar, json, autoPermits, full, installing>>

(* checkAndRecordRateLimit fills a window of a rule that is loaded, and    *)
(* time empties it again.                                                  *)
WindowFills(w) ==
    /\ w[1] \in LoadedRules
    /\ full' = full \cup {w}
    /\ UNCHANGED <<cedar, json, approved, autoPermits, installing>>

WindowSlides(w) ==
    /\ full' = full \ {w}
    /\ UNCHANGED <<cedar, json, approved, autoPermits, installing>>

Next ==
    \/ \E rs \in RuleLists(CedarPool), e \in {"permit", "forbid"} : RebuildEngine(rs, e)
    \/ \E rs \in RuleLists(JsonPool) : SwapJsonRules(rs)
    \/ \E ps \in SUBSET Patterns : SwapAutoPermits(ps)
    \/ \E k \in ApprovalKeys : AddSessionAutoApproval(k)
    \/ ClearSessionAutoApprovals
    \/ \E w \in Windows : WindowFills(w)
    \/ \E w \in Windows : WindowSlides(w)

Spec == Init /\ [][Next]_vars

-----------------------------------------------------------------------------
(* Properties                                                              *)

(* The rules that are about a call, however they name it: by its class, by *)
(* the resource its class maps to, by its tool (JSON rules only) or by its *)
(* intent group.                                                           *)
AboutClass(r, c) == NamesClass(r, c.cls, c.target)
AboutResource(r, c) ==
    \/ NamesResource(r, mapActionClassToResource(c.cls), c.target, c.target)
    \/ /\ json # None /\ r \in Range(json.rules)
       /\ NamesResource(r, "tool", c.tool, c.target)
AboutGroup(r, c) == c.group # None /\ NamesGroup(r, c.group)
About(r, c) == AboutClass(r, c) \/ AboutResource(r, c) \/ AboutGroup(r, c)

ForbidsCall(r, c) == r.effect = "forbid" /\ About(r, c) /\ c.ctx \in r.condition

(* A call the operator approved always, in this session or by a pattern.   *)
PreApproved(c) ==
    <<c.ctx.channel, c.cls>> \in approved \/ CommandToMatch(c) \in autoPermits

(* Forbid wins across the whole policy: a call that the pipeline permits   *)
(* and nobody approved in advance is matched by no forbid rule of either   *)
(* engine, whichever of the four ways the rule names it and whatever       *)
(* permits stand before it; and no pre-approval lets untrusted content     *)
(* cause a risky action.                                                   *)
PermitMeansNoForbid ==
    \A c \in Calls : ~installing /\ runPipeline(c).effect = "permit" =>
        /\ ~TrustRefuses(c)
        /\ PreApproved(c) \/ \A r \in LoadedRules : ~ForbidsCall(r, c)

(* The priority a forbid carries is what the hook later trusts to decide   *)
(* whether an operator may release it: a releasable forbid comes from a    *)
(* rule about this call that opted into the HITL tier, or from the         *)
(* implicit deny, never from the trust gate, from an error or from a rule  *)
(* without a priority.                                                     *)
Releasable(v) ==
    v.effect = "forbid" /\ v.priority # None /\ v.priority < HITL_PRIORITY_THRESHOLD

ReleasableIsOptIn ==
    \A c \in Calls : Releasable(runPipeline(c)) =>
        /\ runPipeline(c).by = "policy"
        /\ \/ cedar.default = "forbid"
           \/ \E r \in LoadedRules :
                 /\ About(r, c) /\ c.ctx \in r.condition
                 /\ r.priority = runPipeline(c).priority

(* The documented meaning of priority 100: "always blocks, regardless of   *)
(* HITL config" (policy/types.ts).  A forbid with that priority, or none,  *)
(* on the class or the tool of a call makes its refusal unreleasable.      *)
Unconditional(r) == r.priority = None \/ r.priority >= HITL_PRIORITY_THRESHOLD

UnconditionalForbidWins ==
    \A c \in Calls :
        (\E r \in LoadedRules : /\ ForbidsCall(r, c) /\ Unconditional(r)
                                /\ (AboutClass(r, c) \/ AboutResource(r, c)))
        => ~Releasable(runPipeline(c))
=============================================================================
