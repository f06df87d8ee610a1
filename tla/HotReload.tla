------------------------------- MODULE HotReload -------------------------------
(***************************************************************************)
(* Which policy is in force while the operator edits the files:            *)
(* startRulesWatcher (src/src/watcher.ts), watchPolicyBundle               *)
(* (src/src/adapter/file-adapter.ts), startHitlPolicyWatcher               *)
(* (src/src/hitl/watcher.ts), loadJsonRules and the activate / deactivate  *)
(* of src/src/index.ts.                                                    *)
(*                                                                         *)
(* Every watcher arms a debounce timer on a file event and loads when the  *)
(* timer fires.  JSON rules and the mode are read in one go; the import of *)
(* the TypeScript rules, the adapter's read, loadJsonRules and the HITL    *)
(* parser await their file, and what they read may be old when they use    *)
(* it.  Edits write a file and raise its event in one step.                *)
(***************************************************************************)
EXTENDS Naturals, Integers, FiniteSets

CONSTANTS
    RuleIds,          \* rules that a JSON file may hold
    MaxVersion,       \* bound on bundle versions
    MaxEdits,         \* bound on the operator's edits
    MaxLoads,         \* how many loads of one kind overlap
    MaxStoreLoads,    \* under how many loadJsonRules a store change adds one
    MaxActivations,   \* how often the plugin is activated again
    StartsWithBundle, \* whether bundle.json exists at the start
    Absent            \* no file, no policy, nothing to reload

ASSUME HotReloadBounds ==
    /\ MaxVersion \in Nat \ {0} /\ MaxEdits \in Nat /\ MaxLoads \in Nat \ {0}
    /\ MaxStoreLoads \in Nat
    /\ MaxActivations \in Nat /\ StartsWithBundle \in BOOLEAN
    /\ Absent \notin -1..1

VARIABLES
    disk,        \* the files: ts, bundle, rules, mode, hitl
    activeMode,  \* activeMode, and currentMode, which follows it
    boot,        \* the TypeScript rules the process was started with
    cache,       \* ruleCache: the entries default and json
    engine,      \* cedarEngineRef.current
    jsonEngine,  \* rules of jsonRulesEngineRef.current, Absent before the first
    adapters,    \* the adapter of each activation: its file, its currentVersion
    config,      \* hitlConfigRef.current
    hitlWatched, \* hitlWatcher # null
    timers,      \* the armed debounce timers
    tsChange,    \* the path the TypeScript timer will reload
    loads,       \* loads under way: [kind, read, mark]
    stage,       \* of the life cycle
    edits, activations

\* History: the last edit before the newest read of the HITL policy that has
\* ended, and whether the policy in force comes from a read older than that.
VARIABLES hitlSeen, overtaken

engineVars == <<activeMode, cache, engine>>
hitlVars == <<config, hitlSeen, overtaken>>
lifeVars == <<boot, stage, activations, hitlWatched>>
hotVars == <<disk, engineVars, jsonEngine, adapters, hitlVars, lifeVars,
             timers, tsChange, loads, edits>>

Modes == {"open", "closed"}

(* What can be in a JSON file: a bundle with its version, a plain array, a *)
(* bundle with a rule that loadJsonRules of index.ts refuses, or no JSON.  *)
JsonFile ==
    [form : {"bundle"}, version : 1..MaxVersion, rules : SUBSET RuleIds] \cup
    [form : {"array"}, version : {0}, rules : SUBSET RuleIds] \cup
    [form : {"rejected"}, version : {MaxVersion}, rules : {RuleIds}] \cup
    [form : {"garbled"}, version : {0}, rules : {{}}]

(* The rules of a baseline: those of a mode in a version of default.ts.    *)
Base(mode, ts) == [mode |-> mode, ts |-> ts]

(* resolveActiveJsonRulesFile: bundle.json takes precedence.               *)
resolveActiveJsonRulesFile ==
    IF disk.bundle # Absent THEN disk.bundle ELSE disk.rules

(* loadJsonRules of the watcher: what it cannot read is an empty list.     *)
LoadedJson ==
    LET file == resolveActiveJsonRulesFile
    IN  IF file = Absent \/ file.form = "garbled" THEN {} ELSE file.rules

(* loadModeFile: Absent leaves the mode alone.                             *)
loadModeFile == IF disk.mode \in Modes THEN disk.mode ELSE Absent

(* rebuildEngine: default effect of the mode, JSON rules, baseline.        *)
rebuildEngine(mode, json, base) ==
    engine' = [mode |-> mode, json |-> json, base |-> base]

(* The compiled baseline, activeRules of index.ts.                         *)
activeRules == Base(activeMode, boot)

(* The adapter of the last activation.                                     *)
adapterRef == adapters[activations]

HotInit ==
    /\ \E json \in JsonFile :
          /\ json.form = IF StartsWithBundle THEN "bundle" ELSE "array"
          /\ disk = [ts |-> 0, mode |-> Absent, hitl |-> 0,
                     bundle |-> IF StartsWithBundle THEN json ELSE Absent,
                     rules |-> IF StartsWithBundle THEN Absent ELSE json]
          /\ cache = [default |-> Base("open", 0), json |-> json.rules]
          /\ engine = [mode |-> "open", json |-> json.rules, base |-> Base("open", 0)]
          /\ jsonEngine = json.rules
          /\ adapters = [a \in 0..0 |->
                [file |-> IF StartsWithBundle THEN "bundle" ELSE "rules",
                 version |-> IF StartsWithBundle THEN json.version ELSE -1]]
    /\ activeMode = "open" /\ boot = 0 /\ config = 0 /\ hitlWatched = TRUE
    /\ timers = {} /\ tsChange = Absent /\ loads = {}
    /\ stage = "up" /\ edits = 0 /\ activations = 0
    /\ hitlSeen = 0 /\ overtaken = FALSE

-----------------------------------------------------------------------------
(* The operator.  A watcher hears an event until it is closed, which       *)
(* deactivate awaits after it has cleared the timers.                      *)

Hears(timer) ==
    CASE timer = "hitl"    -> hitlWatched
      [] timer = "adapter" -> stage # "down"
      [] OTHER             -> stage \in {"up", "closing_hitl", "closing_rules"}

Arm(ts) == timers' = timers \cup {t \in ts : Hears(t)}

Edits(file, content) ==
    /\ edits < MaxEdits /\ edits' = edits + 1
    /\ disk' = [disk EXCEPT ![file] = content]
    /\ UNCHANGED <<engineVars, jsonEngine, adapters, hitlVars, lifeVars, loads>>

(* bundle.json or rules.json is written.  The adapter hears changes of its *)
(* file only, not its creation.                                            *)
WriteJson(file) ==
    /\ \E json \in JsonFile :
          /\ json.form # IF file = "bundle" THEN "array" ELSE "bundle"
          /\ json # disk[file]
          /\ Edits(file, json)
    /\ Arm({file} \cup
           IF file = adapterRef.file /\ disk[file] # Absent THEN {"adapter"} ELSE {})
    /\ UNCHANGED tsChange

(* Mutated form: the deletion of bundle.json is not watched.               *)
RemoveBundleUnwatched ==
    /\ disk.bundle # Absent /\ Edits("bundle", Absent)
    /\ UNCHANGED <<timers, tsChange>>

(* bundle.json is deleted: the watcher falls back to rules.json.           *)
RemoveBundle ==
    /\ disk.bundle # Absent /\ Edits("bundle", Absent)
    /\ Arm({"bundle"}) /\ UNCHANGED tsChange

(* rules.json is deleted: nobody watches for that.                         *)
RemoveRules ==
    /\ disk.rules # Absent /\ Edits("rules", Absent)
    /\ UNCHANGED <<timers, tsChange>>

(* data/mode.json is written, possibly with something unreadable.          *)
WriteMode ==
    /\ \E m \in Modes \cup {"garbled"} : m # disk.mode /\ Edits("mode", m)
    /\ Arm({"mode"}) /\ UNCHANGED tsChange

(* default.ts is saved (0 is the text at the start, -1 does not compile),  *)
(* or another file of the directory: one timer serves all, and reloads the *)
(* path it was armed with last.                                            *)
WriteTs ==
    /\ \/ /\ \E v \in -1..1 : v # disk.ts /\ Edits("ts", v)
          /\ tsChange' = IF Hears("ts") THEN "default" ELSE tsChange
       \/ /\ Edits("ts", disk.ts)
          /\ tsChange' = IF Hears("ts") THEN "other" ELSE tsChange
    /\ Arm({"ts"})

(* hitl-policy.yaml is saved; -1 is not a valid policy.                    *)
WriteHitl ==
    /\ \E v \in -1..1 : v # disk.hitl /\ Edits("hitl", v)
    /\ Arm({"hitl"}) /\ UNCHANGED tsChange

-----------------------------------------------------------------------------
(* The rules watcher                                                       *)

Fires(timer) == timer \in timers /\ timers' = timers \ {timer}

(* A load begins; mark tells the adapter of an adapter's read, and the     *)
(* last edit before a read of the HITL policy.                             *)
Reads(kind, what, mark) ==
    /\ Cardinality({l \in loads : l.kind = kind}) <
          IF kind = "json" THEN MaxStoreLoads ELSE MaxLoads
    /\ loads' = loads \cup {[kind |-> kind, read |-> what, mark |-> mark]}

(* It ends.                                                                *)
Ends(l, kind) == l.kind = kind /\ l \in loads /\ loads' = loads \ {l}

(* reload: the import of default.ts is awaited.  Another file's change     *)
(* reloads nothing.                                                        *)
ReloadStarts ==
    /\ Fires("ts")
    /\ IF tsChange = "default" THEN Reads("ts", disk.ts, 0) ELSE UNCHANGED loads
    /\ tsChange' = Absent
    /\ UNCHANGED <<disk, engineVars, jsonEngine, adapters, hitlVars, lifeVars, edits>>

(* Mutated form: the rules are taken from the export of the mode that the  *)
(* process was started in.                                                 *)
ReloadEndsInBootMode(l) ==
    /\ Ends(l, "ts")
    /\ IF l.read = -1
         THEN UNCHANGED <<cache, engine>>
         ELSE /\ cache' = [default |-> Base("open", l.read), json |-> LoadedJson]
              /\ rebuildEngine(activeMode, LoadedJson \cup cache.json, Base("open", l.read))
    /\ UNCHANGED <<disk, activeMode, jsonEngine, adapters, hitlVars, lifeVars, timers,
                   tsChange, edits>>

(* Its continuation.  A module that does not load changes nothing.  The    *)
(* export is chosen by the mode now; buildMergedFromCache also merges the  *)
(* JSON rules of the load before.                                          *)
ReloadEnds(l) ==
    /\ Ends(l, "ts")
    /\ IF l.read = -1
         THEN UNCHANGED <<cache, engine>>
         ELSE /\ cache' = [default |-> Base(activeMode, l.read), json |-> LoadedJson]
              /\ rebuildEngine(activeMode, LoadedJson \cup cache.json,
                               Base(activeMode, l.read))
    /\ UNCHANGED <<disk, activeMode, jsonEngine, adapters, hitlVars, lifeVars, timers,
                   tsChange, edits>>

(* reloadJsonRules, on behalf of either JSON file: over the compiled       *)
(* baseline, not the cached one.                                           *)
ReloadJsonRules(timer) ==
    /\ timer \in {"bundle", "rules"} /\ Fires(timer)
    /\ cache' = [cache EXCEPT !.json = LoadedJson]
    /\ rebuildEngine(activeMode, LoadedJson, activeRules)
    /\ UNCHANGED <<disk, activeMode, jsonEngine, adapters, hitlVars, lifeVars, tsChange,
                   loads, edits>>

(* reloadMode: mode, default effect and baseline change together.          *)
ReloadMode ==
    /\ Fires("mode")
    /\ IF loadModeFile = Absent
         THEN UNCHANGED engineVars
         ELSE LET base == Base(loadModeFile, boot)
              IN  /\ activeMode' = loadModeFile
                  /\ cache' = [default |-> base, json |-> LoadedJson]
                  /\ rebuildEngine(loadModeFile, LoadedJson, base)
    /\ UNCHANGED <<disk, jsonEngine, adapters, hitlVars, lifeVars, tsChange, loads, edits>>

-----------------------------------------------------------------------------
(* loadJsonRules of index.ts, for the second engine                        *)

(* Its read, on an accepted bundle; and on a change of the auto-permit     *)
(* store or a /revoke, which look at the file whatever its version.        *)
StoreChanged ==
    /\ stage # "down"
    /\ Reads("json", resolveActiveJsonRulesFile, 0)
    /\ UNCHANGED <<disk, engineVars, jsonEngine, adapters, hitlVars, lifeVars, timers,
                   tsChange, edits>>

(* Whether loadJsonRules installs what it read.                            *)
Loadable(file) == file # Absent /\ file.form \notin {"garbled", "rejected"}

(* The new engine; a file that is absent, not JSON or holds a refused rule *)
(* leaves the one before.                                                  *)
JsonLoadEnds(l) ==
    /\ Ends(l, "json")
    /\ jsonEngine' = IF Loadable(l.read) THEN l.read.rules ELSE jsonEngine
    /\ UNCHANGED <<disk, engineVars, adapters, hitlVars, lifeVars, timers, tsChange, edits>>

-----------------------------------------------------------------------------
(* The adapter's bundle watcher                                            *)

AdapterReads ==
    /\ Fires("adapter")
    /\ Reads("adapter", disk[adapterRef.file], activations)
    /\ UNCHANGED <<disk, engineVars, jsonEngine, adapters, hitlVars, lifeVars, tsChange, edits>>

EmptyBundle == [form |-> "bundle", version |-> 0, rules |-> {}]

(* PolicyBundleSchema: an object with a version.                           *)
Versioned(file) == file.form \in {"bundle", "rejected"}

(* Mutated form: an update without rules is taken for a failed read.       *)
AcceptsWithRules(file, adapter) ==
    Versioned(file) /\ file.version > adapter.version /\ file.rules # {}

(* Whether an update passes: its version is above the one accepted last.   *)
Accepts(file, adapter) == Versioned(file) /\ file.version > adapter.version

(* The continuation, of the adapter that began the read: each has a file   *)
(* and a currentVersion of its own.  A file that was absent when it was    *)
(* read is created, over what may have appeared since.                     *)
AdapterApplies(l) ==
    LET adapter == adapters[l.mark]
        absent == l.read = Absent
        file == IF absent THEN EmptyBundle ELSE l.read
        rest == loads \ {l}
    IN  /\ l.kind = "adapter" /\ l \in loads
        /\ disk' = IF absent THEN [disk EXCEPT ![adapter.file] = EmptyBundle] ELSE disk
        /\ IF absent
             THEN Arm({adapter.file} \cup
                      IF adapter.file = adapterRef.file /\ disk[adapter.file] # Absent
                        THEN {"adapter"} ELSE {})
             ELSE UNCHANGED timers
        /\ IF Accepts(file, adapter)
             THEN /\ adapters' = [adapters EXCEPT ![l.mark].version = file.version]
                  /\ loads' = rest \cup
                       {[kind |-> "json", read |-> resolveActiveJsonRulesFile', mark |-> 0]}
             ELSE loads' = rest /\ UNCHANGED adapters
        /\ UNCHANGED <<engineVars, jsonEngine, hitlVars, lifeVars, tsChange, edits>>

-----------------------------------------------------------------------------
(* The HITL policy watcher                                                 *)

HitlReads ==
    /\ Fires("hitl")
    /\ Reads("hitl", disk.hitl, edits)
    /\ UNCHANGED <<disk, engineVars, jsonEngine, adapters, hitlVars, lifeVars, tsChange, edits>>

(* A policy that does not parse leaves the one before.  Nothing keeps a    *)
(* read from ending after a newer one.                                     *)
HitlInstalls(l) ==
    /\ Ends(l, "hitl")
    /\ IF l.read = -1
         THEN UNCHANGED <<config, overtaken>>
         ELSE config' = l.read /\ overtaken' = (l.mark < hitlSeen)
    /\ hitlSeen' = IF l.mark < hitlSeen THEN hitlSeen ELSE l.mark
    /\ UNCHANGED <<disk, engineVars, jsonEngine, adapters, lifeVars, timers, tsChange, edits>>

-----------------------------------------------------------------------------
(* Life cycle                                                              *)

(* deactivate, up to the close of the HITL watcher.                        *)
StopHitl ==
    /\ stage = "up" /\ hitlWatched
    /\ stage' = "closing_hitl" /\ timers' = timers \ {"hitl"}
    /\ UNCHANGED <<disk, engineVars, jsonEngine, adapters, hitlVars, boot, activations,
                   hitlWatched, tsChange, loads, edits>>

(* ... up to the close of the rules watchers; without a HITL watcher       *)
(* nothing is awaited before.                                              *)
StopRules ==
    /\ \/ stage = "closing_hitl"
       \/ stage = "up" /\ ~hitlWatched
    /\ stage' = "closing_rules"
    /\ config' = Absent /\ hitlWatched' = FALSE
    /\ timers' = timers \ {"ts", "bundle", "rules", "mode"} /\ tsChange' = Absent
    /\ UNCHANGED <<disk, engineVars, jsonEngine, adapters, hitlSeen, overtaken, boot,
                   activations, loads, edits>>

(* ... to its end.                                                         *)
StopAdapter ==
    /\ stage = "closing_rules" /\ stage' = "down"
    /\ timers' = timers \ {"adapter"}
    /\ UNCHANGED <<disk, engineVars, jsonEngine, adapters, hitlVars, boot, activations,
                   hitlWatched, tsChange, loads, edits>>

(* activate in the same process.  Without JSON rules the engine of the     *)
(* last activation stays; a HITL policy that is invalid leaves none, and   *)
(* no watcher for it.  The adapter creates a file that is absent.          *)
Activate ==
    /\ stage = "down" /\ stage' = "up"
    /\ activations < MaxActivations /\ activations' = activations + 1
    /\ cache' = [default |-> activeRules,
                 json |-> IF LoadedJson = {} THEN cache.json ELSE LoadedJson]
    /\ IF LoadedJson = {} THEN UNCHANGED engine
       ELSE rebuildEngine(activeMode, LoadedJson, activeRules)
    /\ jsonEngine' = IF Loadable(resolveActiveJsonRulesFile)
                       THEN resolveActiveJsonRulesFile.rules ELSE jsonEngine
    /\ config' = IF disk.hitl = -1 THEN config ELSE disk.hitl
    /\ hitlWatched' = (disk.hitl # -1)
    /\ disk' = IF resolveActiveJsonRulesFile = Absent
                 THEN [disk EXCEPT !.rules = EmptyBundle] ELSE disk
    /\ adapters' =
          LET name == IF disk.bundle # Absent THEN "bundle" ELSE "rules"
              file == disk'[name]
          IN  [a \in 0..activations' |->
                 IF a <= activations THEN adapters[a]
                 ELSE [file |-> name, version |-> IF Versioned(file) THEN file.version ELSE -1]]
    /\ UNCHANGED <<activeMode, boot, hitlSeen, overtaken, timers, tsChange, loads, edits>>

Operator ==
    \/ \E f \in {"bundle", "rules"} : WriteJson(f)
    \/ RemoveBundle \/ RemoveRules \/ WriteMode \/ WriteTs \/ WriteHitl

TimersFire ==
    \/ ReloadStarts \/ ReloadMode \/ AdapterReads \/ HitlReads
    \/ \E t \in {"bundle", "rules"} : ReloadJsonRules(t)

LoadsEnd == \E l \in loads :
    ReloadEnds(l) \/ JsonLoadEnds(l) \/ AdapterApplies(l) \/ HitlInstalls(l)

HotNext ==
    \/ Operator \/ TimersFire \/ LoadsEnd \/ StoreChanged
    \/ StopHitl \/ StopRules \/ StopAdapter \/ Activate

(* Timers of a live process fire and reads of local files return.          *)
HotFairness ==
    /\ \A t \in {"bundle", "rules"} : WF_hotVars(ReloadJsonRules(t))
    /\ WF_hotVars(ReloadStarts) /\ WF_hotVars(ReloadMode) /\ WF_hotVars(HitlReads)
    /\ WF_hotVars(AdapterReads)
    /\ WF_hotVars(\E l \in loads : ReloadEnds(l))
    /\ WF_hotVars(\E l \in loads : JsonLoadEnds(l))
    /\ WF_hotVars(\E l \in loads : AdapterApplies(l))
    /\ WF_hotVars(\E l \in loads : HitlInstalls(l))

HotSpec == HotInit /\ [][HotNext]_hotVars /\ HotFairness

-----------------------------------------------------------------------------
(* Properties                                                              *)

(* docs/configuration.md: a mode switch "rebuilds the policy engine with   *)
(* the matching defaultEffect and baseline rules in a single swap", also   *)
(* when the switch overtakes an import that started under the other mode.  *)
ModeCoherent == engine.mode = engine.base.mode /\ engine.mode = activeMode

(* docs/configuration.md: "Both files are hot-reloaded", bundle.json when  *)
(* present, else rules.json, and the HITL policy too: once the editing     *)
(* stops, the engine that startRulesWatcher is given holds the rules of a  *)
(* file that is there and can be read, and the config is that of the HITL  *)
(* policy, unless a read of it was installed after a newer one had ended.  *)
(* This is said of the first activation: activate does not rebuild the     *)
(* engine when the file has no rules any more.                             *)
EngineFollows ==
    LET file == resolveActiveJsonRulesFile
    IN  file # Absent /\ file.form # "garbled" => engine.json = file.rules
HitlPolicyFollows ==
    IF disk.hitl = -1 THEN config # Absent ELSE config = disk.hitl \/ overtaken
PolicyFollowsFiles ==
    <>[](stage = "up" /\ activations = 0 => EngineFollows /\ HitlPolicyFollows)

(* docs/rule-deletion.md, of a rule that is deleted from the bundle and    *)
(* the version raised: "The adapter hot-reloads the bundle within ~500 ms. *)
(* No restart is needed."  An update of bundle.json to the highest version *)
(* that withdraws the rules, that the adapter has heard of and that stays, *)
(* takes them out of the second engine, also when reads of older texts and *)
(* loads on behalf of the store end after it was made.                     *)
Withdrawn == [form |-> "bundle", version |-> MaxVersion, rules |-> {}]
WithdrawalHeard ==
    /\ stage = "up" /\ disk.bundle = Withdrawn /\ adapterRef.file = "bundle"
    /\ adapterRef.version < MaxVersion /\ "adapter" \in timers
WithdrawnRulesLeaveSecondEngine ==
    WithdrawalHeard ~> (stage # "up" \/ disk.bundle # Withdrawn \/ jsonEngine = {})

(* docs/usage.md: "If the updated file fails to parse or throws during     *)
(* import, the previous engine instance remains active": a reload of a     *)
(* JSON file that does not parse leaves the rules in force.                *)
UnparsableFileKeepsRules ==
    [][\A t \in {"bundle", "rules"} :
          /\ ReloadJsonRules(t)
          /\ resolveActiveJsonRulesFile # Absent
          /\ resolveActiveJsonRulesFile.form = "garbled"
          => engine'.json = engine.json]_hotVars
================================================================================
