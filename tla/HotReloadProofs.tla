--------------------------- MODULE HotReloadProofs ---------------------------
(***************************************************************************)
(* Mode and baseline of the engine agree, and no edit is missed, for any   *)
(* rules, any number of edits, of loads that overlap and of activations,   *)
(* and any highest version: the bounds of the runs are not used.           *)
(*                                                                         *)
(* ModeCoherent is inductive: the mode changes in ReloadMode only, and     *)
(* every step that builds an engine takes its effect and its baseline from *)
(* the mode of that moment, also the continuation of an import that began  *)
(* under another mode.                                                     *)
(*                                                                         *)
(* NoEditMissed is the safety half of PolicyFollowsFiles. Its              *)
(* strengthening, FilesInv, follows the cache as well, for the engine is   *)
(* rebuilt from it, and orders the reads of the HITL policy by the edits   *)
(* they knew of: while no timer is armed, the newest read is of the file   *)
(* as it is, or has ended and is in force unless an older one came after.  *)
(***************************************************************************)
EXTENDS HotReload, TLAPS

(* The process starts with an engine built for its mode.                   *)
LEMMA InitCoherent == HotInit => ModeCoherent
BY DEF HotInit, ModeCoherent, Base

(* An engine that rebuildEngine puts in place for the mode it is given is  *)
(* coherent with that mode.                                                *)
LEMMA RebuiltIsCoherent ==
  ASSUME NEW mode, NEW json, NEW ts, rebuildEngine(mode, json, Base(mode, ts)),
         activeMode' = mode
  PROVE  ModeCoherent'
BY DEF rebuildEngine, Base, ModeCoherent

(* An operator's edits touch files and timers only.                        *)
LEMMA OperatorKeeps == Operator => UNCHANGED <<activeMode, engine>>
BY DEF Operator, WriteJson, RemoveBundle, RemoveRules, WriteMode, WriteTs, WriteHitl, Edits,
       engineVars

(* Every step preserves the agreement of mode and engine.                  *)
LEMMA NextCoherent == ModeCoherent /\ [HotNext]_hotVars => ModeCoherent'
<1> SUFFICES ASSUME ModeCoherent, [HotNext]_hotVars PROVE ModeCoherent'
  OBVIOUS
<1> USE DEF engineVars, lifeVars
<1>1. CASE UNCHANGED <<activeMode, engine>>
  BY <1>1 DEF ModeCoherent
<1>2. ASSUME NEW l \in loads, ReloadEnds(l) PROVE ModeCoherent'
  <2>1. CASE l.read = -1
    BY <1>1, <1>2, <2>1 DEF ReloadEnds
  <2>2. CASE l.read # -1
    BY <1>2, <2>2, RebuiltIsCoherent DEF ReloadEnds
  <2> QED
    BY <2>1, <2>2
<1>3. ASSUME NEW t \in {"bundle", "rules"}, ReloadJsonRules(t) PROVE ModeCoherent'
  BY <1>3, RebuiltIsCoherent DEF ReloadJsonRules, activeRules
<1>4. CASE ReloadMode
  BY <1>1, <1>4, RebuiltIsCoherent DEF ReloadMode
<1>5. CASE Activate
  BY <1>1, <1>5, RebuiltIsCoherent DEF Activate, activeRules
<1>6. CASE \/ ReloadStarts \/ AdapterReads \/ HitlReads \/ StoreChanged
           \/ StopHitl \/ StopRules \/ StopAdapter \/ UNCHANGED hotVars
           \/ \E l \in loads : JsonLoadEnds(l) \/ AdapterApplies(l) \/ HitlInstalls(l)
  BY <1>1, <1>6 DEF ReloadStarts, AdapterReads, HitlReads, StoreChanged, StopHitl, StopRules,
     StopAdapter, hotVars, JsonLoadEnds, AdapterApplies, HitlInstalls
<1> QED
  BY <1>1, <1>2, <1>3, <1>4, <1>5, <1>6, OperatorKeeps DEF HotNext, TimersFire, LoadsEnd

(* A mode switch swaps default effect and baseline together, whatever      *)
(* imports, edits and activations it overtakes.                            *)
THEOREM CoherenceTheorem == HotSpec => []ModeCoherent
BY InitCoherent, NextCoherent, PTL DEF HotSpec

-----------------------------------------------------------------------------
(* What the files hold is loaded, or about to be.                          *)

(* The files, the loads and the counters have their types.                 *)
FilesTyped ==
    /\ DOMAIN disk = {"ts", "mode", "hitl", "bundle", "rules"} /\ disk.hitl \in -1..1
    /\ \A l \in loads : l.kind = "hitl" => l.read \in -1..1 /\ l.mark \in Nat
    /\ activations \in Nat /\ edits \in Nat /\ hitlSeen \in Nat
    /\ DOMAIN adapters = 0..activations
    /\ \A a \in 0..activations :
          "file" \in DOMAIN adapters[a] /\ adapters[a].file \in {"bundle", "rules"}
    /\ \A l \in loads : l.kind = "adapter" => l.mark \in 0..activations
    /\ "json" \in DOMAIN cache

(* Before the first deactivate: rules of the engine or of the cache that   *)
(* are not those of the file are about to be reloaded.                     *)
JsonFollowed ==
    \/ "bundle" \in timers \/ "rules" \in timers
    \/ resolveActiveJsonRulesFile = Absent
    \/ engine.json = LoadedJson /\ cache.json = LoadedJson

(* A read of the HITL policy knows of no edit after those that were made,  *)
(* and while its timer is armed there is one that no read knows of.        *)
HitlLoads == {l \in loads : l.kind = "hitl"}
HitlMarked ==
    /\ hitlSeen <= edits /\ \A l \in HitlLoads : l.mark <= edits
    /\ "hitl" \in timers => hitlSeen < edits /\ \A l \in HitlLoads : l.mark < edits

(* The newest read is under way, of the file as it is ...                  *)
NewestReads(l) ==
    /\ l \in HitlLoads /\ l.read = disk.hitl /\ hitlSeen < l.mark
    /\ \A m \in HitlLoads \ {l} : m.mark < l.mark

(* ... or it has ended, and what is in force is the file, or was read      *)
(* before the newest.                                                      *)
NewestRead ==
    /\ \A m \in HitlLoads : m.mark < hitlSeen
    /\ overtaken \/ config = disk.hitl \/ disk.hitl = -1

HitlFollowed ==
    /\ config # Absent /\ hitlWatched
    /\ "hitl" \in timers \/ NewestRead \/ \E l \in loads : NewestReads(l)

(* No edit of the JSON rules or of the HITL policy is missed in the first  *)
(* activation: while what is in force differs from a file that is there    *)
(* and can be read, a timer is armed or a read of the file as it is is     *)
(* under way; only a read of the HITL policy that ends after a newer one   *)
(* leaves an older policy in force.                                        *)
NoEditMissed ==
    stage = "up" /\ activations = 0 =>
        /\ "bundle" \in timers \/ "rules" \in timers \/ EngineFollows
        /\ \/ "hitl" \in timers
           \/ \E l \in loads : l.kind = "hitl" /\ l.read = disk.hitl
           \/ HitlPolicyFollows

FilesInv ==
    /\ FilesTyped /\ HitlMarked
    /\ stage = "up" /\ activations = 0 => JsonFollowed /\ HitlFollowed

(* It holds at the start.                                                  *)
LEMMA InitFollowed == HotInit => FilesInv
<1> SUFFICES ASSUME HotInit PROVE FilesInv
  OBVIOUS
<1> USE HotReloadBounds
<1>1. PICK json \in JsonFile :
        /\ json.form = IF StartsWithBundle THEN "bundle" ELSE "array"
        /\ disk = [ts |-> 0, mode |-> Absent, hitl |-> 0,
                   bundle |-> IF StartsWithBundle THEN json ELSE Absent,
                   rules |-> IF StartsWithBundle THEN Absent ELSE json]
        /\ cache = [default |-> Base("open", 0), json |-> json.rules]
        /\ engine = [mode |-> "open", json |-> json.rules, base |-> Base("open", 0)]
  BY DEF HotInit
<1>2. FilesTyped
  BY <1>1 DEF HotInit, FilesTyped
<1>3. JsonFollowed
  <2>1. resolveActiveJsonRulesFile \in {json, Absent}
    BY <1>1 DEF resolveActiveJsonRulesFile
  <2>2. resolveActiveJsonRulesFile # Absent => LoadedJson = json.rules
    BY <1>1, <2>1 DEF LoadedJson
  <2> QED
    BY <1>1, <2>2 DEF JsonFollowed
<1>4. HitlFollowed /\ HitlMarked
  BY <1>1 DEF HotInit, HitlFollowed, NewestRead, HitlMarked, HitlLoads
<1> QED
  BY <1>2, <1>3, <1>4 DEF FilesInv

(* The rules of the files are a matter of the files alone.                 *)
LEMMA JsonOfDisk ==
  ASSUME disk'.bundle = disk.bundle, disk'.rules = disk.rules
  PROVE  resolveActiveJsonRulesFile' = resolveActiveJsonRulesFile /\ LoadedJson' = LoadedJson
<1>1. resolveActiveJsonRulesFile' = resolveActiveJsonRulesFile
  BY DEF resolveActiveJsonRulesFile
<1> QED
  BY <1>1 DEF LoadedJson

(* An edit keeps the types and counts.                                     *)
LEMMA EditTyped ==
  ASSUME FilesTyped, NEW f \in {"ts", "mode", "hitl", "bundle", "rules"}, NEW v, Edits(f, v),
         f = "hitl" => v \in -1..1
  PROVE  FilesTyped'
BY DEF FilesTyped, Edits, lifeVars, hitlVars, engineVars

(* A load that begins keeps the types.                                     *)
LEMMA ReadsTyped ==
  ASSUME FilesTyped, NEW kind, NEW what, NEW mark, Reads(kind, what, mark),
         kind = "hitl" => what \in -1..1 /\ mark \in Nat,
         kind = "adapter" => mark \in 0..activations,
         UNCHANGED <<disk, adapters, activations, edits, hitlSeen, cache>>
  PROVE  FilesTyped'
<1>1. PICK new : new = [kind |-> kind, read |-> what, mark |-> mark]
  OBVIOUS
<1>2. loads' = loads \cup {new} /\ new.kind = kind /\ new.read = what /\ new.mark = mark
  BY <1>1 DEF Reads
<1> QED
  BY <1>2 DEF FilesTyped

(* Every step keeps the types.                                             *)
LEMMA NextTyped == FilesTyped /\ [HotNext]_hotVars => FilesTyped'
<1> SUFFICES ASSUME FilesTyped, [HotNext]_hotVars PROVE FilesTyped'
  OBVIOUS
<1> USE DEF lifeVars, hitlVars, engineVars
<1>1. CASE Operator
  <2>1. ASSUME NEW f \in {"bundle", "rules"}, WriteJson(f) PROVE FilesTyped'
    BY <2>1, EditTyped DEF WriteJson
  <2>2. CASE RemoveBundle \/ RemoveRules \/ WriteMode \/ WriteTs \/ WriteHitl
    BY <2>2, EditTyped DEF RemoveBundle, RemoveRules, WriteMode, WriteTs, WriteHitl
  <2> QED
    BY <1>1, <2>1, <2>2 DEF Operator
<1>2. CASE ReloadStarts \/ AdapterReads \/ HitlReads \/ StoreChanged
  <2>1. /\ UNCHANGED <<disk, adapters, activations, edits, hitlSeen, cache>>
        /\ activations \in 0..activations /\ disk.hitl \in -1..1 /\ edits \in Nat
    BY <1>2 DEF FilesTyped, ReloadStarts, AdapterReads, HitlReads, StoreChanged
  <2>2. CASE UNCHANGED loads
    BY <2>1, <2>2 DEF FilesTyped
  <2>3. CASE ~ UNCHANGED loads
    BY <1>2, <2>1, <2>3, ReadsTyped DEF ReloadStarts, AdapterReads, HitlReads, StoreChanged
  <2> QED
    BY <2>2, <2>3
<1>3. ASSUME NEW l \in loads, AdapterApplies(l) PROVE FilesTyped'
  <2>1. /\ DOMAIN disk' = DOMAIN disk /\ disk'.hitl = disk.hitl
        /\ UNCHANGED <<activations, cache, edits, hitlSeen>>
        /\ l.mark \in 0..activations
    BY <1>3 DEF AdapterApplies, FilesTyped
  <2>2. /\ DOMAIN adapters' = 0..activations
        /\ \A a \in 0..activations :
              "file" \in DOMAIN adapters'[a] /\ adapters'[a].file \in {"bundle", "rules"}
    BY <1>3, <2>1 DEF AdapterApplies, FilesTyped
  <2>3. CASE loads' = loads \ {l}
    BY <2>1, <2>2, <2>3 DEF FilesTyped
  <2>4. CASE loads' # loads \ {l}
    <3>1. PICK new : new = [kind |-> "json", read |-> resolveActiveJsonRulesFile', mark |-> 0]
      OBVIOUS
    <3>2. loads' = (loads \ {l}) \cup {new} /\ new.kind = "json"
      BY <1>3, <2>4, <3>1 DEF AdapterApplies
    <3> QED
      BY <2>1, <2>2, <3>2 DEF FilesTyped
  <2> QED
    BY <2>3, <2>4
<1>4. CASE Activate
  <2>1. /\ DOMAIN disk' = DOMAIN disk /\ disk'.hitl = disk.hitl
        /\ UNCHANGED <<loads, edits, hitlSeen>> /\ activations' = activations + 1
        /\ "json" \in DOMAIN cache'
    BY <1>4 DEF Activate, FilesTyped
  <2>2. /\ DOMAIN adapters' = 0..activations'
        /\ \A a \in 0..activations' :
              "file" \in DOMAIN adapters'[a] /\ adapters'[a].file \in {"bundle", "rules"}
    BY <1>4, <2>1 DEF Activate, FilesTyped
  <2>3. 0..activations \subseteq 0..activations' /\ activations' \in Nat
    BY <2>1 DEF FilesTyped
  <2> QED
    BY <2>1, <2>2, <2>3 DEF FilesTyped
<1>5. CASE ReloadMode \/ StopHitl \/ StopRules \/ StopAdapter \/ UNCHANGED hotVars
             \/ \E t \in {"bundle", "rules"} : ReloadJsonRules(t)
  BY <1>5 DEF FilesTyped, ReloadMode, ReloadJsonRules, StopHitl, StopRules, StopAdapter, hotVars
<1>6. ASSUME NEW l \in loads, ReloadEnds(l) \/ JsonLoadEnds(l) \/ HitlInstalls(l)
      PROVE  FilesTyped'
  <2>1. /\ UNCHANGED <<disk, adapters, activations, edits>> /\ loads' = loads \ {l}
        /\ "json" \in DOMAIN cache'
    BY <1>6 DEF FilesTyped, ReloadEnds, JsonLoadEnds, HitlInstalls, Ends
  <2>2. hitlSeen' \in Nat
    BY <1>6 DEF FilesTyped, ReloadEnds, JsonLoadEnds, HitlInstalls, Ends
  <2> QED
    BY <2>1, <2>2 DEF FilesTyped
<1> QED
  BY <1>1, <1>2, <1>3, <1>4, <1>5, <1>6 DEF HotNext, TimersFire, LoadsEnd

(* Only an edit, a read of the HITL policy or its end concerns the marks.  *)
LEMMA MarksKept ==
  ASSUME HitlMarked, UNCHANGED <<edits, hitlSeen>>, HitlLoads' \subseteq HitlLoads,
         "hitl" \in timers' => "hitl" \in timers
  PROVE  HitlMarked'
BY DEF HitlMarked

(* Every step keeps the reads in the order of their marks.                 *)
LEMMA NextMarked == FilesTyped /\ HitlMarked /\ [HotNext]_hotVars => HitlMarked'
<1> SUFFICES ASSUME FilesTyped, HitlMarked, [HotNext]_hotVars PROVE HitlMarked'
  OBVIOUS
<1> USE DEF lifeVars, hitlVars, engineVars
<1>1. CASE Operator
  <2>1. edits' = edits + 1 /\ UNCHANGED <<hitlSeen, loads>>
    BY <1>1 DEF Operator, WriteJson, RemoveBundle, RemoveRules, WriteMode, WriteTs, WriteHitl,
       Edits
  <2>2. HitlLoads' = HitlLoads /\ edits \in Nat /\ hitlSeen \in Nat
        /\ \A l \in HitlLoads : l.mark \in Nat
    BY <2>1 DEF HitlLoads, FilesTyped
  <2> QED
    BY <2>1, <2>2 DEF HitlMarked
<1>2. \A kind, what, mark : Reads(kind, what, mark) /\ kind # "hitl" => HitlLoads' = HitlLoads
  BY DEF Reads, HitlLoads
<1>3. CASE HitlReads
  <2>1. /\ timers' = timers \ {"hitl"} /\ UNCHANGED <<edits, hitlSeen>>
        /\ loads' = loads \cup {[kind |-> "hitl", read |-> disk.hitl, mark |-> edits]}
    BY <1>3 DEF HitlReads, Fires, Reads
  <2>2. HitlLoads' = HitlLoads \cup {[kind |-> "hitl", read |-> disk.hitl, mark |-> edits]}
    BY <2>1 DEF HitlLoads
  <2> QED
    BY <2>1, <2>2 DEF HitlMarked, FilesTyped
<1>4. CASE ReloadStarts \/ AdapterReads \/ StoreChanged
  <2>1. HitlLoads' = HitlLoads /\ UNCHANGED <<edits, hitlSeen>> /\ timers' \subseteq timers
    BY <1>2, <1>4 DEF ReloadStarts, AdapterReads, StoreChanged, Fires, HitlLoads
  <2> QED
    BY <2>1, MarksKept
<1>5. CASE ReloadMode \/ StopHitl \/ StopRules \/ StopAdapter \/ Activate \/ UNCHANGED hotVars
             \/ \E t \in {"bundle", "rules"} : ReloadJsonRules(t)
  <2>1. HitlLoads' = HitlLoads /\ UNCHANGED <<edits, hitlSeen>> /\ timers' \subseteq timers
    BY <1>5 DEF ReloadMode, StopHitl, StopRules, StopAdapter, Activate, hotVars,
       ReloadJsonRules, Fires, HitlLoads
  <2> QED
    BY <2>1, MarksKept
<1>6. ASSUME NEW l \in loads, ReloadEnds(l) \/ JsonLoadEnds(l) PROVE HitlMarked'
  <2>1. HitlLoads' \subseteq HitlLoads /\ UNCHANGED <<edits, hitlSeen, timers>>
    BY <1>6 DEF ReloadEnds, JsonLoadEnds, Ends, HitlLoads
  <2> QED
    BY <2>1, MarksKept
<1>7. ASSUME NEW l \in loads, AdapterApplies(l) PROVE HitlMarked'
  <2>1. HitlLoads' \subseteq HitlLoads /\ UNCHANGED <<edits, hitlSeen>>
    BY <1>7 DEF AdapterApplies, HitlLoads
  <2>2. "hitl" \in timers' => "hitl" \in timers
    <3>1. l.mark \in 0..activations /\ adapters[l.mark].file \in {"bundle", "rules"}
      BY <1>7 DEF AdapterApplies, FilesTyped
    <3> QED
      BY <1>7, <3>1 DEF AdapterApplies, Arm
  <2> QED
    BY <2>1, <2>2, MarksKept
<1>8. ASSUME NEW l \in loads, HitlInstalls(l) PROVE HitlMarked'
  <2>1. /\ l \in HitlLoads /\ HitlLoads' \subseteq HitlLoads /\ UNCHANGED <<edits, timers>>
        /\ hitlSeen' \in {hitlSeen, l.mark}
    BY <1>8 DEF HitlInstalls, Ends, HitlLoads
  <2> QED
    BY <2>1 DEF HitlMarked
<1> QED
  BY <1>1, <1>3, <1>4, <1>5, <1>6, <1>7, <1>8 DEF HotNext, TimersFire, LoadsEnd

(* What keeps a file followed: nothing about it changes, and its timer     *)
(* stays armed.                                                            *)
LEMMA JsonKept ==
  ASSUME JsonFollowed, disk'.bundle = disk.bundle, disk'.rules = disk.rules,
         UNCHANGED <<engine, cache>>, timers \cap {"bundle", "rules"} \subseteq timers'
  PROVE  JsonFollowed'
BY JsonOfDisk DEF JsonFollowed

LEMMA HitlKept ==
  ASSUME HitlFollowed, disk'.hitl = disk.hitl, UNCHANGED <<hitlVars, hitlWatched>>,
         HitlLoads' = HitlLoads, "hitl" \in timers => "hitl" \in timers'
  PROVE  HitlFollowed'
<1>1. NewestRead => NewestRead'
  BY DEF NewestRead, hitlVars
<1>2. ASSUME NEW l \in loads, NewestReads(l) PROVE l \in loads' /\ NewestReads(l)'
  BY <1>2 DEF NewestReads, hitlVars, HitlLoads
<1> QED
  BY <1>1, <1>2 DEF HitlFollowed, hitlVars

(* The edits of the operator.                                              *)
LEMMA EditsFollowed ==
  ASSUME FilesTyped, stage = "up", JsonFollowed, HitlFollowed, Operator
  PROVE  JsonFollowed' /\ HitlFollowed'
<1>1. HitlLoads' = HitlLoads /\ UNCHANGED <<engine, cache, hitlVars, hitlWatched>>
  BY DEF Operator, WriteJson, RemoveBundle, RemoveRules, WriteMode, WriteTs, WriteHitl, Edits,
         HitlLoads, engineVars, lifeVars
<1>2. ASSUME NEW f \in {"bundle", "rules"}, WriteJson(f)
      PROVE  JsonFollowed' /\ HitlFollowed'
  <2>1. f \in timers' /\ timers \subseteq timers' /\ disk'.hitl = disk.hitl
    BY <1>2 DEF WriteJson, Edits, Arm, Hears, FilesTyped
  <2> QED
    BY <1>1, <2>1, HitlKept DEF JsonFollowed
<1>3. CASE RemoveBundle
  <2>1. "bundle" \in timers' /\ timers \subseteq timers' /\ disk'.hitl = disk.hitl
    BY <1>3 DEF RemoveBundle, Edits, Arm, Hears, FilesTyped
  <2> QED
    BY <1>1, <2>1, HitlKept DEF JsonFollowed
<1>4. CASE RemoveRules
  <2>1. /\ timers' = timers /\ disk'.hitl = disk.hitl /\ disk'.bundle = disk.bundle
        /\ disk'.rules = Absent
    BY <1>4 DEF RemoveRules, Edits, FilesTyped
  <2>2. ASSUME disk.bundle = Absent PROVE JsonFollowed'
    <3>1. resolveActiveJsonRulesFile' = Absent
      BY <2>1, <2>2 DEF resolveActiveJsonRulesFile
    <3> QED
      BY <3>1 DEF JsonFollowed
  <2>3. ASSUME disk.bundle # Absent PROVE JsonFollowed'
    <3>1. resolveActiveJsonRulesFile' = resolveActiveJsonRulesFile
      BY <2>1, <2>3 DEF resolveActiveJsonRulesFile
    <3>2. LoadedJson' = LoadedJson
      BY <3>1 DEF LoadedJson
    <3> QED
      BY <1>1, <2>1, <3>1, <3>2 DEF JsonFollowed
  <2> QED
    BY <1>1, <2>1, <2>2, <2>3, HitlKept
<1>5. CASE WriteMode \/ WriteTs
  <2>1. /\ timers \subseteq timers' /\ disk'.hitl = disk.hitl /\ disk'.bundle = disk.bundle
        /\ disk'.rules = disk.rules
    BY <1>5 DEF WriteMode, WriteTs, Edits, Arm, FilesTyped
  <2> QED
    BY <1>1, <2>1, JsonKept, HitlKept
<1>6. CASE WriteHitl
  <2>1. /\ "hitl" \in timers' /\ timers \subseteq timers' /\ disk'.bundle = disk.bundle
        /\ disk'.rules = disk.rules
    BY <1>6 DEF WriteHitl, Edits, Arm, Hears, FilesTyped, HitlFollowed
  <2>2. HitlFollowed'
    BY <1>1, <2>1 DEF HitlFollowed, hitlVars
  <2> QED
    BY <1>1, <2>1, <2>2, JsonKept
<1> QED
  BY <1>2, <1>3, <1>4, <1>5, <1>6 DEF Operator

(* The timers.                                                             *)
LEMMA TimersFollowed ==
  ASSUME FilesTyped, HitlMarked, JsonFollowed, HitlFollowed, TimersFire \/ StoreChanged
  PROVE  JsonFollowed' /\ HitlFollowed'
<1> USE DEF engineVars, lifeVars
<1>1. \A kind, what, mark : Reads(kind, what, mark) /\ kind # "hitl" => HitlLoads' = HitlLoads
  BY DEF Reads, HitlLoads
<1>2. CASE ReloadStarts \/ AdapterReads \/ StoreChanged
  <2>1. /\ HitlLoads' = HitlLoads /\ UNCHANGED <<disk, engine, cache, hitlVars, hitlWatched>>
        /\ timers \cap {"bundle", "rules", "hitl"} \subseteq timers'
    BY <1>1, <1>2 DEF ReloadStarts, AdapterReads, StoreChanged, Fires, HitlLoads
  <2> QED
    BY <2>1, JsonKept, HitlKept
<1>3. CASE HitlReads
  <2>0. PICK l : l = [kind |-> "hitl", read |-> disk.hitl, mark |-> edits]
    OBVIOUS
  <2>1. /\ UNCHANGED <<disk, engine, cache, hitlVars, hitlWatched>>
        /\ "hitl" \in timers /\ timers' = timers \ {"hitl"} /\ loads' = loads \cup {l}
        /\ l.kind = "hitl" /\ l.read = disk.hitl /\ l.mark = edits
    BY <1>3, <2>0 DEF HitlReads, Fires, Reads
  <2>2. HitlLoads' = HitlLoads \cup {l}
    BY <2>1 DEF HitlLoads
  <2>3. NewestReads(l)'
    BY <2>1, <2>2 DEF NewestReads, HitlMarked, hitlVars
  <2>4. HitlFollowed'
    BY <2>1, <2>3 DEF HitlFollowed, hitlVars
  <2> QED
    BY <2>1, <2>4, JsonKept
<1>4. CASE ReloadMode
  <2>1. /\ UNCHANGED <<disk, hitlVars, hitlWatched, loads>> /\ timers' = timers \ {"mode"}
        /\ HitlLoads' = HitlLoads
    BY <1>4 DEF ReloadMode, Fires, HitlLoads
  <2>2. CASE UNCHANGED <<engine, cache>>
    BY <2>1, <2>2, JsonKept, HitlKept
  <2>3. CASE ~ UNCHANGED <<engine, cache>>
    <3>1. engine'.json = LoadedJson /\ cache'.json = LoadedJson
      BY <1>4, <2>3 DEF ReloadMode, rebuildEngine
    <3> QED
      BY <2>1, <3>1, JsonOfDisk, HitlKept DEF JsonFollowed
  <2> QED
    BY <2>2, <2>3
<1>5. ASSUME NEW t \in {"bundle", "rules"}, ReloadJsonRules(t)
      PROVE  JsonFollowed' /\ HitlFollowed'
  <2>1. /\ UNCHANGED <<disk, hitlVars, hitlWatched, loads>> /\ timers' = timers \ {t}
        /\ HitlLoads' = HitlLoads
        /\ engine'.json = LoadedJson /\ cache'.json = LoadedJson
    BY <1>5 DEF ReloadJsonRules, Fires, HitlLoads, rebuildEngine, FilesTyped
  <2> QED
    BY <2>1, JsonOfDisk, HitlKept DEF JsonFollowed
<1> QED
  BY <1>2, <1>3, <1>4, <1>5 DEF TimersFire

(* The end of a read of the HITL policy: of the newest, or of an older one *)
(* before the newest ends, or after.                                       *)
LEMMA InstallFollowed ==
  ASSUME FilesTyped, HitlFollowed, NEW l \in loads, HitlInstalls(l)
  PROVE  HitlFollowed'
<1>1. /\ UNCHANGED <<disk, timers, hitlWatched>> /\ l \in HitlLoads
      /\ HitlLoads' = HitlLoads \ {l} /\ HitlLoads' \subseteq loads'
      /\ hitlSeen' = IF l.mark < hitlSeen THEN hitlSeen ELSE l.mark
      /\ IF l.read = -1
           THEN UNCHANGED <<config, overtaken>>
           ELSE config' = l.read /\ overtaken' = (l.mark < hitlSeen)
  BY DEF HitlInstalls, Ends, HitlLoads, lifeVars
<1>2. l.read \in -1..1 /\ l.mark \in Nat /\ hitlSeen \in Nat /\ \A m \in HitlLoads : m.mark \in Nat
  BY <1>1 DEF FilesTyped, HitlLoads
<1>3. config' # Absent /\ hitlWatched'
  BY <1>1, <1>2, HotReloadBounds DEF HitlFollowed
<1>4. CASE "hitl" \in timers
  BY <1>1, <1>3, <1>4 DEF HitlFollowed
<1>5. CASE NewestRead
  BY <1>1, <1>2, <1>3, <1>5 DEF HitlFollowed, NewestRead
<1>6. ASSUME NEW n \in loads, NewestReads(n) PROVE HitlFollowed'
  <2>1. CASE n = l
    BY <1>1, <1>2, <1>3, <1>6, <2>1 DEF HitlFollowed, NewestRead, NewestReads
  <2>2. CASE n # l
    <3>1. NewestReads(n)' /\ n \in loads'
      BY <1>1, <1>2, <1>6, <2>2 DEF NewestReads
    <3> QED
      BY <1>3, <3>1 DEF HitlFollowed
  <2> QED
    BY <2>1, <2>2
<1> QED
  BY <1>4, <1>5, <1>6 DEF HitlFollowed

(* The ends of the loads.                                                  *)
LEMMA LoadsFollowed ==
  ASSUME FilesTyped, stage = "up", JsonFollowed, HitlFollowed,
         NEW l \in loads, ReloadEnds(l) \/ JsonLoadEnds(l) \/ AdapterApplies(l) \/ HitlInstalls(l)
  PROVE  JsonFollowed' /\ HitlFollowed'
<1> USE DEF engineVars, lifeVars
<1>1. CASE ReloadEnds(l)
  <2>1. UNCHANGED <<disk, hitlVars, hitlWatched, timers>> /\ HitlLoads' = HitlLoads
    BY <1>1 DEF ReloadEnds, Ends, HitlLoads
  <2>2. CASE UNCHANGED <<engine, cache>>
    BY <2>1, <2>2, JsonKept, HitlKept
  <2>3. CASE ~ UNCHANGED <<engine, cache>>
    <3>1. engine'.json = LoadedJson \cup cache.json /\ cache'.json = LoadedJson
      BY <1>1, <2>3 DEF ReloadEnds, rebuildEngine
    <3>2. cache.json = LoadedJson => engine'.json = LoadedJson
      BY <3>1
    <3> QED
      BY <2>1, <3>1, <3>2, JsonOfDisk, HitlKept DEF JsonFollowed
  <2> QED
    BY <2>2, <2>3
<1>2. CASE JsonLoadEnds(l)
  <2>1. UNCHANGED <<disk, hitlVars, hitlWatched, timers, engine, cache>> /\ HitlLoads' = HitlLoads
    BY <1>2 DEF JsonLoadEnds, Ends, HitlLoads
  <2> QED
    BY <2>1, JsonKept, HitlKept
<1>3. CASE AdapterApplies(l)
  <2>1. l.mark \in 0..activations /\ adapters[l.mark].file \in {"bundle", "rules"}
    BY <1>3 DEF AdapterApplies, FilesTyped
  <2>2. /\ UNCHANGED <<hitlVars, hitlWatched, engine, cache>> /\ HitlLoads' = HitlLoads
        /\ timers \subseteq timers' /\ disk'.hitl = disk.hitl
    BY <1>3, <2>1 DEF AdapterApplies, HitlLoads, Arm, FilesTyped
  <2>3. CASE UNCHANGED disk
    BY <2>2, <2>3, JsonKept, HitlKept
  <2>4. CASE ~ UNCHANGED disk
    <3>1. adapters[l.mark].file \in timers'
      BY <1>3, <2>1, <2>4 DEF AdapterApplies, Arm, Hears
    <3> QED
      BY <2>1, <2>2, <3>1, HitlKept DEF JsonFollowed
  <2> QED
    BY <2>3, <2>4
<1>4. CASE HitlInstalls(l)
  <2>1. UNCHANGED <<disk, timers, engine, cache>>
    BY <1>4 DEF HitlInstalls
  <2> QED
    BY <1>4, <2>1, InstallFollowed, JsonKept
<1> QED
  BY <1>1, <1>2, <1>3, <1>4

(* No edit is missed, whatever imports, mode switches, deletions and reads *)
(* that overlap it meets.                                                  *)
THEOREM FollowTheorem == HotSpec => []NoEditMissed
<1>1. FilesInv /\ [HotNext]_hotVars => FilesInv'
  <2> SUFFICES ASSUME FilesInv, [HotNext]_hotVars, stage' = "up", activations' = 0
               PROVE  JsonFollowed' /\ HitlFollowed'
    BY NextTyped, NextMarked DEF FilesInv
  <2> USE DEF lifeVars
  <2>1. ~ Activate /\ ~ StopHitl /\ ~ StopRules /\ ~ StopAdapter
    BY DEF Activate, StopHitl, StopRules, StopAdapter, FilesInv, FilesTyped
  <2>2. stage = "up" /\ activations = 0
    <3>1. LoadsEnd => UNCHANGED <<stage, activations>>
      BY DEF LoadsEnd, ReloadEnds, JsonLoadEnds, AdapterApplies, HitlInstalls
    <3>2. TimersFire \/ StoreChanged => UNCHANGED <<stage, activations>>
      BY DEF TimersFire, ReloadStarts, ReloadMode, AdapterReads, HitlReads, ReloadJsonRules,
             StoreChanged
    <3>3. Operator => UNCHANGED <<stage, activations>>
      BY DEF Operator, WriteJson, RemoveBundle, RemoveRules, WriteMode, WriteTs, WriteHitl, Edits
    <3> QED
      BY <2>1, <3>1, <3>2, <3>3 DEF HotNext, hotVars
  <2>3. FilesTyped /\ HitlMarked /\ JsonFollowed /\ HitlFollowed
    BY <2>2 DEF FilesInv
  <2>4. CASE UNCHANGED hotVars
    <3>1. HitlLoads' = HitlLoads
      BY <2>4 DEF hotVars, HitlLoads
    <3> QED
      BY <2>3, <2>4, <3>1, JsonKept, HitlKept DEF hotVars, engineVars
  <2> QED
    BY <2>1, <2>2, <2>3, <2>4, EditsFollowed, TimersFollowed, LoadsFollowed DEF HotNext, LoadsEnd
<1>2. FilesInv => NoEditMissed
  <2> SUFFICES ASSUME FilesInv, stage = "up", activations = 0
               PROVE  /\ "bundle" \in timers \/ "rules" \in timers \/ EngineFollows
                      /\ \/ "hitl" \in timers
                         \/ \E l \in loads : l.kind = "hitl" /\ l.read = disk.hitl
                         \/ HitlPolicyFollows
    BY DEF NoEditMissed
  <2>1. "bundle" \in timers \/ "rules" \in timers \/ EngineFollows
    <3>1. JsonFollowed
      BY DEF FilesInv
    <3>2. resolveActiveJsonRulesFile # Absent /\ resolveActiveJsonRulesFile.form # "garbled"
            => LoadedJson = resolveActiveJsonRulesFile.rules
      BY DEF LoadedJson
    <3> QED
      BY <3>1, <3>2 DEF JsonFollowed, EngineFollows
  <2>2. \/ "hitl" \in timers
        \/ \E l \in loads : l.kind = "hitl" /\ l.read = disk.hitl
        \/ HitlPolicyFollows
    BY DEF FilesInv, HitlFollowed, NewestRead, NewestReads, HitlLoads, HitlPolicyFollows
  <2> QED
    BY <2>1, <2>2
<1> QED
  BY <1>1, <1>2, InitFollowed, PTL DEF HotSpec
=============================================================================
