---------------------------- MODULE AutoPermitStore ----------------------------
(***************************************************************************)
(* The file of Approve Always patterns, data/auto-permits.json:            *)
(* persistAutoPermitPattern and revokeAutoPermitForTelegram of             *)
(* src/src/index.ts over loadAutoPermitRulesFromFile, saveAutoPermitRules  *)
(* and watchAutoPermitStore of src/src/auto-permits/store.ts, the command  *)
(* line tool src/scripts/auto-permits.mjs, a process of its own, and the   *)
(* in-memory checker that loadAutoPermitRules installs.                    *)
(*                                                                         *)
(* Each operation reads the store, writes the whole new store to one       *)
(* shared temporary name, renames it over the store and reloads; every     *)
(* await is a step boundary.  Names refer to inodes, as in a POSIX file    *)
(* system: a file renamed while another operation has it open keeps        *)
(* receiving that operation's write.                                       *)
(***************************************************************************)
EXTENDS Naturals, SequencesExt

CONSTANTS
    Ops,          \* operations [id : 1.., kind, pattern]; a removal with an
                  \* index goes by that, not by its pattern
    Stored,       \* the patterns in the store at the start, a sequence
    MaxInFlight,  \* how many operations overlap
    MaxLoads,     \* how many reads of the watcher overlap
    None

VARIABLES
    store,    \* inode of auto-permits.json, None if absent
    tmp,      \* inode of auto-permits.json.tmp, None if absent
    content,  \* contents of the inodes
    phase,    \* the await each operation is in
    seen,     \* what it read first: [version, rules, found]
    fd,       \* the inode it has open for writing
    checker,  \* patterns of autoPermitCheckerRef.current, None if undefined
    changed,  \* a file event is waiting for the watcher's debounce
    reads,    \* the reloads under way, as they began: [op, saw, late], whose
              \* (None for the watcher's), what it has read, and (history)
              \* whether one that began later has been installed
    shared,      \* history: inodes that two operations had in hand at once
    mixed,       \* history: such an inode has been renamed over the store
    before,      \* history: which operations had landed when one read the store
    overwritten, \* history: those replaced by one that had read before they landed
    overtaken    \* history: the checker comes from a read that was late

historyVars == <<shared, mixed, before, overwritten, overtaken>>
vars == <<store, tmp, content, phase, seen, fd, checker, changed, reads, historyVars>>

(* Inode 0 is the initial store; every operation can create one.           *)
Inodes == {0} \cup {o.id : o \in Ops}
Patterns == Range(Stored) \cup {o.pattern : o \in Ops}

\* Operations of the gateway, which end with it, and of the command line.
Cli == {o \in Ops : o.kind \in {"cliRemove", "cliRevoke"}}

(* The text of a file.  What is not valid JSON reads as an empty store of  *)
(* version 0.                                                              *)
File(version, rules) == [json |-> TRUE, version |-> version, rules |-> rules]
Truncated == [json |-> FALSE, version |-> 0, rules |-> <<>>]
Garbled == [json |-> FALSE, version |-> 0, rules |-> <<None>>]

Busy == {o \in Ops : phase[o] \notin {"idle", "done", "failed", "dead"}}

TypeOK ==
    /\ store \in Inodes \cup {None} /\ tmp \in Inodes \cup {None}
    /\ \A i \in Inodes : \/ content[i] \in {Truncated, Garbled}
                         \/ /\ content[i].version \in Nat \ {0}
                            /\ content[i].rules \in Seq(Patterns)
    /\ phase \in [Ops -> {"idle", "begun", "read", "opened", "written", "renamed",
                          "reloading", "installed", "done", "failed", "dead"}]
    /\ \A o \in Ops : fd[o] \in Inodes \cup {None}
    /\ checker = None \/ checker \in Seq(Patterns)
    /\ changed \in BOOLEAN /\ mixed \in BOOLEAN /\ overtaken \in BOOLEAN
    /\ \A i \in DOMAIN reads : reads[i].op \in Ops \cup {None} /\ reads[i].late \in BOOLEAN
    /\ shared \subseteq Inodes /\ overwritten \subseteq Ops /\ before \in [Ops -> SUBSET Ops]

Init ==
    /\ store = IF Stored = <<>> THEN None ELSE 0
    /\ tmp = None
    /\ content = [i \in Inodes |-> IF i = 0 THEN File(1, Stored) ELSE Truncated]
    /\ phase = [o \in Ops |-> "idle"]
    /\ seen = [o \in Ops |-> None]
    /\ fd = [o \in Ops |-> None]
    /\ checker = IF Stored = <<>> THEN None ELSE Stored
    /\ changed = FALSE
    /\ reads = <<>>
    /\ shared = {} /\ mixed = FALSE /\ overtaken = FALSE
    /\ before = [o \in Ops |-> {}] /\ overwritten = {}

-----------------------------------------------------------------------------
(* loadAutoPermitRulesFromFile: an absent file is empty, version 0; so is  *)
(* one that is not valid JSON, but it counts as found.                     *)
loadAutoPermitRulesFromFile ==
    LET text == IF store = None THEN Truncated ELSE content[store]
    IN  [version |-> text.version, found |-> store # None,
         rules |-> IF text.json THEN text.rules ELSE <<>>]

(* The rule an operation removes, by its place (counted from 1 in the chat *)
(* and from 0 on the command line) or as the first with its pattern; 0 if  *)
(* there is none.                                                          *)
ByIndex == {o \in Ops : "index" \in DOMAIN o}
findRule(o, rules) ==
    IF o \in ByIndex
    THEN LET i == IF o.kind = "revoke" THEN o.index ELSE o.index + 1
         IN  IF i \in DOMAIN rules THEN i ELSE 0
    ELSE SelectInSeq(rules, LAMBDA p : p = o.pattern)

(* Mutated form: the new pattern replaces the rules that were read.        *)
NewRulesReplacing(o, rules) ==
    IF o.kind = "persist" THEN <<o.pattern>> ELSE RemoveAt(rules, findRule(o, rules))

(* The new rules: the pattern appended, or the rule removed.               *)
NewRules(o, rules) ==
    IF o.kind = "persist" THEN Append(rules, o.pattern) ELSE RemoveAt(rules, findRule(o, rules))

(* The operations whose new file has been renamed over the store, and      *)
(* those that died and may have done it.                                   *)
Landed == {o \in Ops : phase[o] \in {"renamed", "reloading", "installed", "done"}}
MayHaveLanded == Landed \cup {o \in Ops : phase[o] = "dead"}

(* A tap on Save, /revoke, or the command line starts an operation.        *)
Begin(o) ==
    /\ phase[o] = "idle" /\ Cardinality(Busy) < MaxInFlight
    /\ phase' = [phase EXCEPT ![o] = "begun"]
    /\ UNCHANGED <<store, tmp, content, seen, fd, checker, changed, reads, historyVars>>

(* The store is read.  A removal that does not find its rule ends here; on *)
(* the command line also when the file is missing or no JSON, in which     *)
(* there are no rules.                                                     *)
Reads(o) ==
    LET r == loadAutoPermitRulesFromFile
    IN  /\ phase[o] = "begun"
        /\ seen' = [seen EXCEPT ![o] = r]
        /\ phase' = [phase EXCEPT ![o] =
                       IF o.kind # "persist" /\ findRule(o, r.rules) = 0 THEN "failed" ELSE "read"]
        /\ before' = [before EXCEPT ![o] = MayHaveLanded]
        /\ UNCHANGED <<store, tmp, content, fd, checker, changed, reads,
                       shared, mixed, overwritten, overtaken>>
ReadStore(o) == o \notin Cli /\ Reads(o)
cmdRevoke(o) == o.kind = "cliRevoke" /\ Reads(o)
cmdRemove(o) == o.kind = "cliRemove" /\ Reads(o)

(* cmdRemove asks, unless --yes: the operator says no, or it was a dry run.*)
NotConfirmed(o) ==
    /\ o.kind = "cliRemove" /\ phase[o] = "read"
    /\ phase' = [phase EXCEPT ![o] = "failed"]
    /\ UNCHANGED <<store, tmp, content, seen, fd, checker, changed, reads, historyVars>>

(* Mutated form: the store file itself is opened for writing.              *)
OpenInPlace(o) ==
    /\ phase[o] = "read"
    /\ LET i == IF store = None THEN o.id ELSE store
       IN  /\ store' = i
           /\ content' = [content EXCEPT ![i] = Truncated]
           /\ fd' = [fd EXCEPT ![o] = i]
    /\ phase' = [phase EXCEPT ![o] = "opened"]
    /\ UNCHANGED <<tmp, seen, checker, changed, reads, historyVars>>

(* writeFile(tmpPath), first half: open with O_CREAT | O_TRUNC.            *)
OpenTmp(o) ==
    /\ phase[o] = "read"
    /\ LET i == IF tmp = None THEN o.id ELSE tmp
       IN  /\ tmp' = i
           /\ content' = [content EXCEPT ![i] = Truncated]
           /\ fd' = [fd EXCEPT ![o] = i]
           /\ shared' = IF \E q \in Ops : fd[q] = i THEN shared \cup {i} ELSE shared \ {i}
    /\ phase' = [phase EXCEPT ![o] = "opened"]
    /\ UNCHANGED <<store, seen, checker, changed, reads, mixed, before, overwritten, overtaken>>

(* What the operation writes: its rules under the next version.            *)
NewFile(o) == File(seen[o].version + 1, NewRules(o, seen[o].rules))

(* writeFile(tmpPath), second half.  Over what another operation wrote     *)
(* through the same inode, the longer of the two leaves a tail.  The inode *)
(* may be the store by now: the watcher sees that.                         *)
WriteTmp(o) ==
    /\ phase[o] = "opened"
    /\ \E bytes \in {NewFile(o)} \cup
                    (IF content[fd[o]] = Truncated THEN {} ELSE {Garbled}) :
          content' = [content EXCEPT ![fd[o]] = bytes]
    /\ phase' = [phase EXCEPT ![o] = "written"]
    /\ changed' = (changed \/ fd[o] = store)
    /\ UNCHANGED <<store, tmp, seen, fd, checker, reads, historyVars>>

(* Writing fails: the operation gives up, the temporary file stays.        *)
WriteFails(o) ==
    /\ phase[o] = "opened"
    /\ fd' = [fd EXCEPT ![o] = None]
    /\ phase' = [phase EXCEPT ![o] = "failed"]
    /\ UNCHANGED <<store, tmp, content, seen, checker, changed, reads, historyVars>>

(* What the rename leaves behind: an inode that another operation had in   *)
(* hand, and rules written without those that landed since they were read. *)
Records(o) ==
    /\ shared' = IF fd[o] = tmp THEN shared ELSE shared \cup {tmp}
    /\ mixed' = (mixed \/ tmp \in shared')
    /\ overwritten' = overwritten \cup (MayHaveLanded \ before[o])

(* rename(tmpPath, storePath); another operation may have renamed it away. *)
(* The command line is done, the gateway loads the store again.            *)
RenameTmp(o) ==
    /\ phase[o] = "written"
    /\ fd' = [fd EXCEPT ![o] = None]
    /\ IF tmp = None
         THEN /\ phase' = [phase EXCEPT ![o] = "failed"]
              /\ UNCHANGED <<store, tmp, changed, shared, mixed, overwritten>>
         ELSE /\ store' = tmp /\ tmp' = None /\ changed' = TRUE
              /\ phase' = [phase EXCEPT ![o] = IF o \in Cli THEN "done" ELSE "renamed"]
              /\ Records(o)
    /\ UNCHANGED <<content, seen, checker, reads, before, overtaken>>

(* loadAutoPermitRules: the read ...                                       *)
BeginsRead(by) ==
    reads' = Append(reads, [op |-> by, saw |-> loadAutoPermitRulesFromFile, late |-> FALSE])

(* Mutated form: only a missing checker is created, never replaced.        *)
InstallOnce(r) == checker' = IF r.found /\ checker = None THEN r.rules ELSE checker

(* Installing what was read: nothing when the file was not found.          *)
Install(r) == checker' = IF r.found THEN r.rules ELSE checker

(* ... and the new FileAutoPermitChecker: reads return in any order.       *)
Installs(i) ==
    /\ Install(reads[i].saw)
    /\ reads' = RemoveAt([j \in DOMAIN reads |->
                             IF j < i THEN [reads[j] EXCEPT !.late = TRUE] ELSE reads[j]], i)
    /\ overtaken' = reads[i].late

(* The reload that an operation awaits.                                    *)
ReloadReads(o) ==
    /\ phase[o] = "renamed"
    /\ BeginsRead(o)
    /\ phase' = [phase EXCEPT ![o] = "reloading"]
    /\ UNCHANGED <<store, tmp, content, seen, fd, checker, changed, historyVars>>

ReloadInstalls(o) ==
    /\ phase[o] = "reloading"
    /\ \E i \in DOMAIN reads : reads[i].op = o /\ Installs(i)
    /\ phase' = [phase EXCEPT ![o] = IF o.kind = "revoke" THEN "installed" ELSE "done"]
    /\ UNCHANGED <<store, tmp, content, seen, fd, changed, shared, mixed, before, overwritten>>

(* /revoke waits for the JSON rules to be loaded again before it answers.  *)
RevokeAnswers(o) ==
    /\ phase[o] = "installed"
    /\ phase' = [phase EXCEPT ![o] = "done"]
    /\ UNCHANGED <<store, tmp, content, seen, fd, checker, changed, reads, historyVars>>

(* Mutated form: an event during the watcher's own reload is dropped.      *)
WatcherReadsOnce ==
    /\ changed /\ changed' = FALSE
    /\ IF \E i \in DOMAIN reads : reads[i].op = None
         THEN UNCHANGED reads ELSE BeginsRead(None)
    /\ UNCHANGED <<store, tmp, content, phase, seen, fd, checker, historyVars>>

(* The watcher's callback after the debounce starts a loadAutoPermitRules  *)
(* of its own, which no earlier one holds back.                            *)
WatcherReads ==
    /\ changed /\ Cardinality({i \in DOMAIN reads : reads[i].op = None}) < MaxLoads
    /\ changed' = FALSE
    /\ BeginsRead(None)
    /\ UNCHANGED <<store, tmp, content, phase, seen, fd, checker, historyVars>>

WatcherInstalls ==
    /\ \E i \in DOMAIN reads : reads[i].op = None /\ Installs(i)
    /\ UNCHANGED <<store, tmp, content, phase, seen, fd, changed, shared, mixed, before, overwritten>>

(* The gateway dies and activate loads the store again; a temporary file   *)
(* stays behind.                                                           *)
Restart ==
    /\ phase' = [o \in Ops |-> IF o \in Busy \ Cli THEN "dead" ELSE phase[o]]
    /\ fd' = [o \in Ops |-> IF o \in Cli THEN fd[o] ELSE None]
    /\ checker' = IF loadAutoPermitRulesFromFile.found
                    THEN loadAutoPermitRulesFromFile.rules ELSE None
    /\ changed' = FALSE /\ reads' = <<>> /\ overtaken' = FALSE
    /\ UNCHANGED <<store, tmp, content, seen, shared, mixed, before, overwritten>>

(* What an operation that has begun, or the watcher, does next.            *)
Proceed(o) ==
    \/ ReadStore(o) \/ cmdRevoke(o) \/ cmdRemove(o) \/ NotConfirmed(o)
    \/ OpenTmp(o) \/ WriteTmp(o) \/ WriteFails(o) \/ RenameTmp(o)
    \/ ReloadReads(o) \/ ReloadInstalls(o)
Watcher == WatcherReads \/ WatcherInstalls

Next ==
    \/ \E o \in Ops : Begin(o) \/ Proceed(o) \/ RevokeAnswers(o)
    \/ Watcher
    \/ Restart

(* The watcher's timer fires and its reads return.                         *)
Fairness == WF_vars(WatcherReads) /\ WF_vars(WatcherInstalls)

Spec == Init /\ [][Next]_vars /\ Fairness

-----------------------------------------------------------------------------
(* Properties                                                              *)

StoredRules == loadAutoPermitRulesFromFile.rules

(* store.ts: write-to-temp-then-rename "to ensure the file is never left   *)
(* in a partially written state", a crash at any point included.  It is    *)
(* left so only when an operation opened the temporary file that another   *)
(* was still writing or about to rename, or renamed that of another; and   *)
(* the next file that one operation writes alone is whole again.           *)
NeverPartial == store # None /\ ~content[store].json => store \in shared

(* As long as no such file has become the store: a pattern reported saved  *)
(* is in the store, and a pattern reported revoked or removed is not,      *)
(* unless an operation that may have reached the file undid that, or one   *)
(* that had read the file before has landed after.  And each of them costs *)
(* no other rule: of the rules there were at first, as many are gone at    *)
(* most as removals may have reached the file.                             *)
Undoes(q, o) ==
    IF o.kind = "persist"
    THEN q.kind # "persist" /\ (q \in ByIndex \/ q.pattern = o.pattern)
    ELSE q.kind = "persist" /\ q.pattern = o.pattern
ReportedIsStored ==
    ~mixed =>
       /\ \A o \in Landed \ (ByIndex \cup overwritten) :
             \/ (o.kind = "persist") <=> (o.pattern \in Range(StoredRules))
             \/ \E q \in MayHaveLanded : Undoes(q, o)
       /\ Cardinality(Range(Stored) \ Range(StoredRules))
             <= Cardinality({o \in MayHaveLanded : o.kind # "persist"})

(* "so the in-memory checker stays in sync": unless an operation is under  *)
(* way, the rules stage 2 consults end up being those of the file, but for *)
(* a reload that was installed after one that had begun later.             *)
CheckerFollowsStore ==
    []<>(Busy # {} \/ store = None \/ checker = StoredRules \/ overtaken)

(* The same of a moment: no file event waits and no reload is under way.   *)
CheckerInStep ==
    ~changed /\ reads = <<>> => store = None \/ checker = StoredRules \/ overtaken
================================================================================
