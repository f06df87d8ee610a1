------------------------------ MODULE FileTools ------------------------------
(***************************************************************************)
(* The file tools of src/src/tools: write_file, append_file, edit_file,    *)
(* delete_file, copy_file, move_file, create_directory, make_dir, the      *)
(* readers and searchers, and read_files_batch.  All but the last are      *)
(* synchronous, so one call is one step; the batch reads each path in      *)
(* several asynchronous steps (stat, then readFile, which opens the file   *)
(* and reads it piece by piece) and interleaves with the rest.             *)
(*                                                                         *)
(* The file system is a tree of paths; a file's text is a short sequence   *)
(* of letters.  Every system call may fail (disk full, permission), with   *)
(* the partial effect the node API leaves behind.  Symbolic links, modes   *)
(* and times are left out.                                                 *)
(***************************************************************************)
EXTENDS Naturals, Sequences, FiniteSets

CONSTANTS
    Path,       \* absolute, normalised paths
    Root,       \* the path '/'
    Parent,     \* [Path \ {Root} -> Path], dirname
    Device,     \* [Path -> device], rename fails with EXDEV across devices
    Forbidden,  \* FORBIDDEN_PATHS
    Letter,     \* pieces of text; "$&" is the one String.replace expands
    MaxLen,     \* bound on the length of a text
    BatchPaths, \* bound on the paths a batch reads
    Globs       \* sets of paths a glob may match

\* Every protected directory but the root has a protected parent, as the
\* entries of FORBIDDEN_PATHS do ('/usr/local/bin' under '/usr/local' ...).
ASSUME ForbiddenClosed ==
    /\ Forbidden \subseteq Path
    /\ \A p \in Forbidden \ {Root} : Parent[p] \in Forbidden

\* dirname of a path is a path.
ASSUME TreeOfPaths ==
    /\ Root \in Path
    /\ Parent \in [Path \ {Root} -> Path]

ASSUME BatchBounds == MaxLen \in Nat /\ BatchPaths \subseteq Path

VARIABLES
    fs,     \* [Path -> node]
    reply,  \* the code of the last call, and the paths it found
    batch   \* the read_files_batch call under way: [pc, of], of each path
            \* [stage, result, at, text, part, seen]

fileVars == <<fs, reply, batch>>

Text == UNION {[1 .. n -> Letter] : n \in 0 .. MaxLen}
File(t) == [kind |-> "file", text |-> t]
Dir == [kind |-> "dir", text |-> <<>>]
Absent == [kind |-> "absent", text |-> <<>>]

\* The directories above a path: the least set that holds its parent and,
\* with a path, the parent of it.
UpClosed(s) == \A p \in s \ {Root} : Parent[p] \in s
Above ==
    [p \in Path |-> IF p = Root THEN {}
                    ELSE {q \in Path : \A s \in SUBSET Path :
                                           Parent[p] \in s /\ UpClosed(s) => q \in s}]
Below(p) == {q \in Path : p \in Above[q]}
Children(p) == {q \in Path \ {Root} : Parent[q] = p /\ fs[q] # Absent}

-----------------------------------------------------------------------------
(* node:fs, as the tools meet it.                                          *)

\* statSync: ENOTDIR when the path leads through a file.
Stat(p) == IF \E q \in Above[p] : fs[q].kind = "file" THEN "ENOTDIR" ELSE fs[p].kind

\* mkdirSync with recursive, complete or stopped at an ancestor.
Mkdirs(p) == [q \in Path |-> IF q \in Above[p] \cup {p} /\ fs[q] = Absent THEN Dir ELSE fs[q]]
CanMkdirs(p) == \A q \in Above[p] \cup {p} : fs[q].kind # "file"
MkdirFaults(p) == {fs} \cup {Mkdirs(q) : q \in {r \in Above[p] : CanMkdirs(r)}}

\* A write that fails leaves the path alone or holding a prefix.
PartsWritten(t) == {SubSeq(t, 1, n) : n \in 0 .. Len(t)}
WriteFaults(p, kept, t) ==
    MkdirFaults(Parent[p]) \cup
    (IF CanMkdirs(Parent[p]) /\ fs[p].kind # "dir"
     THEN {[Mkdirs(Parent[p]) EXCEPT ![p] = File(kept \o u)] : u \in PartsWritten(t)}
     ELSE {})

\* copyFileSync removes the destination when it fails after opening it.
CanCopyTo(q) == Stat(q) \in {"file", "absent"} /\ fs[Parent[q]] = Dir
CopyFaults(q) == {fs} \cup (IF CanCopyTo(q) THEN {[fs EXCEPT ![q] = Absent]} ELSE {})

\* rmSync with recursive removes children before their parents.
RemoveFaults(p) ==
    {[q \in Path |-> IF q \in gone THEN Absent ELSE fs[q]] :
        gone \in {s \in SUBSET Below(p) : \A q \in s : Below(q) \subseteq s}}

-----------------------------------------------------------------------------
Replies(code, found) == reply' = [code |-> code, found |-> found]

\* A file that the batch has open, after a call that made the tree f: it is
\* known by the path it is at (at; {} once it is unlinked), where calls write
\* in place; to says at which path each file is afterwards.  text is what it
\* holds, seen what it has held since it was opened.
Follows(e, f, to) ==
    LET at == {q \in UNION {to[r] : r \in e.at} : f[q].kind = "file"}
        text == IF at = {} THEN e.text ELSE f[CHOOSE q \in at : TRUE].text
    IN  IF e.stage = "read"
          THEN [e EXCEPT !.at = at, !.text = text, !.seen = @ \cup {text}]
          ELSE e
Witness(b, f, to) == [b EXCEPT !.of = [p \in DOMAIN b.of |-> Follows(b.of[p], f, to)]]

\* Files stay where they are; a rename takes one from p to q, over another.
Staying == [r \in Path |-> {r}]
Renaming(p, q) == [r \in Path |-> IF r = p THEN {q} ELSE {r} \ {q}]

Done(f) == fs' = f /\ Replies("ok", {}) /\ batch' = Witness(batch, f, Staying)
Found(found) == Replies("ok", found) /\ UNCHANGED <<fs, batch>>
Throw(code) == Replies(code, {}) /\ UNCHANGED <<fs, batch>>
\* An fs-error out of a call that had begun to change the tree.
Fault(faults) ==
    \E f \in faults :
        fs' = f /\ Replies("fs-error", {}) /\ batch' = Witness(batch, f, Staying)

WriteFile(p, t) ==
    \/ p \in Forbidden /\ Throw("forbidden")
    \/ p \notin Forbidden /\ Stat(p) = "dir" /\ Throw("not-a-file")
    \/ /\ p \notin Forbidden /\ Stat(p) \in {"file", "absent"}
       /\ Done([Mkdirs(Parent[p]) EXCEPT ![p] = File(t)])
    \/ p \notin Forbidden /\ Stat(p) # "dir" /\ Fault(WriteFaults(p, <<>>, t))

AppendFile(p, t) ==
    \/ p \in Forbidden /\ Throw("forbidden")
    \/ p \notin Forbidden /\ Stat(p) = "dir" /\ Throw("not-a-file")
    \/ /\ p \notin Forbidden /\ Stat(p) \in {"file", "absent"} /\ Len(fs[p].text \o t) <= MaxLen
       /\ Done([Mkdirs(Parent[p]) EXCEPT ![p] = File(fs[p].text \o t)])
    \/ /\ p \notin Forbidden /\ Stat(p) # "dir" /\ Len(fs[p].text \o t) <= MaxLen
       /\ Fault(WriteFaults(p, fs[p].text, t))

\* content.replace(old, new): the first occurrence only, and "$&" in the
\* new string stands for the matched text.
Occurrences(t, old) == {i \in DOMAIN t : t[i] = old}
Replaced(t, old, new) ==
    [t EXCEPT ![CHOOSE i \in Occurrences(t, old) : \A j \in Occurrences(t, old) : i <= j]
        = IF new = "$&" THEN old ELSE new]

EditFile(p, old, new) ==
    \/ Stat(p) = "absent" /\ Throw("not-found")
    \/ Stat(p) = "dir" /\ Throw("not-a-file")
    \/ /\ Stat(p) = "file" /\ Occurrences(fs[p].text, old) = {}
       /\ Throw("string-not-found")
    \/ /\ Stat(p) = "file" /\ Occurrences(fs[p].text, old) # {}
       /\ \/ Done([fs EXCEPT ![p] = File(Replaced(fs[p].text, old, new))])
          \/ Fault(WriteFaults(p, <<>>, Replaced(fs[p].text, old, new)))
    \/ Throw("fs-error")

\* A plausible slip: the protected paths are checked when recursive only.
DeleteFileUnchecked(p, recursive) ==
    \/ recursive /\ p \in Forbidden /\ Throw("forbidden")
    \/ ~recursive /\ Stat(p) = "dir" /\ Children(p) = {}
       /\ Done([fs EXCEPT ![p] = Absent])
    \/ recursive /\ p \notin Forbidden /\ Stat(p) = "dir"
       /\ Done([q \in Path |-> IF q = p \/ q \in Below(p) THEN Absent ELSE fs[q]])

DeleteFile(p, recursive) ==
    \/ p \in Forbidden /\ Throw("forbidden")
    \/ p \notin Forbidden /\ Stat(p) = "absent" /\ Throw("not-found")
    \/ /\ p \notin Forbidden /\ Stat(p) = "dir" /\ recursive
       /\ \/ Done([q \in Path |-> IF q = p \/ q \in Below(p) THEN Absent ELSE fs[q]])
          \/ Fault(RemoveFaults(p))
    \/ /\ p \notin Forbidden /\ Stat(p) = "dir" /\ ~recursive
       /\ \/ Children(p) # {} /\ Throw("not-empty")
          \/ Children(p) = {} /\ Done([fs EXCEPT ![p] = Absent])
    \/ p \notin Forbidden /\ Stat(p) = "file" /\ Done([fs EXCEPT ![p] = Absent])
    \/ p \notin Forbidden /\ Throw("fs-error")

\* copyFileSync and renameSync onto the path itself change nothing.
CopyFile(p, q) ==
    \/ Stat(p) = "absent" /\ Throw("not-found")
    \/ Stat(p) = "dir" /\ Throw("not-a-file")
    \/ /\ Stat(p) = "file" /\ CanCopyTo(q)
       /\ Done([fs EXCEPT ![q] = fs[p]])
    \/ Stat(p) = "file" /\ p # q /\ Fault(CopyFaults(q))
    \/ Throw("fs-error")

\* The trees a move may leave, with the code it answers.  renameSync serves
\* one device.  Across devices: copy, then unlink the source; if that fails
\* the copy is unlinked again, if it can be, whatever the destination held
\* before.
Leaves(f, code) == [tree |-> f, code |-> code]
Renamed(p, q) == [r \in Path |-> IF r = q THEN fs[p] ELSE IF r = p THEN Absent ELSE fs[r]]

\* A plausible slip: the source is unlinked before the copy is known to be
\* complete.
MoveResultsSourceFirst(p, q) ==
    {Leaves(Renamed(p, q), "ok")} \cup
    {Leaves([f EXCEPT ![p] = Absent], "fs-error") : f \in CopyFaults(q)}

MoveResults(p, q) ==
    {Leaves(fs, "fs-error")} \cup
    (IF CanCopyTo(q) THEN {Leaves(Renamed(p, q), "ok")} ELSE {}) \cup
    (IF Device[p] = Device[q] THEN {}
     ELSE {Leaves(f, "fs-error") : f \in CopyFaults(q)} \cup
          (IF CanCopyTo(q)
           THEN {Leaves([fs EXCEPT ![q] = n], "fs-error") : n \in {Absent, fs[p]}} ELSE {}))

MoveFile(p, q) ==
    \/ Stat(p) = "absent" /\ Throw("not-found")
    \/ Stat(p) = "dir" /\ Throw("not-a-file")
    \/ Stat(p) = "ENOTDIR" /\ Throw("fs-error")
    \/ /\ Stat(p) = "file"
       /\ \E r \in MoveResults(p, q) :
             /\ fs' = r.tree /\ Replies(r.code, {})
             /\ batch' = Witness(batch, r.tree,
                    IF Device[p] = Device[q] /\ r.code = "ok" THEN Renaming(p, q) ELSE Staying)

-----------------------------------------------------------------------------
CreateDirectory(p) ==
    \/ p \in Forbidden /\ Throw("forbidden")
    \/ p \notin Forbidden /\ Stat(p) = "file" /\ Throw("not-a-dir")
    \/ p \notin Forbidden /\ Stat(p) \in {"dir", "absent"} /\ Done(Mkdirs(p))
    \/ p \notin Forbidden /\ Stat(p) # "dir" /\ Fault(MkdirFaults(p))

\* make_dir has no list of protected paths.
MakeDir(p) ==
    \/ Stat(p) = "file" /\ Throw("not-a-dir")
    \/ Stat(p) \in {"dir", "absent"} /\ Done(Mkdirs(p))
    \/ Stat(p) # "dir" /\ Fault(MkdirFaults(p))

ReadFile(p) ==
    \/ p \in Forbidden /\ Throw("forbidden")
    \/ p \notin Forbidden /\ Stat(p) = "absent" /\ Throw("not-found")
    \/ p \notin Forbidden /\ Stat(p) = "dir" /\ Throw("not-a-file")
    \/ p \notin Forbidden /\ Stat(p) = "file" /\ Found({p})
    \/ p \notin Forbidden /\ Throw("fs-error")

CheckExists(p) == Found(IF Stat(p) \in {"file", "dir"} THEN {p} ELSE {})

\* The common entry of the listing and searching tools: a directory, or
\* not-found, not-a-dir, fs-error.
InDirectory(p, results) ==
    \/ Stat(p) = "absent" /\ Throw("not-found")
    \/ Stat(p) = "file" /\ Throw("not-a-dir")
    \/ Stat(p) = "dir" /\ \E found \in results : Found(found)
    \/ Throw("fs-error")

\* Entries whose stat fails are left out of the listing.
ListDirectory(p) ==
    \/ p \in Forbidden /\ Throw("forbidden")
    \/ p \notin Forbidden /\ InDirectory(p, SUBSET Children(p))

Tree(p) == {q \in Below(p) : fs[q] # Absent}
ListDir(p, recursive) == InDirectory(p, {IF recursive THEN Tree(p) ELSE Children(p)})

\* walkDir: the files below p that the glob matches; subtrees that cannot be
\* read are skipped in silence.
Walked(p, glob) ==
    LET files == {q \in Tree(p) : fs[q].kind = "file"} \cap glob
    IN  {files \ ({r} \cup Below(r)) : r \in Tree(p)} \cup {files}
FindFiles(p, glob) == InDirectory(p, Walked(p, glob))

GrepFiles(p, letter, glob) ==
    InDirectory(p, {{q \in walked : Occurrences(fs[q].text, letter) # {}} :
                       walked \in Walked(p, glob)})
\* An invalid regular expression is refused before the path is looked at.
GrepInvalid(p) == Throw("invalid-regex")

-----------------------------------------------------------------------------
NoBatch == [pc |-> "idle", of |-> <<>>]
Error(code) == [status |-> "error", code |-> code, content |-> <<>>]
Content(t) == [status |-> "ok", code |-> "ok", content |-> t]

BatchEntry(stage, result) ==
    [stage |-> stage, result |-> result, at |-> {}, text |-> <<>>, part |-> <<>>, seen |-> {}]
Opened(p) ==
    [stage |-> "read", result |-> Error("pending"), at |-> {p}, text |-> fs[p].text,
     part |-> <<>>, seen |-> {fs[p].text}]

BatchStart(paths) ==
    /\ batch.pc = "idle"
    /\ batch' = [pc |-> "reading", of |-> [p \in paths |-> BatchEntry("stat", Error("pending"))]]
    /\ UNCHANGED <<fs, reply>>

AtStage(p, stage) ==
    batch.pc = "reading" /\ p \in DOMAIN batch.of /\ batch.of[p].stage = stage
SetEntry(p, e) == batch' = [batch EXCEPT !.of[p] = e] /\ UNCHANGED <<fs, reply>>
Settles(p, result) ==
    SetEntry(p, [BatchEntry("settled", result) EXCEPT !.seen = batch.of[p].seen])

\* readOnePath up to its first await.
BatchStat(p) ==
    /\ AtStage(p, "stat")
    /\ \/ Stat(p) = "absent" /\ Settles(p, Error("not-found"))
       \/ Stat(p) = "dir" /\ Settles(p, Error("not-a-file"))
       \/ Stat(p) = "file" /\ SetEntry(p, BatchEntry("open", Error("pending")))
       \/ Settles(p, Error("fs-error"))

\* A plausible slip: a file that vanished after the stat reads as empty.
BatchOpenVanished(p) ==
    /\ AtStage(p, "open")
    /\ IF Stat(p) = "file" THEN SetEntry(p, Opened(p)) ELSE Settles(p, Content(<<>>))

\* readFile opens the path, where the file of the stat may be gone or another
\* have taken its place.
BatchOpen(p) ==
    /\ AtStage(p, "open")
    /\ \/ Stat(p) = "file" /\ SetEntry(p, Opened(p))
       \/ Settles(p, Error("fs-error"))

\* One more piece of what the file holds now, up to m.
Longer(part, text, m) == [i \in 1 .. m |-> IF i <= Len(part) THEN part[i] ELSE text[i]]

\* readFile is done at the end of the file, or when it has read as much as the
\* file held when it was asked for its size.
BatchRead(p) ==
    LET e == batch.of[p]
    IN  /\ AtStage(p, "read")
        /\ \/ Len(e.part) >= Len(e.text) /\ Settles(p, Content(e.part))
           \/ \E m \in Len(e.part) + 1 .. Len(e.text) :
                 LET part == Longer(e.part, e.text, m)
                 IN  \/ SetEntry(p, [e EXCEPT !.part = part])
                     \/ m \in {Len(t) : t \in e.seen} /\ Settles(p, Content(part))
           \/ Settles(p, Error("fs-error"))

\* Promise.allSettled has every outcome; the caller gets them.
BatchReturn ==
    /\ batch.pc = "reading" /\ \A p \in DOMAIN batch.of : batch.of[p].stage = "settled"
    /\ batch' = NoBatch
    /\ UNCHANGED <<fs, reply>>

-----------------------------------------------------------------------------
FileInit(tree) ==
    /\ fs = tree
    /\ reply = [code |-> "ok", found |-> {}]
    /\ batch = NoBatch

Inner == Path \ {Root}

Mutate ==
    \/ \E p \in Inner, t \in Text : WriteFile(p, t) \/ AppendFile(p, t)
    \/ \E p \in Path, old, new \in Letter : EditFile(p, old, new)
    \/ \E p \in Path, recursive \in BOOLEAN : DeleteFile(p, recursive)
    \/ \E p, q \in Inner : CopyFile(p, q) \/ MoveFile(p, q)
    \/ \E p \in Path : CreateDirectory(p) \/ MakeDir(p)

Look ==
    \/ \E p \in Path : ReadFile(p) \/ CheckExists(p) \/ ListDirectory(p) \/ GrepInvalid(p)
    \/ \E p \in Path, recursive \in BOOLEAN : ListDir(p, recursive)
    \/ \E p \in Path, glob \in Globs :
          FindFiles(p, glob) \/ \E letter \in Letter : GrepFiles(p, letter, glob)

Batch ==
    \/ \E paths \in SUBSET BatchPaths : BatchStart(paths)
    \/ \E p \in BatchPaths : BatchStat(p) \/ BatchOpen(p) \/ BatchRead(p)
    \/ BatchReturn

FileNext == Mutate \/ Look \/ Batch

FileSpec(tree) == FileInit(tree) /\ [][FileNext]_fileVars

-----------------------------------------------------------------------------
\* No sequence of tool calls, with whatever faults, removes or replaces a
\* protected directory: delete_file refuses it and every directory above it,
\* and the tools without a list of protected paths (move, copy, edit) touch
\* files only.
ProtectedDirsRemain == \A p \in Forbidden : fs[p] = Dir

\* A move never loses what it moves: after the call, however it ended, the
\* text is at the source or at the destination, on one device (rename) and
\* across two (copy, unlink, roll back).
MovedContentSurvives ==
    \A p, q \in Inner : Stat(p) = "file" =>
        \A r \in MoveResults(p, q) : fs[p] \in {r.tree[p], r.tree[q]}

\* What read_files_batch reports as the text of a path, while other calls write,
\* move and delete between its steps: every piece stood, at its place, in a text
\* that the file it opened held while it was open; and when the file held one
\* text all the while, that is the whole answer.
BatchSawRealContents ==
    \A p \in DOMAIN batch.of :
        LET content == batch.of[p].result.content
            seen == batch.of[p].seen
        IN  batch.of[p].result.status = "ok" =>
                /\ seen # {}
                /\ \A i \in DOMAIN content :
                      \E t \in seen : i \in DOMAIN t /\ t[i] = content[i]
                /\ \A t \in seen : seen = {t} => content = t
=============================================================================
