------------------------- MODULE AutoPermitPatterns -------------------------
(***************************************************************************)
(* From an approved command to the pattern that Approve Always stores, and *)
(* from the pattern back to the commands stage 2 permits with it:          *)
(* src/src/auto-permits/pattern-derivation.ts and matcher.ts.              *)
(*                                                                         *)
(* A command is the sequence of its shell words and a word the sequence of *)
(* its pieces: a quoted word may hold spaces.  A piece is a model of a     *)
(* space-free string.  Joining words with a space, as the pattern and the  *)
(* normalised command do, forgets where a quoted word began.               *)
(***************************************************************************)
EXTENDS Integers, SequencesExt, FiniteSetsExt

CONSTANTS
    Words,       \* the words of commands
    ToolNames,   \* tool names, as words
    Flags,       \* the pieces that start with a dash
    Meta,        \* the pieces that hold a shell metacharacter
    MaxWords,    \* bound on the words of a command
    MaxPieces    \* MAX_PATTERN_LENGTH, counted in pieces

ASSUME PatternBounds ==
    /\ MaxWords \in Nat /\ MaxPieces \in Nat
    /\ \A w \in Words \cup ToolNames : w # <<>> /\ w \in Seq(ToSet(w))

VARIABLE permit   \* the command and the pattern derived from it

Commands == SeqOf(Words, MaxWords)
Star == "*"
NoPattern == <<>>

\* tokenize drops the quotes; join puts the pieces of all words in one row.
join(tokens) == FlattenSeq(tokens)

-----------------------------------------------------------------------------
\* No wildcard but the last token, none in the binary, and not too long.
validatePattern(pattern) ==
    /\ pattern # <<>> /\ Len(pattern) <= MaxPieces
    /\ pattern[1] # Star
    /\ \A i \in 1 .. Len(pattern) - 1 : pattern[i] # Star

Positionals(tokens) == {i \in 2 .. Len(tokens) : tokens[i][1] \notin Flags}
\* A plausible slip: flags are not skipped.
firstPositionalAny(tokens) == IF Len(tokens) = 1 THEN 0 ELSE 2
\* 0 if there is none.
firstPositional(tokens) ==
    IF Positionals(tokens) = {} THEN 0
    ELSE CHOOSE i \in Positionals(tokens) : \A j \in Positionals(tokens) : i <= j

defaultPattern(tokens) ==
    LET p == firstPositional(tokens)
    IN  CASE Len(tokens) = 1 -> tokens[1]
          [] Len(tokens) > 1 /\ p # 0 -> tokens[1] \o tokens[p] \o <<Star>>
          [] OTHER -> tokens[1] \o <<Star>>

\* An exception, here NoPattern, for metacharacters, an empty command or a
\* pattern that is not valid.  The method "tool" gets a tool name.
derivePattern(tokens, method) ==
    IF tokens = <<>> \/ \E i \in DOMAIN join(tokens) : join(tokens)[i] \in Meta THEN NoPattern
    ELSE LET pattern == CASE method = "default" -> defaultPattern(tokens)
                          [] method = "exact" -> join(tokens)
                          [] method = "tool" -> tokens[1] \o <<Star>>
         IN  IF validatePattern(pattern) THEN pattern ELSE NoPattern

\* persistAutoPermitPattern derives from the command for shell.exec and
\* code.execute, here "exec", and from the tool name for every other class.
persistAutoPermitPattern(class, tool, tokens) ==
    IF class = "exec" THEN derivePattern(tokens, "default") ELSE derivePattern(<<tool>>, "tool")

-----------------------------------------------------------------------------
\* ^prefix( .+)?$ for a pattern that ends in the wildcard, else ^pattern$.
compilePatternRegex(pattern, text) ==
    IF Last(pattern) = Star THEN IsPrefix(Front(pattern), text) ELSE pattern = text

\* matchCommand tests the normalised command.
matchCommand(pattern, tokens) ==
    tokens # <<>> /\ pattern # NoPattern /\ compilePatternRegex(pattern, join(tokens))

\* Stage 2 matches the command also for an unregistered tool, whose class is
\* unknown_sensitive_action, and the tool name for the others.
cmdToMatch(class, tool, tokens) == IF class \in {"exec", "unknown"} THEN tokens ELSE <<tool>>

-----------------------------------------------------------------------------
PatternInit == permit = [class |-> "none", tool |-> <<>>, command |-> <<>>, pattern |-> NoPattern]

\* Approve Always for a call: the pattern that is stored, if any.
ApproveCall(class, tool, tokens) ==
    /\ permit.class = "none"
    /\ permit' = [class |-> class, tool |-> tool, command |-> tokens,
                  pattern |-> persistAutoPermitPattern(class, tool, tokens)]

\* The exact method, which no caller of the repository uses.
DeriveExact(tokens) ==
    /\ permit.class = "none"
    /\ permit' = [class |-> "exact", tool |-> <<>>, command |-> tokens,
                  pattern |-> derivePattern(tokens, "exact")]

PatternNext ==
    \E tokens \in Commands \ {<<>>} :
        \/ \E class \in {"exec", "unknown", "tool"}, tool \in ToolNames : ApproveCall(class, tool, tokens)
        \/ DeriveExact(tokens)

PatternSpec == PatternInit /\ [][PatternNext]_permit

-----------------------------------------------------------------------------
\* What a stored pattern covers, whatever else is derived from it.  The pattern of
\* a command matches only commands with its binary and, right behind it, its
\* positional argument; that of a tool, registered or not, only texts that begin
\* with its name; an exact one only its own command.  And the call that was
\* approved is permitted next time: under an exact pattern, under that of a
\* registered tool, and under that of a command whose positional argument comes
\* right behind the binary.  (Commands that end in a star of their own are left
\* out, README.md section 6.)
PatternCoversApproved ==
    LET c == permit.command
        p == IF Positionals(c) = {} THEN 0 ELSE Min(Positionals(c))
        covered == {d \in Commands : matchCommand(permit.pattern, d)}
    IN  permit.pattern # NoPattern =>
            CASE permit.class = "exec" /\ Last(join(c)) # Star ->
                   /\ \A d \in covered : IsPrefix(c[1] \o (IF p = 0 THEN <<>> ELSE c[p]), join(d))
                   /\ p \in {0, 2} => matchCommand(permit.pattern, c)
              [] permit.class = "exact" /\ Last(join(c)) # Star ->
                   /\ \A d \in covered : join(d) = join(c)
                   /\ matchCommand(permit.pattern, c)
              [] permit.class \in {"tool", "unknown"} ->
                   /\ \A d \in covered : IsPrefix(permit.tool, join(d))
                   /\ permit.class = "tool" =>
                         matchCommand(permit.pattern, cmdToMatch("tool", permit.tool, c))
              [] OTHER -> TRUE
=============================================================================
