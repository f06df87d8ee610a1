------------------------------- MODULE MCStandalone -------------------------------
(***************************************************************************)
(* The parts of the plugin that work each on a state of their own, for     *)
(* TLC: the approval manager, the tools (file tools, secret tools, the     *)
(* catalogue with its manifests, the tools that run a command, the HTTP    *)
(* tools, send_email) and the services (rate limiter, daily budget, the    *)
(* patterns of Approve Always, the Telegram listener, the retries behind   *)
(* their breaker).  They share no state here, so a behaviour is about one  *)
(* of them (focus), and interleaving them would only multiply the states.  *)
(***************************************************************************)
EXTENDS ApprovalManager, FileTools, SecretTools, CommandTools, HttpTools, MailTool,
        RateLimiter, BudgetTracker, AutoPermitPatterns, TelegramListener, RetryBreaker

CONSTANTS r1, r2, r3, k1

VARIABLE focus

\* Three requests are needed for the timer of a replaced entry to fire on the
\* entry of a third.
MCRequests == {r1, r2, r3}
MCSessionKeys == {k1}

\* Requests are made in their order, since they differ in nothing but their names,
\* and a channel is auto-approved only while there is none, since the set of these
\* channels touches nothing else.
InOrder ==
    /\ promise'[r3] # "absent" => promise'[r2] # "absent"
    /\ promise'[r2] # "absent" => promise'[r1] # "absent"
    /\ sessionAutoApprovals' # {} => promise'[r1] = "absent"

\* Two protected directories, a file, and a mount point of a second device.
MCPath == {"/", "/etc", "/a", "/w", "/w/d"}
MCParent == [p \in MCPath \ {"/"} |-> IF p = "/w/d" THEN "/w" ELSE "/"]
MCDevice == [p \in MCPath |-> IF p = "/w/d" THEN 2 ELSE 1]
MCGlobs == {MCPath}
MCTree ==
    [p \in MCPath |-> CASE p \in {"/", "/etc", "/w"} -> Dir
                        [] p = "/a" -> File(<<"x">>)
                        [] OTHER -> Absent]

\* A dated model name, to be found by its prefix.
MCModel == <<"sonnet", "4", "6", "2026">>

\* Words: a flag, the wildcard, a metacharacter and quoted pairs among them,
\* one of which ends in a star.
MCWords == {<<"git">>, <<"add">>, <<"-f">>, <<"*">>, <<"|">>, <<"git", "add">>, <<"git", "*">>}
MCToolNames == {<<"git">>, <<"deploy">>}

Components == {"approvals", "files", "batch", "secrets", "catalog", "commands", "http", "mail",
               "rate", "budget", "patterns", "telegram", "retry"}

Only(c) ==
    /\ IF c = "approvals" THEN TRUE ELSE UNCHANGED vars
    /\ IF c = "files" THEN TRUE ELSE UNCHANGED fileVars
    /\ IF c = "secrets" THEN TRUE ELSE UNCHANGED secretVars
    /\ IF c = "catalog" THEN TRUE ELSE UNCHANGED answer
    /\ IF c = "commands" THEN TRUE ELSE UNCHANGED cmd
    /\ IF c = "http" THEN TRUE ELSE UNCHANGED http
    /\ IF c = "mail" THEN TRUE ELSE UNCHANGED mail
    /\ IF c = "rate" THEN TRUE ELSE UNCHANGED rateVars
    /\ IF c = "budget" THEN TRUE ELSE UNCHANGED budgetVars
    /\ IF c = "patterns" THEN TRUE ELSE UNCHANGED permit
    /\ IF c = "telegram" THEN TRUE ELSE UNCHANGED telegramVars
    /\ IF c = "retry" THEN TRUE ELSE UNCHANGED retryVars

MCInit ==
    /\ focus \in Components
    /\ Init /\ FileInit(MCTree) /\ SecretInit /\ CatalogInit /\ CommandInit /\ HttpInit /\ MailInit
    /\ RateInit /\ BudgetInit /\ PatternInit /\ TelegramInit /\ RetryInit
    \* The settings of the budget only vary where the budget is looked at.
    /\ focus # "budget" => budget.hard /\ budget.limit = TokenLimit /\ budget.costLimit = CostLimit

\* A reader, or a call that is refused before it touches the tree, changes
\* nothing but the reply, which no call looks at: a behaviour may end with it.
TreeTouched == reply.found = {} /\ reply.code \in {"ok", "fs-error"}

\* Texts of one letter, for the whole tree; or of two, for the two files of one
\* device that are written, copied, moved and deleted beside a batch, which are
\* enough for a text that is torn.
Uniform(s) == {t \in s : \A i, j \in DOMAIN t : t[i] = t[j]}
Short == \A p \in Path : Len(fs'[p].text) <= 1
BesideBatch ==
    /\ \E p \in {"/a", "/w"} :
          \/ \E t \in Uniform(Text) : \/ Len(t) = 2 /\ WriteFile(p, t)
                                      \/ Len(t) = 1 /\ AppendFile(p, t)
          \/ DeleteFile(p, FALSE)
          \/ \E q \in {"/a", "/w"} : CopyFile(p, q) \/ MoveFile(p, q)
    /\ \A p \in Path : fs'[p].text \in Uniform(Text)
    /\ \A p \in DOMAIN batch'.of : Cardinality(batch'.of[p].seen) <= 2

MCNext ==
    /\ UNCHANGED focus
    /\ \/ focus = "approvals" /\ Next /\ InOrder /\ Only("approvals")
       \/ focus = "files" /\ TreeTouched /\ (Mutate \/ Look) /\ Short /\ Only("files")
       \/ focus = "batch" /\ TreeTouched /\ (BesideBatch \/ Batch) /\ Only("files")
       \/ focus = "secrets" /\ SecretNext /\ Only("secrets")
       \/ focus = "catalog" /\ CatalogNext /\ Only("catalog")
       \/ focus = "commands" /\ CommandNext /\ Only("commands")
       \/ focus = "http" /\ HttpNext /\ Only("http")
       \/ focus = "mail" /\ MailNext /\ Only("mail")
       \/ focus = "rate" /\ RateNext /\ Only("rate")
       \/ focus = "budget" /\ BudgetNext /\ Only("budget")
       \/ focus = "patterns" /\ PatternNext /\ Only("patterns")
       \/ focus = "telegram" /\ TelegramNext /\ Only("telegram")
       \/ focus = "retry" /\ RetryNext /\ Only("retry")

MCVars ==
    <<focus, vars, fileVars, secretVars, answer, cmd, http, mail, rateVars, budgetVars, permit,
      telegramVars, retryVars>>
MCSpec == MCInit /\ [][MCNext]_MCVars /\ Fairness /\ HttpFairness
================================================================================
