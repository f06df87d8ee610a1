---------------------------- MODULE BudgetTracker ----------------------------
(***************************************************************************)
(* The daily token and cost budget: src/src/budget/tracker.ts, with its    *)
(* prices, and the hook that counts a call, asks and then blocks or goes   *)
(* on (src/src/index.ts).                                                  *)
(*                                                                         *)
(* The counts live in memory and in a log that only a restart reads.  The  *)
(* day of the tracker is fixed when it is built.                           *)
(***************************************************************************)
EXTENDS Integers, SequencesExt

CONSTANTS
    TokenLimit,  \* dailyTokenLimit
    CostLimit,   \* dailyCostLimit
    Model,       \* the model of the tracker, as the words of its name
    MaxTokens,   \* bound on the estimate of one call
    MaxCounted,  \* bound on the tokens of a day
    MaxDay       \* bound on the days

ASSUME BudgetBounds ==
    /\ TokenLimit \in Nat \ {0} /\ CostLimit \in Nat \ {0} /\ MaxTokens \in Nat \ {0}
    /\ MaxCounted \in Nat /\ MaxDay \in Nat

VARIABLES
    today,    \* the date
    log,      \* data/budget.jsonl: the tokens of the readable lines of each day,
              \* and whether the last line is torn, without its end
    budget,   \* the tracker: [day, tokens, hard, limit, costLimit]
    spent     \* history, for each day: the tokens counted, those of the calls let
              \* through, and whether an entry was lost or the log unreadable

budgetVars == <<today, log, budget, spent>>

-----------------------------------------------------------------------------
(* Prices: the entry of the model, else that of the longest key the model  *)
(* name starts with, else the default.  A name is the sequence of its      *)
(* words, and a price the cost of a million input tokens in cents.         *)
PRICING ==
    << <<<<"opus", "4", "6">>, 1500>>, <<<<"sonnet", "4", "6">>, 300>>,
       <<<<"haiku", "4", "5">>, 80>>, <<<<"3", "5", "sonnet">>, 300>>,
       <<<<"3", "5", "haiku">>, 80>>, <<<<"3", "opus">>, 1500>>,
       <<<<"3", "sonnet">>, 300>>, <<<<"3", "haiku">>, 25>> >>
resolvePricing(model) ==
    LET keys == {i \in DOMAIN PRICING : IsPrefix(PRICING[i][1], model)}
    IN  IF keys = {} THEN 300
        ELSE LET best == CHOOSE i \in keys :
                             \A j \in keys : Len(PRICING[j][1]) <= Len(PRICING[i][1])
             IN  PRICING[best][2]
\* The cost of a number of tokens is their sum whatever the calls they came in.
estimateCost(model, tokens) == resolvePricing(model) * tokens

-----------------------------------------------------------------------------
\* The tokens of some days in a row.
Total(tokens, first, last) ==
    LET sum[d \in first - 1 .. last] == IF d < first THEN 0 ELSE sum[d - 1] + tokens[d]
    IN  sum[last]

\* _readTodayTotals: the entries of the day; a line that is not JSON is skipped.
\* A plausible slip: the entries of all days.
TotalsOfLog(day) == Total(log.tokens, 0, MaxDay)
readTodayTotals(day) == log.tokens[day]

\* createBudgetTracker: a limit that is no number is NaN, which nothing
\* reaches.  A log that cannot be read counts as empty.
NoLimit == -1
Rebuilt(readable) ==
    [budget EXCEPT !.day = today, !.tokens = IF readable THEN readTodayTotals(today) ELSE 0]

BudgetInit ==
    /\ today = 0 /\ log = [tokens |-> [d \in 0 .. MaxDay |-> 0], torn |-> FALSE]
    /\ budget \in [day : {0}, tokens : {0}, hard : BOOLEAN, limit : {TokenLimit, NoLimit},
                   costLimit : {CostLimit, NoLimit}]
    /\ spent = [d \in 0 .. MaxDay |-> [counted |-> 0, admitted |-> 0, lost |-> FALSE]]

Reaches(n, limit) == limit # NoLimit /\ n >= limit

check ==
    /\ budget'.hard
    /\ \/ Reaches(budget'.tokens, budget'.limit)
       \/ Reaches(estimateCost(Model, budget'.tokens), budget'.costLimit)

\* appendFileSync: the line, a part of it (the disk is full), or nothing.  A
\* line after a torn one continues it, and neither is JSON.
Written(n, how) ==
    [tokens |-> IF how = "whole" /\ ~log.torn THEN [log.tokens EXCEPT ![today] = @ + n]
                                              ELSE log.tokens,
     torn |-> CASE how = "whole" -> FALSE [] how = "torn" -> TRUE [] OTHER -> log.torn]

\* The hook: append, which counts first and then writes, its failure logged;
\* then check, so that the call is counted whether it is blocked or not.
BudgetCall(n) ==
    /\ spent[today].counted + n <= MaxCounted
    /\ budget' = [budget EXCEPT !.tokens = @ + n]
    /\ \E how \in {"whole", "torn", "failed"} :
          /\ log' = Written(n, how)
          /\ spent' = [spent EXCEPT ![today] =
                [counted |-> @.counted + n,
                 admitted |-> IF check THEN @.admitted ELSE @.admitted + n,
                 lost |-> @.lost \/ how # "whole" \/ log.torn]]
    /\ UNCHANGED today

Midnight ==
    /\ today < MaxDay /\ today' = today + 1
    /\ UNCHANGED <<log, budget, spent>>

\* The gateway restarts: a new tracker, for the day it is now.
BudgetRestart(readable) ==
    /\ budget' = Rebuilt(readable)
    /\ spent' = [spent EXCEPT ![today].lost = @ \/ ~readable]
    /\ UNCHANGED <<today, log>>

BudgetNext ==
    \/ \E n \in 1 .. MaxTokens : BudgetCall(n)
    \/ Midnight
    \/ \E readable \in BOOLEAN : BudgetRestart(readable)

BudgetSpec == BudgetInit /\ [][BudgetNext]_budgetVars

-----------------------------------------------------------------------------
\* A restart forgets nothing of the day: as long as it is the day of the tracker,
\* every entry of that day was written and the log could be read, the tracker
\* counts what has been counted since midnight, whoever counted it, and the calls
\* let through on that day stay below the limit.
BudgetSurvivesRestart ==
    budget.day = today /\ ~spent[today].lost =>
        /\ budget.tokens = spent[today].counted
        /\ budget.hard => /\ budget.limit # NoLimit => spent[today].admitted < budget.limit
                          /\ budget.costLimit # NoLimit =>
                                estimateCost(Model, spent[today].admitted) < budget.costLimit

\* README.md: "every subsequent tool call is blocked with `daily_budget_exceeded`
\* until the next day (midnight UTC) or a gateway restart": a call is blocked only
\* when what was counted on its own day has reached a limit.
LimitResetsAtMidnight ==
    [][\A n \in 1 .. MaxTokens : BudgetCall(n) /\ check =>
          \/ Reaches(spent'[today].counted, budget.limit)
          \/ Reaches(estimateCost(Model, spent'[today].counted), budget.costLimit)]_budgetVars
=============================================================================
