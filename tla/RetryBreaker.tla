---------------------------- MODULE RetryBreaker ----------------------------
(***************************************************************************)
(* withRetry and CircuitBreaker of src/src/hitl/retry.ts, and the senders  *)
(* of the HITL channels that use them: several messages to one API share   *)
(* one breaker.  A message is asked about the breaker once, when it        *)
(* starts; the API, which is external, answers, says 429, or fails.        *)
(***************************************************************************)
EXTENDS Naturals, FiniteSets

CONSTANTS
    Messages,    \* messages to one API
    maxRetries,  \* retries after a 429
    Cooldown,    \* cooldownMs, in units of the clock
    MaxClock     \* bound on the clock

ASSUME RetryAssumption ==
    maxRetries \in Nat /\ Cooldown \in Nat \ {0} /\ MaxClock \in Nat

VARIABLES
    clock,     \* Date.now()
    breaker,   \* [state, openedAt]
    message,   \* how far each message is
    opened     \* history: when the breaker last went from closed to open

retryVars == <<clock, breaker, message, opened>>

RetryInit ==
    /\ clock = 0
    /\ breaker = [state |-> "closed", openedAt |-> 0]
    /\ message = [x \in Messages |-> [pc |-> "new", attempt |-> 0, result |-> "none"]]
    /\ opened = 0

-----------------------------------------------------------------------------
Blocking == breaker.state = "open" /\ clock - breaker.openedAt < Cooldown

\* isOpen closes a breaker whose cooldown has passed.
isOpen == breaker' = IF Blocking THEN breaker ELSE [breaker EXCEPT !.state = "closed"]

\* trip keeps the time of an open breaker.
tripAgain == breaker' = [state |-> "open", openedAt |-> clock]
trip == breaker' = IF breaker.state = "open" THEN breaker
                   ELSE [state |-> "open", openedAt |-> clock]

Becomes(x, pc, result) == message' = [message EXCEPT ![x].pc = pc, ![x].result = result]

\* A sender calls withRetry: at once the fallback { ok: false }, or fetch.
sendApprovalRequest(x) ==
    /\ message[x].pc = "new"
    /\ isOpen
    /\ IF Blocking THEN Becomes(x, "ended", "refused") ELSE Becomes(x, "calling", "none")
    /\ UNCHANGED <<clock, opened>>

\* Any status but 429: parse looks at it.  A rejected fetch or an unreadable
\* body is caught by the sender.
Responds(x) ==
    /\ message[x].pc = "calling"
    /\ \E result \in {"ok", "failed"} : Becomes(x, "ended", result)
    /\ UNCHANGED <<clock, breaker, opened>>

\* 429: the last attempt trips the breaker, another backs off.
Exhausted(x) == message[x].attempt >= maxRetries
TooManyRequests(x) ==
    /\ message[x].pc = "calling"
    /\ IF Exhausted(x)
       THEN /\ trip /\ Becomes(x, "ended", "exhausted")
            /\ opened' = IF breaker.state = "open" THEN opened ELSE clock
       ELSE /\ Becomes(x, "sleeping", "none")
            /\ UNCHANGED <<breaker, opened>>
    /\ UNCHANGED clock

\* sleep ends: computeBackoff is at most maxDelayMs and a quarter, jitter included.
Retry(x) ==
    /\ message[x].pc = "sleeping"
    /\ message' = [message EXCEPT ![x].pc = "calling", ![x].attempt = @ + 1]
    /\ UNCHANGED <<clock, breaker, opened>>

RetryTick == clock < MaxClock /\ clock' = clock + 1 /\ UNCHANGED <<breaker, message, opened>>

RetryNext ==
    \/ \E x \in Messages : \/ sendApprovalRequest(x) \/ Responds(x) \/ TooManyRequests(x)
                           \/ Retry(x)
    \/ RetryTick

RetrySpec == RetryInit /\ [][RetryNext]_retryVars

-----------------------------------------------------------------------------
\* Messages in flight when the breaker opens go on retrying and may trip it
\* again, but none of them prolongs the pause: a message is refused only
\* within a cooldown of the moment the breaker opened, and no message makes
\* more than maxRetries + 1 requests.
PauseIsBounded ==
    /\ Blocking => clock - opened < Cooldown
    /\ \A x \in Messages : message[x].attempt <= maxRetries
=============================================================================
