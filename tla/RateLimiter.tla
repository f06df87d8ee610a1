------------------------------ MODULE RateLimiter ------------------------------
(***************************************************************************)
(* The sliding-window rate limit of a permit rule, checkAndRecordRateLimit *)
(* and cleanup of src/src/policy/engine.ts, for one rule that permits by   *)
(* resource and that no forbid overrides.  (A permit by action_class has   *)
(* no limit: evaluateByActionClass returns it without asking.)             *)
(*                                                                         *)
(* The engine keeps, for each agentId:resourceName, the times of the calls *)
(* it permitted.  The history variable `permitted' keeps all of them, also *)
(* those that the engine has dropped or lost.                              *)
(***************************************************************************)
EXTENDS Integers, Sequences

CONSTANTS
    Callers,    \* the tracking keys agentId:resourceName
    MaxCalls,   \* rateLimit.maxCalls
    Window,     \* rateLimit.windowSeconds, in units of the clock
    MaxTime,    \* bound on the clock
    MaxHistory, \* bound on the permitted calls of a caller
    MaxReloads  \* bound on the engine swaps

ASSUME LimitIsPositive == MaxCalls \in Nat \ {0} /\ Window \in Nat \ {0}
ASSUME BoundsAreNat == MaxTime \in Nat /\ MaxHistory \in Nat /\ MaxReloads \in Nat

VARIABLES
    now,        \* Date.now()
    tracked,    \* rateLimitTracking of the rule, <<>> for an absent key
    permitted,  \* history: the times of all permitted calls
    base,       \* history: how many of them came before the last reload
    reloads     \* how often the engine has been replaced

rateVars == <<now, tracked, permitted, base, reloads>>

Time == 0 .. MaxTime

RateTypeOK ==
    /\ now \in Time
    /\ tracked \in [Callers -> Seq(Time)]
    /\ permitted \in [Callers -> Seq(Time)]
    /\ base \in [Callers -> 0 .. MaxHistory]
    /\ reloads \in 0 .. MaxReloads

RateInit ==
    /\ now = 0
    /\ tracked = [k \in Callers |-> <<>>]
    /\ permitted = [k \in Callers |-> <<>>]
    /\ base = [k \in Callers |-> 0]
    /\ reloads = 0

-----------------------------------------------------------------------------
(* Whether a timestamp is still inside the window.                         *)
(* Mutated form: a call exactly one window old still counts.               *)
InsideInclusive(t) == now - t <= Window
Inside(t) == now - t < Window

(* The timestamps inside the window (filter), in their order.              *)
Fresh(times) ==
    LET kept[i \in 0 .. Len(times)] ==
          IF i = 0 THEN <<>>
          ELSE IF Inside(times[i]) THEN Append(kept[i - 1], times[i]) ELSE kept[i - 1]
    IN  kept[Len(times)]

Exceeded(k) == Len(Fresh(tracked[k])) >= MaxCalls

(* A call beyond the limit: the window is slid, the call is not recorded.  *)
Refuse(k) ==
    /\ Exceeded(k)
    /\ tracked' = [tracked EXCEPT ![k] = Fresh(@)]
    /\ UNCHANGED <<now, permitted, base, reloads>>

(* A call within the limit.                                                *)
Permit(k) ==
    /\ ~Exceeded(k)
    /\ Len(permitted[k]) < MaxHistory
    /\ tracked' = [tracked EXCEPT ![k] = Append(Fresh(@), now)]
    /\ permitted' = [permitted EXCEPT ![k] = Append(@, now)]
    /\ UNCHANGED <<now, base, reloads>>

(* The cleanup timer: every window is slid, empty ones are deleted.        *)
Cleanup ==
    /\ tracked' = [k \in Callers |-> Fresh(tracked[k])]
    /\ UNCHANGED <<now, permitted, base, reloads>>

(* A reload builds a new engine, or new rule objects, with no tracking.    *)
Reload ==
    /\ reloads < MaxReloads
    /\ reloads' = reloads + 1
    /\ tracked' = [k \in Callers |-> <<>>]
    /\ base' = [k \in Callers |-> Len(permitted[k])]
    /\ UNCHANGED <<now, permitted>>

Tick ==
    /\ now < MaxTime
    /\ now' = now + 1
    /\ UNCHANGED <<tracked, permitted, base, reloads>>

RateNext ==
    \/ \E k \in Callers : Permit(k) \/ Refuse(k)
    \/ Cleanup
    \/ Reload
    \/ Tick

RateSpec == RateInit /\ [][RateNext]_rateVars

-----------------------------------------------------------------------------
(* Properties                                                              *)

(* The limit is exact, under one engine.  Of any MaxCalls + 1 successive   *)
(* permits to a caller, the first and the last are at least a window       *)
(* apart, wherever in time the window is placed and whatever was cleaned   *)
(* up.  The engine refuses exactly when the limit requires it: the call    *)
(* MaxCalls permits ago is still inside the window ("The rate limit clears *)
(* 60 seconds after the oldest call in the current window, not 60 seconds  *)
(* after the limit was hit", docs/troubleshooting.md), which refused calls *)
(* and cleanups do not move.  And a caller costs at most MaxCalls          *)
(* timestamps, though cleanup may never run (the default interval is 0).   *)
LimitIsExact ==
    \A k \in Callers :
        /\ \A i \in base[k] + 1 .. Len(permitted[k]) - MaxCalls :
              permitted[k][i + MaxCalls] - permitted[k][i] >= Window
        /\ Exceeded(k) <=> /\ Len(permitted[k]) - base[k] >= MaxCalls
                           /\ now - permitted[k][Len(permitted[k]) - MaxCalls + 1] < Window
        /\ Len(tracked[k]) <= MaxCalls
================================================================================
