----------------------------- MODULE RateLimiter -----------------------------
(* The sliding window of one client and one group of routes                 *)
(* (infra/rate_limiter.py).  check_rate_limit() reads the clock and then    *)
(* sends a Lua script, which Redis runs as one step; between the two other  *)
(* requests, of any worker, come first.  A request whose eval raises ends   *)
(* with an error, whether its script was run or not.                        *)
(*                                                                          *)
(* The middleware asks the client that "from redis_lease import _redis"     *)
(* bound when the module was imported.  In main.py that is in create_app(), *)
(* before init_redis() makes the client in the lifespan: the name stays     *)
(* None, and the script never runs.  It is bound in a process that imports  *)
(* the module after init_redis().                                           *)
EXTENDS Integers, FiniteSets

CONSTANTS Requests,     \* the requests of the client
          Limit,        \* <group>_calls
          Window,       \* <group>_window_seconds, in ticks
          MaxDelay,     \* ticks from reading the clock to the script
          KeyTtl,       \* PEXPIRE: the window and one second
          MaxNow        \* bound of the clock

ASSUME LimiterAssumption ==
    /\ Limit \in Nat /\ Window \in Nat /\ MaxDelay \in Nat /\ MaxNow \in Nat
    /\ KeyTtl \in Nat /\ KeyTtl > Window

VARIABLES
    bound,      \* _redis_client is not None
    now,        \* time.time()
    answer,     \* where each request is, or what it was told
    askedAt,    \* its time stamp, the score of its member
    entries,    \* the members of the sorted set
    keyTtl      \* what is left to the keys

limiterVars == <<bound, now, answer, askedAt, entries, keyTtl>>

LimiterInit ==
    /\ bound \in BOOLEAN
    /\ now = 0
    /\ answer = [r \in Requests |-> "new"]
    /\ askedAt = [r \in Requests |-> 0]
    /\ entries = {}
    /\ keyTtl = 0

-----------------------------------------------------------------------------
\* _redis_client is None: allowed, without a trace.
PassUnchecked(r) ==
    /\ ~bound /\ answer[r] = "new"
    /\ answer' = [answer EXCEPT ![r] = "admitted"]
    /\ askedAt' = [askedAt EXCEPT ![r] = now]
    /\ UNCHANGED <<bound, now, entries, keyTtl>>

ReadClock(r) ==
    /\ bound /\ answer[r] = "new"
    /\ answer' = [answer EXCEPT ![r] = "asked"]
    /\ askedAt' = [askedAt EXCEPT ![r] = now]
    /\ UNCHANGED <<bound, now, entries, keyTtl>>

\* Mutant: half of the window is cleared with what lies outside of it.
MutInWindow(r) == {q \in entries : askedAt[q] > askedAt[r] - Window \div 2}

\* What ZREMRANGEBYSCORE 0 cutoff leaves.
InWindow(r) == {q \in entries : askedAt[q] > askedAt[r] - Window}

Full(S) == Cardinality(S) >= Limit

\* The script, and its answer; or the answer is lost and the eval raises.
RunScript(r) ==
    /\ answer[r] = "asked"
    /\ IF Full(InWindow(r))
       THEN /\ entries' = InWindow(r)
            /\ \E a \in {"rejected", "failed"} : answer' = [answer EXCEPT ![r] = a]
            /\ UNCHANGED keyTtl
       ELSE /\ entries' = InWindow(r) \cup {r}
            /\ \E a \in {"admitted", "failed"} : answer' = [answer EXCEPT ![r] = a]
            /\ keyTtl' = KeyTtl
    /\ UNCHANGED <<bound, now, askedAt>>

\* The script does not reach Redis.
ScriptLost(r) ==
    /\ answer[r] = "asked"
    /\ answer' = [answer EXCEPT ![r] = "failed"]
    /\ UNCHANGED <<bound, now, askedAt, entries, keyTtl>>

\* A tick; the keys expire, unless they were written meanwhile.
TickClock ==
    /\ now < MaxNow
    /\ \A r \in Requests : answer[r] = "asked" => now - askedAt[r] < MaxDelay
    /\ now' = now + 1
    /\ keyTtl' = IF keyTtl > 0 THEN keyTtl - 1 ELSE 0
    /\ entries' = IF keyTtl > 1 THEN entries ELSE {}
    /\ UNCHANGED <<bound, answer, askedAt>>

LimiterNext ==
    \/ \E r \in Requests :
          PassUnchecked(r) \/ ReadClock(r) \/ RunScript(r) \/ ScriptLost(r)
    \/ TickClock

LimiterSpec == LimiterInit /\ [][LimiterNext]_limiterVars

-----------------------------------------------------------------------------
LimiterTypeOK ==
    /\ bound \in BOOLEAN
    /\ now \in Nat
    /\ answer \in [Requests -> {"new", "asked", "admitted", "rejected", "failed"}]
    /\ askedAt \in [Requests -> Nat]
    /\ entries \subseteq Requests
    /\ keyTtl \in 0 .. KeyTtl

Admitted(from, to) ==
    {r \in Requests : answer[r] = "admitted" /\ from < askedAt[r] /\ askedAt[r] <= to}

\* Scripts may run in another order than the clock was read in, so that one
\* clears what a later one should still count: no more than Limit requests are
\* admitted in a window that is shorter by the greatest delay.
LimitHolds ==
    bound => \A t \in 0 .. MaxNow :
        Cardinality(Admitted(t - (Window - MaxDelay), t)) <= Limit

\* A request is rejected only when as many as Limit others of its own window
\* were counted (a request that was counted may have failed afterwards).
JustRejection(r) ==
    answer[r] = "asked" /\ answer'[r] = "rejected" =>
        Cardinality({q \in Requests \ {r} :
            /\ answer[q] \in {"admitted", "failed"}
            /\ askedAt[q] > askedAt[r] - Window}) >= Limit

\* No rejection below the limit.
RejectedOnlyWhenFull == [][\A r \in Requests : JustRejection(r)]_limiterVars

\* Where there is a client to ask, the limiter admits no more than the limit and
\* rejects none below it.  (rate_limiter.py:7, "rejected from the limit on",
\* makes no exception for a missing client or a late script.)
LimitIsExact == [][LimitHolds' /\ \A r \in Requests : JustRejection(r)]_limiterVars
=============================================================================
