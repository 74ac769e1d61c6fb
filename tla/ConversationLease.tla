------------------------- MODULE ConversationLease -------------------------
(***************************************************************************)
(* app/infra/redis_lease.py: the Redis lease on one conversation and the   *)
(* RedisLeaseManager objects of the turns, in any worker, that want it.    *)
(* Every manager has an owner id of its own (a uuid4) and is used for one  *)
(* acquire .. release.  The three Lua scripts are atomic in Redis.  A      *)
(* command that a manager gave up on (socket error, timeout, cancellation, *)
(* open "redis" breaker) may never have been sent, or may still be applied *)
(* by Redis at any later time.  Time is counted in ticks.                  *)
(***************************************************************************)
EXTENDS Integers, FiniteSets

CONSTANTS
    Managers,          \* RedisLeaseManager objects for this conversation
    NoOwner,           \* the key does not exist
    TTL,               \* lease_ttl_seconds
    RenewInterval,     \* renew_interval_seconds
    MaxLag,            \* the most a due renewal is late (event loop, round trip)
    MaxRenewRetries,   \* _MAX_RENEW_RETRIES
    FailureThreshold,  \* FAILURE_THRESHOLD of is_owned
    FailureWindow,     \* FAILURE_WINDOW_SECONDS of is_owned
    MaxLate            \* bound: commands given up on and still on their way

ASSUME LeaseAssumption ==
    /\ NoOwner \notin Managers
    /\ TTL \in Nat \ {0}
    /\ RenewInterval \in Nat \ {0}
    /\ MaxLag \in Nat
    /\ RenewInterval + MaxLag < TTL
    /\ MaxRenewRetries \in Nat \ {0}
    /\ FailureThreshold \in Nat \ {0}
    /\ FailureWindow \in Nat
    /\ MaxLate \in Nat

VARIABLES
    key,           \* the owner id stored under the lock key, or NoOwner
    ttl,           \* ticks left to the key, 0 without a key
    phase,         \* where the turn of each manager is
    renewing,      \* the renew task of a manager is alive
    timer,         \* ticks to the next renewal, negative when it is late
    renewFailures, \* renew_failures of _renew_loop
    giveUp,        \* _lease_give_up
    checkFailures, \* _consecutive_failures of is_owned
    windowAge,     \* now - _first_failure_time, capped; NoWindow for 0.0
    late,          \* commands given up on that Redis may still apply
    sinceGrant,    \* history: ticks since the last acknowledged grant, capped
    failedChecks   \* history: failed ownership checks in a row inside one window

serverVars  == <<key, ttl, late>>
renewVars   == <<renewing, timer, renewFailures, giveUp>>
checkVars   == <<checkFailures, windowAge, failedChecks>>
vars == <<serverVars, phase, renewVars, checkVars, sinceGrant>>

NoWindow == -1
GiveUpTime == MaxRenewRetries * (RenewInterval + MaxLag)
\* Ages above both limits are not told apart.
AgeCap == IF GiveUpTime < TTL THEN TTL + 1 ELSE GiveUpTime + 1
Commands == [op : {"acquire", "renew", "release"}, by : Managers]

TypeOK ==
    /\ key \in Managers \cup {NoOwner}
    /\ ttl \in 0..TTL
    /\ key = NoOwner <=> ttl = 0
    /\ phase \in [Managers -> {"new", "held", "lost", "done"}]
    /\ renewing \in [Managers -> BOOLEAN]
    /\ timer \in [Managers -> (-MaxLag)..RenewInterval]
    /\ renewFailures \in [Managers -> 0..MaxRenewRetries]
    /\ giveUp \in [Managers -> BOOLEAN]
    /\ checkFailures \in [Managers -> 0..FailureThreshold]
    /\ windowAge \in [Managers -> NoWindow..FailureWindow + 1]
    /\ late \subseteq Commands
    /\ sinceGrant \in [Managers -> 0..AgeCap]
    /\ failedChecks \in [Managers -> 0..FailureThreshold + 1]

Init ==
    /\ key = NoOwner
    /\ ttl = 0
    /\ phase = [m \in Managers |-> "new"]
    /\ renewing = [m \in Managers |-> FALSE]
    /\ timer = [m \in Managers |-> RenewInterval]
    /\ renewFailures = [m \in Managers |-> 0]
    /\ giveUp = [m \in Managers |-> FALSE]
    /\ checkFailures = [m \in Managers |-> 0]
    /\ windowAge = [m \in Managers |-> NoWindow]
    /\ late = {}
    /\ sinceGrant = [m \in Managers |-> AgeCap]
    /\ failedChecks = [m \in Managers |-> 0]
-----------------------------------------------------------------------------
\* Mutant: SET without the existence test.
MutAcquireScript(m) ==
    /\ key' = m
    /\ ttl' = TTL

\* ACQUIRE_SCRIPT
AcquireScript(m) ==
    IF key = NoOwner
    THEN key' = m /\ ttl' = TTL
    ELSE UNCHANGED <<key, ttl>>

\* Mutant: the renewal does not extend the key.
MutRenewScript(m) == UNCHANGED <<key, ttl>>

\* RENEW_SCRIPT
RenewScript(m) ==
    /\ ttl' = IF key = m THEN TTL ELSE ttl
    /\ UNCHANGED key

\* RELEASE_SCRIPT
ReleaseScript(m) ==
    IF key = m
    THEN key' = NoOwner /\ ttl' = 0
    ELSE UNCHANGED <<key, ttl>>

\* A command that raises at the client: it is lost, or stays on its way.
Abandon(op, m) ==
    \/ UNCHANGED late
    \/ /\ Cardinality(late) < MaxLate
       /\ late' = late \cup {[op |-> op, by |-> m]}

\* Redis applies a command nobody waits for any more.
ApplyLate(c) ==
    /\ c \in late
    /\ late' = late \ {c}
    /\ \/ c.op = "acquire" /\ AcquireScript(c.by)
       \/ c.op = "renew" /\ RenewScript(c.by)
       \/ c.op = "release" /\ ReleaseScript(c.by)
    /\ UNCHANGED <<phase, renewVars, checkVars, sinceGrant>>

DropLate(c) ==
    /\ c \in late
    /\ late' = late \ {c}
    /\ UNCHANGED <<key, ttl, phase, renewVars, checkVars, sinceGrant>>
-----------------------------------------------------------------------------
\* acquire(): on success _start_renewer() creates the renew task.
acquire(m) ==
    /\ phase[m] = "new"
    /\ UNCHANGED <<late, renewFailures, giveUp, checkVars>>
    /\ AcquireScript(m)
    /\ IF key' = m
       THEN /\ phase' = [phase EXCEPT ![m] = "held"]
            /\ renewing' = [renewing EXCEPT ![m] = TRUE]
            /\ timer' = [timer EXCEPT ![m] = RenewInterval]
            /\ sinceGrant' = [sinceGrant EXCEPT ![m] = 0]
       ELSE /\ phase' = [phase EXCEPT ![m] = "done"]
            /\ UNCHANGED <<renewing, timer, sinceGrant>>

\* acquire() raises: the turn reports an error and never releases.
AcquireError(m) ==
    /\ phase[m] = "new"
    /\ phase' = [phase EXCEPT ![m] = "done"]
    /\ Abandon("acquire", m)
    /\ UNCHANGED <<key, ttl, renewVars, checkVars, sinceGrant>>

RenewDue(m) == renewing[m] /\ timer[m] <= 0

\* One round of _renew_loop that reaches Redis.  Another owner, or none, ends
\* the task with _lease_give_up set.
Renew(m) ==
    /\ RenewDue(m)
    /\ RenewScript(m)
    /\ IF key = m
       THEN /\ timer' = [timer EXCEPT ![m] = RenewInterval]
            /\ renewFailures' = [renewFailures EXCEPT ![m] = 0]
            /\ sinceGrant' = [sinceGrant EXCEPT ![m] = 0]
            /\ UNCHANGED <<renewing, giveUp>>
       ELSE /\ renewing' = [renewing EXCEPT ![m] = FALSE]
            /\ giveUp' = [giveUp EXCEPT ![m] = TRUE]
            /\ UNCHANGED <<timer, renewFailures, sinceGrant>>
    /\ UNCHANGED <<late, phase, checkVars>>

\* Mutant: errors do not end the renew task.
MutRenewExhausted(n) == FALSE
RenewExhausted(n) == n >= MaxRenewRetries

\* One round of _renew_loop that raises.
RenewError(m) ==
    /\ RenewDue(m)
    /\ Abandon("renew", m)
    /\ renewFailures' = [renewFailures EXCEPT ![m] =
                            IF @ < MaxRenewRetries THEN @ + 1 ELSE @]
    /\ timer' = [timer EXCEPT ![m] = RenewInterval]
    /\ IF RenewExhausted(renewFailures[m] + 1)
       THEN /\ renewing' = [renewing EXCEPT ![m] = FALSE]
            /\ giveUp' = [giveUp EXCEPT ![m] = TRUE]
       ELSE UNCHANGED <<renewing, giveUp>>
    /\ UNCHANGED <<key, ttl, phase, checkVars, sinceGrant>>
-----------------------------------------------------------------------------
\* The turn sees is_owned() return FALSE and stops.
Lose(m) == phase' = [phase EXCEPT ![m] = "lost"]

\* is_owned() after the renew task gave up.
OwnedGivenUp(m) ==
    /\ phase[m] = "held"
    /\ giveUp[m]
    /\ Lose(m)
    /\ UNCHANGED <<serverVars, renewVars, checkVars, sinceGrant>>

\* is_owned() with an answer from Redis.
OwnedAnswered(m) ==
    /\ phase[m] = "held"
    /\ ~giveUp[m]
    /\ checkFailures' = [checkFailures EXCEPT ![m] = 0]
    /\ windowAge' = [windowAge EXCEPT ![m] = NoWindow]
    /\ failedChecks' = [failedChecks EXCEPT ![m] = 0]
    /\ IF key = m THEN UNCHANGED phase ELSE Lose(m)
    /\ UNCHANGED <<serverVars, renewVars, sinceGrant>>

\* Mutant: one check more than the threshold.
MutChecksExhaustedLate(n) == n > FailureThreshold
ChecksExhausted(n) == n >= FailureThreshold

\* is_owned() without an answer.  The first failure only opens the window; a
\* failure after the window restarts the count at one.
OwnedError(m) ==
    /\ phase[m] = "held"
    /\ ~giveUp[m]
    /\ \/ /\ windowAge[m] = NoWindow
          /\ windowAge' = [windowAge EXCEPT ![m] = 0]
          /\ failedChecks' = [failedChecks EXCEPT ![m] = 1]
          /\ UNCHANGED checkFailures
       \/ /\ windowAge[m] > FailureWindow
          /\ windowAge' = [windowAge EXCEPT ![m] = 0]
          /\ failedChecks' = [failedChecks EXCEPT ![m] = 1]
          /\ checkFailures' = [checkFailures EXCEPT ![m] = 1]
       \/ /\ windowAge[m] \in 0..FailureWindow
          /\ failedChecks' = [failedChecks EXCEPT ![m] = @ + 1]
          /\ checkFailures' = [checkFailures EXCEPT ![m] = @ + 1]
          /\ UNCHANGED windowAge
    /\ IF ChecksExhausted(checkFailures'[m]) THEN Lose(m) ELSE UNCHANGED phase
    /\ UNCHANGED <<serverVars, renewVars, sinceGrant>>
-----------------------------------------------------------------------------
\* Mutant: release() leaves the renew task running.
MutStopRenewer(m) == UNCHANGED renewing
StopRenewer(m) == renewing' = [renewing EXCEPT ![m] = FALSE]

\* The turn is over and drops its manager: nothing reads the fields again, so
\* they take their initial values.
TurnOver(m) ==
    /\ phase[m] \in {"held", "lost"}
    /\ phase' = [phase EXCEPT ![m] = "done"]
    /\ timer' = [timer EXCEPT ![m] = RenewInterval]
    /\ renewFailures' = [renewFailures EXCEPT ![m] = 0]
    /\ giveUp' = [giveUp EXCEPT ![m] = FALSE]
    /\ checkFailures' = [checkFailures EXCEPT ![m] = 0]
    /\ windowAge' = [windowAge EXCEPT ![m] = NoWindow]
    /\ failedChecks' = [failedChecks EXCEPT ![m] = 0]
    /\ sinceGrant' = [sinceGrant EXCEPT ![m] = AgeCap]

\* release(): the renew task is cancelled first.  A renewal on its way when the
\* cancellation hits may still reach Redis, even after the delete.
release(m) ==
    /\ TurnOver(m)
    /\ StopRenewer(m)
    /\ ReleaseScript(m)
    /\ IF RenewDue(m) THEN Abandon("renew", m) ELSE UNCHANGED late

\* release() raises after it cancelled the renew task: the TTL has to do.
ReleaseError(m) ==
    /\ TurnOver(m)
    /\ StopRenewer(m)
    /\ Abandon("release", m)
    /\ UNCHANGED <<key, ttl>>

\* The worker process dies: turn and renew task are gone, the key is not.
Crash(m) ==
    /\ TurnOver(m)
    /\ renewing' = [renewing EXCEPT ![m] = FALSE]
    /\ UNCHANGED serverVars

\* One tick passes; no due renewal is more than MaxLag late.
Tick ==
    /\ \A m \in Managers : renewing[m] => timer[m] > -MaxLag
    /\ ttl' = IF ttl > 0 THEN ttl - 1 ELSE 0
    /\ key' = IF ttl > 1 THEN key ELSE NoOwner
    /\ timer' = [m \in Managers |-> IF renewing[m] THEN timer[m] - 1 ELSE timer[m]]
    /\ windowAge' = [m \in Managers |->
                        IF windowAge[m] \in 0..FailureWindow /\ phase[m] = "held"
                        THEN windowAge[m] + 1 ELSE windowAge[m]]
    /\ sinceGrant' = [m \in Managers |->
                        IF sinceGrant[m] < AgeCap THEN sinceGrant[m] + 1 ELSE AgeCap]
    /\ UNCHANGED <<late, phase, renewing, renewFailures, giveUp,
                   checkFailures, failedChecks>>

Check(m) == OwnedGivenUp(m) \/ OwnedAnswered(m) \/ OwnedError(m)

Next ==
    \/ \E m \in Managers :
          \/ acquire(m) \/ AcquireError(m)
          \/ Renew(m) \/ RenewError(m)
          \/ Check(m)
          \/ release(m) \/ ReleaseError(m) \/ Crash(m)
    \/ \E c \in Commands : ApplyLate(c) \/ DropLate(c)
    \/ Tick

Spec == Init /\ [][Next]_vars

\* The clock runs, a due renew task runs (its attempt may fail), and a command
\* on its way is applied or lost in the end.  No turn has to end by itself.
Fairness ==
    /\ WF_vars(Tick)
    /\ \A m \in Managers : WF_vars(Renew(m) \/ RenewError(m))
    /\ \A c \in Commands : WF_vars(ApplyLate(c) \/ DropLate(c))

FairSpec == Spec /\ Fairness
-----------------------------------------------------------------------------
\* The turn of m still runs.
Working(m) == phase[m] \in {"held", "lost"}

\* The lease promises exclusion within the TTL.
Service == INSTANCE LeaseService WITH
    granted <- {m \in Managers : Working(m) /\ sinceGrant[m] < TTL}

\* At any time at most one turn works under a grant younger than the TTL, and a
\* new grant waits until the old one was given back or ran out.
ImplementsLeaseService == Service!Spec

\* A renew task whose last round succeeded owns the key: no stall up to MaxLag
\* and no command of another manager, early or late, takes a healthy lease away.
HealthyHolderKeepsKey ==
    \A m \in Managers : renewing[m] /\ renewFailures[m] = 0 => key = m

\* A turn that lost the key without noticing (Redis out of its reach, the TTL
\* over, perhaps another turn running) is told by its renew task after at most
\* MaxRenewRetries rounds: the time two turns overlap is bounded.
UnnoticedLossBounded ==
    \A m \in Managers :
        Working(m) /\ ~giveUp[m] /\ key # m => sinceGrant[m] \in TTL..GiveUpTime

\* Only the owner's own release, or its TTL, takes the key away from an owner:
\* not the release of a turn that lost it, however late it is applied.
OnlyOwnerOrTtlFrees ==
    [][\A m \in Managers :
         key = m /\ key' # m => ttl = 1 \/ phase'[m] = "done"]_vars

\* A turn stops for lost ownership only on evidence: its renew task gave up,
\* Redis named another owner, or FailureThreshold checks in a row failed
\* (redis_lease.py:189, "only after 10 failures in a row within 60 seconds").
JustlyLost(m) ==
    phase[m] = "held" /\ phase'[m] = "lost" =>
        giveUp[m] \/ key # m \/ failedChecks'[m] >= FailureThreshold

\* No turn is stopped by a transient error.
LostOnlyOnEvidence == [][\A m \in Managers : JustlyLost(m)]_vars

\* Whatever way a turn ends (a crash, a failed release, an acquire whose answer
\* was lost), the conversation is not locked by it for ever.
EventuallyFree == \A m \in Managers : phase[m] = "done" ~> key # m

\* The docstring of is_owned (redis_lease.py:189): after FailureThreshold failed
\* checks in a row inside the window the lease counts as lost.
LostAfterThreshold ==
    \A m \in Managers : phase[m] = "held" => failedChecks[m] < FailureThreshold

\* It is so one check later at the latest, wherever the failures lie in the window
\* and however often it is begun again: a turn that cannot ask Redis stops.
LostSoonAfterThreshold ==
    \A m \in Managers : phase[m] = "held" => failedChecks[m] <= FailureThreshold

\* A turn stops neither before the failing checks reach the threshold nor more
\* than one check after that.
LostAtThreshold ==
    [][LostSoonAfterThreshold' /\ \A m \in Managers : JustlyLost(m)]_vars
=============================================================================
