--------------------------- MODULE CircuitBreaker ---------------------------
(***************************************************************************)
(* app/infra/circuit_breaker.py: one CircuitBreaker object, shared by the  *)
(* coroutines of a process.  Each method body runs under the breaker's     *)
(* asyncio lock, so a method is one action; the protected call between the *)
(* admission and the recorded outcome is not under the lock, so outcomes   *)
(* of several calls interleave with admissions in any order.               *)
(***************************************************************************)
EXTENDS Integers, FiniteSets

CONSTANTS
    Calls,             \* slots for protected calls in flight at one time
    FailureThreshold,  \* CircuitBreakerConfig.failure_threshold
    SuccessThreshold,  \* CircuitBreakerConfig.success_threshold
    RecoveryTimeout    \* CircuitBreakerConfig.recovery_timeout, in ticks

ASSUME BreakerAssumption ==
    /\ IsFiniteSet(Calls)
    /\ FailureThreshold \in Nat \ {0}
    /\ SuccessThreshold \in Nat \ {0}
    /\ RecoveryTimeout \in Nat

VARIABLES
    state,                   \* _state
    failure_count,           \* _failure_count, saturating at FailureThreshold
    success_count,           \* _success_count
    half_open_allowed_count, \* _half_open_allowed_count
    sinceFailure,            \* now - _last_failure_time, saturating at RecoveryTimeout
    running,                 \* running[c]: the style of the call in slot c, "none" if free
    probes,                  \* history: running calls admitted in the current half-open window
    lost,                    \* history: probes of this window that ended unrecorded
    outage                   \* environment: calls may fail, time out or be cancelled

vars == <<state, failure_count, success_count, half_open_allowed_count,
          sinceFailure, running, probes, lost, outage>>

\* "with": async with breaker (__aenter__/__aexit__).  "call": breaker.call(f).
Styles == {"with", "call"}

TypeOK ==
    /\ state \in {"CLOSED", "OPEN", "HALF_OPEN"}
    /\ failure_count \in 0..FailureThreshold
    /\ success_count \in 0..SuccessThreshold - 1
    /\ half_open_allowed_count \in 0..SuccessThreshold
    /\ sinceFailure \in 0..RecoveryTimeout
    /\ running \in [Calls -> Styles \cup {"none"}]
    /\ probes \in SUBSET {c \in Calls : running[c] # "none"}
    /\ lost \in Nat
    /\ outage \in BOOLEAN

Init ==
    /\ state = "CLOSED"
    /\ failure_count = 0
    /\ success_count = 0
    /\ half_open_allowed_count = 0
    /\ sinceFailure = RecoveryTimeout
    /\ running = [c \in Calls |-> "none"]
    /\ probes = {}
    /\ lost = 0
    /\ outage = TRUE
-----------------------------------------------------------------------------
\* _open(): the counters of failures and successes keep their values.
Open ==
    /\ state' = "OPEN"
    /\ half_open_allowed_count' = 0

\* _close()
Close ==
    /\ state' = "CLOSED"
    /\ failure_count' = 0
    /\ success_count' = 0
    /\ half_open_allowed_count' = 0

ResetDue == sinceFailure >= RecoveryTimeout

FailureLimit(n) == n >= FailureThreshold

\* Mutant: the probe limit checked after counting the caller.
MutProbeSlotFreeTight == half_open_allowed_count + 1 < SuccessThreshold
ProbeSlotFree == half_open_allowed_count < SuccessThreshold

\* _should_allow() on a closed breaker.
AllowClosed ==
    /\ state = "CLOSED"
    /\ UNCHANGED <<state, success_count, half_open_allowed_count, probes, lost>>

\* Mutant: the first probe is charged for the whole window.
MutAllowFirstProbe(c) ==
    /\ state = "OPEN"
    /\ ResetDue
    /\ state' = "HALF_OPEN"
    /\ success_count' = 0
    /\ half_open_allowed_count' = SuccessThreshold
    /\ probes' = {c}
    /\ lost' = 0

\* _should_allow() on an open breaker whose recovery time has passed: the
\* caller becomes the first probe of a new half-open window.
AllowFirstProbe(c) ==
    /\ state = "OPEN"
    /\ ResetDue
    /\ state' = "HALF_OPEN"
    /\ success_count' = 0
    /\ half_open_allowed_count' = 1
    /\ probes' = {c}
    /\ lost' = 0

\* _should_allow() on a half-open breaker: one of the remaining probe slots.
AllowProbe(c) ==
    /\ state = "HALF_OPEN"
    /\ ProbeSlotFree
    /\ half_open_allowed_count' = half_open_allowed_count + 1
    /\ probes' = probes \cup {c}
    /\ UNCHANGED <<state, success_count, lost>>

\* __aenter__ and the head of call(): an admitted call starts to run.  A
\* rejected one raises (or runs its fallback) and changes nothing here.
Enter(c, style) ==
    /\ running[c] = "none"
    /\ AllowClosed \/ AllowFirstProbe(c) \/ AllowProbe(c)
    /\ running' = [running EXCEPT ![c] = style]
    /\ UNCHANGED <<failure_count, sinceFailure, outage>>

\* The call in slot c is over; a window that closed forgets its probes.
Leave(c) ==
    /\ running' = [running EXCEPT ![c] = "none"]
    /\ probes' = IF state' = "HALF_OPEN" THEN probes \ {c} ELSE {}

\* record_success()
record_success ==
    /\ \/ /\ state = "HALF_OPEN"
          /\ IF success_count + 1 >= SuccessThreshold
             THEN Close
             ELSE /\ success_count' = success_count + 1
                  /\ UNCHANGED <<state, failure_count, half_open_allowed_count>>
       \/ /\ state = "CLOSED"
          /\ failure_count' = 0
          /\ UNCHANGED <<state, success_count, half_open_allowed_count>>
       \/ /\ state = "OPEN"
          /\ UNCHANGED <<state, failure_count, success_count, half_open_allowed_count>>
    /\ UNCHANGED sinceFailure

\* record_failure(): also refreshes _last_failure_time of an open breaker.
record_failure ==
    /\ sinceFailure' = 0
    /\ UNCHANGED success_count
    /\ IF state = "HALF_OPEN"
       THEN Open /\ UNCHANGED failure_count
       ELSE IF FailureLimit(failure_count + 1)
       THEN Open /\ failure_count' = FailureThreshold
       ELSE /\ failure_count' = failure_count + 1
            /\ UNCHANGED <<state, half_open_allowed_count>>

Succeed(c) ==
    /\ running[c] # "none"
    /\ record_success
    /\ Leave(c)
    /\ lost' = IF state' = "HALF_OPEN" THEN lost ELSE 0
    /\ UNCHANGED outage

\* An exception other than a cancellation, a timeout included.
Fail(c) ==
    /\ running[c] # "none"
    /\ outage
    /\ record_failure
    /\ Leave(c)
    /\ lost' = 0
    /\ UNCHANGED outage

\* The calling task is cancelled.  __aexit__ records any BaseException as a
\* failure; call() catches only Exception, which CancelledError is not, so it
\* records nothing and does not give the probe slot back.
Cancel(c) ==
    /\ outage
    /\ \/ /\ running[c] = "with"
          /\ record_failure
          /\ Leave(c)
          /\ lost' = 0
       \/ /\ running[c] = "call"
          /\ UNCHANGED <<state, failure_count, success_count,
                         half_open_allowed_count, sinceFailure>>
          /\ Leave(c)
          /\ lost' = IF c \in probes THEN lost + 1 ELSE lost
    /\ UNCHANGED outage

Tick ==
    /\ sinceFailure < RecoveryTimeout
    /\ sinceFailure' = sinceFailure + 1
    /\ UNCHANGED <<state, failure_count, success_count, half_open_allowed_count,
                   running, probes, lost, outage>>

\* The protected service fails or recovers.
EnvironmentChanges ==
    /\ outage' = ~outage
    /\ UNCHANGED <<state, failure_count, success_count, half_open_allowed_count,
                   sinceFailure, running, probes, lost>>

Finish(c) == Succeed(c) \/ Fail(c) \/ Cancel(c)

Next ==
    \/ \E c \in Calls, style \in Styles : Enter(c, style)
    \/ \E c \in Calls : Finish(c)
    \/ Tick
    \/ EnvironmentChanges

Spec == Init /\ [][Next]_vars

\* Callers keep coming, every call returns (each client has a timeout) and the
\* clock advances.  Nothing is assumed of the environment.
Fairness ==
    /\ \A c \in Calls : WF_vars(\E style \in Styles : Enter(c, style))
    /\ \A c \in Calls : WF_vars(Finish(c))
    /\ WF_vars(Tick)

FairSpec == Spec /\ Fairness
-----------------------------------------------------------------------------
\* The failure counter and the state agree in every interleaving: a closed
\* breaker has seen fewer failures than the threshold, and an open or half-open
\* one still carries the full count, which is why one late failure re-opens it
\* and moves _last_failure_time (record_failure counts in OPEN too).
CountMatchesState ==
    (state = "CLOSED") <=> (failure_count < FailureThreshold)

\* Every probe slot handed out in a half-open window is accounted for: its call
\* still runs, or was recorded as a success, or was cancelled inside call().
\* So with nothing lost, a window whose probes have all returned has closed: the
\* breaker cannot sit in HALF_OPEN with no slot left and nobody to free it.
ProbeAccounting ==
    state = "HALF_OPEN" =>
        /\ half_open_allowed_count >= 1
        /\ half_open_allowed_count <= Cardinality(probes) + success_count + lost

\* Counter, state and slots of the current window tell one story, whichever
\* outcomes of earlier windows arrive in it.
WindowConsistent == CountMatchesState /\ ProbeAccounting

\* Once the service stays healthy the breaker ends up closed for good, whatever
\* stale outcomes of earlier windows arrive, unless a probe was cancelled
\* inside call() (see HalfOpenResolves).
RecoversUnlessProbeLost ==
    (<>[]~outage /\ [](lost = 0)) => <>[](state = "CLOSED")

\* The module docstring's state machine (circuit_breaker.py:5): HALF_OPEN leads
\* to CLOSED or OPEN.
HalfOpenResolves == state = "HALF_OPEN" ~> state # "HALF_OPEN"
=============================================================================
