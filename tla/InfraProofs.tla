---------------------------- MODULE InfraProofs -----------------------------
(***************************************************************************)
(* Theorems about the parts of the infrastructure that share no state: the *)
(* circuit breaker, for any number of overlapping calls, any thresholds    *)
(* and any recovery time; the snowflake ids, for any number of processes,  *)
(* sizes of the fields, restarts and settings of the clock; the sliding    *)
(* window, for any number of requests, limit, window and delay; and the    *)
(* chain of models, of any length, with any number of calls at a time.     *)
(***************************************************************************)
EXTENDS MCInfra, FiniteSetTheorems, TLAPS

-----------------------------------------------------------------------------
\* The circuit breaker.


\* The three invariants are inductive only together: CountMatchesState bounds
\* the failure counter that TypeOK ranges over, and ProbeAccounting needs the
\* bounds of TypeOK.
IInv == TypeOK /\ CountMatchesState /\ ProbeAccounting

\* A set of call slots is finite, so adding or removing one slot changes its
\* cardinality by at most one.
LEMMA ProbeCardinality ==
    ASSUME NEW S \in SUBSET Calls, NEW c \in Calls
    PROVE  /\ IsFiniteSet(S)
           /\ Cardinality(S) \in Nat
           /\ Cardinality({c}) = 1
           /\ c \notin S => Cardinality(S \cup {c}) = Cardinality(S) + 1
           /\ Cardinality(S \ {c}) = IF c \in S THEN Cardinality(S) - 1 ELSE Cardinality(S)
<1>1. IsFiniteSet(S)
  BY FS_Subset, BreakerAssumption DEF BreakerAssumption
<1>2. QED
  BY <1>1, FS_CardinalityType, FS_AddElement, FS_RemoveElement, FS_Singleton

LEMMA InitIInv == Init => IInv
<1> SUFFICES ASSUME Init PROVE IInv
  OBVIOUS
<1> USE BreakerAssumption DEF BreakerAssumption, Init
<1>1. TypeOK
  BY DEF TypeOK, Styles
<1>2. CountMatchesState
  BY DEF CountMatchesState
<1>3. ProbeAccounting
  BY DEF ProbeAccounting
<1>4. QED
  BY <1>1, <1>2, <1>3 DEF IInv

\* An admission keeps the invariant: only a half-open breaker charges a slot,
\* and the caller becomes a running probe at the same time.
LEMMA EnterIInv ==
    ASSUME IInv, NEW c \in Calls, NEW style \in Styles, Enter(c, style)
    PROVE  IInv'
<1> USE BreakerAssumption DEF BreakerAssumption, IInv
<1>1. /\ running' = [running EXCEPT ![c] = style]
      /\ running[c] = "none"
      /\ UNCHANGED <<failure_count, sinceFailure, outage>>
  BY DEF Enter
<1>2. c \notin probes /\ probes \in SUBSET Calls
  BY <1>1 DEF TypeOK
<1>3. /\ \A d \in Calls : d # c => running'[d] = running[d]
      /\ running'[c] # "none"
      /\ running' \in [Calls -> Styles \cup {"none"}]
  BY <1>1 DEF TypeOK, Styles
<1>4. CASE AllowClosed
  BY <1>1, <1>2, <1>3, <1>4 DEF AllowClosed, TypeOK, CountMatchesState, ProbeAccounting
<1>5. CASE AllowFirstProbe(c)
  <2>1. probes' = {c} /\ Cardinality({c}) = 1
    BY <1>2, <1>5, ProbeCardinality DEF AllowFirstProbe
  <2>2. TypeOK'
    BY <1>1, <1>3, <1>5, <2>1 DEF AllowFirstProbe, TypeOK
  <2>3. QED
    BY <1>1, <1>5, <2>1, <2>2 DEF AllowFirstProbe, CountMatchesState, ProbeAccounting
<1>6. CASE AllowProbe(c)
  <2>1. probes' = probes \cup {c} /\ Cardinality(probes') = Cardinality(probes) + 1
        /\ Cardinality(probes) \in Nat
    BY <1>2, <1>6, ProbeCardinality DEF AllowProbe
  <2>2. TypeOK'
    BY <1>1, <1>2, <1>3, <1>6, <2>1 DEF AllowProbe, ProbeSlotFree, TypeOK
  <2>3. ProbeAccounting'
    BY <1>6, <2>1 DEF AllowProbe, ProbeSlotFree, TypeOK, ProbeAccounting
  <2>4. QED
    BY <1>1, <1>6, <2>2, <2>3 DEF AllowProbe, CountMatchesState
<1>7. QED
  BY <1>4, <1>5, <1>6 DEF Enter

\* What every way of ending a call does to the call slots.
LEMMA LeaveTyping ==
    ASSUME TypeOK, NEW c \in Calls, Leave(c)
    PROVE  /\ running' \in [Calls -> Styles \cup {"none"}]
           /\ probes' \in SUBSET {d \in Calls : running'[d] # "none"}
           /\ state' # "HALF_OPEN" => probes' = {}
           /\ state' = "HALF_OPEN" => probes' = probes \ {c}
           /\ probes \in SUBSET Calls
BY DEF TypeOK, Leave, Styles

\* A success keeps the invariant: in a half-open window it either closes the
\* breaker or moves one unit from the running probes to the success count.  A
\* success that is not a probe's only adds to the count.
LEMMA SucceedIInv ==
    ASSUME IInv, NEW c \in Calls, Succeed(c)
    PROVE  IInv'
<1> USE BreakerAssumption DEF BreakerAssumption, IInv
<1>1. Leave(c) /\ record_success /\ UNCHANGED <<sinceFailure, outage>>
      /\ lost' = IF state' = "HALF_OPEN" THEN lost ELSE 0
  BY DEF Succeed, record_success
<1>2. /\ running' \in [Calls -> Styles \cup {"none"}]
      /\ probes' \in SUBSET {d \in Calls : running'[d] # "none"}
      /\ state' # "HALF_OPEN" => probes' = {}
      /\ state' = "HALF_OPEN" => probes' = probes \ {c}
      /\ probes \in SUBSET Calls
  BY <1>1, LeaveTyping
<1>3. CASE state = "HALF_OPEN" /\ success_count + 1 >= SuccessThreshold
  BY <1>1, <1>2, <1>3 DEF record_success, Close, TypeOK, CountMatchesState, ProbeAccounting
<1>4. CASE state = "HALF_OPEN" /\ ~(success_count + 1 >= SuccessThreshold)
  <2>1. /\ state' = "HALF_OPEN"
        /\ success_count' = success_count + 1
        /\ UNCHANGED <<failure_count, half_open_allowed_count>>
        /\ lost' = lost
    BY <1>1, <1>4 DEF record_success
  <2>2. probes' = probes \ {c} /\ Cardinality(probes') + 1 >= Cardinality(probes)
        /\ Cardinality(probes) \in Nat /\ Cardinality(probes') \in Nat
    <3>1. probes' = probes \ {c} /\ probes' \in SUBSET Calls
      BY <1>2, <2>1
    <3>2. Cardinality(probes') \in Nat
      BY <3>1, ProbeCardinality
    <3>3. /\ Cardinality(probes) \in Nat
          /\ Cardinality(probes \ {c}) = IF c \in probes THEN Cardinality(probes) - 1
                                                         ELSE Cardinality(probes)
      BY <1>2, ProbeCardinality
    <3>4. QED
      BY <3>1, <3>2, <3>3
  <2>3. TypeOK'
    BY <1>1, <1>2, <1>4, <2>1 DEF TypeOK
  <2>4. ProbeAccounting'
    BY <1>4, <2>1, <2>2 DEF TypeOK, ProbeAccounting
  <2>5. QED
    BY <1>4, <2>1, <2>3, <2>4 DEF CountMatchesState
<1>5. CASE state # "HALF_OPEN"
  BY <1>1, <1>2, <1>5 DEF record_success, TypeOK, CountMatchesState, ProbeAccounting
<1>6. QED
  BY <1>3, <1>4, <1>5

\* Recording a failure leaves no half-open window behind.
LEMMA FailureIInv ==
    ASSUME IInv, NEW c \in Calls, record_failure, Leave(c), lost' = 0, UNCHANGED outage
    PROVE  IInv'
<1> USE BreakerAssumption DEF BreakerAssumption, IInv
<1>1. state' # "HALF_OPEN"
  BY DEF record_failure, Open, FailureLimit, TypeOK
<1>2. /\ running' \in [Calls -> Styles \cup {"none"}]
      /\ probes' \in SUBSET {d \in Calls : running'[d] # "none"}
  BY LeaveTyping
<1>3. TypeOK'
  BY <1>2 DEF record_failure, Open, FailureLimit, TypeOK
<1>4. CountMatchesState'
  BY DEF record_failure, Open, FailureLimit, TypeOK, CountMatchesState
<1>5. QED
  BY <1>1, <1>3, <1>4 DEF ProbeAccounting

\* A probe cancelled inside call() moves from the running probes to the lost.
LEMMA CancelIInv ==
    ASSUME IInv, NEW c \in Calls, Cancel(c)
    PROVE  IInv'
<1> USE BreakerAssumption DEF BreakerAssumption, IInv
<1>1. CASE record_failure /\ Leave(c) /\ lost' = 0
  BY <1>1, FailureIInv DEF Cancel
<1>2. CASE /\ Leave(c)
           /\ UNCHANGED <<state, failure_count, success_count,
                          half_open_allowed_count, sinceFailure>>
           /\ lost' = IF c \in probes THEN lost + 1 ELSE lost
  <2>1. /\ running' \in [Calls -> Styles \cup {"none"}]
        /\ probes' \in SUBSET {d \in Calls : running'[d] # "none"}
        /\ state' = "HALF_OPEN" => probes' = probes \ {c}
        /\ probes \in SUBSET Calls
    BY <1>2, LeaveTyping
  <2>2. TypeOK'
    BY <1>2, <2>1 DEF TypeOK, Cancel
  <2>3. CountMatchesState'
    BY <1>2 DEF CountMatchesState
  <2>4. /\ Cardinality(probes) \in Nat
        /\ Cardinality(probes \ {c}) = IF c \in probes THEN Cardinality(probes) - 1
                                                       ELSE Cardinality(probes)
    BY <2>1, ProbeCardinality
  <2>5. ProbeAccounting'
    BY <1>2, <2>1, <2>4 DEF TypeOK, ProbeAccounting
  <2>6. QED
    BY <2>2, <2>3, <2>5
<1>3. QED
  BY <1>1, <1>2 DEF Cancel

LEMMA NextIInv == IInv /\ [Next]_vars => IInv'
<1> SUFFICES ASSUME IInv, [Next]_vars PROVE IInv'
  OBVIOUS
<1>1. ASSUME NEW c \in Calls, NEW style \in Styles, Enter(c, style) PROVE IInv'
  BY <1>1, EnterIInv
<1>2. ASSUME NEW c \in Calls, Succeed(c) PROVE IInv'
  BY <1>2, SucceedIInv
<1>3. ASSUME NEW c \in Calls, Fail(c) PROVE IInv'
  BY <1>3, FailureIInv DEF Fail
<1>4. ASSUME NEW c \in Calls, Cancel(c) PROVE IInv'
  BY <1>4, CancelIInv
<1>5. CASE Tick
  BY <1>5, BreakerAssumption
     DEF Tick, IInv, TypeOK, CountMatchesState, ProbeAccounting, BreakerAssumption
<1>6. CASE EnvironmentChanges
  BY <1>6 DEF EnvironmentChanges, IInv, TypeOK, CountMatchesState, ProbeAccounting
<1>7. CASE UNCHANGED vars
  BY <1>7 DEF vars, IInv, TypeOK, CountMatchesState, ProbeAccounting
<1>8. QED
  BY <1>1, <1>2, <1>3, <1>4, <1>5, <1>6, <1>7 DEF Next, Finish

\* The counters of the breaker stay in their ranges: no more slots are handed
\* out in a half-open window than success_threshold.
THEOREM TypeCorrect == Spec => []TypeOK
<1>1. IInv => TypeOK
  BY DEF IInv
<1>2. QED
  BY <1>1, InitIInv, NextIInv, PTL DEF Spec

\* A breaker is closed exactly while its failure count is below the threshold.
THEOREM StateFollowsCount == Spec => []CountMatchesState
<1>1. IInv => CountMatchesState
  BY DEF IInv
<1>2. QED
  BY <1>1, InitIInv, NextIInv, PTL DEF Spec

\* Every slot of a half-open window is a running probe, a success or a probe
\* cancelled inside call().
THEOREM SlotsAccountedFor == Spec => []ProbeAccounting
<1>1. IInv => ProbeAccounting
  BY DEF IInv
<1>2. QED
  BY <1>1, InitIInv, NextIInv, PTL DEF Spec

\* Counter, state and slots of a window tell one story.
THEOREM WindowIsConsistent == Spec => []WindowConsistent
BY StateFollowsCount, SlotsAccountedFor, PTL DEF WindowConsistent

\* A half-open window that has neither a free slot nor a running probe has lost
\* a probe: while all protected calls use "async with", the breaker is never
\* stuck in HALF_OPEN.
THEOREM StuckOnlyAfterLoss ==
    Spec => [](state = "HALF_OPEN" /\ ~ProbeSlotFree /\ probes = {} => lost > 0)
<1>1. IInv => (state = "HALF_OPEN" /\ ~ProbeSlotFree /\ probes = {} => lost > 0)
  BY FS_EmptySet, BreakerAssumption
     DEF IInv, TypeOK, ProbeAccounting, ProbeSlotFree, BreakerAssumption
<1>2. QED
  BY <1>1, InitIInv, NextIInv, PTL DEF Spec

-----------------------------------------------------------------------------
\* The snowflake ids.

\* The first field decides when the second one stays below its width.
LEMMA FieldsOrder ==
    ASSUME NEW S \in Nat, NEW a \in Nat, NEW b \in Nat,
           NEW s \in 0 .. S - 1, NEW t \in 0 .. S - 1, a < b
    PROVE  a * S + s < b * S + t
<1>1. (b - a - 1) * S >= 0
  OBVIOUS
<1>2. b * S - a * S - S >= 0
  BY <1>1
<1>3. a * S \in Nat /\ b * S \in Nat
  OBVIOUS
<1> QED
  BY <1>2, <1>3

LEMMA FieldsTell ==
    ASSUME NEW S \in Nat, NEW a \in Nat, NEW b \in Nat,
           NEW s \in 0 .. S - 1, NEW t \in 0 .. S - 1,
           a * S + s = b * S + t
    PROVE  a = b /\ s = t
<1>1. ~(a < b)
  <2>1. SUFFICES ASSUME a < b PROVE FALSE
    OBVIOUS
  <2>2. a * S + s < b * S + t
    BY <2>1, FieldsOrder
  <2>3. a * S \in Nat /\ b * S \in Nat
    OBVIOUS
  <2> QED
    BY <2>2, <2>3
<1>2. ~(b < a)
  <2>1. SUFFICES ASSUME b < a PROVE FALSE
    OBVIOUS
  <2>2. b * S + t < a * S + s
    BY <2>1, FieldsOrder
  <2>3. a * S \in Nat /\ b * S \in Nat
    OBVIOUS
  <2> QED
    BY <2>2, <2>3
<1>3. a = b
  BY <1>1, <1>2
<1>4. a * S = b * S /\ a * S \in Nat
  BY <1>3
<1> QED
  BY <1>3, <1>4

Drawings == [by : Processes, life : Nat, nth : Nat, time : Nat, seq : 0 .. Sequences - 1]

\* i was drawn at an earlier time than j, or before it in one millisecond.
Before(i, j) == i.time < j.time \/ (i.time = j.time /\ i.seq < j.seq)

LEMMA WorkerTyped == ASSUME NEW i \in Drawings
                     PROVE  WorkerOf[i.by] \in 0 .. Machines - 1
  BY IdAssumption DEF IdAssumption, Drawings

LEMMA BeforeIsLess ==
    ASSUME NEW i \in Drawings, NEW j \in Drawings, i.by = j.by, Before(i, j)
    PROVE  IdOf(i) < IdOf(j)
<1> DEFINE a == i.time * Machines + WorkerOf[i.by]
           b == j.time * Machines + WorkerOf[j.by]
<1>1. /\ i.time \in Nat /\ j.time \in Nat /\ Machines \in Nat /\ Sequences \in Nat
      /\ i.seq \in 0 .. Sequences - 1 /\ j.seq \in 0 .. Sequences - 1
  BY IdAssumption DEF IdAssumption, Drawings
<1>2. WorkerOf[i.by] \in 0 .. Machines - 1 /\ WorkerOf[j.by] \in 0 .. Machines - 1
  BY WorkerTyped
<1>3. i.time * Machines \in Nat /\ j.time * Machines \in Nat
  BY <1>1
<1>4. a \in Nat /\ b \in Nat
  BY <1>2, <1>3
<1>5. IdOf(i) = a * Sequences + i.seq /\ IdOf(j) = b * Sequences + j.seq
  BY DEF IdOf
<1>6. CASE i.time < j.time
  <2>1. a < b
    BY <1>1, <1>2, <1>6, FieldsOrder
  <2> QED
    BY <1>1, <1>4, <1>5, <2>1, FieldsOrder
<1>7. CASE i.time = j.time /\ i.seq < j.seq
  <2>1. a = b
    BY <1>7
  <2>2. a * Sequences \in Nat
    BY <1>1, <1>4
  <2> HIDE DEF a, b
  <2>3. a * Sequences + i.seq < a * Sequences + j.seq
    BY <1>1, <1>7, <2>2
  <2> QED
    BY <1>5, <2>1, <2>3
<1> QED
  BY <1>6, <1>7 DEF Before

LEMMA EqualIds ==
    ASSUME NEW i \in Drawings, NEW j \in Drawings, IdOf(i) = IdOf(j)
    PROVE  i.time = j.time /\ i.seq = j.seq /\ WorkerOf[i.by] = WorkerOf[j.by]
<1> DEFINE a == i.time * Machines + WorkerOf[i.by]
           b == j.time * Machines + WorkerOf[j.by]
<1>1. /\ i.time \in Nat /\ j.time \in Nat /\ Machines \in Nat /\ Sequences \in Nat
      /\ i.seq \in 0 .. Sequences - 1 /\ j.seq \in 0 .. Sequences - 1
  BY IdAssumption DEF IdAssumption, Drawings
<1>2. WorkerOf[i.by] \in 0 .. Machines - 1 /\ WorkerOf[j.by] \in 0 .. Machines - 1
  BY WorkerTyped
<1>3. i.time * Machines \in Nat /\ j.time * Machines \in Nat
  BY <1>1
<1>4. a \in Nat /\ b \in Nat
  BY <1>2, <1>3
<1>5. a * Sequences + i.seq = b * Sequences + j.seq
  BY DEF IdOf
<1>6. a = b /\ i.seq = j.seq
  <2> HIDE DEF a, b
  <2> QED
    BY <1>1, <1>4, <1>5, FieldsTell
<1>7. i.time * Machines + WorkerOf[i.by] = j.time * Machines + WorkerOf[j.by]
  BY <1>6
<1>8. i.time = j.time /\ WorkerOf[i.by] = WorkerOf[j.by]
  <2> DEFINE x == i.time
             y == j.time
             v == WorkerOf[i.by]
             w == WorkerOf[j.by]
  <2>1. /\ Machines \in Nat /\ x \in Nat /\ y \in Nat
        /\ v \in 0 .. Machines - 1 /\ w \in 0 .. Machines - 1
        /\ x * Machines + v = y * Machines + w
    BY <1>1, <1>2, <1>7
  <2>2. x = y /\ v = w
    <3> HIDE DEF x, y, v, w
    <3> QED
      BY <2>1, FieldsTell
  <2> QED
    BY <2>2
<1> QED
  BY <1>6, <1>8

\* What a process has drawn is counted and lies behind its last time and
\* sequence.
DrawnInv ==
    \A i \in issued :
        /\ i.nth < drawn[i.by] /\ i.life <= life[i.by]
        /\ i.life = life[i.by] =>
              \/ i.time < lastTime[i.by]
              \/ i.time = lastTime[i.by] /\ (spinning[i.by] \/ i.seq <= sequence[i.by])

OrderInv ==
    \A i, j \in issued : i.by = j.by =>
        /\ i.nth = j.nth => i = j
        /\ i.life = j.life /\ i.nth < j.nth => Before(i, j)

\* As long as the clock only grows, a new life of a process begins later than
\* all that its earlier ones have drawn.
LivesInv ==
    rewinds = 0 =>
        /\ \A p \in Processes : lastTime[p] <= wallTime
        /\ \A i \in issued : /\ i.time <= wallTime
                             /\ i.life < life[i.by] => i.time < wallTime
        /\ \A i, j \in issued : i.by = j.by /\ i.life < j.life => i.time < j.time

IdInv == IdTypeOK /\ DrawnInv /\ OrderInv /\ LivesInv

\* A process that issues an id later than its last one, with the sequence going
\* on in the same millisecond, keeps all that.
LEMMA IssueInv ==
    ASSUME IdInv, NEW p \in Processes, NEW s \in 0 .. Sequences - 1, Issue(p, wallTime, s),
           spinning' \in [Processes -> BOOLEAN],
           \A q \in Processes \ {p} : spinning'[q] = spinning[q],
           wallTime > lastTime[p] \/ (wallTime = lastTime[p] /\ ~spinning[p] /\ sequence[p] < s)
    PROVE  IdInv'
<1> DEFINE new == [by |-> p, life |-> life[p], nth |-> drawn[p], time |-> wallTime, seq |-> s]
<1>1. /\ issued' = issued \cup {new}
      /\ lastTime' = [lastTime EXCEPT ![p] = wallTime]
      /\ sequence' = [sequence EXCEPT ![p] = s]
      /\ drawn' = [drawn EXCEPT ![p] = @ + 1]
      /\ UNCHANGED <<wallTime, life, rewinds>>
  BY DEF Issue
<1>2. /\ issued \subseteq Drawings /\ new \in Drawings
      /\ new.by = p /\ new.life = life[p] /\ new.nth = drawn[p]
      /\ new.time = wallTime /\ new.seq = s
  BY DEF IdInv, IdTypeOK, Drawings
<1> HIDE DEF new
<1>3. IdTypeOK'
  BY <1>1, <1>2 DEF IdInv, IdTypeOK, Drawings
<1>4. DrawnInv'
  <2> SUFFICES ASSUME NEW i \in issued'
               PROVE  /\ i.nth < drawn'[i.by] /\ i.life <= life[i.by]
                      /\ i.life = life[i.by] =>
                            \/ i.time < lastTime'[i.by]
                            \/ i.time = lastTime'[i.by] /\ (spinning'[i.by] \/ i.seq <= sequence'[i.by])
    BY <1>1 DEF DrawnInv
  <2>1. CASE i = new
    BY <1>1, <1>2, <2>1 DEF IdInv, IdTypeOK
  <2>2. CASE i \in issued /\ i.by # p
    BY <1>1, <1>2, <2>2 DEF IdInv, IdTypeOK, DrawnInv, Drawings
  <2>3. CASE i \in issued /\ i.by = p
    <3>1. /\ i.nth < drawn[p] /\ i.life <= life[p] /\ i.time \in Nat
          /\ i.seq \in 0 .. Sequences - 1 /\ i.nth \in Nat
          /\ i.life = life[p] =>
                \/ i.time < lastTime[p]
                \/ i.time = lastTime[p] /\ (spinning[p] \/ i.seq <= sequence[p])
      BY <1>2, <2>3 DEF IdInv, DrawnInv, Drawings
    <3>2. lastTime'[p] = wallTime /\ sequence'[p] = s /\ drawn'[p] = drawn[p] + 1
      BY <1>1 DEF IdInv, IdTypeOK
    <3>3. /\ wallTime \in Nat /\ lastTime[p] \in Nat \cup {-1} /\ drawn[p] \in Nat
          /\ sequence[p] \in 0 .. Sequences - 1
      BY DEF IdInv, IdTypeOK
    <3> QED
      BY <2>3, <3>1, <3>2, <3>3
  <2> QED
    BY <1>1, <2>1, <2>2, <2>3
<1>5. \A i \in issued : i.by = p =>
          /\ i.nth < new.nth
          /\ i.life = new.life => Before(i, new)
  <2> SUFFICES ASSUME NEW i \in issued, i.by = p
               PROVE  i.nth < new.nth /\ (i.life = new.life => Before(i, new))
    OBVIOUS
  <2>1. /\ i.nth < drawn[p] /\ i.time \in Nat /\ i.seq \in 0 .. Sequences - 1
        /\ i.life = life[p] =>
              \/ i.time < lastTime[p]
              \/ i.time = lastTime[p] /\ (spinning[p] \/ i.seq <= sequence[p])
    BY <1>2 DEF IdInv, DrawnInv, Drawings
  <2>2. /\ wallTime \in Nat /\ lastTime[p] \in Nat \cup {-1}
        /\ sequence[p] \in 0 .. Sequences - 1
    BY DEF IdInv, IdTypeOK
  <2> QED
    BY <1>2, <2>1, <2>2 DEF Before
<1>6. OrderInv'
  <2> SUFFICES ASSUME NEW i \in issued', NEW j \in issued', i.by = j.by
               PROVE  /\ i.nth = j.nth => i = j
                      /\ i.life = j.life /\ i.nth < j.nth => Before(i, j)
    BY DEF OrderInv, Before
  <2>0. i.nth \in Nat /\ j.nth \in Nat
    BY <1>1, <1>2 DEF Drawings
  <2>1. CASE i \in issued /\ j \in issued
    BY <2>1 DEF IdInv, OrderInv
  <2>2. CASE i \in issued /\ j = new
    BY <1>2, <1>5, <2>0, <2>2
  <2>3. CASE i = new /\ j \in issued
    <3>1. j.nth < i.nth
      BY <1>2, <1>5, <2>3
    <3> QED
      BY <2>0, <3>1
  <2>4. CASE i = new /\ j = new
    BY <2>0, <2>4
  <2> QED
    BY <1>1, <2>1, <2>2, <2>3, <2>4
<1>7. LivesInv'
  <2> SUFFICES ASSUME rewinds = 0
               PROVE  /\ \A q \in Processes : lastTime'[q] <= wallTime
                      /\ \A i \in issued' : /\ i.time <= wallTime
                                            /\ i.life < life[i.by] => i.time < wallTime
                      /\ \A i, j \in issued' : i.by = j.by /\ i.life < j.life => i.time < j.time
    BY <1>1 DEF LivesInv
  <2>1. \A q \in Processes : lastTime'[q] <= wallTime
    BY <1>1 DEF IdInv, IdTypeOK, LivesInv
  <2>2. \A i \in issued : /\ i.time <= wallTime /\ i.life <= life[i.by]
                          /\ i.life < life[i.by] => i.time < wallTime
    BY DEF IdInv, DrawnInv, LivesInv
  <2>3. /\ new.time <= wallTime /\ ~(new.life < life[new.by])
        /\ \A i \in issued' : i.life \in Nat
    BY <1>1, <1>2 DEF IdInv, IdTypeOK, Drawings
  <2>4. ASSUME NEW i \in issued', NEW j \in issued', i.by = j.by, i.life < j.life
        PROVE  i.time < j.time
    <3>1. CASE i \in issued /\ j \in issued
      BY <2>4, <3>1 DEF IdInv, LivesInv
    <3>2. CASE i \in issued /\ j = new
      BY <1>2, <2>2, <2>4, <3>2
    <3>3. CASE i = new /\ j \in issued
      <4>1. j.life <= life[p] /\ i.life = life[p]
        BY <1>2, <2>2, <2>4, <3>3
      <4>2. i.life \in Nat /\ j.life \in Nat
        BY <2>3
      <4> QED
        BY <2>4, <4>1, <4>2
    <3>4. CASE i = new /\ j = new
      BY <2>3, <2>4, <3>4
    <3> QED
      BY <1>1, <3>1, <3>2, <3>3, <3>4
  <2>5. \A i \in issued' : /\ i.time <= wallTime
                           /\ i.life < life[i.by] => i.time < wallTime
    BY <1>1, <2>2, <2>3
  <2> QED
    BY <2>1, <2>4, <2>5
<1> QED
  BY <1>3, <1>4, <1>6, <1>7 DEF IdInv

LEMMA InitIdInv == IdInit => IdInv
<1> SUFFICES ASSUME IdInit PROVE IdInv
  OBVIOUS
<1>1. 0 \in 0 .. Sequences - 1
  BY IdAssumption DEF IdAssumption
<1>2. IdTypeOK
  BY <1>1 DEF IdInit, IdTypeOK
<1>3. DrawnInv /\ OrderInv /\ LivesInv
  BY DEF IdInit, DrawnInv, OrderInv, LivesInv
<1> QED
  BY <1>2, <1>3 DEF IdInv

LEMMA StepIdInv == IdInv /\ [IdNext]_idVars => IdInv'
<1> SUFFICES ASSUME IdInv, [IdNext]_idVars PROVE IdInv'
  OBVIOUS
<1>t. IdTypeOK
  BY DEF IdInv
<1>0. Sequences \in Nat \ {0} /\ 0 \in 0 .. Sequences - 1
  BY IdAssumption DEF IdAssumption
<1>1. ASSUME NEW p \in Processes, FreshMillisecond(p) PROVE IdInv'
  <2>1. /\ Issue(p, wallTime, 0) /\ wallTime > lastTime[p]
        /\ spinning' = spinning
    BY <1>1 DEF FreshMillisecond
  <2> QED
    BY <1>t, <1>0, <2>1, IssueInv DEF IdTypeOK
<1>2. ASSUME NEW p \in Processes, SameMillisecond(p) PROVE IdInv'
  <2>1. /\ Issue(p, wallTime, sequence[p] + 1) /\ wallTime = lastTime[p]
        /\ ~spinning[p] /\ spinning' = spinning /\ sequence[p] + 1 < Sequences
    BY <1>2 DEF SameMillisecond
  <2>2. sequence[p] \in 0 .. Sequences - 1
    BY <1>t DEF IdTypeOK
  <2>3. sequence[p] + 1 \in 0 .. Sequences - 1 /\ sequence[p] < sequence[p] + 1
    BY <1>0, <2>1, <2>2
  <2> QED
    BY <1>t, <2>1, <2>3, IssueInv DEF IdTypeOK
<1>3. ASSUME NEW p \in Processes, FullMillisecond(p) PROVE IdInv'
  <2>1. /\ wallTime = lastTime[p]
        /\ sequence' = [sequence EXCEPT ![p] = 0]
        /\ spinning' = [spinning EXCEPT ![p] = TRUE]
        /\ UNCHANGED <<wallTime, lastTime, life, drawn, issued, rewinds>>
    BY <1>3 DEF FullMillisecond
  <2>2. IdTypeOK'
    BY <1>t, <1>0, <2>1 DEF IdTypeOK
  <2>3. DrawnInv'
    <3> SUFFICES ASSUME NEW i \in issued
                 PROVE  /\ i.nth < drawn[i.by] /\ i.life <= life[i.by]
                        /\ i.life = life[i.by] =>
                              \/ i.time < lastTime[i.by]
                              \/ i.time = lastTime[i.by] /\ (spinning'[i.by] \/ i.seq <= sequence'[i.by])
      BY <2>1 DEF DrawnInv
    <3>1. i.by \in Processes
      BY <1>t DEF IdTypeOK
    <3>2. /\ i.nth < drawn[i.by] /\ i.life <= life[i.by]
          /\ i.life = life[i.by] =>
                \/ i.time < lastTime[i.by]
                \/ i.time = lastTime[i.by] /\ (spinning[i.by] \/ i.seq <= sequence[i.by])
      BY DEF IdInv, DrawnInv
    <3>3. CASE i.by = p
      BY <1>t, <2>1, <3>2, <3>3 DEF IdTypeOK
    <3>4. CASE i.by # p
      BY <1>t, <2>1, <3>1, <3>2, <3>4 DEF IdTypeOK
    <3> QED
      BY <3>3, <3>4
  <2>4. OrderInv' /\ LivesInv'
    BY <2>1 DEF IdInv, OrderInv, LivesInv, Before
  <2> QED
    BY <2>2, <2>3, <2>4 DEF IdInv
<1>4. ASSUME NEW p \in Processes, NextMillisecond(p) PROVE IdInv'
  <2>1. /\ Issue(p, wallTime, 0) /\ wallTime > lastTime[p]
        /\ spinning' = [spinning EXCEPT ![p] = FALSE]
    BY <1>4 DEF NextMillisecond
  <2>2. /\ spinning' \in [Processes -> BOOLEAN]
        /\ \A q \in Processes \ {p} : spinning'[q] = spinning[q]
    BY <1>t, <2>1 DEF IdTypeOK
  <2> QED
    BY <1>0, <2>1, <2>2, IssueInv
<1>5. ASSUME NEW p \in Processes, RestartProcess(p) PROVE IdInv'
  <2>1. /\ life' = [life EXCEPT ![p] = @ + 1]
        /\ lastTime' = [lastTime EXCEPT ![p] = -1]
        /\ sequence' = [sequence EXCEPT ![p] = 0]
        /\ spinning' = [spinning EXCEPT ![p] = FALSE]
        /\ wallTime' = wallTime + 1
        /\ UNCHANGED <<drawn, issued, rewinds>>
    BY <1>5 DEF RestartProcess
  <2>2. IdTypeOK'
    BY <1>t, <1>0, <2>1 DEF IdTypeOK
  <2>3. \A q \in Processes : life[q] \in Nat /\ life'[q] = IF q = p THEN life[q] + 1 ELSE life[q]
    BY <1>t, <2>1 DEF IdTypeOK
  <2>4. \A i \in issued : /\ i.by \in Processes /\ i.life \in Nat /\ i.time \in Nat
                          /\ i.life <= life[i.by]
    BY <1>t DEF IdInv, IdTypeOK, DrawnInv
  <2>5. DrawnInv'
    <3> SUFFICES ASSUME NEW i \in issued
                 PROVE  /\ i.nth < drawn[i.by] /\ i.life <= life'[i.by]
                        /\ i.life = life'[i.by] =>
                              \/ i.time < lastTime'[i.by]
                              \/ i.time = lastTime'[i.by] /\ (spinning'[i.by] \/ i.seq <= sequence'[i.by])
      BY <2>1 DEF DrawnInv
    <3>1. /\ i.nth < drawn[i.by]
          /\ i.life = life[i.by] =>
                \/ i.time < lastTime[i.by]
                \/ i.time = lastTime[i.by] /\ (spinning[i.by] \/ i.seq <= sequence[i.by])
      BY DEF IdInv, DrawnInv
    <3>2. i.by \in Processes /\ i.life \in Nat /\ i.life <= life[i.by]
      BY <2>4
    <3>3. CASE i.by = p
      BY <2>3, <3>1, <3>2, <3>3
    <3>4. CASE i.by # p
      <4>1. /\ life'[i.by] = life[i.by] /\ lastTime'[i.by] = lastTime[i.by]
            /\ spinning'[i.by] = spinning[i.by] /\ sequence'[i.by] = sequence[i.by]
        BY <1>t, <2>1, <3>2, <3>4 DEF IdTypeOK
      <4> QED
        BY <3>1, <3>2, <4>1
    <3> QED
      BY <3>3, <3>4
  <2>6. OrderInv'
    BY <2>1 DEF IdInv, OrderInv, Before
  <2>7. LivesInv'
    <3> SUFFICES ASSUME rewinds = 0
                 PROVE  /\ \A q \in Processes : lastTime'[q] <= wallTime'
                        /\ \A i \in issued : /\ i.time <= wallTime'
                                             /\ i.life < life'[i.by] => i.time < wallTime'
                        /\ \A i, j \in issued : i.by = j.by /\ i.life < j.life => i.time < j.time
      BY <2>1 DEF LivesInv
    <3>1. /\ \A q \in Processes : lastTime[q] <= wallTime
          /\ \A i \in issued : i.time <= wallTime
          /\ \A i, j \in issued : i.by = j.by /\ i.life < j.life => i.time < j.time
      BY DEF IdInv, LivesInv
    <3>2. \A q \in Processes : lastTime'[q] = IF q = p THEN -1 ELSE lastTime[q]
      BY <1>t, <2>1 DEF IdTypeOK
    <3>3. wallTime \in Nat /\ \A q \in Processes : lastTime[q] \in Nat \cup {-1}
      BY <1>t DEF IdTypeOK
    <3>4. \A q \in Processes : lastTime'[q] <= wallTime'
      BY <2>1, <3>1, <3>2, <3>3
    <3>5. \A i \in issued : i.time < wallTime'
      BY <2>1, <2>4, <3>1, <3>3
    <3> QED
      BY <2>1, <2>4, <3>1, <3>3, <3>4, <3>5
  <2> QED
    BY <2>2, <2>5, <2>6, <2>7 DEF IdInv
<1>6. CASE PassMillisecond
  <2>1. /\ wallTime' = wallTime + 1
        /\ UNCHANGED <<lastTime, sequence, spinning, life, drawn, issued, rewinds>>
    BY <1>6 DEF PassMillisecond
  <2>2. IdTypeOK'
    BY <1>t, <2>1 DEF IdTypeOK
  <2>3. DrawnInv' /\ OrderInv'
    BY <2>1 DEF IdInv, DrawnInv, OrderInv, Before
  <2>4. LivesInv'
    <3> SUFFICES ASSUME rewinds = 0
                 PROVE  /\ \A q \in Processes : lastTime[q] <= wallTime'
                        /\ \A i \in issued : /\ i.time <= wallTime'
                                             /\ i.life < life[i.by] => i.time < wallTime'
                        /\ \A i, j \in issued : i.by = j.by /\ i.life < j.life => i.time < j.time
      BY <2>1 DEF LivesInv
    <3>1. wallTime \in Nat /\ \A q \in Processes : lastTime[q] \in Nat \cup {-1}
      BY <1>t DEF IdTypeOK
    <3>2. \A i \in issued : i.time \in Nat
      BY <1>t DEF IdTypeOK
    <3>3. /\ \A q \in Processes : lastTime[q] <= wallTime
          /\ \A i \in issued : i.time <= wallTime
          /\ \A i, j \in issued : i.by = j.by /\ i.life < j.life => i.time < j.time
      BY DEF IdInv, LivesInv
    <3> QED
      BY <2>1, <3>1, <3>2, <3>3
  <2> QED
    BY <2>2, <2>3, <2>4 DEF IdInv
<1>7. CASE SetClockBack
  <2>1. /\ rewinds' = rewinds + 1 /\ wallTime' \in 0 .. wallTime - 1
        /\ UNCHANGED <<lastTime, sequence, spinning, life, drawn, issued>>
    BY <1>7 DEF SetClockBack
  <2>2. IdTypeOK' /\ rewinds' # 0
    BY <1>t, <2>1 DEF IdTypeOK
  <2>3. DrawnInv' /\ OrderInv' /\ LivesInv'
    BY <2>1, <2>2 DEF IdInv, DrawnInv, OrderInv, LivesInv, Before
  <2> QED
    BY <2>2, <2>3 DEF IdInv
<1>8. CASE UNCHANGED idVars
  BY <1>8 DEF idVars, IdInv, IdTypeOK, DrawnInv, OrderInv, LivesInv, Before
<1> QED
  BY <1>1, <1>2, <1>3, <1>4, <1>5, <1>6, <1>7, <1>8 DEF IdNext

\* IdInv holds in every state of the generators.
THEOREM IdInvariant == IdSpec => []IdInv
BY InitIdInv, StepIdInv, PTL DEF IdSpec

\* The sequence of a generator never leaves its field, for any sizes of the
\* fields and whatever the clock does (next_id()).
THEOREM IdTypeCorrect == IdSpec => []IdTypeOK
<1>1. IdInv => IdTypeOK
  BY DEF IdInv
<1> QED
  BY IdInvariant, <1>1, PTL

\* The ids that a process draws in one life grow, however full a millisecond is
\* and wherever the clock is set (next_id()).
THEOREM IdsAlwaysGrow == IdSpec => []IdsGrow
<1>1. IdInv => IdsGrow
  <2> SUFFICES ASSUME IdInv, NEW i \in issued, NEW j \in issued,
                      i.by = j.by, i.life = j.life, i.nth < j.nth
               PROVE  IdOf(i) < IdOf(j)
    BY DEF IdsGrow
  <2>1. i \in Drawings /\ j \in Drawings
    BY DEF IdInv, IdTypeOK, Drawings
  <2>2. Before(i, j)
    BY DEF IdInv, OrderInv
  <2> QED
    BY <2>1, <2>2, BeforeIsLess
<1> QED
  BY IdInvariant, <1>1, PTL

\* Two ids of the machine are equal only for two processes with one worker
\* number, or two lives of one process between which the clock was set back
\* (get_id_generator(), next_id()).
THEOREM ClashesExcused == IdSpec => []ClashOnlyByConfiguration
<1>1. IdInv => ClashOnlyByConfiguration
  <2> SUFFICES ASSUME IdInv, NEW i \in issued, NEW j \in issued, i # j, IdOf(i) = IdOf(j)
               PROVE  /\ WorkerOf[i.by] = WorkerOf[j.by]
                      /\ i.by # j.by \/ (i.life # j.life /\ rewinds > 0)
    BY DEF ClashOnlyByConfiguration
  <2>1. i \in Drawings /\ j \in Drawings /\ rewinds \in Nat
    BY DEF IdInv, IdTypeOK, Drawings
  <2>2. i.time = j.time /\ i.seq = j.seq /\ WorkerOf[i.by] = WorkerOf[j.by]
    BY <2>1, EqualIds
  <2>3. SUFFICES ASSUME i.by = j.by PROVE i.life # j.life /\ rewinds > 0
    BY <2>2
  <2>4. /\ i.nth \in Nat /\ j.nth \in Nat /\ i.life \in Nat /\ j.life \in Nat
        /\ i.time \in Nat /\ j.time \in Nat
        /\ i.seq \in 0 .. Sequences - 1 /\ j.seq \in 0 .. Sequences - 1
    BY <2>1 DEF Drawings
  <2>5. i.nth # j.nth
    BY <2>3 DEF IdInv, OrderInv
  <2>6. i.life # j.life
    <3>1. SUFFICES ASSUME i.life = j.life PROVE FALSE
      OBVIOUS
    <3>2. Before(i, j) \/ Before(j, i)
      <4>1. CASE i.nth < j.nth
        BY <2>3, <3>1, <4>1 DEF IdInv, OrderInv
      <4>2. CASE j.nth < i.nth
        BY <2>3, <3>1, <4>2 DEF IdInv, OrderInv
      <4> QED
        BY <2>4, <2>5, <4>1, <4>2
    <3> QED
      BY <2>2, <2>4, <3>2 DEF Before
  <2>7. rewinds # 0
    <3>1. SUFFICES ASSUME rewinds = 0 PROVE FALSE
      OBVIOUS
    <3>2. /\ i.life < j.life => i.time < j.time
          /\ j.life < i.life => j.time < i.time
      BY <2>3, <3>1 DEF IdInv, LivesInv
    <3> QED
      BY <2>2, <2>4, <2>6, <3>2
  <2> QED
    BY <2>1, <2>6, <2>7
<1> QED
  BY IdInvariant, <1>1, PTL

\* The ids of a machine grow within each process, and are different but for
\* those two causes.
THEOREM IdsDistinct == IdSpec => []IdsOrderedAndDistinct
BY IdsAlwaysGrow, ClashesExcused, PTL DEF IdsOrderedAndDistinct

-----------------------------------------------------------------------------
\* The sliding window.

\* The requests that came; only they are in the sorted set, once their script
\* was run.
Came == {r \in Requests : answer[r] # "new"}

CameInv ==
    /\ IsFiniteSet(Came)
    /\ \A q \in entries : answer[q] \in {"admitted", "failed"}
    /\ Cardinality(entries) <= Limit

\* No time stamp is in the future, and none of a request whose script is to run
\* is older than the greatest delay.
StampInv ==
    \A r \in Requests :
        /\ askedAt[r] <= now
        /\ answer[r] = "asked" => now - askedAt[r] <= MaxDelay

\* The keys live longer than the window of each entry, and an admitted request
\* is forgotten only when its window is over.
KeptInv ==
    /\ \A q \in entries : askedAt[q] + KeyTtl <= now + keyTtl
    /\ bound => \A q \in Requests : answer[q] = "admitted" /\ q \notin entries =>
           askedAt[q] + Window <= now

LimiterInv == LimiterTypeOK /\ CameInv /\ StampInv /\ KeptInv /\ LimitHolds

LEMMA InitLimiterInv == LimiterInit => LimiterInv
<1> SUFFICES ASSUME LimiterInit PROVE LimiterInv
  OBVIOUS
<1>1. LimiterTypeOK
  BY LimiterAssumption DEF LimiterInit, LimiterTypeOK, LimiterAssumption
<1>2. Came = {} /\ entries = {}
  BY DEF LimiterInit, Came
<1>3. IsFiniteSet({}) /\ Cardinality({}) = 0
  BY FS_EmptySet
<1>4. CameInv
  BY <1>2, <1>3, LimiterAssumption DEF CameInv, LimiterAssumption
<1>5. StampInv /\ KeptInv
  BY LimiterAssumption DEF LimiterInit, StampInv, KeptInv, LimiterAssumption
<1>6. \A t \in 0 .. MaxNow : Admitted(t - (Window - MaxDelay), t) = {}
  BY DEF LimiterInit, Admitted
<1>7. LimitHolds
  BY <1>3, <1>6, LimiterAssumption DEF LimitHolds, LimiterAssumption
<1> QED
  BY <1>1, <1>4, <1>5, <1>7 DEF LimiterInv

\* A request that ends without being admitted changes no set of admitted ones.
LEMMA NoneAdmitted ==
    ASSUME LimitHolds, bound' = bound,
           \A q \in Requests : answer'[q] = "admitted" =>
               answer[q] = "admitted" /\ askedAt'[q] = askedAt[q],
           \A q \in Requests : answer[q] = "admitted" =>
               answer'[q] = "admitted" /\ askedAt'[q] = askedAt[q]
    PROVE  LimitHolds'
<1>1. \A f, t : Admitted(f, t)' = Admitted(f, t)
  BY DEF Admitted
<1> QED
  BY <1>1 DEF LimitHolds

LEMMA PassUncheckedInv ==
    ASSUME LimiterInv, NEW r \in Requests, PassUnchecked(r)
    PROVE  LimiterInv'
<1>1. /\ ~bound /\ bound' = bound /\ answer[r] = "new"
      /\ answer' = [answer EXCEPT ![r] = "admitted"]
      /\ askedAt' = [askedAt EXCEPT ![r] = now]
      /\ UNCHANGED <<now, entries, keyTtl>>
  BY DEF PassUnchecked
<1>2. LimiterTypeOK'
  BY <1>1 DEF LimiterInv, LimiterTypeOK
<1>3. Came' = Came \cup {r} /\ r \notin entries
  BY <1>1 DEF LimiterInv, LimiterTypeOK, CameInv, Came
<1>4. CameInv'
  BY <1>1, <1>3, FS_AddElement DEF LimiterInv, LimiterTypeOK, CameInv
<1>5. StampInv' /\ KeptInv'
  BY <1>1, <1>3 DEF LimiterInv, LimiterTypeOK, StampInv, KeptInv
<1>6. LimitHolds'
  BY <1>1 DEF LimitHolds
<1> QED
  BY <1>2, <1>4, <1>5, <1>6 DEF LimiterInv

LEMMA ReadClockInv ==
    ASSUME LimiterInv, NEW r \in Requests, ReadClock(r)
    PROVE  LimiterInv'
<1>1. /\ bound' = bound /\ answer[r] = "new"
      /\ answer' = [answer EXCEPT ![r] = "asked"]
      /\ askedAt' = [askedAt EXCEPT ![r] = now]
      /\ UNCHANGED <<now, entries, keyTtl>>
  BY DEF ReadClock
<1>2. LimiterTypeOK'
  BY <1>1 DEF LimiterInv, LimiterTypeOK
<1>3. Came' = Came \cup {r} /\ r \notin entries
  BY <1>1 DEF LimiterInv, LimiterTypeOK, CameInv, Came
<1>4. CameInv'
  BY <1>1, <1>3, FS_AddElement DEF LimiterInv, LimiterTypeOK, CameInv
<1>5. StampInv' /\ KeptInv'
  BY <1>1, <1>3, LimiterAssumption
     DEF LimiterInv, LimiterTypeOK, StampInv, KeptInv, LimiterAssumption
<1>6. LimitHolds'
  BY <1>1, NoneAdmitted DEF LimiterInv, LimiterTypeOK
<1> QED
  BY <1>2, <1>4, <1>5, <1>6 DEF LimiterInv

\* The script leaves the sorted set with no more than Limit members, and clears
\* only those whose window is over.
LEMMA ScriptEntries ==
    ASSUME LimiterInv, NEW r \in Requests, RunScript(r)
    PROVE  /\ IsFiniteSet(entries) /\ IsFiniteSet(InWindow(r)) /\ InWindow(r) \subseteq entries
           /\ r \notin entries
           /\ entries' \subseteq entries \cup {r} /\ InWindow(r) \subseteq entries'
           /\ IsFiniteSet(entries') /\ Cardinality(entries') <= Limit
           /\ \A q \in entries \ entries' : askedAt[q] + Window <= now
<1>1. answer[r] = "asked" /\ entries \subseteq Came /\ IsFiniteSet(Came)
  BY DEF RunScript, LimiterInv, LimiterTypeOK, CameInv, Came
<1>2. IsFiniteSet(entries) /\ InWindow(r) \subseteq entries /\ r \notin entries
  BY <1>1, FS_Subset DEF LimiterInv, CameInv, InWindow
<1>3. /\ IsFiniteSet(InWindow(r)) /\ Cardinality(InWindow(r)) \in Nat
      /\ Cardinality(InWindow(r)) <= Cardinality(entries)
      /\ Cardinality(entries) \in Nat
  BY <1>2, FS_Subset, FS_CardinalityType
<1>4. \A q \in entries \ InWindow(r) : askedAt[q] + Window <= now
  <2> SUFFICES ASSUME NEW q \in entries, ~(askedAt[q] > askedAt[r] - Window)
               PROVE  askedAt[q] + Window <= now
    BY DEF InWindow
  <2>1. askedAt[q] \in Nat /\ askedAt[r] \in Nat /\ now \in Nat /\ askedAt[r] <= now
    BY DEF LimiterInv, LimiterTypeOK, StampInv
  <2> QED
    BY <2>1, LimiterAssumption DEF LimiterAssumption
<1>5. CASE Full(InWindow(r))
  <2>1. entries' = InWindow(r)
    BY <1>5 DEF RunScript
  <2> QED
    BY <1>2, <1>3, <1>4, <2>1, LimiterAssumption DEF LimiterInv, CameInv, LimiterAssumption
<1>6. CASE ~Full(InWindow(r))
  <2>1. entries' = InWindow(r) \cup {r}
    BY <1>6 DEF RunScript
  <2>2. IsFiniteSet(entries') /\ Cardinality(entries') = Cardinality(InWindow(r)) + 1
    BY <1>2, <1>3, <2>1, FS_AddElement
  <2>3. Cardinality(entries') <= Limit
    BY <1>3, <1>6, <2>2, LimiterAssumption DEF Full, LimiterAssumption
  <2> QED
    BY <1>2, <1>3, <1>4, <2>1, <2>2, <2>3
<1> QED
  BY <1>5, <1>6

\* What a request that is admitted now may share a window with is counted.
LEMMA AdmittedCounted ==
    ASSUME LimiterInv, NEW r \in Requests, RunScript(r), bound, answer'[r] = "admitted",
           NEW t \in 0 .. MaxNow, r \in Admitted(t - (Window - MaxDelay), t)'
    PROVE  Admitted(t - (Window - MaxDelay), t)' \subseteq entries'
<1>1. /\ askedAt' = askedAt /\ answer[r] = "asked"
      /\ \A q \in Requests \ {r} : answer'[q] = answer[q]
  BY DEF RunScript, LimiterInv, LimiterTypeOK
<1>2. entries' = InWindow(r) \cup {r}
  <2>1. CASE Full(InWindow(r))
    BY <2>1 DEF RunScript, LimiterInv, LimiterTypeOK
  <2>2. CASE ~Full(InWindow(r))
    BY <2>2 DEF RunScript
  <2> QED
    BY <2>1, <2>2
<1>3. SUFFICES ASSUME NEW q \in Admitted(t - (Window - MaxDelay), t)', q # r
               PROVE  q \in InWindow(r)
  BY <1>2
<1>4. /\ q \in Requests /\ answer[q] = "admitted"
      /\ t - (Window - MaxDelay) < askedAt[q] /\ askedAt[r] <= t
  BY <1>1, <1>3 DEF Admitted
<1>5. /\ askedAt[q] \in Nat /\ askedAt[r] \in Nat /\ now \in Nat
      /\ askedAt[r] <= now /\ now - askedAt[r] <= MaxDelay
  BY <1>1, <1>4 DEF LimiterInv, LimiterTypeOK, StampInv
<1>6. now < askedAt[q] + Window
  BY <1>4, <1>5, LimiterAssumption DEF LimiterAssumption
<1>7. q \in entries
  <2>1. q \notin entries => askedAt[q] + Window <= now
    BY <1>4 DEF LimiterInv, KeptInv
  <2> QED
    BY <1>5, <1>6, <2>1, LimiterAssumption DEF LimiterAssumption
<1>8. askedAt[q] > askedAt[r] - Window
  BY <1>5, <1>6, LimiterAssumption DEF LimiterAssumption
<1> QED
  BY <1>7, <1>8 DEF InWindow

LEMMA RunScriptInv ==
    ASSUME LimiterInv, NEW r \in Requests, RunScript(r)
    PROVE  LimiterInv'
<1>1. /\ answer[r] = "asked" /\ UNCHANGED <<bound, now, askedAt>>
      /\ answer'[r] \in {"rejected", "failed", "admitted"}
      /\ answer' = [answer EXCEPT ![r] = answer'[r]]
      /\ keyTtl' \in {keyTtl, KeyTtl}
      /\ r \in entries' => answer'[r] \in {"admitted", "failed"} /\ keyTtl' = KeyTtl
      /\ answer'[r] = "admitted" => r \in entries'
  <2>1. answer[r] = "asked" /\ UNCHANGED <<bound, now, askedAt>> /\ r \notin entries
    BY DEF RunScript, LimiterInv, CameInv
  <2>2. CASE Full(InWindow(r))
    BY <2>1, <2>2 DEF RunScript, LimiterInv, LimiterTypeOK, InWindow
  <2>3. CASE ~Full(InWindow(r))
    BY <2>1, <2>3 DEF RunScript, LimiterInv, LimiterTypeOK, InWindow
  <2> QED
    BY <2>2, <2>3
<1>2. /\ IsFiniteSet(entries') /\ Cardinality(entries') <= Limit
      /\ entries' \subseteq entries \cup {r} /\ r \notin entries
      /\ \A q \in entries \ entries' : askedAt[q] + Window <= now
  BY ScriptEntries
<1>3. \A q \in Requests \ {r} : answer'[q] = answer[q]
  BY <1>1 DEF LimiterInv, LimiterTypeOK
<1>4. LimiterTypeOK'
  BY <1>1, <1>2, LimiterAssumption DEF LimiterInv, LimiterTypeOK, LimiterAssumption
<1>5. Came' = Came
  BY <1>1, <1>3 DEF Came
<1>6. CameInv'
  BY <1>1, <1>2, <1>3, <1>5 DEF LimiterInv, LimiterTypeOK, CameInv
<1>7. StampInv'
  BY <1>1, <1>3 DEF LimiterInv, StampInv
<1>8. KeptInv'
  <2>1. /\ now \in Nat /\ keyTtl \in 0 .. KeyTtl /\ \A q \in Requests : askedAt[q] \in Nat
        /\ entries \subseteq Requests
    BY DEF LimiterInv, LimiterTypeOK
  <2>2. ASSUME NEW q \in entries' PROVE askedAt[q] + KeyTtl <= now + keyTtl'
    <3>1. CASE q = r
      BY <1>1, <2>1, <2>2, <3>1, LimiterAssumption
         DEF LimiterInv, StampInv, LimiterAssumption
    <3>2. CASE q \in entries
      <4>1. askedAt[q] + KeyTtl <= now + keyTtl /\ askedAt[q] \in Nat
        BY <2>1, <3>2 DEF LimiterInv, KeptInv
      <4>2. keyTtl <= keyTtl' /\ keyTtl' \in Nat
        BY <1>1, <2>1, LimiterAssumption DEF LimiterAssumption
      <4> QED
        BY <2>1, <4>1, <4>2, LimiterAssumption DEF LimiterAssumption
    <3> QED
      BY <1>2, <3>1, <3>2
  <2>3. ASSUME bound, NEW q \in Requests, answer'[q] = "admitted", q \notin entries'
        PROVE  askedAt[q] + Window <= now
    <3>1. q # r /\ answer[q] = "admitted"
      BY <1>1, <1>3, <2>3
    <3> QED
      BY <1>2, <2>3, <3>1 DEF LimiterInv, KeptInv
  <2> QED
    BY <1>1, <2>2, <2>3 DEF KeptInv
<1>9. LimitHolds'
  <2>1. SUFFICES ASSUME bound, NEW t \in 0 .. MaxNow
                 PROVE  Cardinality(Admitted(t - (Window - MaxDelay), t)') <= Limit
    BY <1>1 DEF LimitHolds
  <2>2. CASE r \in Admitted(t - (Window - MaxDelay), t)'
    <3>1. answer'[r] = "admitted"
      BY <2>2 DEF Admitted
    <3>2. Admitted(t - (Window - MaxDelay), t)' \subseteq entries'
      BY <2>1, <2>2, <3>1, AdmittedCounted
    <3>3. /\ Cardinality(Admitted(t - (Window - MaxDelay), t)') <= Cardinality(entries')
          /\ Cardinality(Admitted(t - (Window - MaxDelay), t)') \in Nat
          /\ Cardinality(entries') \in Nat
      BY <1>2, <3>2, FS_Subset, FS_CardinalityType
    <3> QED
      BY <1>2, <3>3, LimiterAssumption DEF LimiterAssumption
  <2>3. CASE r \notin Admitted(t - (Window - MaxDelay), t)'
    <3>1. Admitted(t - (Window - MaxDelay), t)' = Admitted(t - (Window - MaxDelay), t)
      BY <1>1, <1>3, <2>3 DEF Admitted
    <3> QED
      BY <2>1, <3>1 DEF LimiterInv, LimitHolds
  <2> QED
    BY <2>2, <2>3
<1> QED
  BY <1>4, <1>6, <1>7, <1>8, <1>9 DEF LimiterInv

LEMMA ScriptLostInv ==
    ASSUME LimiterInv, NEW r \in Requests, ScriptLost(r)
    PROVE  LimiterInv'
<1>1. /\ answer[r] = "asked" /\ answer' = [answer EXCEPT ![r] = "failed"]
      /\ UNCHANGED <<bound, now, askedAt, entries, keyTtl>>
  BY DEF ScriptLost
<1>2. LimiterTypeOK'
  BY <1>1 DEF LimiterInv, LimiterTypeOK
<1>3. Came' = Came
  BY <1>1 DEF LimiterInv, LimiterTypeOK, Came
<1>4. CameInv'
  BY <1>1, <1>3 DEF LimiterInv, LimiterTypeOK, CameInv
<1>5. StampInv' /\ KeptInv'
  BY <1>1 DEF LimiterInv, LimiterTypeOK, StampInv, KeptInv
<1>6. LimitHolds'
  BY <1>1, NoneAdmitted DEF LimiterInv, LimiterTypeOK
<1> QED
  BY <1>2, <1>4, <1>5, <1>6 DEF LimiterInv

LEMMA TickClockInv ==
    ASSUME LimiterInv, TickClock
    PROVE  LimiterInv'
<1>1. /\ \A r \in Requests : answer[r] = "asked" => now - askedAt[r] < MaxDelay
      /\ now' = now + 1
      /\ keyTtl' = IF keyTtl > 0 THEN keyTtl - 1 ELSE 0
      /\ entries' = IF keyTtl > 1 THEN entries ELSE {}
      /\ UNCHANGED <<bound, answer, askedAt>>
  BY DEF TickClock
<1>2. /\ now \in Nat /\ keyTtl \in 0 .. KeyTtl /\ KeyTtl \in Nat
      /\ \A r \in Requests : askedAt[r] \in Nat
      /\ entries \subseteq Requests
  BY LimiterAssumption DEF LimiterInv, LimiterTypeOK, LimiterAssumption
<1>3. LimiterTypeOK'
  <2>1. now' \in Nat /\ keyTtl' \in 0 .. KeyTtl /\ entries' \subseteq Requests
    BY <1>1, <1>2
  <2> QED
    BY <1>1, <2>1 DEF LimiterInv, LimiterTypeOK
<1>4. CameInv'
  <2>1. Came' = Came
    BY <1>1 DEF Came
  <2>2. Cardinality(entries') <= Limit
    BY <1>1, FS_EmptySet, LimiterAssumption DEF LimiterInv, CameInv, LimiterAssumption
  <2> QED
    BY <1>1, <2>1, <2>2 DEF LimiterInv, CameInv
<1>5. StampInv'
  BY <1>1, <1>2, LimiterAssumption DEF LimiterInv, StampInv, LimiterAssumption
<1>6. KeptInv'
  <2>1. ASSUME NEW q \in entries' PROVE askedAt[q] + KeyTtl <= now' + keyTtl'
    <3>1. keyTtl > 1 /\ q \in entries
      BY <1>1, <2>1
    <3>2. askedAt[q] + KeyTtl <= now + keyTtl /\ askedAt[q] \in Nat
      BY <1>2, <3>1 DEF LimiterInv, KeptInv
    <3> QED
      BY <1>1, <1>2, <3>1, <3>2
  <2>2. ASSUME bound, NEW q \in Requests, answer[q] = "admitted", q \notin entries'
        PROVE  askedAt[q] + Window <= now'
    <3>1. CASE q \in entries
      <4>1. askedAt[q] + KeyTtl <= now + keyTtl /\ ~(keyTtl > 1)
        BY <1>1, <2>2, <3>1 DEF LimiterInv, KeptInv
      <4> QED
        BY <1>1, <1>2, <4>1, LimiterAssumption DEF LimiterAssumption
    <3>2. CASE q \notin entries
      <4>1. askedAt[q] + Window <= now
        BY <2>2, <3>2 DEF LimiterInv, KeptInv
      <4> QED
        BY <1>1, <1>2, <4>1, LimiterAssumption DEF LimiterAssumption
    <3> QED
      BY <3>1, <3>2
  <2> QED
    BY <1>1, <2>1, <2>2 DEF KeptInv
<1>7. LimitHolds'
  BY <1>1, NoneAdmitted DEF LimiterInv
<1> QED
  BY <1>3, <1>4, <1>5, <1>6, <1>7 DEF LimiterInv

LEMMA StepLimiterInv == LimiterInv /\ [LimiterNext]_limiterVars => LimiterInv'
<1> SUFFICES ASSUME LimiterInv, [LimiterNext]_limiterVars PROVE LimiterInv'
  OBVIOUS
<1>1. CASE UNCHANGED limiterVars
  BY <1>1 DEF limiterVars, LimiterInv, LimiterTypeOK, CameInv, Came, StampInv, KeptInv,
              LimitHolds, Admitted
<1> QED
  BY <1>1, PassUncheckedInv, ReadClockInv, RunScriptInv, ScriptLostInv, TickClockInv
     DEF LimiterNext

\* LimiterInv holds in every state of the window.
THEOREM LimiterInvariant == LimiterSpec => []LimiterInv
BY InitLimiterInv, StepLimiterInv, PTL DEF LimiterSpec

\* The sorted set holds requests of this client, and its time to live never
\* exceeds what the script sets (_SLIDING_WINDOW_SCRIPT).
THEOREM LimiterTypeCorrect == LimiterSpec => []LimiterTypeOK
<1>1. LimiterInv => LimiterTypeOK
  BY DEF LimiterInv
<1> QED
  BY LimiterInvariant, <1>1, PTL

\* With a client to ask, no more than Limit requests are admitted in any window
\* that is shorter by the greatest delay, in whatever order the scripts of the
\* workers run (check_rate_limit()).
THEOREM LimitKept == LimiterSpec => []LimitHolds
<1>1. LimiterInv => LimitHolds
  BY DEF LimiterInv
<1> QED
  BY LimiterInvariant, <1>1, PTL

\* A request is rejected only when as many as Limit others of its window were
\* counted: neither itself nor a request that was rejected takes a place.
THEOREM RejectsWhenFull == LimiterSpec => RejectedOnlyWhenFull
<1>1. LimiterInv /\ [LimiterNext]_limiterVars =>
          [\A r \in Requests : JustRejection(r)]_limiterVars
  <2> DEFINE Others(r) == {q \in Requests \ {r} :
                              /\ answer[q] \in {"admitted", "failed"}
                              /\ askedAt[q] > askedAt[r] - Window}
  <2> SUFFICES ASSUME LimiterInv, LimiterNext, NEW r \in Requests,
                      answer[r] = "asked", answer'[r] = "rejected"
               PROVE  Cardinality(Others(r)) >= Limit
    BY DEF limiterVars, JustRejection
  <2>1. RunScript(r)
    BY DEF LimiterNext, PassUnchecked, ReadClock, RunScript, ScriptLost, TickClock,
           LimiterInv, LimiterTypeOK
  <2>2. Full(InWindow(r))
    BY <2>1 DEF RunScript, LimiterInv, LimiterTypeOK
  <2>3. InWindow(r) \subseteq Others(r) /\ Others(r) \subseteq Came /\ IsFiniteSet(Came)
    BY DEF InWindow, LimiterInv, LimiterTypeOK, CameInv, Came
  <2>4. IsFiniteSet(Others(r))
    BY <2>3, FS_Subset
  <2>5. /\ Cardinality(InWindow(r)) <= Cardinality(Others(r))
        /\ Cardinality(InWindow(r)) \in Nat /\ Cardinality(Others(r)) \in Nat
    BY <2>3, <2>4, FS_Subset, FS_CardinalityType
  <2> QED
    BY <2>2, <2>5, LimiterAssumption DEF Full, LimiterAssumption
<1> QED
  BY LimiterInvariant, <1>1, PTL DEF LimiterSpec, RejectedOnlyWhenFull

\* With a client to ask, the limiter is exact in both directions.
THEOREM LimitExact == LimiterSpec => LimitIsExact
<1>1. [\A r \in Requests : JustRejection(r)]_limiterVars /\ LimitHolds' =>
          [LimitHolds' /\ \A r \in Requests : JustRejection(r)]_limiterVars
  OBVIOUS
<1> QED
  BY <1>1, LimitKept, RejectsWhenFull, PTL DEF RejectedOnlyWhenFull, LimitIsExact

-----------------------------------------------------------------------------
\* The chain of models.

\* A call in its loop has a try left.
LoopInv ==
    \A c \in Prompts : callStep[c] \in {"asking", "sleeping"} => triesLeft[c] >= 1

\* Without a race, a call has a try for each model that has not refused yet.
TriesInv ==
    ~stale => \A c \in Prompts : callStep[c] \in {"asking", "sleeping"} =>
        triesLeft[c] >= ChainLength - current + 1 \/ refused = Models

FallbackInv == FallbackTypeOK /\ LoopInv /\ TriesInv /\ SkippedOnlyByRace

LEMMA InitFallbackInv == FallbackInit => FallbackInv
<1> USE FallbackAssumption DEF FallbackAssumption, FallbackInit
<1>0. 1 \in 1 .. ChainLength /\ 0 \in 0 .. ChainLength /\ 0 \in 0 .. MaxTries - 1
  OBVIOUS
<1>1. FallbackInit => FallbackTypeOK
  BY <1>0 DEF FallbackTypeOK, Models
<1>2. FallbackInit => LoopInv /\ TriesInv /\ SkippedOnlyByRace
  BY DEF LoopInv, TriesInv, SkippedOnlyByRace, Models
<1> QED
  BY <1>1, <1>2 DEF FallbackInv

\* A call that asks, sleeps or ends on its own leaves the chain as it is.
LEMMA CallInv ==
    ASSUME FallbackInv, NEW c \in Prompts,
           NEW step \in {"asking", "sleeping", "answered", "raised"},
           callStep' = [callStep EXCEPT ![c] = step],
           UNCHANGED <<current, refused, stale>>,
           callModel' \in [Prompts -> Models], retried' \in [Prompts -> 0 .. MaxTries - 1],
           \/ triesLeft' = [triesLeft EXCEPT ![c] = ChainLength - current + 1]
           \/ triesLeft' = triesLeft /\ callStep[c] \in {"asking", "sleeping"}
    PROVE  FallbackInv'
<1> USE FallbackAssumption DEF FallbackAssumption
<1>1. /\ current \in 1 .. ChainLength /\ current' = current
      /\ ChainLength - current + 1 \in 1 .. ChainLength
  BY DEF FallbackInv, FallbackTypeOK, Models
<1>2. FallbackTypeOK'
  <2>1. triesLeft' \in [Prompts -> 0 .. ChainLength]
    BY <1>1 DEF FallbackInv, FallbackTypeOK
  <2> QED
    BY <1>1, <2>1 DEF FallbackInv, FallbackTypeOK
<1>3. LoopInv'
  BY <1>1 DEF FallbackInv, FallbackTypeOK, LoopInv
<1>4. TriesInv'
  BY <1>1 DEF FallbackInv, FallbackTypeOK, TriesInv
<1>5. SkippedOnlyByRace'
  BY DEF FallbackInv, FallbackTypeOK, SkippedOnlyByRace
<1> QED
  BY <1>2, <1>3, <1>4, <1>5 DEF FallbackInv

LEMMA QuotaExhaustedInv ==
    ASSUME FallbackInv, NEW c \in Prompts, QuotaExhausted(c)
    PROVE  FallbackInv'
<1> USE FallbackAssumption DEF FallbackAssumption
<1>1. /\ callStep[c] = "asking" /\ refused' = refused \cup {callModel[c]}
      /\ stale' = (stale \/ callModel[c] # current)
      /\ current' = IF current < ChainLength THEN current + 1 ELSE current
      /\ triesLeft' = [triesLeft EXCEPT ![c] = @ - 1]
      /\ retried' = [retried EXCEPT ![c] = 0]
  BY DEF QuotaExhausted, SwitchToNext
<1>2. /\ current \in 1 .. ChainLength /\ refused \subseteq Models /\ callModel[c] \in Models
      /\ triesLeft[c] \in 1 .. ChainLength
      /\ \A d \in Prompts : triesLeft[d] \in 0 .. ChainLength
      /\ callStep \in [Prompts -> {"new", "asking", "sleeping", "answered",
                                   "raised", "exhausted"}]
  BY <1>1 DEF FallbackInv, FallbackTypeOK, LoopInv, Models
<1>3. current' \in Models /\ current' \in 1 .. ChainLength /\ current <= current'
  BY <1>1, <1>2 DEF Models
<1>4. \/ /\ triesLeft[c] > 1 /\ callStep' = callStep
         /\ callModel' = [callModel EXCEPT ![c] = current']
      \/ /\ triesLeft[c] = 1 /\ callModel' = callModel
         /\ callStep' = [callStep EXCEPT ![c] = "exhausted"]
  BY <1>2 DEF QuotaExhausted
<1>5. FallbackTypeOK'
  <2>1. triesLeft' \in [Prompts -> 0 .. ChainLength] /\ retried' \in [Prompts -> 0 .. MaxTries - 1]
    BY <1>1, <1>2 DEF FallbackInv, FallbackTypeOK
  <2>2. callModel' \in [Prompts -> Models] /\ callStep' \in [Prompts ->
            {"new", "asking", "sleeping", "answered", "raised", "exhausted"}]
    BY <1>3, <1>4 DEF FallbackInv, FallbackTypeOK
  <2>3. refused' \subseteq Models /\ stale' \in BOOLEAN
    BY <1>1, <1>2 DEF FallbackInv, FallbackTypeOK
  <2> QED
    BY <1>3, <2>1, <2>2, <2>3 DEF FallbackTypeOK
<1>6. LoopInv'
  <2> SUFFICES ASSUME NEW d \in Prompts, callStep'[d] \in {"asking", "sleeping"}
               PROVE  triesLeft'[d] >= 1
    BY DEF LoopInv
  <2>1. callStep[d] \in {"asking", "sleeping"} /\ (d = c => triesLeft[c] > 1)
    BY <1>2, <1>4
  <2>2. triesLeft[d] >= 1
    BY <2>1 DEF FallbackInv, LoopInv
  <2>3. triesLeft'[d] = IF d = c THEN triesLeft[c] - 1 ELSE triesLeft[d]
    BY <1>1 DEF FallbackInv, FallbackTypeOK
  <2> QED
    BY <1>2, <2>1, <2>2, <2>3
<1>7. ~stale' => /\ ~stale /\ callModel[c] = current
                 /\ \A m \in Models : m <= current => m \in refused'
                 /\ current = ChainLength => refused' = Models
  <2> SUFFICES ASSUME ~stale'
               PROVE  /\ ~stale /\ callModel[c] = current
                      /\ \A m \in Models : m <= current => m \in refused'
                      /\ current = ChainLength => refused' = Models
    OBVIOUS
  <2>1. ~stale /\ callModel[c] = current
    BY <1>1
  <2>2. \A m \in Models : m < current => m \in refused
    BY <2>1 DEF FallbackInv, SkippedOnlyByRace
  <2>3. \A m \in Models : m <= current => m \in refused'
    BY <1>1, <1>2, <2>1, <2>2 DEF Models
  <2>4. refused' \subseteq Models
    BY <1>1, <1>2
  <2>5. ASSUME current = ChainLength PROVE refused' = Models
    <3>1. \A m \in Models : m <= current
      BY <1>2, <2>5 DEF Models
    <3> QED
      BY <2>3, <2>4, <3>1
  <2> QED
    BY <2>1, <2>3, <2>5
<1>8. TriesInv'
  <2> SUFFICES ASSUME ~stale', NEW d \in Prompts, callStep'[d] \in {"asking", "sleeping"}
               PROVE  triesLeft'[d] >= ChainLength - current' + 1 \/ refused' = Models
    BY DEF TriesInv
  <2>1. callStep[d] \in {"asking", "sleeping"}
    BY <1>2, <1>4
  <2>2. triesLeft[d] >= ChainLength - current + 1 \/ refused = Models
    BY <1>7, <2>1 DEF FallbackInv, TriesInv
  <2>3. refused = Models => refused' = Models
    BY <1>1, <1>2
  <2>4. triesLeft'[d] = IF d = c THEN triesLeft[c] - 1 ELSE triesLeft[d]
    BY <1>1 DEF FallbackInv, FallbackTypeOK
  <2>5. CASE current = ChainLength
    BY <1>7, <2>5
  <2>6. CASE current < ChainLength
    BY <1>1, <1>2, <2>2, <2>3, <2>4, <2>6
  <2> QED
    BY <1>2, <2>5, <2>6
<1>9. SkippedOnlyByRace'
  <2> SUFFICES ASSUME ~stale'
               PROVE  /\ \A m \in Models : m < current' => m \in refused'
                      /\ \A d \in Prompts : callStep'[d] = "exhausted" => refused' = Models
    BY DEF SkippedOnlyByRace
  <2>1. ASSUME NEW m \in Models, m < current' PROVE m \in refused'
    BY <1>1, <1>2, <1>7, <2>1 DEF Models
  <2>2. ASSUME NEW d \in Prompts, callStep'[d] = "exhausted" PROVE refused' = Models
    <3>1. CASE callStep[d] = "exhausted"
      BY <1>1, <1>2, <1>7, <3>1 DEF FallbackInv, SkippedOnlyByRace
    <3>2. CASE callStep[d] # "exhausted"
      <4>1. d = c /\ triesLeft[c] = 1
        BY <1>2, <1>4, <2>2, <3>2
      <4>2. 1 >= ChainLength - current + 1 \/ refused = Models
        BY <1>1, <1>7, <4>1 DEF FallbackInv, TriesInv
      <4>3. current = ChainLength \/ refused = Models
        BY <1>2, <4>2
      <4> QED
        BY <1>1, <1>2, <1>7, <4>3
    <3> QED
      BY <3>1, <3>2
  <2> QED
    BY <2>1, <2>2
<1> QED
  BY <1>5, <1>6, <1>8, <1>9 DEF FallbackInv

LEMMA StepFallbackInv == FallbackInv /\ [FallbackNext]_fallbackVars => FallbackInv'
<1> SUFFICES ASSUME FallbackInv, [FallbackNext]_fallbackVars PROVE FallbackInv'
  OBVIOUS
<1> USE FallbackAssumption DEF FallbackAssumption
<1>1. ASSUME NEW c \in Prompts, StartCall(c) PROVE FallbackInv'
  BY <1>1, CallInv DEF StartCall, FallbackInv, FallbackTypeOK
<1>2. ASSUME NEW c \in Prompts, ModelAnswers(c) \/ ModelRaises(c) PROVE FallbackInv'
  BY <1>2, CallInv DEF ModelAnswers, ModelRaises, End, FallbackInv, FallbackTypeOK
<1>3. ASSUME NEW c \in Prompts, ModelLimits(c) PROVE FallbackInv'
  <2>1. retried' \in [Prompts -> 0 .. MaxTries - 1]
    BY <1>3 DEF ModelLimits, FallbackInv, FallbackTypeOK
  <2> QED
    BY <1>3, <2>1, CallInv DEF ModelLimits, FallbackInv, FallbackTypeOK
<1>4. ASSUME NEW c \in Prompts, AskAgain(c) PROVE FallbackInv'
  BY <1>4, CallInv DEF AskAgain, FallbackInv, FallbackTypeOK
<1>5. ASSUME NEW c \in Prompts, QuotaExhausted(c) PROVE FallbackInv'
  BY <1>5, QuotaExhaustedInv
<1>6. CASE UNCHANGED fallbackVars
  BY <1>6 DEF fallbackVars, FallbackInv, FallbackTypeOK, LoopInv, TriesInv, SkippedOnlyByRace
<1> QED
  BY <1>1, <1>2, <1>3, <1>4, <1>5, <1>6 DEF FallbackNext

\* FallbackInv holds in every state of the manager.
THEOREM FallbackInvariant == FallbackSpec => []FallbackInv
BY InitFallbackInv, StepFallbackInv, PTL DEF FallbackSpec

\* The index never leaves the chain, and no call tries more models than there
\* are (_switch_to_next(), chat_completion()).
THEOREM FallbackTypeCorrect == FallbackSpec => []FallbackTypeOK
<1>1. FallbackInv => FallbackTypeOK
  BY DEF FallbackInv
<1> QED
  BY FallbackInvariant, <1>1, PTL

\* Without a race between two calls that find the same model exhausted, no model
\* is passed over, and RuntimeError means that all have refused.
THEOREM SkipsOnlyByRace == FallbackSpec => []SkippedOnlyByRace
<1>1. FallbackInv => SkippedOnlyByRace
  BY DEF FallbackInv
<1> QED
  BY FallbackInvariant, <1>1, PTL

-----------------------------------------------------------------------------
\* The instances of the run, side by side.

\* Whatever part a run takes, each of the four parts behaves as specified.
LEMMA PartsBehave == InfraSpec => Spec /\ IdSpec /\ LimiterSpec /\ FallbackSpec
<1>1. InfraInit => Init /\ IdInit /\ LimiterInit /\ FallbackInit
  BY DEF InfraInit
<1>2. [InfraNext]_infraVars =>
          /\ [Next]_vars /\ [IdNext]_idVars
          /\ [LimiterNext]_limiterVars /\ [FallbackNext]_fallbackVars
  BY DEF InfraNext, UseBreaker, OnlyBreaker, DrawIds, LimitRequests, FallBack, infraVars,
         vars, idVars, limiterVars, fallbackVars
<1> QED
  BY <1>1, <1>2, PTL DEF InfraSpec, Spec, IdSpec, LimiterSpec, FallbackSpec

\* In every state of the composed run the fields of the breaker, of the
\* generators, of the window and of the manager have their types.
THEOREM InfraTypeCorrect == InfraSpec => []InfraTypeOK
<1> DEFINE PartOK == part \in {"breaker", "ids", "limiter", "fallback"}
<1>1. InfraSpec => []PartOK
  <2>1. InfraInit => PartOK
    BY DEF InfraInit
  <2>2. PartOK /\ [InfraNext]_infraVars => PartOK'
    BY DEF InfraNext, UseBreaker, OnlyBreaker, DrawIds, LimitRequests, FallBack, infraVars
  <2> QED
    BY <2>1, <2>2, PTL DEF InfraSpec
<1> QED
  BY <1>1, PartsBehave, TypeCorrect, IdTypeCorrect, LimiterTypeCorrect, FallbackTypeCorrect, PTL
     DEF InfraTypeOK
=============================================================================
