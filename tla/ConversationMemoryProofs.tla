---------------------- MODULE ConversationMemoryProofs ----------------------
(***************************************************************************)
(* Theorems about ConversationMemory for any number of compressions at a   *)
(* time, exchanges, open turns, rebuilds and lost tasks.                   *)
(***************************************************************************)
EXTENDS ConversationMemory, FiniteSetTheorems, TLAPS

Working == {"merge", "conflict", "retry"}

\* What the state of a job says about its locals.
Shape ==
    \A j \in Jobs :
        /\ jobState[j] \in {"idle", "rebuild"} =>
               jobSeen[j] = NoRow /\ jobBatch[j] = {}
        /\ jobState[j] = "conflict" => jobSeen[j] = NoRow
        /\ jobState[j] = "retry" => jobSeen[j] # NoRow
        /\ jobState[j] \in Working =>
               jobBatch[j] # {} /\ CoveredBy(jobSeen[j]) < Greatest(jobBatch[j])
        /\ jobBatch[j] \subseteq With("completed")

\* No row is of an incarnation to come.
Epochs ==
    /\ summary # NoRow => summary.epoch <= epoch
    /\ \A j \in Jobs : jobSeen[j] # NoRow => jobSeen[j].epoch <= epoch

\* A row of the present incarnation that a job holds is older than the row
\* of the table, or is that row.
Current ==
    \A j \in Jobs :
        (jobSeen[j] # NoRow /\ jobSeen[j].epoch = epoch) =>
            /\ summary # NoRow
            /\ jobSeen[j].version <= summary.version
            /\ jobSeen[j].version = summary.version => jobSeen[j] = summary

\* From where on a job has read the exchanges.
From(j) == IF jobState[j] = "merge" THEN CoveredBy(jobSeen[j]) ELSE 0

\* A job merges every exchange of its stretch but those completed late.
Complete ==
    \A j \in Jobs :
        jobState[j] \in Working =>
            /\ \A x \in jobBatch[j] : From(j) < x
            /\ \A x \in With("completed") :
                  From(j) < x /\ x <= Greatest(jobBatch[j]) => x \in jobBatch[j] \cup late

\* The text of an unmixed row is made of completed exchanges up to its
\* pointer, which is one itself.
Text ==
    Unmixed(summary) =>
        /\ summary.merged \subseteq With("completed")
        /\ \A x \in summary.merged : x <= summary.covered
        /\ summary.covered \in With("completed")

IInv ==
    /\ MemTypeOK
    /\ Shape
    /\ Epochs
    /\ Current
    /\ Complete
    /\ Text
    /\ SummaryIsFaithful

-----------------------------------------------------------------------------
(* Lemmas about the operators. *)

\* A non-empty set of exchanges has a greatest and a least member: the sets
\* of those above, and below, a member are ordered by strict inclusion,
\* which is well-founded on finite sets.
LEMMA Extremes ==
    ASSUME NEW S \in SUBSET Exchanges, S # {}
    PROVE  /\ \E x \in S : \A y \in S : y <= x
           /\ \E x \in S : \A y \in S : x <= y
<1>1. IsFiniteSet(S) /\ S \subseteq Nat
  <2>1. IsFiniteSet(Exchanges)
    BY FS_Interval, MemoryAssumption DEF Exchanges, MemoryAssumption
  <2>2. IsFiniteSet(S)
    BY <2>1, FS_Subset
  <2>3. S \subseteq Nat
    BY MemoryAssumption DEF Exchanges, MemoryAssumption
  <2> QED
    BY <2>2, <2>3
<1>2. IsWellFoundedOn(StrictSubsetOrdering(S), SUBSET S)
  BY <1>1, FS_StrictSubsetOrderingWellFounded, FS_FiniteSubsetsOfFinite
<1> DEFINE Above(x) == {y \in S : y > x}
           Below(x) == {y \in S : y < x}
<1>3. \E x \in S : \A y \in S : y <= x
  <2>1. PICK T \in {Above(x) : x \in S} :
            \A U \in {Above(x) : x \in S} : <<U, T>> \notin StrictSubsetOrdering(S)
    <3>1. {Above(x) : x \in S} \subseteq SUBSET S /\ {Above(x) : x \in S} # {}
      OBVIOUS
    <3> HIDE DEF Above
    <3> QED
      BY <1>2, <3>1, WFMin
  <2>2. PICK x \in S : T = Above(x)
    BY <2>1
  <2>3. ASSUME NEW y \in S, ~(y <= x) PROVE FALSE
    <3>0. /\ x \in Int /\ y \in Int /\ y > x
          /\ \A z \in S : z \in Int
      BY <1>1, <2>3
    <3>1. Above(y) \subseteq Above(x) /\ y \in Above(x) /\ y \notin Above(y)
      <4>1. \A z \in S : z > y => z > x
        BY <3>0
      <4>2. ~(y > y)
        BY <3>0
      <4> QED
        BY <3>0, <4>1, <4>2, Zenon
    <3>2. <<Above(y), Above(x)>> \in StrictSubsetOrdering(S)
      BY <3>1 DEF StrictSubsetOrdering
    <3> QED
      BY <2>1, <2>2, <3>2
  <2> QED
    BY <2>3
<1>4. \E x \in S : \A y \in S : x <= y
  <2>1. PICK T \in {Below(x) : x \in S} :
            \A U \in {Below(x) : x \in S} : <<U, T>> \notin StrictSubsetOrdering(S)
    <3>1. {Below(x) : x \in S} \subseteq SUBSET S /\ {Below(x) : x \in S} # {}
      OBVIOUS
    <3> HIDE DEF Below
    <3> QED
      BY <1>2, <3>1, WFMin
  <2>2. PICK x \in S : T = Below(x)
    BY <2>1
  <2>3. ASSUME NEW y \in S, ~(x <= y) PROVE FALSE
    <3>0. /\ x \in Int /\ y \in Int /\ y < x
          /\ \A z \in S : z \in Int
      BY <1>1, <2>3
    <3>1. Below(y) \subseteq Below(x) /\ y \in Below(x) /\ y \notin Below(y)
      <4>1. \A z \in S : z < y => z < x
        BY <3>0
      <4>2. ~(y < y)
        BY <3>0
      <4> QED
        BY <3>0, <4>1, <4>2, Zenon
    <3>2. <<Below(y), Below(x)>> \in StrictSubsetOrdering(S)
      BY <3>1 DEF StrictSubsetOrdering
    <3> QED
      BY <2>1, <2>2, <3>2
  <2> QED
    BY <2>3
<1> QED
  BY <1>3, <1>4

\* Greatest is what its name says.
LEMMA GreatestOf ==
    ASSUME NEW S \in SUBSET Exchanges, S # {}
    PROVE  Greatest(S) \in S /\ \A y \in S : y <= Greatest(S)
BY Extremes DEF Greatest

\* So is Max, of two numbers.
LEMMA MaxOfTwo ==
    ASSUME NEW a \in Nat, NEW b \in Nat
    PROVE  Max({a, b}) = IF a >= b THEN a ELSE b
<1> DEFINE m == IF a >= b THEN a ELSE b
<1>1. m \in {a, b} /\ \A y \in {a, b} : m >= y
  OBVIOUS
<1>2. ASSUME NEW x \in {a, b}, \A y \in {a, b} : x >= y PROVE x = m
  BY <1>2
<1> QED
  BY <1>1, <1>2 DEF Max

\* A set of exchanges is finite and has a size.
LEMMA Sizes ==
    ASSUME NEW S \in SUBSET Exchanges
    PROVE  IsFiniteSet(S) /\ Cardinality(S) \in Nat
<1>1. IsFiniteSet(Exchanges)
  BY FS_Interval, MemoryAssumption DEF Exchanges, MemoryAssumption
<1> QED
  BY <1>1, FS_Subset, FS_CardinalityType

\* What a compression covers is completed and new, and has no gap: with an
\* exchange it takes every older one that is completed and new.
LEMMA OverflowTakesAll ==
    ASSUME NEW c \in Nat, NEW known \in 0 .. MaxExchanges
    PROVE  /\ Overflow(c, known) \subseteq With("completed")
           /\ \A x \in Overflow(c, known) : c < x
           /\ \A g \in Overflow(c, known), x \in With("completed") :
                 c < x /\ x <= g => x \in Overflow(c, known)
<1> DEFINE stable == {x \in With("completed") :
                        c < x /\ (known = 0 \/ x <= known)}
           Over(x) == {y \in stable : y > x}
<1>1. Overflow(c, known) = {x \in stable : ~(Cardinality(Over(x)) < WindowSize)}
  BY Zenon DEF Overflow, Newest
<1>2. stable \subseteq Exchanges /\ With("completed") \subseteq Exchanges
  BY DEF With
<1>3. Exchanges \subseteq Nat /\ WindowSize \in Nat
  BY MemoryAssumption DEF Exchanges, MemoryAssumption
<1>4. ASSUME NEW g \in Overflow(c, known), NEW x \in With("completed"), c < x, x <= g
      PROVE  x \in Overflow(c, known)
  <2>1. g \in stable /\ ~(Cardinality(Over(g)) < WindowSize)
    BY <1>1, <1>4
  <2>n. /\ c \in Int /\ known \in Int /\ g \in Int /\ x \in Int
        /\ \A y \in stable : y \in Int
    <3>1. g \in Exchanges /\ x \in Exchanges
      BY <1>2, <2>1
    <3>2. known \in Int
      BY MemoryAssumption DEF MemoryAssumption
    <3> QED
      BY <1>2, <1>3, <3>1, <3>2
  <2>2. x \in stable
    <3>1. known = 0 \/ g <= known
      BY <2>1
    <3>2. known = 0 \/ x <= known
      BY <3>1, <2>n, <1>4
    <3> QED
      BY <1>4, <3>2
  <2>3. Over(g) \subseteq Over(x) /\ Over(x) \in SUBSET Exchanges /\ Over(g) \in SUBSET Exchanges
    <3>1. \A y \in stable : y > g => y > x
      BY <2>n, <1>4
    <3> QED
      BY <1>2, <3>1
  <2> HIDE DEF Over, stable
  <2>4. Cardinality(Over(g)) <= Cardinality(Over(x))
    BY <2>3, Sizes, FS_Subset
  <2>5. Cardinality(Over(g)) \in Nat /\ Cardinality(Over(x)) \in Nat
    BY <2>3, Sizes
  <2> QED
    BY <1>1, <1>3, <2>1, <2>2, <2>4, <2>5
<1> QED
  BY <1>1, <1>4

\* The parts of a row; a row that is missing covers nothing.
LEMMA RowFacts ==
    /\ NoRow \notin Rows
    /\ \A row \in Rows \cup {NoRow} :
          /\ CoveredBy(row) \in Nat
          /\ MergedIn(row) \subseteq Exchanges
          /\ row # NoRow =>
                /\ row \in Rows
                /\ row.covered \in Nat
                /\ row.count \in Nat /\ row.version \in Nat /\ row.epoch \in Nat
                /\ row.merged \subseteq Exchanges
                /\ CoveredBy(row) = row.covered /\ MergedIn(row) = row.merged
    /\ CoveredBy(NoRow) = 0 /\ MergedIn(NoRow) = {}
<1>1. Exchanges \subseteq Nat
  BY MemoryAssumption DEF Exchanges, MemoryAssumption
<1>2. NoRow \notin Rows
  BY <1>1, MemoryAssumption DEF Rows, MemoryAssumption
<1>3. ASSUME NEW row \in Rows
      PROVE  /\ row.covered \in Nat
             /\ row.count \in Nat /\ row.version \in Nat /\ row.epoch \in Nat
             /\ row.merged \subseteq Exchanges
             /\ CoveredBy(row) = row.covered /\ MergedIn(row) = row.merged
  <2>1. row # NoRow
    BY <1>2
  <2>2. /\ row.covered \in Nat
        /\ row.count \in Nat /\ row.version \in Nat /\ row.epoch \in Nat
        /\ row.merged \in SUBSET Exchanges
    BY DEF Rows
  <2>3. CoveredBy(row) = row.covered /\ MergedIn(row) = row.merged
    BY <2>1, Zenon DEF CoveredBy, MergedIn
  <2> QED
    BY <2>2, <2>3
<1>4. CoveredBy(NoRow) = 0 /\ MergedIn(NoRow) = {}
  BY DEF CoveredBy, MergedIn
<1> QED
  BY <1>2, <1>3, <1>4

\* The row a compression writes.
LEMMA NewRowFacts ==
    ASSUME MemTypeOK, NEW j \in Jobs, NEW c \in Nat, NEW v \in Nat,
           NEW from \in Rows \cup {NoRow}, NEW e \in Nat, jobBatch[j] # {}
    PROVE  LET row == [NewRow(j, c, v, from) EXCEPT !.epoch = e] IN
           /\ row \in Rows /\ NewRow(j, c, v, from) \in Rows
           /\ row.covered = Greatest(jobBatch[j])
           /\ row.count = c /\ row.version = v /\ row.epoch = e
           /\ row.merged = jobBatch[j] \cup MergedIn(from)
           /\ NewRow(j, c, v, from) = [NewRow(j, c, v, from) EXCEPT !.epoch = epoch]
<1>1. Greatest(jobBatch[j]) \in Nat
  BY GreatestOf, MemoryAssumption DEF MemTypeOK, Exchanges, MemoryAssumption
<1>2. jobBatch[j] \cup MergedIn(from) \in SUBSET Exchanges
  BY RowFacts DEF MemTypeOK
<1>3. epoch \in Nat
  BY DEF MemTypeOK
<1> DEFINE Made(x) == [covered |-> Greatest(jobBatch[j]), count |-> c, version |-> v,
                       merged |-> jobBatch[j] \cup MergedIn(from), epoch |-> x]
<1>4. NewRow(j, c, v, from) = Made(epoch)
  BY DEF NewRow
<1>5. [Made(epoch) EXCEPT !.epoch = e] = Made(e) /\ [Made(epoch) EXCEPT !.epoch = epoch] = Made(epoch)
  OBVIOUS
<1>6. Made(e) \in Rows /\ Made(epoch) \in Rows
  BY <1>1, <1>2, <1>3 DEF Rows
<1>7. /\ Made(e).covered = Greatest(jobBatch[j])
      /\ Made(e).count = c /\ Made(e).version = v /\ Made(e).epoch = e
      /\ Made(e).merged = jobBatch[j] \cup MergedIn(from)
  OBVIOUS
<1> HIDE DEF Made
<1> QED
  BY <1>4, <1>5, <1>6, <1>7

\* The part of the type invariant that is about the jobs.
JobsTyped ==
    /\ jobState \in [Jobs -> JobStates]
    /\ jobSeen \in [Jobs -> Rows \cup {NoRow}]
    /\ jobBatch \in [Jobs -> SUBSET Exchanges]
    /\ jobKnown \in [Jobs -> 0 .. MaxExchanges]

\* A job that ends keeps what is said of the others, whatever it wrote.
LEMMA EndJobKeeps ==
    ASSUME MemTypeOK, Shape, Epochs, Complete, NEW j \in Jobs, EndJob(j),
           UNCHANGED <<turnStatus, epoch, late>>
    PROVE  /\ JobsTyped' /\ Shape' /\ Complete'
           /\ \A k \in Jobs : jobSeen'[k] # NoRow =>
                  /\ jobSeen'[k].epoch <= epoch'
                  /\ jobSeen'[k] = jobSeen[k] /\ k # j
<1>1. JobsTyped'
  BY MemoryAssumption DEF MemTypeOK, JobsTyped, EndJob, JobStates, MemoryAssumption
<1>2. Shape'
  BY DEF Shape, EndJob, MemTypeOK, Working, With
<1>3. Complete'
  BY DEF Complete, EndJob, MemTypeOK, Working, With, From
<1>4. ASSUME NEW k \in Jobs, jobSeen'[k] # NoRow
      PROVE  jobSeen'[k].epoch <= epoch' /\ jobSeen'[k] = jobSeen[k] /\ k # j
  BY <1>4 DEF EndJob, MemTypeOK, Epochs
<1> QED
  BY <1>1, <1>2, <1>3, <1>4

\* So does one that reads the history.
LEMMA ReadHistoryKeeps ==
    ASSUME MemTypeOK, Shape, Epochs, Current, Complete, NEW j \in Jobs,
           NEW known \in 0 .. MaxExchanges, ReadHistory(j, known),
           UNCHANGED <<turnStatus, summary, epoch, late>>
    PROVE  JobsTyped' /\ Shape' /\ Epochs' /\ Current' /\ Complete'
<1> DEFINE batch == Overflow(CoveredBy(summary), known)
<1>1. CASE batch = {}
  <2>1. EndJob(j)
    BY <1>1 DEF ReadHistory
  <2>2. Epochs' /\ Current'
    BY <2>1, EndJobKeeps DEF Epochs, Current
  <2> QED
    BY <2>1, <2>2, EndJobKeeps
<1>2. CASE batch # {}
  <2>1. summary \in Rows \cup {NoRow} /\ CoveredBy(summary) \in Nat
    BY RowFacts DEF MemTypeOK
  <2>2. /\ batch \subseteq With("completed")
        /\ \A x \in batch : CoveredBy(summary) < x
        /\ \A g \in batch, x \in With("completed") :
              CoveredBy(summary) < x /\ x <= g => x \in batch
    BY <2>1, OverflowTakesAll
  <2> HIDE DEF batch
  <2>3. batch \subseteq Exchanges
    BY <2>2 DEF With
  <2>4. Greatest(batch) \in batch /\ \A x \in batch : x <= Greatest(batch)
    BY <1>2, <2>3, GreatestOf
  <2>5. /\ jobState' = [jobState EXCEPT ![j] = "merge"]
        /\ jobSeen' = [jobSeen EXCEPT ![j] = summary]
        /\ jobBatch' = [jobBatch EXCEPT ![j] = batch]
        /\ jobKnown' = [jobKnown EXCEPT ![j] = known]
    BY <1>2 DEF ReadHistory, batch
  <2>6. JobsTyped'
    BY <2>1, <2>3, <2>5 DEF MemTypeOK, JobsTyped, JobStates
  <2>7. Shape'
    BY <1>2, <2>2, <2>4, <2>5 DEF Shape, MemTypeOK, Working, With, CoveredBy
  <2>8. Epochs'
    BY <2>5 DEF Epochs, MemTypeOK
  <2>9. Current'
    <3>1. summary # NoRow => summary.version \in Nat
      BY <2>1, RowFacts
    <3> QED
      BY <2>5, <3>1 DEF Current, MemTypeOK
  <2>10. Complete'
    <3> SUFFICES ASSUME NEW k \in Jobs, jobState'[k] \in Working
                 PROVE  /\ \A x \in jobBatch'[k] : From(k)' < x
                        /\ \A x \in With("completed")' :
                              From(k)' < x /\ x <= Greatest(jobBatch'[k])
                                 => x \in jobBatch'[k] \cup late'
      BY DEF Complete
    <3>1. With("completed")' = With("completed")
      BY DEF With
    <3>2. CASE k = j
      <4>1. jobBatch'[k] = batch /\ From(k)' = CoveredBy(summary)
        BY <2>5, <3>2 DEF From, MemTypeOK, CoveredBy
      <4> QED
        BY <2>2, <2>4, <3>1, <4>1
    <3>3. CASE k # j
      <4>1. jobBatch'[k] = jobBatch[k] /\ From(k)' = From(k) /\ jobState'[k] = jobState[k]
        BY <2>5, <3>3 DEF From, MemTypeOK, CoveredBy
      <4> QED
        BY <3>1, <4>1 DEF Complete
    <3> QED
      BY <3>2, <3>3
  <2> QED
    BY <2>6, <2>7, <2>8, <2>9, <2>10
<1> QED
  BY <1>1, <1>2

-----------------------------------------------------------------------------
(* The invariant holds at first and is kept by every action. *)

LEMMA InitIInv == MemInit => IInv
<1> SUFFICES ASSUME MemInit PROVE IInv
  OBVIOUS
<1>1. MemTypeOK
  <2>1. jobKnown \in [Jobs -> 0 .. MaxExchanges] /\ epoch \in Nat /\ lost \in Nat
    BY MemoryAssumption DEF MemInit, MemoryAssumption
  <2>2. /\ turnStatus \in [Exchanges -> TurnStatuses]
        /\ summary \in Rows \cup {NoRow} /\ queue \subseteq Exchanges
    BY DEF MemInit, TurnStatuses
  <2>3. /\ jobState \in [Jobs -> JobStates] /\ jobSeen \in [Jobs -> Rows \cup {NoRow}]
        /\ jobBatch \in [Jobs -> SUBSET Exchanges]
        /\ late \subseteq Exchanges /\ gaveUp \in BOOLEAN
    BY DEF MemInit, JobStates
  <2> QED
    BY <2>1, <2>2, <2>3 DEF MemTypeOK
<1>2. Shape /\ Epochs /\ Current /\ Complete /\ Text /\ SummaryIsFaithful
  BY DEF MemInit, Shape, Epochs, Current, Complete, Text, SummaryIsFaithful, Unmixed, Working
<1> QED
  BY <1>1, <1>2 DEF IInv

\* A step that leaves the completed turns, the row and the jobs alone.
LEMMA QuietStep ==
    ASSUME IInv, UNCHANGED <<summary, jobVars, epoch, late>>,
           With("completed")' = With("completed")
    PROVE  (Shape /\ Epochs /\ Current /\ Complete /\ Text /\ SummaryIsFaithful)'
<1> USE DEF jobVars
<1>1. Shape' /\ Epochs' /\ Current'
  BY DEF IInv, Shape, Epochs, Current, Working, CoveredBy, Greatest
<1>2. Complete'
  BY DEF IInv, Complete, From, Working, CoveredBy, Greatest
<1>3. Text' /\ SummaryIsFaithful'
  BY DEF IInv, Text, SummaryIsFaithful, Unmixed
<1> QED
  BY <1>1, <1>2, <1>3

LEMMA OpenTurnStep == IInv /\ OpenTurn => IInv'
<1> SUFFICES ASSUME IInv, OpenTurn PROVE IInv'
  OBVIOUS
<1> DEFINE x0 == CHOOSE x \in With("none") : \A y \in With("none") : x <= y
<1>1. x0 \in With("none") /\ turnStatus' = [turnStatus EXCEPT ![x0] = "running"]
  <2>1. With("none") \in SUBSET Exchanges
    BY DEF With
  <2>2. \E x \in With("none") : \A y \in With("none") : x <= y
    BY <2>1, Extremes DEF OpenTurn
  <2> QED
    BY <2>2 DEF OpenTurn
<1> HIDE DEF x0
<1>2. MemTypeOK'
  BY <1>1 DEF IInv, MemTypeOK, OpenTurn, TurnStatuses, jobVars
<1>3. With("completed")' = With("completed")
  BY <1>1 DEF IInv, MemTypeOK, With
<1> QED
  BY <1>2, <1>3, QuietStep DEF IInv, OpenTurn

LEMMA BreakTurnStep == ASSUME NEW x \in Exchanges PROVE IInv /\ BreakTurn(x) => IInv'
<1> SUFFICES ASSUME IInv, BreakTurn(x) PROVE IInv'
  OBVIOUS
<1>1. MemTypeOK'
  BY DEF IInv, MemTypeOK, BreakTurn, TurnStatuses, jobVars
<1>2. With("completed")' = With("completed")
  BY DEF IInv, MemTypeOK, With, BreakTurn
<1> QED
  BY <1>1, <1>2, QuietStep DEF IInv, BreakTurn

\* A turn that completes below what a compression has merged is late: the
\* exchange at the pointer had begun.
LEMMA CompleteTurnStep == ASSUME NEW x \in Exchanges PROVE IInv /\ CompleteTurn(x) => IInv'
<1> SUFFICES ASSUME IInv, CompleteTurn(x) PROVE IInv'
  OBVIOUS
<1> USE DEF jobVars
<1>1. MemTypeOK'
  BY MemoryAssumption DEF IInv, MemTypeOK, CompleteTurn, TurnStatuses, MemoryAssumption
<1>2. /\ With("completed")' = With("completed") \cup {x}
      /\ late \subseteq late'
      /\ UNCHANGED <<summary, jobVars, epoch>>
  BY DEF IInv, MemTypeOK, CompleteTurn, With
<1>3. \A g \in With("completed") : x <= g => x \in late'
  <2> SUFFICES ASSUME NEW g \in With("completed"), x <= g PROVE x \in late'
    OBVIOUS
  <2>1. g \in Exchanges /\ turnStatus[g] = "completed" /\ turnStatus[x] = "running"
    BY DEF With, CompleteTurn
  <2>2. g > x
    BY <2>1, MemoryAssumption DEF Exchanges, MemoryAssumption
  <2> QED
    BY <2>1, <2>2 DEF CompleteTurn
<1>4. Shape' /\ Epochs' /\ Current'
  BY <1>2 DEF IInv, Shape, Epochs, Current, Working, CoveredBy, Greatest
<1>5. Complete'
  <2> SUFFICES ASSUME NEW j \in Jobs, jobState[j] \in Working
               PROVE  /\ \A y \in jobBatch[j] : From(j) < y
                      /\ \A y \in With("completed") \cup {x} :
                            From(j) < y /\ y <= Greatest(jobBatch[j]) => y \in jobBatch[j] \cup late'
    BY <1>2 DEF Complete, From, Working, CoveredBy, Greatest
  <2>1. Greatest(jobBatch[j]) \in With("completed")
    BY GreatestOf DEF IInv, MemTypeOK, Shape
  <2> QED
    BY <1>2, <1>3, <2>1 DEF IInv, Complete
<1>6. Text' /\ SummaryIsFaithful'
  BY <1>2, <1>3 DEF IInv, Text, SummaryIsFaithful, Unmixed
<1> QED
  BY <1>1, <1>4, <1>5, <1>6 DEF IInv

\* What is said of the row, when it stays.
LEMMA RowStays ==
    ASSUME IInv, UNCHANGED <<turnStatus, summary, epoch, late>>
    PROVE  Text' /\ SummaryIsFaithful'
BY DEF IInv, Text, SummaryIsFaithful, Unmixed, With

LEMMA StartJobStep == ASSUME NEW j \in Jobs PROVE IInv /\ StartJob(j) => IInv'
<1> SUFFICES ASSUME IInv, StartJob(j) PROVE IInv'
  OBVIOUS
<1>1. PICK known \in queue : queue' = queue \ {known} /\ ReadHistory(j, known)
  BY DEF StartJob
<1>2. known \in 0 .. MaxExchanges
  BY MemoryAssumption DEF IInv, MemTypeOK, Exchanges, MemoryAssumption
<1>3. JobsTyped' /\ Shape' /\ Epochs' /\ Current' /\ Complete'
  BY <1>1, <1>2, ReadHistoryKeeps DEF IInv, StartJob
<1>4. Text' /\ SummaryIsFaithful'
  BY RowStays DEF StartJob
<1>5. MemTypeOK'
  BY <1>1, <1>3 DEF IInv, MemTypeOK, JobsTyped, StartJob
<1> QED
  BY <1>3, <1>4, <1>5 DEF IInv

LEMMA RebuildReadStep == ASSUME NEW j \in Jobs PROVE IInv /\ RebuildRead(j) => IInv'
<1> SUFFICES ASSUME IInv, RebuildRead(j) PROVE IInv'
  OBVIOUS
<1>1. 0 \in 0 .. MaxExchanges
  BY MemoryAssumption DEF MemoryAssumption
<1>2. JobsTyped' /\ Shape' /\ Epochs' /\ Current' /\ Complete'
  BY <1>1, ReadHistoryKeeps DEF IInv, RebuildRead
<1>3. Text' /\ SummaryIsFaithful'
  BY RowStays DEF RebuildRead
<1>4. MemTypeOK'
  BY <1>2 DEF IInv, MemTypeOK, JobsTyped, RebuildRead
<1> QED
  BY <1>2, <1>3, <1>4 DEF IInv

\* Nothing of the incarnation to come exists.
LEMMA RebuildDeleteStep == ASSUME NEW j \in Jobs PROVE IInv /\ RebuildDelete(j) => IInv'
<1> SUFFICES ASSUME IInv, RebuildDelete(j) PROVE IInv'
  OBVIOUS
<1>1. epoch \in Nat /\ epoch' = epoch + 1 /\ summary' = NoRow
  BY DEF IInv, MemTypeOK, RebuildDelete
<1>2. MemTypeOK'
  BY <1>1 DEF IInv, MemTypeOK, RebuildDelete, JobStates
<1>3. Shape'
  BY DEF IInv, MemTypeOK, Shape, RebuildDelete, Working, With, CoveredBy
<1>4. Epochs' /\ Current'
  <2> SUFFICES ASSUME NEW k \in Jobs, jobSeen[k] # NoRow
               PROVE  jobSeen[k].epoch <= epoch' /\ jobSeen[k].epoch # epoch'
    BY <1>1 DEF Epochs, Current, RebuildDelete
  <2>1. jobSeen[k].epoch \in Nat /\ jobSeen[k].epoch <= epoch
    BY RowFacts DEF IInv, MemTypeOK, Epochs
  <2> QED
    BY <1>1, <2>1
<1>5. Complete'
  BY DEF IInv, MemTypeOK, Complete, From, RebuildDelete, Working, With, CoveredBy, Greatest
<1>6. Text' /\ SummaryIsFaithful'
  BY <1>1 DEF Text, SummaryIsFaithful, Unmixed
<1> QED
  BY <1>2, <1>3, <1>4, <1>5, <1>6 DEF IInv

LEMMA FailJobStep == ASSUME NEW j \in Jobs PROVE IInv /\ FailJob(j) => IInv'
<1> SUFFICES ASSUME IInv, FailJob(j) PROVE IInv'
  OBVIOUS
<1>1. /\ JobsTyped' /\ Shape' /\ Complete'
      /\ \A k \in Jobs : jobSeen'[k] # NoRow =>
             /\ jobSeen'[k].epoch <= epoch'
             /\ jobSeen'[k] = jobSeen[k] /\ k # j
  BY EndJobKeeps DEF IInv, FailJob
<1>2. Epochs' /\ Current'
  BY <1>1 DEF IInv, Epochs, Current, FailJob
<1>3. Text' /\ SummaryIsFaithful'
  BY RowStays DEF FailJob
<1>4. MemTypeOK'
  BY <1>1, MemoryAssumption DEF IInv, MemTypeOK, JobsTyped, FailJob, MemoryAssumption
<1> QED
  BY <1>1, <1>2, <1>3, <1>4 DEF IInv

LEMMA CreateRowStep == ASSUME NEW j \in Jobs PROVE IInv /\ CreateRow(j) => IInv'
<1> SUFFICES ASSUME IInv, CreateRow(j) PROVE IInv'
  OBVIOUS
<1> DEFINE batch == jobBatch[j]
<1>1. /\ jobState[j] = "merge" /\ jobSeen[j] = NoRow /\ batch # {}
      /\ batch \in SUBSET Exchanges /\ batch \subseteq With("completed")
      /\ With("completed")' = With("completed")
  BY DEF IInv, MemTypeOK, Shape, Working, CreateRow, With
<1>2. CASE summary = NoRow
  <2>1. EndJob(j) /\ summary' = NewRow(j, Cardinality(batch), 1, NoRow)
    BY <1>2 DEF CreateRow
  <2>2. /\ JobsTyped' /\ Shape' /\ Complete'
        /\ \A k \in Jobs : jobSeen'[k] # NoRow =>
               /\ jobSeen'[k].epoch <= epoch'
               /\ jobSeen'[k] = jobSeen[k] /\ k # j
    BY <2>1, EndJobKeeps DEF IInv, CreateRow
  <2>3. Cardinality(batch) \in Nat /\ epoch \in Nat
    BY <1>1, Sizes DEF IInv, MemTypeOK
  <2>4. /\ summary' \in Rows /\ summary'.covered = Greatest(batch)
        /\ summary'.count = Cardinality(batch) /\ summary'.epoch = epoch
        /\ summary'.merged = batch
    <3>1. /\ NewRow(j, Cardinality(batch), 1, NoRow) \in Rows
          /\ LET row == [NewRow(j, Cardinality(batch), 1, NoRow) EXCEPT !.epoch = epoch] IN
             /\ row = NewRow(j, Cardinality(batch), 1, NoRow)
             /\ row.covered = Greatest(batch)
             /\ row.count = Cardinality(batch) /\ row.epoch = epoch
             /\ row.merged = batch \cup MergedIn(NoRow)
      BY <1>1, <2>3, NewRowFacts DEF IInv
    <3>2. MergedIn(NoRow) = {}
      BY RowFacts
    <3> QED
      BY <2>1, <3>1, <3>2
  <2>5. Epochs' /\ Current'
    BY <1>2, <2>2, <2>3, <2>4 DEF IInv, Epochs, Current, CreateRow
  <2>6. Greatest(batch) \in batch /\ \A x \in batch : x <= Greatest(batch)
    BY <1>1, GreatestOf
  <2>7. Text'
    BY <1>1, <2>4, <2>6 DEF Text, Unmixed
  <2>8. SummaryIsFaithful'
    <3>1. \A x \in With("completed") : x <= Greatest(batch) => x \in batch \cup late
      <4>1. From(j) = 0
        BY <1>1, RowFacts DEF From
      <4>2. \A x \in With("completed") : 0 < x
        BY MemoryAssumption DEF With, Exchanges, MemoryAssumption
      <4> QED
        BY <1>1, <4>1, <4>2 DEF IInv, Complete, Working
    <3> QED
      BY <1>1, <2>4, <3>1 DEF SummaryIsFaithful, CreateRow
  <2>9. MemTypeOK'
    BY <2>2, <2>4 DEF IInv, MemTypeOK, JobsTyped, CreateRow
  <2> QED
    BY <2>2, <2>5, <2>7, <2>8, <2>9 DEF IInv
<1>3. CASE summary # NoRow
  <2>1. /\ jobState' = [jobState EXCEPT ![j] = "conflict"]
        /\ UNCHANGED <<summary, jobSeen, jobBatch, jobKnown>>
    BY <1>3 DEF CreateRow
  <2>2. MemTypeOK'
    BY <2>1 DEF IInv, MemTypeOK, JobStates, CreateRow
  <2>3. Shape'
    BY <1>1, <2>1 DEF IInv, MemTypeOK, Shape, Working, CoveredBy, Greatest
  <2>4. Epochs' /\ Current'
    BY <2>1 DEF IInv, Epochs, Current, CreateRow
  <2>5. Complete'
    <3>1. From(j)' = From(j)
      BY <1>1, <2>1, RowFacts DEF From, IInv, MemTypeOK
    <3>2. \A k \in Jobs : From(k)' = From(k) /\ (jobState'[k] \in Working => jobState[k] \in Working)
      BY <1>1, <2>1, <3>1 DEF From, IInv, MemTypeOK, CoveredBy, Working
    <3> HIDE DEF From
    <3> QED
      BY <1>1, <2>1, <3>2 DEF IInv, Complete, CreateRow, Greatest
  <2>6. Text' /\ SummaryIsFaithful'
    BY <2>1, RowStays DEF CreateRow
  <2> QED
    BY <2>2, <2>3, <2>4, <2>5, <2>6 DEF IInv
<1> QED
  BY <1>2, <1>3

\* The retry compares with the row that was in its way.
LEMMA ReadConflictStep == ASSUME NEW j \in Jobs PROVE IInv /\ ReadConflict(j) => IInv'
<1> SUFFICES ASSUME IInv, ReadConflict(j) PROVE IInv'
  OBVIOUS
<1>1. Text' /\ SummaryIsFaithful' /\ With("completed")' = With("completed")
  BY RowStays DEF ReadConflict, With
<1>2. CASE summary # NoRow /\ CoveredBy(summary) < Greatest(jobBatch[j])
  <2>1. /\ jobState' = [jobState EXCEPT ![j] = "retry"]
        /\ jobSeen' = [jobSeen EXCEPT ![j] = summary]
        /\ UNCHANGED <<summary, jobBatch, jobKnown>>
    BY <1>2 DEF ReadConflict, StillBehind
  <2>2. MemTypeOK'
    BY <2>1 DEF IInv, MemTypeOK, JobStates, ReadConflict
  <2>3. Shape'
    BY <1>1, <1>2, <2>1 DEF IInv, MemTypeOK, Shape, Working, CoveredBy, Greatest, ReadConflict
  <2>4. Epochs'
    BY <2>1 DEF IInv, MemTypeOK, Epochs, ReadConflict
  <2>5. Current'
    <3>1. summary # NoRow /\ summary.version \in Nat
      BY <1>2, RowFacts DEF IInv, MemTypeOK
    <3> QED
      BY <2>1, <3>1 DEF IInv, MemTypeOK, Current, ReadConflict
  <2>6. Complete'
    <3>1. \A k \in Jobs : From(k)' = From(k) /\ (jobState'[k] \in Working => jobState[k] \in Working)
      BY <2>1 DEF From, IInv, MemTypeOK, CoveredBy, Working, ReadConflict
    <3> HIDE DEF From
    <3> QED
      BY <1>1, <2>1, <3>1 DEF IInv, Complete, ReadConflict, Greatest
  <2> QED
    BY <1>1, <2>2, <2>3, <2>4, <2>5, <2>6 DEF IInv
<1>3. CASE ~(summary # NoRow /\ CoveredBy(summary) < Greatest(jobBatch[j]))
  <2>1. EndJob(j)
    BY <1>3 DEF ReadConflict, StillBehind
  <2>2. /\ JobsTyped' /\ Shape' /\ Complete'
        /\ \A k \in Jobs : jobSeen'[k] # NoRow =>
               /\ jobSeen'[k].epoch <= epoch'
               /\ jobSeen'[k] = jobSeen[k] /\ k # j
    BY <2>1, EndJobKeeps DEF IInv, ReadConflict
  <2>3. Epochs' /\ Current'
    BY <2>2 DEF IInv, Epochs, Current, ReadConflict
  <2>4. MemTypeOK'
    BY <2>2 DEF IInv, MemTypeOK, JobsTyped, ReadConflict
  <2> QED
    BY <1>1, <2>2, <2>3, <2>4 DEF IInv
<1> QED
  BY <1>2, <1>3

\* A row of the present incarnation with the version of the table's row is
\* that row: what a successful conditional update knows.
LEMMA SeenIsSummary ==
    ASSUME IInv, NEW j \in Jobs, jobSeen[j] # NoRow,
           VersionMatches(summary, jobSeen[j])
    PROVE  /\ summary # NoRow /\ jobSeen[j].version = summary.version
           /\ jobSeen[j] \in Rows /\ summary \in Rows
           /\ jobSeen[j].epoch = epoch => jobSeen[j] = summary
BY DEF IInv, MemTypeOK, Current, VersionMatches

\* A successful conditional update, given what its new row says about the
\* exchanges when it is of the present incarnation.
LEMMA UpdateKeeps ==
    ASSUME IInv, NEW j \in Jobs, jobState[j] \in Working, jobSeen[j] # NoRow,
           VersionMatches(summary, jobSeen[j]), EndJob(j),
           UNCHANGED <<turnStatus, queue, epoch, late, gaveUp, lost>>,
           summary' \in Rows,
           summary'.covered = Greatest(jobBatch[j]),
           summary'.version = jobSeen[j].version + 1,
           summary'.epoch = jobSeen[j].epoch,
           summary'.merged \subseteq jobBatch[j] \cup jobSeen[j].merged,
           Unmixed(summary)' =>
               /\ {x \in With("completed") : x <= Greatest(jobBatch[j])}
                      \subseteq summary'.merged \cup late
               /\ late = {} => summary'.count = Cardinality(summary'.merged)
    PROVE  IInv'
<1> DEFINE batch == jobBatch[j]
           seen == jobSeen[j]
<1>1. /\ summary # NoRow /\ seen.version = summary.version
      /\ seen \in Rows /\ summary \in Rows
      /\ seen.epoch = epoch => seen = summary
  BY SeenIsSummary
<1>2. /\ seen.version \in Nat /\ seen.epoch \in Nat /\ epoch \in Nat
      /\ summary.covered \in Nat
      /\ CoveredBy(seen) = seen.covered /\ summary' # NoRow
  BY <1>1, RowFacts DEF IInv, MemTypeOK
<1>3. /\ JobsTyped' /\ Shape' /\ Complete'
      /\ \A k \in Jobs : jobSeen'[k] # NoRow =>
             /\ jobSeen'[k].epoch <= epoch'
             /\ jobSeen'[k] = jobSeen[k] /\ k # j
  BY EndJobKeeps DEF IInv
<1>4. Epochs'
  BY <1>2, <1>3 DEF IInv, Epochs
<1>5. Current'
  <2> SUFFICES ASSUME NEW k \in Jobs, jobSeen[k] # NoRow, jobSeen[k].epoch = epoch
               PROVE  jobSeen[k].version <= summary'.version /\ jobSeen[k].version # summary'.version
    BY <1>2, <1>3 DEF Current
  <2>1. jobSeen[k].version \in Nat /\ jobSeen[k].version <= summary.version
    BY RowFacts DEF IInv, MemTypeOK, Current
  <2> QED
    BY <1>1, <1>2, <2>1
<1>6. /\ batch \in SUBSET Exchanges /\ batch # {} /\ batch \subseteq With("completed")
      /\ CoveredBy(seen) < Greatest(batch)
      /\ With("completed")' = With("completed")
  BY DEF IInv, MemTypeOK, Shape, With
<1>7. Greatest(batch) \in batch /\ Greatest(batch) \in Nat /\ \A x \in batch : x <= Greatest(batch)
  BY <1>6, GreatestOf, MemoryAssumption DEF Exchanges, MemoryAssumption
<1>8. Text'
  <2> SUFFICES ASSUME Unmixed(summary)'
               PROVE  /\ summary'.merged \subseteq With("completed")
                      /\ \A x \in summary'.merged : x <= Greatest(batch)
                      /\ Greatest(batch) \in With("completed")
    BY <1>6 DEF Text
  <2>1. seen = summary /\ Unmixed(summary)
    BY <1>1 DEF Unmixed
  <2>2. /\ summary.merged \subseteq With("completed")
        /\ \A x \in summary.merged : x <= summary.covered
    BY <2>1 DEF IInv, Text
  <2>3. \A x \in With("completed") : x \in Nat
    BY MemoryAssumption DEF With, Exchanges, MemoryAssumption
  <2>4. summary.covered < Greatest(batch)
    BY <1>2, <1>6, <2>1
  <2>5. \A x \in summary.merged : x <= Greatest(batch)
    BY <1>2, <1>7, <2>2, <2>3, <2>4
  <2> QED
    BY <1>6, <1>7, <2>1, <2>2, <2>5
<1>9. SummaryIsFaithful'
  BY <1>6 DEF SummaryIsFaithful
<1>10. MemTypeOK'
  BY <1>3 DEF IInv, MemTypeOK, JobsTyped
<1> QED
  BY <1>3, <1>4, <1>5, <1>8, <1>9, <1>10 DEF IInv

\* A summary that is given up.
LEMMA GiveUpKeeps ==
    ASSUME IInv, NEW j \in Jobs, GiveUp(j), EndJob(j),
           UNCHANGED <<turnStatus, queue, epoch, late, lost>>
    PROVE  IInv'
<1>1. /\ JobsTyped' /\ Shape' /\ Complete'
      /\ \A k \in Jobs : jobSeen'[k] # NoRow =>
             /\ jobSeen'[k].epoch <= epoch'
             /\ jobSeen'[k] = jobSeen[k] /\ k # j
  BY EndJobKeeps DEF IInv
<1>2. Epochs' /\ Current'
  BY <1>1 DEF IInv, Epochs, Current, GiveUp
<1>3. Text' /\ SummaryIsFaithful'
  BY RowStays DEF GiveUp
<1>4. gaveUp' \in BOOLEAN
  BY DEF IInv, MemTypeOK, GiveUp
<1>5. MemTypeOK'
  BY <1>1, <1>4 DEF IInv, MemTypeOK, JobsTyped, GiveUp
<1> QED
  BY <1>1, <1>2, <1>3, <1>5 DEF IInv

\* The merge adds exchanges beyond the row it read, to the row it read.
LEMMA UpdateRowStep == ASSUME NEW j \in Jobs PROVE IInv /\ UpdateRow(j) => IInv'
<1> SUFFICES ASSUME IInv, UpdateRow(j) PROVE IInv'
  OBVIOUS
<1> DEFINE batch == jobBatch[j]
           seen == jobSeen[j]
           count == summary.count + Cardinality(batch)
<1>1. jobState[j] = "merge" /\ seen # NoRow /\ EndJob(j)
  BY DEF UpdateRow
<1>2. CASE ~VersionMatches(summary, seen)
  BY <1>1, <1>2, GiveUpKeeps DEF UpdateRow
<1>3. CASE VersionMatches(summary, seen)
  <2>1. /\ summary # NoRow /\ seen.version = summary.version
        /\ seen \in Rows /\ summary \in Rows
        /\ seen.epoch = epoch => seen = summary
    BY <1>1, <1>3, SeenIsSummary
  <2>2. /\ batch \in SUBSET Exchanges /\ batch # {} /\ batch \subseteq With("completed")
        /\ IsFiniteSet(batch) /\ Cardinality(batch) \in Nat
    BY <1>1, Sizes DEF IInv, MemTypeOK, Shape, Working
  <2>3. /\ summary.count \in Nat /\ seen.version \in Nat /\ seen.epoch \in Nat
        /\ count \in Nat /\ seen.version + 1 \in Nat
        /\ seen.merged \in SUBSET Exchanges /\ MergedIn(seen) = seen.merged
        /\ CoveredBy(seen) = seen.covered /\ seen.covered \in Nat
    BY <2>1, <2>2, RowFacts
  <2> HIDE DEF count
  <2>4. /\ summary' \in Rows
        /\ summary'.covered = Greatest(batch)
        /\ summary'.version = seen.version + 1
        /\ summary'.epoch = seen.epoch
        /\ summary'.merged = batch \cup seen.merged
        /\ summary'.count = count
        /\ UNCHANGED gaveUp
    <3>1. summary' = [NewRow(j, count, seen.version + 1, seen) EXCEPT !.epoch = seen.epoch]
      BY <1>3 DEF UpdateRow, count
    <3>2. UNCHANGED gaveUp
      BY <1>3 DEF UpdateRow
    <3> QED
      BY <2>1, <2>2, <2>3, <3>1, <3>2, NewRowFacts DEF IInv
  <2>5. ASSUME Unmixed(summary)'
        PROVE  /\ {x \in With("completed") : x <= Greatest(batch)}
                      \subseteq summary'.merged \cup late
               /\ late = {} => summary'.count = Cardinality(summary'.merged)
    <3>1. seen = summary /\ Unmixed(summary)
      BY <2>1, <2>4, <2>5 DEF Unmixed, UpdateRow
    <3>2. /\ {x \in With("completed") : x <= summary.covered} \subseteq summary.merged \cup late
          /\ late = {} => summary.count = Cardinality(summary.merged)
          /\ \A x \in summary.merged : x <= summary.covered
      BY <3>1 DEF IInv, SummaryIsFaithful, Text
    <3>3. /\ \A x \in batch : summary.covered < x
          /\ \A x \in With("completed") :
                summary.covered < x /\ x <= Greatest(batch) => x \in batch \cup late
      <4>1. From(j) = summary.covered
        BY <1>1, <2>3, <3>1 DEF From
      <4> QED
        BY <1>1, <4>1 DEF IInv, Complete, Working
    <3>4. \A x \in Exchanges : x \in Nat
      BY MemoryAssumption DEF Exchanges, MemoryAssumption
    <3>5. {x \in With("completed") : x <= Greatest(batch)} \subseteq summary'.merged \cup late
      <4> SUFFICES ASSUME NEW x \in With("completed"), x <= Greatest(batch)
                   PROVE  x \in batch \cup summary.merged \cup late
        BY <2>4, <3>1
      <4>1. x \in Nat /\ summary.covered \in Nat
        BY <2>3, <3>1, <3>4 DEF With
      <4>2. x <= summary.covered \/ summary.covered < x
        BY <4>1
      <4> QED
        BY <3>2, <3>3, <4>2
    <3>6. ASSUME late = {} PROVE summary'.count = Cardinality(summary'.merged)
      <4>1. batch \cap summary.merged = {}
        <5> SUFFICES ASSUME NEW x \in batch, x \in summary.merged PROVE FALSE
          OBVIOUS
        <5>1. x \in Nat /\ summary.covered \in Nat /\ summary.covered < x /\ x <= summary.covered
          BY <2>2, <2>3, <3>1, <3>2, <3>3, <3>4
        <5> QED
          BY <5>1
      <4>2. IsFiniteSet(summary.merged) /\ Cardinality(summary.merged) \in Nat
        BY <2>3, <3>1, Sizes
      <4>3. Cardinality(batch \cup summary.merged)
              = Cardinality(batch) + Cardinality(summary.merged) - Cardinality(batch \cap summary.merged)
        BY <2>2, <4>2, FS_Union
      <4>4. Cardinality(batch \cap summary.merged) = 0
        BY <4>1, FS_EmptySet
      <4> QED
        BY <2>2, <2>4, <3>1, <3>2, <3>6, <4>2, <4>3, <4>4 DEF count
    <3> QED
      BY <3>5, <3>6
  <2>6. jobState[j] \in Working /\ UNCHANGED <<turnStatus, queue, epoch, late, lost>>
    BY <1>1 DEF Working, UpdateRow
  <2> QED
    BY <1>1, <1>3, <2>4, <2>5, <2>6, UpdateKeeps
<1> QED
  BY <1>2, <1>3

\* The retry merges from the beginning, so its text has all the other row's.
LEMMA RetryUpdateStep == ASSUME NEW j \in Jobs PROVE IInv /\ RetryUpdate(j) => IInv'
<1> SUFFICES ASSUME IInv, RetryUpdate(j) PROVE IInv'
  OBVIOUS
<1> DEFINE batch == jobBatch[j]
           seen == jobSeen[j]
           count == Max({summary.count, Cardinality(batch)})
<1>1. jobState[j] = "retry" /\ seen # NoRow /\ EndJob(j)
  BY DEF IInv, Shape, RetryUpdate
<1>2. CASE ~VersionMatches(summary, seen)
  BY <1>1, <1>2, GiveUpKeeps DEF RetryUpdate
<1>3. CASE VersionMatches(summary, seen)
  <2>1. /\ summary # NoRow /\ seen.version = summary.version
        /\ seen \in Rows /\ summary \in Rows
        /\ seen.epoch = epoch => seen = summary
    BY <1>1, <1>3, SeenIsSummary
  <2>2. /\ batch \in SUBSET Exchanges /\ batch # {} /\ batch \subseteq With("completed")
        /\ IsFiniteSet(batch) /\ Cardinality(batch) \in Nat
        /\ CoveredBy(seen) < Greatest(batch)
    BY <1>1, Sizes DEF IInv, MemTypeOK, Shape, Working
  <2>3. /\ summary.count \in Nat /\ seen.version \in Nat /\ seen.epoch \in Nat
        /\ seen.version + 1 \in Nat
        /\ seen.merged \in SUBSET Exchanges
        /\ CoveredBy(seen) = seen.covered /\ seen.covered \in Nat
        /\ MergedIn(NoRow) = {}
    BY <2>1, <2>2, RowFacts
  <2>4. count = (IF summary.count >= Cardinality(batch) THEN summary.count ELSE Cardinality(batch))
        /\ count \in Nat
    BY <2>2, <2>3, MaxOfTwo
  <2> HIDE DEF count
  <2>5. /\ summary' \in Rows
        /\ summary'.covered = Greatest(batch)
        /\ summary'.version = seen.version + 1
        /\ summary'.epoch = seen.epoch
        /\ summary'.merged = batch
        /\ summary'.count = count
        /\ UNCHANGED gaveUp
    <3>1. summary' = [NewRow(j, count, seen.version + 1, NoRow) EXCEPT !.epoch = seen.epoch]
      BY <1>3 DEF RetryUpdate, count
    <3>2. UNCHANGED gaveUp
      BY <1>3 DEF RetryUpdate
    <3>3. NoRow \in Rows \cup {NoRow} /\ MemTypeOK /\ count \in Nat /\ batch # {}
      BY <2>2, <2>4 DEF IInv
    <3>4. LET row == [NewRow(j, count, seen.version + 1, NoRow) EXCEPT !.epoch = seen.epoch] IN
          /\ row \in Rows /\ row.covered = Greatest(batch)
          /\ row.count = count /\ row.version = seen.version + 1 /\ row.epoch = seen.epoch
          /\ row.merged = batch \cup MergedIn(NoRow)
      <4> HIDE DEF seen
      <4>1. \A v \in Nat, e \in Nat :
               LET row == [NewRow(j, count, v, NoRow) EXCEPT !.epoch = e] IN
               /\ row \in Rows /\ row.covered = Greatest(batch)
               /\ row.count = count /\ row.version = v /\ row.epoch = e
               /\ row.merged = batch \cup MergedIn(NoRow)
        BY <3>3, NewRowFacts
      <4> QED
        BY <2>3, <4>1
    <3>5. batch \cup MergedIn(NoRow) = batch
      BY <2>3
    <3> QED
      BY <3>1, <3>2, <3>4, <3>5
  <2>6. ASSUME Unmixed(summary)'
        PROVE  /\ {x \in With("completed") : x <= Greatest(batch)}
                      \subseteq summary'.merged \cup late
               /\ late = {} => summary'.count = Cardinality(summary'.merged)
    <3>1. seen = summary /\ Unmixed(summary)
      BY <2>1, <2>5, <2>6 DEF Unmixed, RetryUpdate
    <3>2. /\ late = {} => summary.count = Cardinality(summary.merged)
          /\ summary.merged \subseteq With("completed")
          /\ \A x \in summary.merged : x <= summary.covered
      BY <3>1 DEF IInv, SummaryIsFaithful, Text
    <3>3. \A x \in With("completed") : x \in Nat /\ 0 < x
      BY MemoryAssumption DEF With, Exchanges, MemoryAssumption
    <3>4. \A x \in With("completed") : x <= Greatest(batch) => x \in batch \cup late
      <4>1. From(j) = 0
        BY <1>1 DEF From
      <4> QED
        BY <1>1, <3>3, <4>1 DEF IInv, Complete, Working
    <3>5. ASSUME late = {} PROVE count = Cardinality(batch)
      <4>1. summary.merged \subseteq batch
        <5> SUFFICES ASSUME NEW x \in summary.merged PROVE x \in batch
          OBVIOUS
        <5>1. x \in With("completed") /\ x \in Nat /\ x <= summary.covered
          BY <3>2, <3>3
        <5>2. summary.covered < Greatest(batch) /\ summary.covered \in Nat
          BY <2>2, <2>3, <3>1
        <5>3. Greatest(batch) \in Nat
          BY <2>2, <3>3, GreatestOf
        <5> QED
          BY <3>4, <3>5, <5>1, <5>2, <5>3
      <4>2. Cardinality(summary.merged) <= Cardinality(batch)
        BY <2>2, <4>1, FS_Subset
      <4> QED
        BY <2>2, <2>3, <2>4, <3>2, <3>5, <4>2
    <3> QED
      BY <2>5, <3>4, <3>5
  <2>7. jobState[j] \in Working /\ UNCHANGED <<turnStatus, queue, epoch, late, lost>>
    BY <1>1 DEF Working, RetryUpdate
  <2>8. summary'.merged \subseteq jobBatch[j] \cup jobSeen[j].merged
    BY <2>5
  <2> QED
    BY <1>1, <1>3, <2>5, <2>6, <2>7, <2>8, UpdateKeeps
<1> QED
  BY <1>2, <1>3

LEMMA MemStutter == IInv /\ UNCHANGED memVars => IInv'
BY QuietStep DEF IInv, MemTypeOK, memVars, jobVars, With

THEOREM IInvInvariant == MemSpec => []IInv
<1>1. IInv /\ [MemNext]_memVars => IInv'
  <2> SUFFICES ASSUME IInv, [MemNext]_memVars PROVE IInv'
    OBVIOUS
  <2>1. CASE OpenTurn
    BY <2>1, OpenTurnStep
  <2>2. ASSUME NEW x \in Exchanges, CompleteTurn(x) \/ BreakTurn(x) PROVE IInv'
    BY <2>2, CompleteTurnStep, BreakTurnStep
  <2>3. ASSUME NEW j \in Jobs, \/ StartJob(j) \/ RebuildDelete(j) \/ RebuildRead(j)
                               \/ CreateRow(j) \/ UpdateRow(j) \/ ReadConflict(j)
                               \/ RetryUpdate(j) \/ FailJob(j)
        PROVE  IInv'
    BY <2>3, StartJobStep, RebuildDeleteStep, RebuildReadStep, CreateRowStep, UpdateRowStep,
       ReadConflictStep, RetryUpdateStep, FailJobStep
  <2>4. CASE UNCHANGED memVars
    BY <2>4, MemStutter
  <2> QED
    BY <2>1, <2>2, <2>3, <2>4 DEF MemNext
<1> QED
  BY <1>1, InitIInv, PTL DEF MemSpec

-----------------------------------------------------------------------------
(* The theorems. *)

\* Every variable keeps its type.
THEOREM MemTypeCorrect == MemSpec => []MemTypeOK
<1>1. IInv => MemTypeOK
  BY DEF IInv
<1> QED
  BY <1>1, IInvInvariant, PTL

\* Whatever compressions and rebuilds race, a row that no rebuild has mixed
\* up stands for every completed exchange up to its pointer, except those
\* completed after a later one had begun, and counts them right.
THEOREM FaithfulSummary == MemSpec => []SummaryIsFaithful
<1>1. IInv => SummaryIsFaithful
  BY DEF IInv
<1> QED
  BY <1>1, IInvInvariant, PTL

\* What a conditional update of a running compression does to the row: nothing,
\* or it writes a row that covers more than the one it had seen, of the same
\* incarnation; and the row of the table is the one it had seen, unless both
\* are of an earlier incarnation.
LEMMA UpdatedRow ==
    ASSUME IInv, NEW j \in Jobs, UpdateRow(j) \/ RetryUpdate(j), summary' # summary
    PROVE  /\ summary # NoRow /\ summary \in Rows /\ summary' \in Rows
           /\ jobSeen[j] \in Rows /\ jobSeen[j].epoch <= epoch
           /\ summary'.epoch = jobSeen[j].epoch
           /\ summary'.epoch = epoch =>
                 /\ jobSeen[j] = summary
                 /\ summary'.covered > summary.covered
                 /\ summary'.version = summary.version + 1
<1>1. VersionMatches(summary, jobSeen[j])
  BY DEF UpdateRow, RetryUpdate, GiveUp
<1>2. jobState[j] \in {"merge", "retry"} /\ jobSeen[j] # NoRow
  BY DEF UpdateRow, RetryUpdate, IInv, Shape
<1>3. /\ jobSeen[j] \in Rows /\ summary \in Rows /\ summary # NoRow
      /\ jobSeen[j].version = summary.version
      /\ jobSeen[j].epoch <= epoch
      /\ jobSeen[j].epoch = epoch => jobSeen[j] = summary
  BY <1>1, <1>2, SeenIsSummary DEF IInv, Epochs
<1>4. /\ jobBatch[j] # {} /\ CoveredBy(jobSeen[j]) < Greatest(jobBatch[j])
      /\ MemTypeOK
  BY <1>2 DEF IInv, Shape, Working
<1>5. \E c \in Nat, from \in Rows \cup {NoRow} :
         summary' = [NewRow(j, c, jobSeen[j].version + 1, from) EXCEPT !.epoch = jobSeen[j].epoch]
  <2>1. jobBatch[j] \in SUBSET Exchanges /\ Cardinality(jobBatch[j]) \in Nat /\ summary.count \in Nat
    BY <1>3, <1>4, Sizes, RowFacts DEF MemTypeOK
  <2>2. /\ summary.count + Cardinality(jobBatch[j]) \in Nat
        /\ Max({summary.count, Cardinality(jobBatch[j])}) \in Nat
    BY <2>1, MaxOfTwo
  <2>3. CASE UpdateRow(j)
    BY <1>1, <1>3, <2>2, <2>3 DEF UpdateRow
  <2>4. CASE RetryUpdate(j)
    BY <1>1, <2>2, <2>4 DEF RetryUpdate
  <2> QED
    BY <2>3, <2>4
<1>6. jobSeen[j].version \in Nat /\ jobSeen[j].epoch \in Nat /\ jobSeen[j].version + 1 \in Nat
  BY <1>3, RowFacts
<1>7. /\ summary' \in Rows /\ summary'.covered = Greatest(jobBatch[j])
      /\ summary'.version = jobSeen[j].version + 1
      /\ summary'.epoch = jobSeen[j].epoch
  BY <1>4, <1>5, <1>6, NewRowFacts
<1>8. ASSUME summary'.epoch = epoch
      PROVE  /\ jobSeen[j] = summary
             /\ summary'.covered > summary.covered
             /\ summary'.version = summary.version + 1
  <2>1. jobSeen[j] = summary
    BY <1>3, <1>7, <1>8
  <2>2. CoveredBy(jobSeen[j]) = summary.covered /\ summary.covered \in Nat
    BY <1>3, <2>1, RowFacts
  <2>3. Greatest(jobBatch[j]) \in Nat
    BY <1>4, GreatestOf, MemoryAssumption DEF MemTypeOK, Exchanges, MemoryAssumption
  <2> QED
    BY <1>4, <1>7, <2>1, <2>2, <2>3
<1> QED
  BY <1>3, <1>7, <1>8

\* Only a compression that finds no row, a conditional update and a rebuild
\* write the row.
LEMMA RowWriters ==
    ASSUME MemNext, summary' # summary
    PROVE  \E j \in Jobs : \/ CreateRow(j) \/ RebuildDelete(j)
                           \/ UpdateRow(j) \/ RetryUpdate(j)
BY DEF MemNext, OpenTurn, CompleteTurn, BreakTurn, StartJob, RebuildRead,
       ReadConflict, FailJob

\* Within one incarnation of the row a write moves the pointer forward, and
\* the version by one: the compare-and-set lets no older compression win.
THEOREM RowAdvances == MemSpec => AdvancesWithinIncarnation
<1> DEFINE Advance == (Unmixed(summary) /\ summary' # NoRow /\ summary' # summary
                       /\ summary'.epoch = epoch)
                      => /\ summary'.covered > summary.covered
                         /\ summary'.version = summary.version + 1
<1>1. ASSUME IInv, [MemNext]_memVars PROVE [Advance]_memVars
  <2> SUFFICES ASSUME MemNext, Unmixed(summary), summary' # NoRow, summary' # summary,
                      summary'.epoch = epoch
               PROVE  /\ summary'.covered > summary.covered
                      /\ summary'.version = summary.version + 1
    BY <1>1 DEF memVars
  <2>1. PICK j \in Jobs : UpdateRow(j) \/ RetryUpdate(j)
    BY RowWriters DEF RebuildDelete, CreateRow, Unmixed
  <2> QED
    BY <1>1, <2>1, UpdatedRow
<1> QED
  BY <1>1, IInvInvariant, PTL DEF MemSpec, AdvancesWithinIncarnation

-----------------------------------------------------------------------------
(* What the summary promises to its readers. *)

Kind == IF summary = NoRow THEN "none" ELSE IF Unmixed(summary) THEN "whole" ELSE "mixed"
Pointer == IF Unmixed(summary) THEN summary.covered ELSE 0
TextOf == IF Unmixed(summary) THEN summary.merged ELSE {}

\* What is visible of the memory.
Visible == <<With("completed"), late, epoch, Kind, Pointer, TextOf>>

\* A written row of the present incarnation is a summary of the exchanges up to
\* its pointer.
LEMMA WrittenIsWhole ==
    ASSUME IInv, IInv', UNCHANGED <<turnStatus, epoch, late>>,
           Kind \in {"none", "whole"}, Unmixed(summary)', summary'.covered > Pointer
    PROVE  Summaries!Summarise
<1>1. Kind' = "whole" /\ Pointer' = summary'.covered /\ TextOf' = summary'.merged
  BY DEF Kind, Pointer, TextOf, Unmixed
<1>2. With("completed")' = With("completed")
  BY DEF With
<1>3. /\ summary'.merged \subseteq With("completed")
      /\ \A x \in summary'.merged : x <= summary'.covered
      /\ summary'.covered \in With("completed")
      /\ {x \in With("completed") : x <= summary'.covered} \subseteq summary'.merged \cup late
  BY <1>2 DEF IInv, Text, SummaryIsFaithful
<1> QED
  BY <1>1, <1>2, <1>3 DEF Summaries!Summarise, Kind, Pointer, TextOf

\* Every step of the memory is one of the service, or is not seen.
LEMMA SummaryStep ==
    ASSUME IInv, IInv', [MemNext]_memVars
    PROVE  [Summaries!Next]_Visible
<1>1. CASE UNCHANGED <<turnStatus, summary, epoch, late>>
  BY <1>1 DEF Visible, Kind, Pointer, TextOf, Unmixed, With
<1>2. CASE OpenTurn \/ \E x \in Exchanges : BreakTurn(x)
  <2>1. With("completed")' = With("completed") /\ UNCHANGED <<summary, epoch, late>>
    <3>1. CASE OpenTurn
      <4>1. \E x \in With("none") : turnStatus' = [turnStatus EXCEPT ![x] = "running"]
        <5>1. With("none") \in SUBSET Exchanges
          BY DEF With
        <5>2. \E x \in With("none") : \A y \in With("none") : x <= y
          BY <3>1, <5>1, Extremes DEF OpenTurn
        <5> QED
          BY <3>1, <5>2 DEF OpenTurn
      <4> QED
        BY <3>1, <4>1 DEF OpenTurn, IInv, MemTypeOK, With
    <3>2. CASE \E x \in Exchanges : BreakTurn(x)
      BY <3>2 DEF IInv, MemTypeOK, With, BreakTurn
    <3> QED
      BY <1>2, <3>1, <3>2
  <2> QED
    BY <2>1 DEF Visible, Kind, Pointer, TextOf, Unmixed
<1>3. ASSUME NEW x \in Exchanges, CompleteTurn(x) PROVE Summaries!Complete(x)
  <2>1. /\ With("completed")' = With("completed") \cup {x} /\ x \notin With("completed")
        /\ late' \in {late, late \cup {x}}
        /\ UNCHANGED <<summary, epoch>>
    BY <1>3 DEF IInv, MemTypeOK, CompleteTurn, With
  <2>2. Kind' = Kind /\ Pointer' = Pointer /\ TextOf' = TextOf
    BY <2>1 DEF Kind, Pointer, TextOf, Unmixed
  <2>3. ASSUME Kind = "whole", x <= Pointer PROVE x \in late'
    <3>1. Unmixed(summary) /\ Unmixed(summary)' /\ x <= summary.covered
      BY <2>1, <2>3 DEF Kind, Pointer, Unmixed
    <3>2. x \in summary.merged \cup late'
      BY <2>1, <3>1 DEF IInv, SummaryIsFaithful
    <3>3. x \notin summary.merged
      BY <2>1, <3>1 DEF IInv, Text
    <3> QED
      BY <3>2, <3>3
  <2> QED
    BY <2>1, <2>2, <2>3 DEF Summaries!Complete, Kind, Pointer, TextOf
<1>4. ASSUME NEW j \in Jobs, RebuildDelete(j) PROVE Summaries!Rebuild
  <2>1. /\ summary' = NoRow /\ epoch' = epoch + 1 /\ UNCHANGED <<turnStatus, late>>
    BY <1>4 DEF RebuildDelete
  <2>2. Kind' = "none" /\ Pointer' = 0 /\ TextOf' = {} /\ With("completed")' = With("completed")
    BY <2>1 DEF Kind, Pointer, TextOf, Unmixed, With
  <2> QED
    BY <2>1, <2>2 DEF Summaries!Rebuild, Kind, Pointer, TextOf
<1>5. ASSUME NEW j \in Jobs, CreateRow(j), summary' # summary PROVE Summaries!Summarise
  <2>1. /\ summary = NoRow /\ UNCHANGED <<turnStatus, epoch, late>>
        /\ jobState[j] \in Working /\ jobSeen[j] = NoRow
        /\ summary' = NewRow(j, Cardinality(jobBatch[j]), 1, NoRow)
    BY <1>5 DEF CreateRow, Working
  <2>2. jobBatch[j] # {} /\ 0 < Greatest(jobBatch[j]) /\ MemTypeOK /\ epoch \in Nat
    BY <2>1, RowFacts DEF IInv, Shape, MemTypeOK
  <2>3. Cardinality(jobBatch[j]) \in Nat
    BY <2>2, Sizes DEF MemTypeOK
  <2>4. /\ summary' \in Rows /\ summary'.covered = Greatest(jobBatch[j])
        /\ summary'.epoch = epoch
    <3>1. 1 \in Nat /\ NoRow \in Rows \cup {NoRow}
      OBVIOUS
    <3>2. LET row == [NewRow(j, Cardinality(jobBatch[j]), 1, NoRow) EXCEPT !.epoch = epoch] IN
             /\ row \in Rows /\ row.covered = Greatest(jobBatch[j]) /\ row.epoch = epoch
             /\ NewRow(j, Cardinality(jobBatch[j]), 1, NoRow) = row
      BY <2>2, <2>3, <3>1, NewRowFacts
    <3> QED
      BY <2>1, <3>2
  <2>5. Unmixed(summary)' /\ Kind = "none" /\ Pointer = 0
    BY <2>1, <2>4, RowFacts DEF Unmixed, Kind, Pointer
  <2> QED
    BY <2>1, <2>2, <2>4, <2>5, WrittenIsWhole
<1>6. ASSUME NEW j \in Jobs, UpdateRow(j) \/ RetryUpdate(j), summary' # summary
      PROVE  [Summaries!Next]_Visible
  <2>1. UNCHANGED <<turnStatus, epoch, late>> /\ With("completed")' = With("completed")
    BY <1>6 DEF UpdateRow, RetryUpdate, With
  <2>2. /\ summary # NoRow /\ summary \in Rows /\ summary' \in Rows
        /\ jobSeen[j] \in Rows /\ jobSeen[j].epoch <= epoch
        /\ summary'.epoch = jobSeen[j].epoch
        /\ summary'.epoch = epoch =>
              jobSeen[j] = summary /\ summary'.covered > summary.covered
    BY <1>6, UpdatedRow
  <2>3. summary' # NoRow
    BY <2>2, RowFacts
  <2>4. CASE summary'.epoch = epoch
    <3>1. Unmixed(summary) /\ Unmixed(summary)'
      BY <2>1, <2>2, <2>3, <2>4 DEF Unmixed
    <3>2. Kind = "whole" /\ Pointer = summary.covered
      BY <2>2, <3>1 DEF Kind, Pointer
    <3> QED
      BY <2>1, <2>2, <2>4, <3>1, <3>2, WrittenIsWhole DEF Summaries!Next
  <2>5. CASE summary'.epoch # epoch
    <3>1. Kind' = "mixed" /\ Pointer' = 0 /\ TextOf' = {}
      BY <2>1, <2>3, <2>5 DEF Kind, Pointer, TextOf, Unmixed
    <3>2. epoch > 0
      BY <2>2, <2>5, RowFacts DEF IInv, MemTypeOK
    <3>3. CASE Unmixed(summary)
      <4>1. Kind = "whole"
        BY <2>2, <3>3 DEF Kind
      <4>2. Summaries!Mix
        BY <2>1, <3>1, <3>2, <4>1 DEF Summaries!Mix, Kind, Pointer, TextOf
      <4> QED
        BY <4>2 DEF Summaries!Next
    <3>4. CASE ~Unmixed(summary)
      <4>1. Kind = "mixed" /\ Pointer = 0 /\ TextOf = {}
        BY <2>2, <3>4 DEF Kind, Pointer, TextOf
      <4> QED
        BY <2>1, <3>1, <4>1 DEF Visible
    <3> QED
      BY <3>3, <3>4
  <2> QED
    BY <2>4, <2>5
<1>7. CASE summary' = summary
  <2>1. ASSUME NEW j \in Jobs, \/ StartJob(j) \/ RebuildRead(j) \/ CreateRow(j) \/ UpdateRow(j)
                               \/ ReadConflict(j) \/ RetryUpdate(j) \/ FailJob(j)
        PROVE  UNCHANGED <<turnStatus, summary, epoch, late>>
    BY <1>7, <2>1 DEF StartJob, RebuildRead, CreateRow, UpdateRow, ReadConflict, RetryUpdate, FailJob
  <2>2. CASE UNCHANGED memVars
    BY <1>1, <2>2 DEF memVars
  <2> QED
    BY <1>1, <1>2, <1>3, <1>4, <2>1, <2>2 DEF MemNext, Summaries!Next
<1>8. CASE summary' # summary
  <2>1. MemNext
    BY <1>8 DEF memVars
  <2>2. PICK j \in Jobs : CreateRow(j) \/ RebuildDelete(j) \/ UpdateRow(j) \/ RetryUpdate(j)
    BY <1>8, <2>1, RowWriters
  <2> QED
    BY <1>4, <1>5, <1>6, <1>8, <2>2 DEF Summaries!Next
<1> QED
  BY <1>7, <1>8

\* The memory implements SummaryService: the summary is a beginning of the
\* completed exchanges that only grows between rebuilds, and the text of an
\* earlier rebuild can come back only after one, and never turns into a whole
\* summary (compress_history(), rebuild_summary()).
THEOREM SummaryServed == MemSpec => ImplementsSummaryService
<1>1. MemInit => Summaries!Init
  BY DEF MemInit, Summaries!Init, Unmixed, With
<1>2. IInv /\ IInv' /\ [MemNext]_memVars => [Summaries!Next]_Visible
  BY SummaryStep
<1> QED
  BY <1>1, <1>2, IInvInvariant, PTL
     DEF MemSpec, ImplementsSummaryService, Summaries!Spec, Summaries!vars, Visible, Kind, Pointer, TextOf


-----------------------------------------------------------------------------
(* What no compression forgets. *)

\* Turns were serialised and completed, no task got lost or gave up a summary
\* that covers more than the row, and nobody rebuilt it.
Steady ==
    /\ ~gaveUp /\ lost = 0 /\ late = {} /\ epoch = 0
    /\ With("failed") = {} /\ With("stopped") = {}

After(x) == {y \in With("completed") : y > x}
UpTo(x, k) == {y \in With("completed") : y > x /\ y <= k}

\* A completed exchange is covered, or a queued task or a running job will
\* cover it, or it is in the window.
Kept(x) ==
    \/ x <= CoveredBy(summary)
    \/ \E k \in queue : x <= k /\ ~(Cardinality(UpTo(x, k)) < WindowSize)
    \/ \E j \in Jobs : jobState[j] \in Working /\ x \in jobBatch[j]
    \/ Cardinality(After(x)) < WindowSize

Remembered ==
    Steady => /\ \A x \in With("completed") : Kept(x)
              /\ \A j \in Jobs : jobState[j] = "conflict" => summary # NoRow

OpenBound == Cardinality(With("running")) <= MaxOpen

KInv == Remembered /\ OpenBound

\* An exchange stays kept when the row does not go back, the jobs but one stay
\* as they are, and what that one or a task it takes was to cover is covered
\* or still being merged.
LEMMA KeptOn ==
    ASSUME NEW j \in Jobs, NEW x \in With("completed"), Kept(x), UNCHANGED turnStatus,
           \A k \in Jobs \ {j} : jobState'[k] = jobState[k] /\ jobBatch'[k] = jobBatch[k],
           x <= CoveredBy(summary) => x <= CoveredBy(summary'),
           jobState[j] \in Working /\ x \in jobBatch[j] =>
               \/ x <= CoveredBy(summary')
               \/ jobState'[j] \in Working /\ x \in jobBatch'[j],
           \A k \in queue \ queue' : x <= k /\ ~(Cardinality(UpTo(x, k)) < WindowSize) =>
               \/ x <= CoveredBy(summary')
               \/ jobState'[j] \in Working /\ x \in jobBatch'[j]
    PROVE  Kept(x)'
<1>1. /\ With("completed")' = With("completed")
      /\ After(x)' = After(x) /\ \A k : UpTo(x, k)' = UpTo(x, k)
  BY DEF With, After, UpTo
<1>2. Kept(x)' <=>
        \/ x <= CoveredBy(summary')
        \/ \E k \in queue' : x <= k /\ ~(Cardinality(UpTo(x, k)) < WindowSize)
        \/ \E k \in Jobs : jobState'[k] \in Working /\ x \in jobBatch'[k]
        \/ Cardinality(After(x)) < WindowSize
  BY <1>1 DEF Kept, Working, CoveredBy, UpTo, After, With
<1>3. CASE x <= CoveredBy(summary)
  BY <1>2, <1>3
<1>4. ASSUME NEW k \in queue, x <= k, ~(Cardinality(UpTo(x, k)) < WindowSize) PROVE Kept(x)'
  BY <1>2, <1>4
<1>5. ASSUME NEW k \in Jobs, jobState[k] \in Working, x \in jobBatch[k] PROVE Kept(x)'
  BY <1>2, <1>5
<1>6. CASE Cardinality(After(x)) < WindowSize
  BY <1>2, <1>6
<1> QED
  BY <1>3, <1>4, <1>5, <1>6 DEF Kept

LEMMA KInit == MemInit => KInv
<1> SUFFICES ASSUME MemInit PROVE KInv
  OBVIOUS
<1>1. With("completed") = {} /\ With("running") = {}
  BY DEF MemInit, With
<1>2. Cardinality({}) = 0
  BY FS_EmptySet
<1>3. \A j \in Jobs : jobState[j] # "conflict"
  BY DEF MemInit
<1> QED
  BY <1>1, <1>2, <1>3, MemoryAssumption DEF KInv, Remembered, OpenBound, MemoryAssumption

\* A turn that opens is not completed; no more than MaxOpen run.
LEMMA KOpen == IInv /\ KInv /\ OpenTurn => KInv'
<1> SUFFICES ASSUME IInv, KInv, OpenTurn PROVE KInv'
  OBVIOUS
<1>1. PICK z \in With("none") : turnStatus' = [turnStatus EXCEPT ![z] = "running"]
  <2>1. With("none") \in SUBSET Exchanges /\ With("none") # {}
    BY DEF OpenTurn, With
  <2>2. (CHOOSE x \in With("none") : \A y \in With("none") : x <= y) \in With("none")
    BY <2>1, Extremes
  <2> QED
    BY <2>2 DEF OpenTurn
<1>2. z \in Exchanges /\ turnStatus[z] = "none" /\ turnStatus \in [Exchanges -> TurnStatuses]
      /\ UNCHANGED <<summary, queue, jobState, jobSeen, jobBatch, epoch, late, gaveUp, lost>>
  BY <1>1 DEF With, IInv, MemTypeOK, OpenTurn, jobVars
<1>3. /\ With("completed")' = With("completed") /\ With("failed")' = With("failed")
      /\ With("stopped")' = With("stopped")
      /\ With("running")' = With("running") \cup {z} /\ z \notin With("running")
  BY <1>1, <1>2 DEF With
<1>4. Remembered'
  <2>1. Steady' = Steady
    BY <1>2, <1>3 DEF Steady
  <2>2. \A x : Kept(x)' = Kept(x)
    BY <1>2, <1>3 DEF Kept, UpTo, After, CoveredBy, Working
  <2> QED
    BY <1>2, <1>3, <2>1, <2>2 DEF KInv, Remembered
<1>5. OpenBound'
  <2>1. With("running") \in SUBSET Exchanges
    BY DEF With
  <2>2. Cardinality(With("running")') = Cardinality(With("running")) + 1
    BY <1>3, <2>1, Sizes, FS_AddElement
  <2>3. Cardinality(With("running")) < MaxOpen
    BY DEF OpenTurn
  <2> QED
    BY <2>1, <2>2, <2>3, Sizes, MemoryAssumption DEF OpenBound, MemoryAssumption
<1> QED
  BY <1>4, <1>5 DEF KInv

\* A turn that ends runs no more.
LEMMA RunningShrinks ==
    ASSUME IInv, KInv, NEW z \in Exchanges, NEW st \in {"completed", "failed", "stopped"},
           turnStatus' = [turnStatus EXCEPT ![z] = st]
    PROVE  OpenBound'
<1>1. With("running")' \subseteq With("running") /\ With("running") \in SUBSET Exchanges
  BY DEF With, IInv, MemTypeOK
<1>2. Cardinality(With("running")') <= Cardinality(With("running"))
  BY <1>1, Sizes, FS_Subset
<1>3. Cardinality(With("running")') \in Nat /\ Cardinality(With("running")) \in Nat
  BY <1>1, Sizes
<1> QED
  BY <1>2, <1>3, MemoryAssumption DEF KInv, OpenBound, MemoryAssumption

LEMMA KBreak == ASSUME NEW z \in Exchanges PROVE IInv /\ KInv /\ BreakTurn(z) => KInv'
<1> SUFFICES ASSUME IInv, KInv, BreakTurn(z) PROVE KInv'
  OBVIOUS
<1>1. PICK st \in {"failed", "stopped"} : turnStatus' = [turnStatus EXCEPT ![z] = st]
  BY DEF BreakTurn
<1>2. z \in With(st)'
  BY <1>1 DEF With, IInv, MemTypeOK
<1>3. ~Steady'
  BY <1>2 DEF Steady
<1> QED
  BY <1>1, <1>3, RunningShrinks DEF KInv, Remembered

\* The exchange that is completed is the last one and queues a task: what it
\* pushes out of the window the task will cover.
LEMMA KComplete == ASSUME NEW z \in Exchanges PROVE IInv /\ KInv /\ CompleteTurn(z) => KInv'
<1> SUFFICES ASSUME IInv, KInv, CompleteTurn(z) PROVE KInv'
  OBVIOUS
<1>1. /\ turnStatus[z] = "running" /\ turnStatus' = [turnStatus EXCEPT ![z] = "completed"]
      /\ turnStatus \in [Exchanges -> TurnStatuses]
      /\ UNCHANGED <<summary, jobState, jobBatch, epoch, gaveUp>>
      /\ \/ queue' = queue \cup {z} /\ lost' = lost
         \/ lost' = lost + 1
      /\ late' = IF \E y \in Exchanges : y > z /\ turnStatus[y] # "none"
                 THEN late \cup {z} ELSE late
  BY DEF CompleteTurn, IInv, MemTypeOK, jobVars
<1>2. OpenBound'
  BY <1>1, RunningShrinks
<1>3. ASSUME Steady' PROVE (\A x \in With("completed")' : Kept(x)')
                           /\ \A j \in Jobs : jobState'[j] = "conflict" => summary' # NoRow
  <2>1. /\ Steady /\ queue' = queue \cup {z}
        /\ \A y \in Exchanges : y > z => turnStatus[y] = "none"
    <3>1. lost \in Nat /\ lost' = 0 /\ late' = {}
      BY <1>3 DEF Steady, IInv, MemTypeOK
    <3>2. lost = 0 /\ queue' = queue \cup {z}
      BY <1>1, <3>1
    <3>3. late = {} /\ ~\E y \in Exchanges : y > z /\ turnStatus[y] # "none"
      BY <1>1, <3>1
    <3>4. With("failed") \subseteq With("failed")' /\ With("stopped") \subseteq With("stopped")'
      BY <1>1 DEF With
    <3>5. With("failed") = {} /\ With("stopped") = {} /\ ~gaveUp /\ epoch = 0
      BY <1>1, <1>3, <3>4 DEF Steady
    <3> QED
      BY <3>2, <3>3, <3>5 DEF Steady
  <2>2. /\ With("completed")' = With("completed") \cup {z} /\ z \notin With("completed")
        /\ \A y \in With("completed")' : y <= z /\ y \in Exchanges
    <3>1. With("completed")' = With("completed") \cup {z} /\ z \notin With("completed")
      BY <1>1 DEF With
    <3>2. \A y \in Exchanges : y \in Nat
      BY MemoryAssumption DEF Exchanges, MemoryAssumption
    <3>3. \A y \in With("completed") : y \in Exchanges /\ turnStatus[y] # "none"
      BY DEF With
    <3> QED
      BY <2>1, <3>1, <3>2, <3>3
  <2>3. \A y \in Exchanges : y \in Nat
    BY MemoryAssumption DEF Exchanges, MemoryAssumption
  <2>4. ASSUME NEW x \in With("completed")' PROVE Kept(x)'
    <3> DEFINE more == {y \in With("completed")' : y > x}
    <3>0. x \in Nat /\ x <= z /\ z \in Nat /\ WindowSize \in Nat
      BY <2>2, <2>3, <2>4, MemoryAssumption DEF MemoryAssumption
    <3>1. /\ After(x)' = more /\ UpTo(x, z)' = more
          /\ more \in SUBSET Exchanges
      BY <2>2 DEF After, UpTo
    <3>2. CASE Cardinality(more) < WindowSize
      BY <3>1, <3>2 DEF Kept
    <3>3. CASE ~(Cardinality(more) < WindowSize)
      <4>1. z \in queue' /\ x <= z /\ ~(Cardinality(UpTo(x, z)') < WindowSize)
        BY <2>1, <3>0, <3>1, <3>3
      <4> QED
        BY <4>1 DEF Kept
    <3> QED
      BY <3>2, <3>3
  <2>5. \A j \in Jobs : jobState'[j] = "conflict" => summary' # NoRow
    BY <1>1, <2>1 DEF KInv, Remembered
  <2> QED
    BY <2>4, <2>5
<1> QED
  BY <1>2, <1>3 DEF KInv, Remembered

\* Nothing about the turns changes.
LEMMA SameTurns ==
    ASSUME UNCHANGED turnStatus, KInv
    PROVE  OpenBound' /\ With("completed")' = With("completed")
           /\ With("failed")' = With("failed") /\ With("stopped")' = With("stopped")
BY DEF KInv, OpenBound, With

\* What a job that reads the history would have to cover, it merges.
LEMMA ReadTakes ==
    ASSUME IInv, NEW known \in 0 .. MaxExchanges, NEW x \in With("completed"),
           known # 0, x <= known, ~(Cardinality(UpTo(x, known)) < WindowSize),
           ~(x <= CoveredBy(summary))
    PROVE  x \in Overflow(CoveredBy(summary), known)
<1> DEFINE c == CoveredBy(summary)
           stable == {y \in With("completed") : c < y /\ (known = 0 \/ y <= known)}
           Over == {y \in stable : y > x}
<1>1. Overflow(c, known) = {y \in stable : ~(Cardinality({w \in stable : w > y}) < WindowSize)}
  BY Zenon DEF Overflow, Newest
<1>2. c \in Nat /\ known \in Nat /\ \A y \in With("completed") : y \in Nat
  BY RowFacts, MemoryAssumption DEF IInv, MemTypeOK, With, Exchanges, MemoryAssumption
<1>3. x \in stable
  BY <1>2
<1>4. Over = UpTo(x, known)
  BY <1>2, <1>3 DEF UpTo
<1> QED
  BY <1>1, <1>3, <1>4

LEMMA KStartJob == ASSUME NEW j \in Jobs PROVE IInv /\ KInv /\ StartJob(j) => KInv'
<1> SUFFICES ASSUME IInv, KInv, StartJob(j) PROVE KInv'
  OBVIOUS
<1>1. PICK known \in queue : queue' = queue \ {known} /\ ReadHistory(j, known)
  BY DEF StartJob
<1>2. /\ jobState[j] = "idle" /\ UNCHANGED <<turnStatus, summary, epoch, late, gaveUp, lost>>
      /\ known \in 0 .. MaxExchanges /\ known # 0
      /\ jobState \in [Jobs -> JobStates] /\ jobBatch \in [Jobs -> SUBSET Exchanges]
  BY MemoryAssumption DEF StartJob, IInv, MemTypeOK, Exchanges, MemoryAssumption
<1>3. /\ \A k \in Jobs \ {j} : jobState'[k] = jobState[k] /\ jobBatch'[k] = jobBatch[k]
      /\ jobState'[j] \in {"idle", "merge"}
      /\ \A x \in Overflow(CoveredBy(summary), known) :
            jobState'[j] = "merge" /\ x \in jobBatch'[j]
  BY <1>1, <1>2 DEF ReadHistory, EndJob
<1>4. Steady' => Steady
  BY <1>2, SameTurns DEF Steady
<1>5. ASSUME Steady, NEW x \in With("completed") PROVE Kept(x)'
  <2>1. Kept(x)
    BY <1>5 DEF KInv, Remembered
  <2>2. ASSUME x <= known, ~(Cardinality(UpTo(x, known)) < WindowSize)
        PROVE  x <= CoveredBy(summary') \/ (jobState'[j] \in Working /\ x \in jobBatch'[j])
    BY <1>2, <1>3, <2>2, ReadTakes DEF Working
  <2> QED
    BY <1>1, <1>2, <1>3, <2>1, <2>2, KeptOn DEF Working
<1>6. Steady => \A k \in Jobs : jobState'[k] = "conflict" => summary' # NoRow
  BY <1>2, <1>3 DEF KInv, Remembered
<1> QED
  BY <1>2, <1>4, <1>5, <1>6, SameTurns DEF KInv, Remembered

\* The rebuild: it deletes the row, which ends the promise, and reads.
LEMMA KRebuild ==
    ASSUME NEW j \in Jobs
    PROVE  IInv /\ KInv /\ (RebuildDelete(j) \/ RebuildRead(j) \/ FailJob(j)) => KInv'
<1>1. ASSUME IInv, KInv, RebuildDelete(j) \/ FailJob(j) PROVE KInv'
  <2>1. ~Steady'
    BY <1>1 DEF RebuildDelete, FailJob, Steady, IInv, MemTypeOK
  <2>2. UNCHANGED turnStatus
    BY <1>1 DEF RebuildDelete, FailJob
  <2> QED
    BY <1>1, <2>1, <2>2, SameTurns DEF KInv, Remembered
<1>2. ASSUME IInv, KInv, RebuildRead(j) PROVE KInv'
  <2>1. /\ jobState[j] = "rebuild" /\ UNCHANGED <<turnStatus, summary, queue, epoch, late, gaveUp, lost>>
        /\ jobState \in [Jobs -> JobStates] /\ jobBatch \in [Jobs -> SUBSET Exchanges]
    BY <1>2 DEF RebuildRead, IInv, MemTypeOK
  <2>2. /\ \A k \in Jobs \ {j} : jobState'[k] = jobState[k] /\ jobBatch'[k] = jobBatch[k]
        /\ jobState'[j] \in {"idle", "merge"}
    BY <1>2, <2>1 DEF RebuildRead, ReadHistory, EndJob
  <2>3. Steady' => Steady
    BY <1>2, <2>1, SameTurns DEF Steady
  <2>4. ASSUME Steady, NEW x \in With("completed") PROVE Kept(x)'
    <3>1. Kept(x)
      BY <1>2, <2>4 DEF KInv, Remembered
    <3> QED
      BY <2>1, <2>2, <3>1, KeptOn DEF Working
  <2>5. Steady => \A k \in Jobs : jobState'[k] = "conflict" => summary' # NoRow
    BY <1>2, <2>1, <2>2 DEF KInv, Remembered
  <2> QED
    BY <1>2, <2>1, <2>3, <2>4, <2>5, SameTurns DEF KInv, Remembered
<1> QED
  BY <1>1, <1>2

\* A job that leaves its batch to a row that covers it.
LEMMA CoveredKeeps ==
    ASSUME IInv, KInv, NEW j \in Jobs, EndJob(j), UNCHANGED <<turnStatus, queue, epoch, late, lost>>,
           gaveUp => gaveUp',
           Steady' => /\ CoveredBy(summary) <= CoveredBy(summary')
                      /\ \A x \in jobBatch[j] : x <= CoveredBy(summary')
                      /\ summary # NoRow => summary' # NoRow,
           CoveredBy(summary') \in Nat
    PROVE  KInv'
<1>1. Steady' => Steady
  BY SameTurns DEF Steady
<1>2. /\ \A k \in Jobs \ {j} : jobState'[k] = jobState[k] /\ jobBatch'[k] = jobBatch[k]
      /\ jobState'[j] = "idle"
  BY DEF EndJob, IInv, MemTypeOK
<1>3. ASSUME Steady', NEW x \in With("completed") PROVE Kept(x)'
  <2>1. Kept(x)
    BY <1>1, <1>3 DEF KInv, Remembered
  <2>2. x <= CoveredBy(summary) => x <= CoveredBy(summary')
    <3>1. x \in Nat /\ CoveredBy(summary) \in Nat
      BY RowFacts, MemoryAssumption DEF IInv, MemTypeOK, With, Exchanges, MemoryAssumption
    <3> QED
      BY <1>3, <3>1
  <2> QED
    BY <1>2, <1>3, <2>1, <2>2, KeptOn
<1>4. Steady' => \A k \in Jobs : jobState'[k] = "conflict" => summary' # NoRow
  BY <1>1, <1>2 DEF KInv, Remembered
<1> QED
  BY <1>3, <1>4, SameTurns DEF KInv, Remembered

\* What a batch covers.
LEMMA BatchBelow ==
    ASSUME IInv, NEW j \in Jobs, jobState[j] \in Working
    PROVE  /\ jobBatch[j] # {} /\ Greatest(jobBatch[j]) \in Nat
           /\ \A x \in jobBatch[j] : x <= Greatest(jobBatch[j])
           /\ CoveredBy(summary) \in Nat
<1>1. jobBatch[j] \in SUBSET Exchanges /\ jobBatch[j] # {}
  BY DEF IInv, Shape, MemTypeOK
<1>2. Exchanges \subseteq Nat
  BY MemoryAssumption DEF Exchanges, MemoryAssumption
<1>3. Greatest(jobBatch[j]) \in jobBatch[j] /\ \A x \in jobBatch[j] : x <= Greatest(jobBatch[j])
  BY <1>1, GreatestOf
<1>4. CoveredBy(summary) \in Nat
  BY RowFacts DEF IInv, MemTypeOK
<1> QED
  BY <1>1, <1>2, <1>3, <1>4

LEMMA KCreateRow == ASSUME NEW j \in Jobs PROVE IInv /\ KInv /\ CreateRow(j) => KInv'
<1> SUFFICES ASSUME IInv, KInv, CreateRow(j) PROVE KInv'
  OBVIOUS
<1>1. jobState[j] \in Working /\ jobState[j] = "merge"
      /\ UNCHANGED <<turnStatus, queue, epoch, late, gaveUp, lost>>
  BY DEF CreateRow, Working
<1>2. CASE summary = NoRow
  <2>1. EndJob(j) /\ summary' = NewRow(j, Cardinality(jobBatch[j]), 1, NoRow)
    BY <1>2 DEF CreateRow
  <2>2. /\ Cardinality(jobBatch[j]) \in Nat /\ epoch \in Nat /\ MemTypeOK
        /\ NoRow \in Rows \cup {NoRow}
    BY Sizes DEF IInv, MemTypeOK
  <2>3. LET row == [NewRow(j, Cardinality(jobBatch[j]), 1, NoRow) EXCEPT !.epoch = epoch]
        IN  /\ row \in Rows /\ row.covered = Greatest(jobBatch[j])
            /\ NewRow(j, Cardinality(jobBatch[j]), 1, NoRow) = row
    BY <1>1, <2>2, BatchBelow, NewRowFacts
  <2>4. summary' \in Rows /\ summary'.covered = Greatest(jobBatch[j])
    BY <2>1, <2>3
  <2>5. CoveredBy(summary') = Greatest(jobBatch[j]) /\ summary' # NoRow
    BY <2>4, RowFacts
  <2>6. CoveredBy(summary) = 0
    BY <1>2, RowFacts
  <2> QED
    BY <1>1, <2>1, <2>5, <2>6, BatchBelow, CoveredKeeps
<1>3. CASE summary # NoRow
  <2>1. /\ jobState' = [jobState EXCEPT ![j] = "conflict"]
        /\ UNCHANGED <<summary, jobBatch>>
        /\ jobState \in [Jobs -> JobStates]
    BY <1>3 DEF CreateRow, IInv, MemTypeOK
  <2>2. Steady' => Steady
    BY <1>1, <2>1, SameTurns DEF Steady
  <2>3. ASSUME Steady, NEW x \in With("completed") PROVE Kept(x)'
    <3>1. Kept(x)
      BY <2>3 DEF KInv, Remembered
    <3> QED
      BY <1>1, <2>1, <3>1, KeptOn DEF Working
  <2> QED
    BY <1>1, <1>3, <2>1, <2>2, <2>3, SameTurns DEF KInv, Remembered
<1> QED
  BY <1>2, <1>3

LEMMA KReadConflict == ASSUME NEW j \in Jobs PROVE IInv /\ KInv /\ ReadConflict(j) => KInv'
<1> SUFFICES ASSUME IInv, KInv, ReadConflict(j) PROVE KInv'
  OBVIOUS
<1>1. jobState[j] \in Working /\ jobState[j] = "conflict"
      /\ UNCHANGED <<turnStatus, summary, queue, epoch, late, gaveUp, lost>>
  BY DEF ReadConflict, Working
<1>2. CASE summary # NoRow /\ CoveredBy(summary) < Greatest(jobBatch[j])
  <2>1. /\ jobState' = [jobState EXCEPT ![j] = "retry"] /\ UNCHANGED jobBatch
        /\ jobState \in [Jobs -> JobStates]
    BY <1>2 DEF ReadConflict, StillBehind, IInv, MemTypeOK
  <2>2. Steady' => Steady
    BY <1>1, <2>1, SameTurns DEF Steady
  <2>3. ASSUME Steady, NEW x \in With("completed") PROVE Kept(x)'
    <3>1. Kept(x)
      BY <2>3 DEF KInv, Remembered
    <3> QED
      BY <1>1, <2>1, <3>1, KeptOn DEF Working
  <2> QED
    BY <1>1, <1>2, <2>1, <2>2, <2>3, SameTurns DEF KInv, Remembered
<1>3. CASE ~(summary # NoRow /\ CoveredBy(summary) < Greatest(jobBatch[j]))
  <2>1. EndJob(j)
    BY <1>3 DEF ReadConflict, StillBehind
  <2>2. Steady' => summary # NoRow
    BY <1>1, SameTurns DEF KInv, Remembered, Steady
  <2>3. Steady' => \A x \in jobBatch[j] : x <= CoveredBy(summary)
    <3>1. \A x \in jobBatch[j] : x \in Nat
      BY MemoryAssumption DEF IInv, MemTypeOK, Exchanges, MemoryAssumption
    <3> QED
      BY <1>1, <1>3, <2>2, <3>1, BatchBelow
  <2> QED
    BY <1>1, <2>1, <2>3, BatchBelow, CoveredKeeps
<1> QED
  BY <1>2, <1>3

\* An update covers its batch, beyond the row it replaces; one that gives up
\* finds it covered, or gives up what the promise needs.
LEMMA KUpdate ==
    ASSUME NEW j \in Jobs
    PROVE  IInv /\ KInv /\ (UpdateRow(j) \/ RetryUpdate(j)) => KInv'
<1> SUFFICES ASSUME IInv, KInv, UpdateRow(j) \/ RetryUpdate(j) PROVE KInv'
  OBVIOUS
<1>1. /\ jobState[j] \in Working /\ jobSeen[j] # NoRow /\ EndJob(j)
      /\ UNCHANGED <<turnStatus, queue, epoch, late, lost>>
  BY DEF UpdateRow, RetryUpdate, Working, IInv, Shape
<1>0. \A x \in jobBatch[j] : x \in Nat
  BY MemoryAssumption DEF IInv, MemTypeOK, Exchanges, MemoryAssumption
<1>2. CASE VersionMatches(summary, jobSeen[j])
  <2>1. /\ summary # NoRow /\ jobSeen[j] \in Rows /\ summary \in Rows
        /\ jobSeen[j].epoch = epoch => jobSeen[j] = summary
        /\ jobSeen[j].epoch <= epoch
    BY <1>1, <1>2, SeenIsSummary DEF IInv, Epochs
  <2>2. /\ jobSeen[j].version + 1 \in Nat /\ jobSeen[j].epoch \in Nat
        /\ summary.count \in Nat /\ Cardinality(jobBatch[j]) \in Nat
        /\ summary.count + Cardinality(jobBatch[j]) \in Nat
        /\ Max({summary.count, Cardinality(jobBatch[j])}) \in Nat
    <3>1. summary.count \in Nat /\ Cardinality(jobBatch[j]) \in Nat
      BY <2>1, Sizes, RowFacts DEF IInv, MemTypeOK
    <3> QED
      BY <2>1, <3>1, RowFacts, MaxOfTwo
  <2>3. \E c \in Nat, from \in Rows \cup {NoRow} :
           summary' = [NewRow(j, c, jobSeen[j].version + 1, from) EXCEPT !.epoch = jobSeen[j].epoch]
    BY <1>2, <2>1, <2>2 DEF UpdateRow, RetryUpdate
  <2>4. summary' \in Rows /\ summary'.covered = Greatest(jobBatch[j])
    BY <1>1, <2>2, <2>3, BatchBelow, NewRowFacts DEF IInv
  <2>5. CoveredBy(summary') = Greatest(jobBatch[j]) /\ summary' # NoRow
    BY <2>4, RowFacts
  <2>6. Steady' => CoveredBy(summary) <= Greatest(jobBatch[j])
    <3> SUFFICES ASSUME Steady' PROVE CoveredBy(summary) <= Greatest(jobBatch[j])
      OBVIOUS
    <3>1. jobSeen[j] = summary
      BY <1>1, <2>1, <2>2 DEF Steady
    <3>2. CoveredBy(summary) < Greatest(jobBatch[j])
      BY <1>1, <3>1 DEF IInv, Shape
    <3> QED
      BY <1>1, <3>2, BatchBelow
  <2>7. UNCHANGED gaveUp
    BY <1>2 DEF UpdateRow, RetryUpdate
  <2> QED
    BY <1>1, <2>5, <2>6, <2>7, BatchBelow, CoveredKeeps
<1>3. CASE ~VersionMatches(summary, jobSeen[j])
  <2>1. GiveUp(j)
    BY <1>3 DEF UpdateRow, RetryUpdate
  <2>2. UNCHANGED summary /\ (gaveUp => gaveUp')
        /\ (Steady' => ~(Greatest(jobBatch[j]) > CoveredBy(summary)))
    BY <2>1 DEF GiveUp, Steady
  <2>3. Steady' => \A x \in jobBatch[j] : x <= CoveredBy(summary)
    BY <1>0, <1>1, <2>2, BatchBelow
  <2> QED
    BY <1>1, <2>2, <2>3, BatchBelow, CoveredKeeps
<1> QED
  BY <1>2, <1>3

LEMMA KInvInvariant == MemSpec => []KInv
<1>1. ASSUME IInv, KInv, [MemNext]_memVars PROVE KInv'
  <2>1. CASE UNCHANGED memVars
    BY <1>1, <2>1 DEF memVars, jobVars, KInv, Remembered, OpenBound, Steady, Kept, UpTo, After, With
  <2> QED
    BY <1>1, <2>1, KOpen, KBreak, KComplete, KStartJob, KRebuild, KCreateRow, KReadConflict, KUpdate
       DEF MemNext
<1> QED
  BY <1>1, KInit, IInvInvariant, PTL DEF MemSpec

\* Once every compression is done, whatever compressions raced, each completed
\* exchange is in the summary or among the recent turns, for any window that
\* leaves the turns that may be open room in what the loader fetches.
THEOREM NothingForgotten ==
    ASSUME MaxOpen + WindowSize <= FetchLimit
    PROVE  MemSpec => []NothingForgottenWhenQuiet
<1>1. ASSUME IInv, KInv PROVE NothingForgottenWhenQuiet
  <2> SUFFICES ASSUME queue = {}, \A j \in Jobs : jobState[j] = "idle", Steady,
                      NEW x \in With("completed"), x \notin MergedIn(summary)
               PROVE  x \in RecentTurns
    BY DEF NothingForgottenWhenQuiet, Steady
  <2>0. /\ x \in Nat /\ x > 0 /\ x \in Exchanges /\ With("completed") \in SUBSET Exchanges
        /\ turnStatus \in [Exchanges -> TurnStatuses]
        /\ WindowSize \in Nat /\ MaxOpen \in Nat
    BY <1>1, MemoryAssumption DEF With, Exchanges, MemoryAssumption, IInv, MemTypeOK
  <2>1. ~(x <= CoveredBy(summary))
    <3> SUFFICES ASSUME x <= CoveredBy(summary) PROVE FALSE
      OBVIOUS
    <3>1. summary # NoRow /\ summary \in Rows
      BY <1>1, <2>0, RowFacts DEF IInv, MemTypeOK
    <3>2. CoveredBy(summary) = summary.covered /\ MergedIn(summary) = summary.merged
          /\ summary.epoch \in Nat
      BY <3>1, RowFacts
    <3>3. Unmixed(summary)
      BY <1>1, <3>1, <3>2 DEF IInv, Epochs, Unmixed, Steady
    <3> QED
      BY <1>1, <3>2, <3>3 DEF IInv, SummaryIsFaithful, Steady
  <2>2. Cardinality(After(x)) < WindowSize
    BY <1>1, <2>1 DEF KInv, Remembered, Kept, Working
  <2> DEFINE Opened == Exchanges \ With("none")
             Later == {y \in Opened : y > x}
             Fetched == Newest(Opened, FetchLimit)
  <2>3. x \in Fetched
    <3>1. Later \subseteq After(x) \cup With("running")
      BY <2>0 DEF With, After, Steady, TurnStatuses
    <3>2. IsFiniteSet(After(x)) /\ IsFiniteSet(With("running"))
          /\ Cardinality(After(x)) \in Nat /\ Cardinality(With("running")) \in Nat
      BY Sizes DEF With, After
    <3>3. Cardinality(Later) <= Cardinality(After(x)) + Cardinality(With("running"))
      <4>1. /\ IsFiniteSet(After(x) \cup With("running"))
            /\ Cardinality(After(x) \cup With("running"))
                  = Cardinality(After(x)) + Cardinality(With("running"))
                       - Cardinality(After(x) \cap With("running"))
        BY <3>2, FS_Union
      <4>2. Cardinality(After(x) \cap With("running")) \in Nat
        BY <3>2, FS_Subset, FS_CardinalityType
      <4>3. Cardinality(Later) <= Cardinality(After(x) \cup With("running"))
        BY <3>1, <4>1, FS_Subset
      <4>4. Cardinality(Later) \in Nat
        BY Sizes
      <4> HIDE DEF Later
      <4> QED
        BY <3>2, <4>1, <4>2, <4>3, <4>4
    <3>4. Cardinality(With("running")) <= MaxOpen
      BY <1>1 DEF KInv, OpenBound
    <3>5. FetchLimit \in Nat
      <4>1. WindowSize * 3 \in Nat /\ WindowSize + 4 \in Nat
        BY <2>0
      <4> QED
        BY <4>1, MaxOfTwo DEF FetchLimit
    <3>6. Cardinality(Later) \in Nat
      BY Sizes
    <3>7. Cardinality(Later) < FetchLimit
      <4> HIDE DEF Later
      <4> QED
        BY <2>0, <2>2, <3>2, <3>3, <3>4, <3>5, <3>6
    <3>8. x \in Opened
      BY <2>0 DEF With
    <3> QED
      BY <3>7, <3>8 DEF Newest
  <2>4. {y \in Fetched \ With("running") : y > x} \subseteq After(x)
    BY <2>0 DEF With, After, Steady, TurnStatuses, Newest
  <2>5. Cardinality({y \in Fetched \ With("running") : y > x}) < WindowSize
    <3>1. After(x) \in SUBSET Exchanges
      BY DEF After, With
    <3> DEFINE L == {y \in Fetched \ With("running") : y > x}
    <3>2. L \subseteq After(x)
      BY <2>4
    <3> HIDE DEF L
    <3>3. Cardinality(L) <= Cardinality(After(x)) /\ Cardinality(L) \in Nat
          /\ Cardinality(After(x)) \in Nat
      BY <3>1, <3>2, Sizes, FS_Subset
    <3>4. Cardinality(L) < WindowSize
      BY <2>0, <2>2, <3>3
    <3> QED
      BY <3>4 DEF L
  <2>6. x \in Fetched \ With("running")
    BY <2>3 DEF With
  <2> QED
    BY <2>5, <2>6 DEF RecentTurns, Newest
<1> QED
  BY <1>1, IInvInvariant, KInvInvariant, PTL
=============================================================================
