----------------------- MODULE DocumentPipelineProofs -----------------------
(* Proofs of the type invariant of DocumentPipeline, of StoresAgree and of   *)
(* FailedRunLeavesNothing, then of HolesHaveACause, for every number of      *)
(* runs, retries and faults.                                                 *)
EXTENDS DocumentPipeline, TLAPS

Idle == {"new", "over"}

\* What the places of a task say about its step and its compensation.
Shape ==
    \A a \in Actors :
        /\ pc[a] = "store" => step[a] \in {"vectorize", "index"}
        /\ pc[a] = "status" => step[a] = "index"
        /\ pc[a] = "undo" => a # Cleaner
        /\ pc[a] \in {"undo", "bury"} =>
              /\ step[a] # "profile"
              /\ \/ a \in undone
                 \/ step[a] \in {"parse", "chunk"} /\ undoing[a] = "stage"
        /\ a \in Runs /\ pc[a] = "new" => step[a] = "parse"

\* Only delete_document takes the document away, and a reconciliation that saw
\* no document runs after that.
DocumentKept ==
    /\ deleting = "no" => exists
    /\ exists => sawDocument

\* Run r was started and nothing disturbed it: what StoresAgree is about.
Undisturbed(r) ==
    /\ pc[r] # "new"
    /\ r \notin undone /\ ~overlap /\ deleting = "no"
    /\ \A q \in Runs : q > r => pc[q] = "new"

\* Nobody else is at work, but for the cleanup job after r ended early.
Alone(r) ==
    \A a \in Actors : a # r /\ pc[a] \notin Idle =>
        a = Cleaner /\ pc[r] = "over" /\ step[r] \in {"parse", "chunk"}

\* The stores hold what the tasks of r have done so far.
Progress(r) ==
    /\ pc[r] \in {"mark", "over"} => step[r] \in {"parse", "chunk", "profile"}
    /\ step[r] = "profile" => stage \in {"INDEXED", "PROFILED", "FAILED"}
    /\ step[r] \in {"vectorize", "index", "profile"} => parents = r
    /\ step[r] = "chunk" /\ pc[r] \in {"finish", "handover"} => parents = r
    /\ step[r] = "vectorize" /\ pc[r] \in {"store", "finish", "handover"} =>
           vectors = r
    /\ step[r] = "vectorize" /\ pc[r] \in {"finish", "handover"} => chunks = r
    /\ step[r] \in {"index", "profile"} => vectors = r /\ chunks = r
    /\ step[r] = "index" /\ pc[r] \in {"status", "handover"} =>
           stage = "INDEXED"
    /\ Indexed(r) => r \in index \cup gaps

\* Runs are started in order; an undisturbed one is alone and makes progress.
RunInv ==
    /\ \A q, r \in Runs : q < r /\ pc[r] # "new" => pc[q] # "new"
    /\ \A r \in Runs : Undisturbed(r) => Alone(r) /\ Progress(r)

\* r may have data in a store that the transactions U of its compensation
\* precede or empty: it has reached vectorize and has not emptied the store since.
Holds(r, U) ==
    /\ step[r] \in {"vectorize", "index", "profile"}
    /\ pc[r] # "new"
    /\ step[r] # "profile" =>
           pc[r] # "mark" /\ (pc[r] \in {"undo", "bury", "over"} => undoing[r] \in U)

\* What is stored of a run is what it may have there.
DataInv ==
    exists => \A r \in Runs :
        /\ vectors = r => Holds(r, {"rows", "vectors"})
        /\ chunks = r => Holds(r, {"rows"})

IInv == TypeOK /\ Shape /\ DocumentKept /\ RunInv /\ DataInv
-----------------------------------------------------------------------------
\* The tables of steps and stages stay in their sets.
LEMMA TablesTyped ==
    /\ \A s \in Steps : Reached(s) \in Stages
    /\ \A s \in Steps \ {"profile"} :
          NextStep(s) \in Steps /\ PreviousStage(s) \in Stages
    /\ \A s \in Steps : FirstUndo(s) \in {"rows", "stage"}
    /\ \A s \in Steps, u \in {"rows", "vectors", "index", "stage"} :
          NextUndo(s, u) \in {"vectors", "index", "stage"}
BY DEF Steps, Stages, Reached, NextStep, PreviousStage, FirstUndo, NextUndo

Pcs == {"new", "queued", "redelivered", "work", "store", "finish", "status",
        "handover", "undo", "bury", "mark", "over"}

\* The sets of runs and actors.
LEMMA Ranges ==
    /\ Runs \subseteq Actors /\ Cleaner \in Actors \ Runs
    /\ Nothing \in 0..MaxRuns /\ Runs \subseteq 0..MaxRuns
BY PipelineAssumption DEF Runs, Actors, Cleaner, Nothing

\* A fault counts, and keeps to its bound.
LEMMA FaultTyped ==
    ASSUME TypeOK, Fault
    PROVE  faults' \in 0..MaxFaults
BY PipelineAssumption DEF TypeOK, Fault

\* What beginning a compensation does.
LEMMA DeadLetterTyped ==
    ASSUME TypeOK, NEW a \in Actors, DeadLetter(a)
    PROVE  /\ pc' \in [Actors -> Pcs]
           /\ undoing' \in [Actors -> {"rows", "vectors", "index", "stage"}]
           /\ undone \subseteq undone' /\ undone' \subseteq Actors
BY TablesTyped DEF TypeOK, DeadLetter, StartUndo, Go, Pcs

\* What asking for a retry does.
LEMMA RetryTyped ==
    ASSUME TypeOK, NEW a \in Actors, RetryOrBury(a)
    PROVE  /\ pc' \in [Actors -> Pcs]
           /\ undoing' \in [Actors -> {"rows", "vectors", "index", "stage"}]
           /\ undone \subseteq undone' /\ undone' \subseteq Actors
           /\ tries' \in [Actors -> 0..MaxRetries]
<1>1. CASE tries[a] < MaxRetries
  <2>1. tries[a] + 1 \in 0..MaxRetries
    BY <1>1, PipelineAssumption DEF TypeOK
  <2> QED
    BY <1>1, <2>1 DEF RetryOrBury, TypeOK, Go, Pcs
<1>2. CASE ~(tries[a] < MaxRetries)
  BY <1>2, DeadLetterTyped DEF RetryOrBury, TypeOK, Pcs
<1> QED
  BY <1>1, <1>2

\* Every step keeps the types.
LEMMA TypeStep ==
    ASSUME TypeOK, Shape, [Next]_vars
    PROVE  TypeOK'
<1> USE Ranges DEF TypeOK, Pcs, rowVars, storeVars, taskVars, jobVars,
   historyVars
<1>1. ASSUME NEW r \in Runs, Begin(r) PROVE TypeOK'
  BY <1>1 DEF Begin, Go
<1>2. ASSUME NEW r \in Runs, Parse(r) PROVE TypeOK'
  BY <1>2 DEF Parse, Go, Store
<1>3. ASSUME NEW r \in Runs, Chunk(r) PROVE TypeOK'
  BY <1>3 DEF Chunk, Go, Store
<1>4. ASSUME NEW r \in Runs, Vectorize(r) PROVE TypeOK'
  BY <1>4 DEF Vectorize, Go
<1>5. ASSUME NEW r \in Runs, SaveChunks(r) PROVE TypeOK'
  BY <1>5 DEF SaveChunks, Go, Store, StoreChunks
<1>6. ASSUME NEW r \in Runs, IndexEs(r) PROVE TypeOK'
  <2>1. index' \subseteq Runs /\ gaps' \subseteq Runs
    BY <1>6 DEF IndexEs
  <2>2. faults' \in 0..MaxFaults
    BY <1>6, FaultTyped DEF IndexEs
  <2> QED
    BY <1>6, <2>1, <2>2 DEF IndexEs, Go
<1>7. ASSUME NEW r \in Runs, Profile(r) PROVE TypeOK'
  BY <1>7 DEF Profile, Go
<1>8. ASSUME NEW r \in Runs, Finish(r) PROVE TypeOK'
  <2>1. stage' \in Stages
    BY <1>8, TablesTyped DEF Finish, Store
  <2> QED
    BY <1>8, <2>1 DEF Finish, Go
<1>9. ASSUME NEW r \in Runs, RetryDocument(r) PROVE TypeOK'
  BY <1>9 DEF RetryDocument, Go
<1>10. ASSUME NEW r \in Runs, BeginFails(r) PROVE TypeOK'
  <2>1. DeadLetter(r) /\ Fault
    BY <1>10 DEF BeginFails
  <2> QED
    BY <1>10, <2>1, DeadLetterTyped, FaultTyped DEF BeginFails
<1>11. ASSUME NEW r \in Runs, Fail(r) PROVE TypeOK'
  <2>1. faults' \in 0..MaxFaults
    BY <1>11, FaultTyped DEF Fail
  <2>2. stage' \in Stages
    BY <1>11 DEF Fail, Store, Stages
  <2>3. index' \subseteq Runs
    BY <1>11 DEF Fail
  <2>4. /\ pc' \in [Actors -> Pcs]
        /\ undoing' \in [Actors -> {"rows", "vectors", "index", "stage"}]
        /\ undone' \subseteq Actors
        /\ indexStatus' \in {"waiting", "success", "failed"}
    <3>1. CASE DeadLetter(r) /\ UNCHANGED indexStatus
      BY <3>1, DeadLetterTyped
    <3>2. CASE /\ StartUndo(r, "undo", step[r])
               /\ indexStatus' = IF step[r] = "index"
                                 THEN Store("failed", indexStatus)
                                 ELSE indexStatus
      BY <3>2, TablesTyped DEF StartUndo, Go, Store
    <3> QED
      BY <1>11, <3>1, <3>2 DEF Fail
  <2> QED
    BY <1>11, <2>1, <2>2, <2>3, <2>4 DEF Fail
<1>12. ASSUME NEW r \in Runs, FailProfile(r) PROVE TypeOK'
  <2>1. faults' \in 0..MaxFaults
    BY <1>12, FaultTyped DEF FailProfile
  <2>2. /\ pc' \in [Actors -> Pcs]
        /\ undoing' \in [Actors -> {"rows", "vectors", "index", "stage"}]
        /\ undone' \subseteq Actors
        /\ tries' \in [Actors -> 0..MaxRetries]
    BY <1>12, RetryTyped, DeadLetterTyped DEF FailProfile
  <2> QED
    BY <1>12, <2>1, <2>2 DEF FailProfile
<1>13. ASSUME NEW r \in Runs, Crash(r) PROVE TypeOK'
  <2>1. faults' \in 0..MaxFaults
    BY <1>13, FaultTyped DEF Crash
  <2>2. /\ pc' \in [Actors -> Pcs]
        /\ undoing' \in [Actors -> {"rows", "vectors", "index", "stage"}]
        /\ undone' \subseteq Actors
    BY <1>13, DeadLetterTyped DEF Crash, Go, Again
  <2> QED
    BY <1>13, <2>1, <2>2 DEF Crash
<1>14. ASSUME NEW a \in Actors, Undo(a) PROVE TypeOK'
  <2>1. /\ stage' \in Stages /\ parents' \in 0..MaxRuns
        /\ chunks' \in 0..MaxRuns /\ vectors' \in 0..MaxRuns
        /\ index' \subseteq Runs
    <3>1. PreviousStage(step[a]) \in Stages
      BY <1>14, TablesTyped DEF Undo, Shape
    <3> QED
      BY <1>14, <3>1 DEF Undo, UndoEffect, UndoVectors, Store
  <2>2. /\ pc' \in [Actors -> Pcs]
        /\ undoing' \in [Actors -> {"rows", "vectors", "index", "stage"}]
        /\ undone' \subseteq Actors
        /\ tries' \in [Actors -> 0..MaxRetries]
    <3>1. CASE undoing[a] # "stage"
      <4>1. NextUndo(step[a], undoing[a]) \in {"vectors", "index", "stage"}
        BY TablesTyped
      <4> QED
        BY <1>14, <3>1, <4>1 DEF Undo
    <3>2. CASE undoing[a] = "stage" /\ pc[a] = "undo"
      BY <1>14, <3>2, RetryTyped DEF Undo
    <3>3. CASE undoing[a] = "stage" /\ pc[a] # "undo"
      BY <1>14, <3>3 DEF Undo, Go
    <3> QED
      BY <3>1, <3>2, <3>3
  <2> QED
    BY <1>14, <2>1, <2>2 DEF Undo
<1>15. ASSUME NEW a \in Actors, Mark(a) PROVE TypeOK'
  <2>1. stage' \in Stages /\ parseStatus' \in {"parsing", "success", "failed"}
    BY <1>15 DEF Mark, Store, Stages
  <2> QED
    BY <1>15, <2>1 DEF Mark, Go
<1>16. ASSUME NEW a \in Actors, UndoFails(a) PROVE TypeOK'
  <2>1. faults' \in 0..MaxFaults
    BY <1>16, FaultTyped DEF UndoFails
  <2>2. /\ pc' \in [Actors -> Pcs]
        /\ undoing' \in [Actors -> {"rows", "vectors", "index", "stage"}]
        /\ undone' \subseteq Actors
        /\ tries' \in [Actors -> 0..MaxRetries]
    <3>1. CASE pc[a] = "undo"
      BY <1>16, <3>1, RetryTyped DEF UndoFails
    <3>2. CASE pc[a] # "undo"
      BY <1>16, <3>2 DEF UndoFails, Go
    <3> QED
      BY <3>1, <3>2
  <2> QED
    BY <1>16, <2>1, <2>2 DEF UndoFails
<1>17. ASSUME NEW a \in Actors, MarkFails(a) PROVE TypeOK'
  <2>1. faults' \in 0..MaxFaults
    BY <1>17, FaultTyped DEF MarkFails
  <2> QED
    BY <1>17, <2>1 DEF MarkFails, Go
<1>18. CASE Cleanup
  <2>1. PICK s \in {"chunk", "vectorize", "index"} :
           step' = [step EXCEPT ![Cleaner] = s] /\ StartUndo(Cleaner, "bury", s)
    BY <1>18 DEF Cleanup, Stalled
  <2>2. s \in Steps
    BY DEF Steps
  <2>3. /\ pc' = [pc EXCEPT ![Cleaner] = "bury"]
        /\ undoing' = [undoing EXCEPT ![Cleaner] = FirstUndo(s)]
        /\ undone' \subseteq Actors
    BY <2>1 DEF StartUndo, Go
  <2> QED
    BY <1>18, <2>1, <2>2, <2>3, TablesTyped DEF Cleanup
<1>19. CASE DeleteCheck
  BY <1>19 DEF DeleteCheck
<1>20. CASE DeleteStores
  BY <1>20 DEF DeleteStores
<1>21. CASE DeleteRows
  BY <1>21 DEF DeleteRows, Stages
<1>22. CASE DeleteFails
  <2>1. faults' \in 0..MaxFaults
    BY <1>22, FaultTyped DEF DeleteFails
  <2> QED
    BY <1>22, <2>1 DEF DeleteFails
<1>23. CASE ReconcileStart
  BY <1>23 DEF ReconcileStart
<1>24. CASE ReconcilePg
  BY <1>24 DEF ReconcilePg, Orphan
<1>25. CASE ReconcileEs
  BY <1>25 DEF ReconcileEs, Orphan
<1>26. CASE ReconcileFails
  <2>1. faults' \in 0..MaxFaults
    BY <1>26, FaultTyped DEF ReconcileFails
  <2> QED
    BY <1>26, <2>1 DEF ReconcileFails
<1>27. CASE UNCHANGED vars
  BY <1>27 DEF vars
<1>28. ASSUME NEW r \in Runs, DeleteEs(r) PROVE TypeOK'
  <2>1. index' \subseteq Runs /\ gaps' \subseteq Runs
    BY <1>28 DEF DeleteEs
  <2>2. faults' \in 0..MaxFaults
    BY <1>28, FaultTyped DEF DeleteEs
  <2> QED
    BY <1>28, <2>1, <2>2 DEF DeleteEs, Go
<1>29. ASSUME NEW r \in Runs, RecordBuild(r) PROVE TypeOK'
  BY <1>29 DEF RecordBuild, Go, Store
<1>30. ASSUME NEW r \in Runs, HandOver(r) PROVE TypeOK'
  <2>1. /\ step' \in [Actors -> Steps]
        /\ tries' \in [Actors -> 0..MaxRetries]
        /\ pc' \in [Actors -> Pcs]
    BY <1>30, TablesTyped, PipelineAssumption DEF HandOver, Go
  <2> QED
    BY <1>30, <2>1 DEF HandOver
<1>31. ASSUME NEW r \in Runs, NEW q \in Runs, Fork(r, q) PROVE TypeOK'
  <2>1. faults' \in 0..MaxFaults
    BY <1>31, FaultTyped DEF Fork
  <2>2. NextStep(step[r]) \in Steps
    BY <1>31, TablesTyped DEF Fork
  <2>3. /\ step' \in [Actors -> Steps]
        /\ tries' \in [Actors -> 0..MaxRetries]
        /\ pc' \in [Actors -> Pcs]
    BY <1>31, <2>2, PipelineAssumption DEF Fork
  <2> QED
    BY <1>31, <2>1, <2>3 DEF Fork
<1> QED
  BY <1>1, <1>2, <1>3, <1>4, <1>5, <1>6, <1>7, <1>8, <1>9, <1>10, <1>11, <1>12,
     <1>13, <1>14, <1>15, <1>16, <1>17, <1>18, <1>19, <1>20, <1>21, <1>22,
     <1>23, <1>24, <1>25, <1>26, <1>27, <1>28, <1>29, <1>30, <1>31
     DEF Next, Proceed, Compensate, Reconcile

\* A compensation that begins has the shape.
LEMMA DeadLetterShape ==
    ASSUME TypeOK, Shape, NEW a \in Actors, pc[a] # "new",
           DeadLetter(a), UNCHANGED step
    PROVE  Shape'
<1>1. CASE step[a] = "profile"
  BY <1>1 DEF TypeOK, Shape, DeadLetter, Go
<1>2. CASE step[a] # "profile"
  <2>1. /\ pc' = [pc EXCEPT ![a] = "bury"]
        /\ undoing' = [undoing EXCEPT ![a] = FirstUndo(step[a])]
        /\ undone \subseteq undone'
    BY <1>2 DEF DeadLetter, StartUndo, Go
  <2>2. a \in undone' \/ (step[a] \in {"parse", "chunk"} /\ undoing'[a] = "stage")
    BY <1>2 DEF TypeOK, Steps, DeadLetter, StartUndo, FirstUndo
  <2> QED
    BY <1>2, <2>1, <2>2 DEF TypeOK, Shape
<1> QED
  BY <1>1, <1>2

\* So has a retry.
LEMMA RetryShape ==
    ASSUME TypeOK, Shape, NEW a \in Actors, pc[a] # "new",
           RetryOrBury(a), UNCHANGED step
    PROVE  Shape'
<1>1. CASE tries[a] < MaxRetries
  BY <1>1 DEF TypeOK, Shape, RetryOrBury, Go
<1>2. CASE ~(tries[a] < MaxRetries)
  BY <1>2, DeadLetterShape DEF RetryOrBury
<1> QED
  BY <1>1, <1>2

\* Every step keeps the shape of the tasks.
LEMMA ShapeStep ==
    ASSUME TypeOK, Shape, [Next]_vars
    PROVE  Shape'
<1> USE Ranges DEF TypeOK, Shape, rowVars, storeVars, taskVars, jobVars,
   historyVars
<1>1. ASSUME NEW r \in Runs, Begin(r) PROVE Shape'
  BY <1>1 DEF Begin, Go
<1>2. ASSUME NEW r \in Runs, Parse(r) PROVE Shape'
  BY <1>2 DEF Parse, Go, Store
<1>3. ASSUME NEW r \in Runs, Chunk(r) PROVE Shape'
  BY <1>3 DEF Chunk, Go, Store
<1>4. ASSUME NEW r \in Runs, Vectorize(r) PROVE Shape'
  BY <1>4 DEF Vectorize, Go
<1>5. ASSUME NEW r \in Runs, SaveChunks(r) PROVE Shape'
  BY <1>5 DEF SaveChunks, Go, Store, StoreChunks
<1>6. ASSUME NEW r \in Runs, IndexEs(r) PROVE Shape'
  BY <1>6 DEF IndexEs, Go, Fault
<1>7. ASSUME NEW r \in Runs, Profile(r) PROVE Shape'
  BY <1>7 DEF Profile, Go
<1>8. ASSUME NEW r \in Runs, Finish(r) PROVE Shape'
  BY <1>8 DEF Finish, Go, Store
<1>9. ASSUME NEW r \in Runs, RetryDocument(r) PROVE Shape'
  BY <1>9 DEF RetryDocument, Go
<1>10. ASSUME NEW r \in Runs, BeginFails(r) PROVE Shape'
  BY <1>10, DeadLetterShape DEF BeginFails
<1>11. ASSUME NEW r \in Runs, Fail(r) PROVE Shape'
  <2>1. CASE DeadLetter(r)
    BY <1>11, <2>1, DeadLetterShape DEF Fail
  <2>2. CASE StartUndo(r, "undo", step[r])
    <3>1. /\ pc' = [pc EXCEPT ![r] = "undo"]
          /\ undoing' = [undoing EXCEPT ![r] = FirstUndo(step[r])]
          /\ undone \subseteq undone' /\ UNCHANGED step
      BY <1>11, <2>2 DEF Fail, StartUndo, Go
    <3>2. r \in undone' \/ (step[r] \in {"parse", "chunk"} /\ undoing'[r] = "stage")
      BY <1>11, <2>2, <3>1 DEF Fail, Steps, StartUndo, FirstUndo
    <3> QED
      BY <1>11, <3>1, <3>2 DEF Fail
  <2> QED
    BY <1>11, <2>1, <2>2 DEF Fail
<1>12. ASSUME NEW r \in Runs, FailProfile(r) PROVE Shape'
  BY <1>12, DeadLetterShape, RetryShape DEF FailProfile
<1>13. ASSUME NEW r \in Runs, Crash(r) PROVE Shape'
  <2>1. CASE DeadLetter(r)
    BY <1>13, <2>1, DeadLetterShape DEF Crash
  <2>2. CASE /\ \E p \in Again(r) : Go(r, p)
             /\ UNCHANGED <<undoing, undone>>
    BY <1>13, <2>2 DEF Crash, Go, Again
  <2> QED
    BY <1>13, <2>1, <2>2 DEF Crash
<1>14. ASSUME NEW a \in Actors, Undo(a) PROVE Shape'
  <2> UNCHANGED step /\ pc[a] # "new"
    BY <1>14 DEF Undo
  <2>1. CASE undoing[a] # "stage"
    <3>1. a \in undone /\ step[a] # "profile"
      BY <1>14, <2>1 DEF Undo
    <3>2. /\ UNCHANGED <<pc, undone>>
          /\ \A b \in Actors : b # a => undoing'[b] = undoing[b]
      BY <1>14, <2>1 DEF Undo
    <3> QED
      BY <3>1, <3>2
  <2>2. CASE undoing[a] = "stage" /\ pc[a] = "undo"
    BY <1>14, <2>2, RetryShape DEF Undo
  <2>3. CASE undoing[a] = "stage" /\ pc[a] # "undo"
    BY <1>14, <2>3 DEF Undo, Go
  <2> QED
    BY <2>1, <2>2, <2>3
<1>15. ASSUME NEW a \in Actors, Mark(a) PROVE Shape'
  BY <1>15 DEF Mark, Go, Store
<1>16. ASSUME NEW a \in Actors, UndoFails(a) PROVE Shape'
  <2>1. CASE pc[a] = "undo"
    BY <1>16, <2>1, RetryShape DEF UndoFails
  <2>2. CASE pc[a] # "undo"
    BY <1>16, <2>2 DEF UndoFails, Go
  <2> QED
    BY <2>1, <2>2
<1>17. ASSUME NEW a \in Actors, MarkFails(a) PROVE Shape'
  BY <1>17 DEF MarkFails, Go, Fault
<1>18. CASE Cleanup
  BY <1>18 DEF Cleanup, Go, StartUndo, FirstUndo, Stalled
<1>19. CASE DeleteCheck
  BY <1>19 DEF DeleteCheck
<1>20. CASE DeleteStores
  BY <1>20 DEF DeleteStores
<1>21. CASE DeleteRows
  BY <1>21 DEF DeleteRows
<1>22. CASE DeleteFails
  BY <1>22 DEF DeleteFails, Fault
<1>23. CASE ReconcileStart
  BY <1>23 DEF ReconcileStart
<1>24. CASE ReconcilePg
  BY <1>24 DEF ReconcilePg, Orphan
<1>25. CASE ReconcileEs
  BY <1>25 DEF ReconcileEs, Orphan
<1>26. CASE ReconcileFails
  BY <1>26 DEF ReconcileFails, Fault
<1>27. CASE UNCHANGED vars
  BY <1>27 DEF vars
<1>28. ASSUME NEW r \in Runs, DeleteEs(r) PROVE Shape'
  BY <1>28 DEF DeleteEs, Go
<1>29. ASSUME NEW r \in Runs, RecordBuild(r) PROVE Shape'
  BY <1>29 DEF RecordBuild, Go
<1>30. ASSUME NEW r \in Runs, HandOver(r) PROVE Shape'
  BY <1>30 DEF HandOver, Go
<1>31. ASSUME NEW r \in Runs, NEW q \in Runs, Fork(r, q) PROVE Shape'
  <2>1. q # r /\ UNCHANGED <<undoing, undone>>
    BY <1>31 DEF Fork
  <2>2. \A a \in Actors : a \notin {r, q} => step'[a] = step[a] /\ pc'[a] = pc[a]
    BY <1>31 DEF Fork
  <2>3. pc'[r] = "queued" /\ pc'[q] = "queued"
    BY <1>31, <2>1 DEF Fork
  <2> QED
    BY <2>1, <2>2, <2>3
<1> QED
  BY <1>1, <1>2, <1>3, <1>4, <1>5, <1>6, <1>7, <1>8, <1>9, <1>10, <1>11, <1>12,
     <1>13, <1>14, <1>15, <1>16, <1>17, <1>18, <1>19, <1>20, <1>21, <1>22,
     <1>23, <1>24, <1>25, <1>26, <1>27, <1>28, <1>29, <1>30, <1>31
     DEF Next, Proceed, Compensate, Reconcile

\* Every step keeps what is known of the document.
LEMMA DocumentStep ==
    ASSUME DocumentKept, [Next]_vars
    PROVE  DocumentKept'
<1> USE DEF DocumentKept, rowVars, storeVars, taskVars, jobVars, historyVars
<1>1. CASE UNCHANGED <<exists, deleting, sawDocument>>
  BY <1>1
<1>2. CASE DeleteCheck
  BY <1>2 DEF DeleteCheck
<1>3. CASE DeleteStores
  BY <1>3 DEF DeleteStores
<1>4. CASE DeleteRows
  BY <1>4 DEF DeleteRows
<1>5. CASE DeleteFails
  BY <1>5 DEF DeleteFails
<1>6. CASE ReconcileStart
  BY <1>6 DEF ReconcileStart
<1>7. ASSUME NEW r \in Runs, Proceed(r)
      PROVE  UNCHANGED <<exists, deleting, sawDocument>>
  BY <1>7 DEF Proceed, Begin, Parse, Chunk, Vectorize, SaveChunks, DeleteEs,
     IndexEs, Profile, Finish, RecordBuild, HandOver
<1>8. ASSUME NEW r \in Runs,
             RetryDocument(r) \/ BeginFails(r) \/ Fail(r) \/ FailProfile(r)
             \/ Crash(r) \/ \E q \in Runs : Fork(r, q)
      PROVE  UNCHANGED <<exists, deleting, sawDocument>>
  BY <1>8 DEF RetryDocument, BeginFails, Fail, FailProfile, Crash, Fork
<1>9. ASSUME NEW a \in Actors, Compensate(a) \/ UndoFails(a) \/ MarkFails(a)
      PROVE  UNCHANGED <<exists, deleting, sawDocument>>
  BY <1>9 DEF Compensate, Undo, Mark, UndoFails, MarkFails
<1>10. ASSUME Cleanup \/ ReconcilePg \/ ReconcileEs \/ ReconcileFails
       PROVE  UNCHANGED <<exists, deleting, sawDocument>>
  BY <1>10 DEF Cleanup, ReconcilePg, ReconcileEs, ReconcileFails
<1>11. CASE UNCHANGED vars
  BY <1>11 DEF vars
<1> QED
  BY <1>1, <1>2, <1>3, <1>4, <1>5, <1>6, <1>7, <1>8, <1>9, <1>10, <1>11
     DEF Next, Reconcile

\* A step of an active run q that leads to p, by which q makes progress if it
\* stays undisturbed, preserves RunInv: all other runs are disturbed.
LEMMA RunStep ==
    ASSUME TypeOK, RunInv, NEW q \in Runs, pc[q] \notin Idle,
           NEW p \in Pcs \ {"new"}, pc' = [pc EXCEPT ![q] = p],
           undone \subseteq undone', overlap' = overlap, deleting' = deleting,
           Undisturbed(q) /\ Progress(q) /\ Undisturbed(q)' => Progress(q)'
    PROVE  RunInv'
<1> USE Ranges
<1>1. \A r \in Runs : pc'[r] = "new" <=> pc[r] = "new"
  BY DEF TypeOK, Idle
<1>2. \A r \in Runs : Undisturbed(r)' => Undisturbed(r)
  BY <1>1 DEF Undisturbed
<1>3. \A r \in Runs : r # q => ~Undisturbed(r)
  BY DEF RunInv, Alone
<1>4. Undisturbed(q) => Alone(q)' /\ \A a \in Actors : a # q => pc[a] \in Idle
  <2> SUFFICES ASSUME Undisturbed(q) PROVE \A a \in Actors : a # q => pc[a] \in Idle
    BY DEF Alone, TypeOK
  <2> QED
    BY DEF RunInv, Alone, Idle
<1> QED
  BY <1>1, <1>2, <1>3, <1>4 DEF RunInv

\* A step of the cleanup job, which works only after an undisturbed run ended
\* early, without stored data.
LEMMA CleanerStep ==
    ASSUME TypeOK, RunInv, pc[Cleaner] \notin Idle,
           NEW p \in Pcs, pc' = [pc EXCEPT ![Cleaner] = p],
           undone \subseteq undone', overlap' = overlap, deleting' = deleting,
           UNCHANGED step
    PROVE  RunInv'
<1> USE Ranges
<1>1. \A a \in Actors : a # Cleaner => pc'[a] = pc[a]
  BY DEF TypeOK
<1>2. \A r \in Runs : Undisturbed(r)' => Undisturbed(r)
  BY <1>1 DEF Undisturbed
<1>3. \A r \in Runs : Undisturbed(r) =>
          pc[r] = "over" /\ step[r] \in {"parse", "chunk"} /\ Alone(r)
  BY DEF RunInv, Alone
<1>4. \A r \in Runs : Undisturbed(r)' => Alone(r)' /\ Progress(r)'
  BY <1>1, <1>2, <1>3 DEF Alone, Progress, Indexed
<1> QED
  BY <1>1, <1>4 DEF RunInv

\* The dead letter handler takes over a task of r: RunInv is kept.
LEMMA DeadLetterRun ==
    ASSUME TypeOK, RunInv, NEW q \in Runs, pc[q] \notin Idle,
           DeadLetter(q), UNCHANGED <<step, overlap, deleting>>,
           step[q] = "profile" =>
              UNCHANGED <<stage, parents, chunks, vectors, index, gaps>>
    PROVE  RunInv'
<1> USE Ranges
<1>1. CASE step[q] = "profile"
  <2>1. pc' = [pc EXCEPT ![q] = "mark"] /\ UNCHANGED undone
    BY <1>1 DEF DeadLetter, Go
  <2>2. Progress(q) => Progress(q)'
    BY <1>1, <2>1 DEF TypeOK, Progress, Indexed
  <2> QED
    BY <2>1, <2>2, RunStep DEF Pcs
<1>2. CASE step[q] # "profile"
  <2>1. /\ pc' = [pc EXCEPT ![q] = "bury"]
        /\ undone \subseteq undone'
        /\ step[q] \in {"parse", "chunk"} \/ q \in undone'
    BY <1>2 DEF TypeOK, Steps, DeadLetter, StartUndo, FirstUndo, Go
  <2>2. q \notin undone' => Progress(q)'
    BY <2>1 DEF TypeOK, Progress, Indexed
  <2> QED
    BY <2>1, <2>2, RunStep DEF Pcs, Undisturbed
<1> QED
  BY <1>1, <1>2

\* self.retry() queues the task of r again, or leaves it to that handler: the same.
LEMMA RetryRun ==
    ASSUME TypeOK, RunInv, NEW q \in Runs, pc[q] \notin Idle,
           RetryOrBury(q), UNCHANGED <<step, overlap, deleting>>,
           step[q] \in {"vectorize", "index"} => q \in undone,
           step[q] = "profile" =>
              UNCHANGED <<stage, parents, chunks, vectors, index, gaps>>
    PROVE  RunInv'
<1> USE Ranges
<1>1. CASE tries[q] < MaxRetries
  <2>1. pc' = [pc EXCEPT ![q] = "queued"] /\ UNCHANGED undone
    BY <1>1 DEF RetryOrBury, Go
  <2>2. step[q] \in {"parse", "chunk"} => Progress(q)'
    BY <2>1 DEF TypeOK, Progress, Indexed
  <2>3. step[q] = "profile" /\ Progress(q) => Progress(q)'
    BY <2>1 DEF TypeOK, Progress, Indexed
  <2>4. q \notin undone /\ Progress(q) => Progress(q)'
    BY <2>2, <2>3 DEF TypeOK, Steps
  <2> QED
    BY <2>1, <2>4, RunStep DEF Pcs, Undisturbed
<1>2. CASE ~(tries[q] < MaxRetries)
  BY <1>2, DeadLetterRun DEF RetryOrBury
<1> QED
  BY <1>1, <1>2

\* Operators and jobs that start no chain leave an undisturbed run's data alone.
LEMMA OperatorStep ==
    ASSUME RunInv, UNCHANGED <<step, pc, undone, overlap>>,
           deleting' = "no" =>
              UNCHANGED <<deleting, stage, parents, chunks, vectors, index,
                          gaps>>
    PROVE  RunInv'
<1>1. \A r \in Runs : Undisturbed(r)' =>
          /\ Undisturbed(r)
          /\ UNCHANGED <<stage, parents, chunks, vectors, index, gaps>>
  BY DEF Undisturbed
<1>2. \A r \in Runs : Undisturbed(r)' => Alone(r)' /\ Progress(r)'
  BY <1>1 DEF RunInv, Alone, Progress, Indexed
<1> QED
  BY <1>2 DEF RunInv

\* Every step keeps an undisturbed run alone and its data in the stores.
LEMMA RunsStep ==
    ASSUME TypeOK, Shape, DocumentKept, RunInv, [Next]_vars
    PROVE  RunInv'
<1> USE Ranges DEF rowVars, storeVars, taskVars, jobVars, historyVars
<1>1. ASSUME NEW r \in Runs, Begin(r) PROVE RunInv'
  <2>1. /\ pc[r] \notin Idle /\ pc' = [pc EXCEPT ![r] = "work"]
        /\ UNCHANGED <<undone, overlap, deleting>>
    BY <1>1 DEF Begin, Go, Idle
  <2>2. Undisturbed(r) /\ Progress(r) => Progress(r)'
    BY <1>1, <2>1 DEF Begin, TypeOK, Progress, Indexed
  <2> QED
    BY <2>1, <2>2, RunStep DEF Pcs
<1>2. ASSUME NEW r \in Runs, Parse(r) PROVE RunInv'
  <2>1. /\ pc[r] \notin Idle /\ pc' = [pc EXCEPT ![r] = "finish"]
        /\ UNCHANGED <<undone, overlap, deleting>>
    BY <1>2 DEF Parse, Go, Idle
  <2>2. Undisturbed(r) /\ Progress(r) => Progress(r)'
    BY <1>2, <2>1 DEF Parse, TypeOK, Progress, Indexed
  <2> QED
    BY <2>1, <2>2, RunStep DEF Pcs
<1>3. ASSUME NEW r \in Runs, Chunk(r) PROVE RunInv'
  <2>1. /\ pc[r] \notin Idle /\ pc' = [pc EXCEPT ![r] = "finish"]
        /\ UNCHANGED <<undone, overlap, deleting>>
    BY <1>3 DEF Chunk, Go, Idle
  <2>2. Undisturbed(r) /\ Progress(r) => Progress(r)'
    BY <1>3, <2>1 DEF Chunk, TypeOK, Progress, Indexed, Store, DocumentKept, Undisturbed
  <2> QED
    BY <2>1, <2>2, RunStep DEF Pcs
<1>4. ASSUME NEW r \in Runs, Vectorize(r) PROVE RunInv'
  <2>1. /\ pc[r] \notin Idle /\ pc' = [pc EXCEPT ![r] = "store"]
        /\ UNCHANGED <<undone, overlap, deleting>>
    BY <1>4 DEF Vectorize, Go, Idle
  <2>2. Undisturbed(r) /\ Progress(r) => Progress(r)'
    BY <1>4, <2>1 DEF Vectorize, TypeOK, Progress, Indexed
  <2> QED
    BY <2>1, <2>2, RunStep DEF Pcs
<1>5. ASSUME NEW r \in Runs, SaveChunks(r) PROVE RunInv'
  <2>1. /\ pc[r] \notin Idle /\ pc' = [pc EXCEPT ![r] = "finish"]
        /\ UNCHANGED <<undone, overlap, deleting>>
    BY <1>5 DEF SaveChunks, Go, Idle
  <2>2. Undisturbed(r) /\ Progress(r) => Progress(r)'
    BY <1>5, <2>1 DEF SaveChunks, TypeOK, Progress, Indexed, Shape, Store, StoreChunks,
       DocumentKept, Undisturbed
  <2> QED
    BY <2>1, <2>2, RunStep DEF Pcs
<1>6. ASSUME NEW r \in Runs, IndexEs(r) PROVE RunInv'
  <2>1. /\ pc[r] \notin Idle /\ pc' = [pc EXCEPT ![r] = "finish"]
        /\ UNCHANGED <<undone, overlap, deleting>>
    BY <1>6 DEF IndexEs, Go, Idle
  <2>2. Undisturbed(r) /\ Progress(r) => Progress(r)'
    BY <1>6, <2>1 DEF IndexEs, TypeOK, Progress, Indexed
  <2> QED
    BY <2>1, <2>2, RunStep DEF Pcs
<1>7. ASSUME NEW r \in Runs, Profile(r) PROVE RunInv'
  <2>1. PICK p \in {"finish", "over"} : pc' = [pc EXCEPT ![r] = p]
    BY <1>7 DEF Profile, Go
  <2>2. /\ pc[r] \notin Idle /\ p \in Pcs \ {"new"}
        /\ UNCHANGED <<undone, overlap, deleting>>
    BY <1>7 DEF Profile, Idle, Pcs
  <2>3. Progress(r) => Progress(r)'
    BY <1>7, <2>1 DEF Profile, TypeOK, Progress, Indexed
  <2> QED
    BY <2>1, <2>2, <2>3, RunStep
<1>8. ASSUME NEW r \in Runs, Finish(r) PROVE RunInv'
  <2>1. /\ pc[r] = "finish" /\ pc[r] \notin Idle
        /\ UNCHANGED <<step, undone, overlap, deleting, parents, chunks, vectors,
                       index, gaps>>
    BY <1>8 DEF Finish, Idle
  <2>2. Undisturbed(r) => stage' = Reached(step[r])
    BY <1>8 DEF Finish, Store, DocumentKept, Undisturbed
  <2>3. PICK p \in {"status", "handover"} : pc' = [pc EXCEPT ![r] = p]
    BY <1>8 DEF Finish, Go
  <2>4. Undisturbed(r) /\ Progress(r) => Progress(r)'
    BY <2>1, <2>2, <2>3 DEF Reached, TypeOK, Progress, Indexed
  <2> QED
    BY <2>1, <2>3, <2>4, RunStep DEF Pcs
<1>9. ASSUME NEW r \in Runs, RetryDocument(r) PROVE RunInv'
  <2>1. /\ pc[r] = "new" /\ pc' = [pc EXCEPT ![r] = "queued"]
        /\ UNCHANGED <<step, undone, deleting>>
        /\ \A q \in Runs : q < r => pc[q] # "new"
        /\ overlap' = (overlap \/ \E a \in Actors : pc[a] \notin Idle)
    BY <1>9 DEF RetryDocument, Go, Idle
  <2>2. \A a \in Actors : a # r => pc'[a] = pc[a]
    BY <2>1 DEF TypeOK
  <2>3. pc'[r] = "queued" /\ step'[r] = "parse"
    BY <2>1 DEF TypeOK, Shape
  <2>4. \A q, s \in Runs : q < s /\ pc'[s] # "new" => pc'[q] # "new"
    BY <2>1, <2>2, <2>3 DEF RunInv
  <2>5. \A q \in Runs : q # r => ~Undisturbed(q)'
    <3>1. \A q \in Runs : q < r \/ q = r \/ r < q
      BY DEF Runs
    <3>2. \A q \in Runs : r < q => pc[q] = "new"
      BY <2>1 DEF RunInv
    <3> QED
      BY <2>2, <2>3, <3>1, <3>2 DEF Undisturbed, Runs
  <2>6. Undisturbed(r)' => Alone(r)' /\ Progress(r)'
    <3>1. Undisturbed(r)' => \A a \in Actors : pc[a] \in Idle
      BY <2>1 DEF Undisturbed
    <3>2. Undisturbed(r)' => Alone(r)'
      BY <2>2, <3>1 DEF Alone
    <3> QED
      BY <2>3, <3>2 DEF Progress, Indexed
  <2> QED
    BY <2>4, <2>5, <2>6 DEF RunInv
<1>10. ASSUME NEW r \in Runs, BeginFails(r) PROVE RunInv'
  BY <1>10, DeadLetterRun DEF BeginFails, Idle
<1>11. ASSUME NEW r \in Runs, Fail(r) PROVE RunInv'
  <2>1. CASE DeadLetter(r)
    BY <1>11, <2>1, DeadLetterRun DEF Fail, Idle
  <2>2. CASE StartUndo(r, "undo", step[r])
    <3>1. /\ pc[r] \notin Idle /\ pc' = [pc EXCEPT ![r] = "undo"]
          /\ undone \subseteq undone'
          /\ UNCHANGED <<step, overlap, deleting>>
          /\ step[r] \in {"parse", "chunk"} \/ r \in undone'
      BY <1>11, <2>2 DEF Fail, TypeOK, Steps, StartUndo, FirstUndo, Go, Idle
    <3>2. r \notin undone' => Progress(r)'
      BY <3>1 DEF TypeOK, Progress, Indexed
    <3> QED
      BY <3>1, <3>2, RunStep DEF Pcs, Undisturbed
  <2> QED
    BY <1>11, <2>1, <2>2 DEF Fail
<1>12. ASSUME NEW r \in Runs, FailProfile(r) PROVE RunInv'
  BY <1>12, DeadLetterRun, RetryRun DEF FailProfile, Idle
<1>13. ASSUME NEW r \in Runs, Crash(r) PROVE RunInv'
  <2>1. /\ pc[r] \notin Idle
        /\ UNCHANGED <<step, overlap, deleting, stage, parents, chunks,
                       vectors, index, gaps>>
    BY <1>13 DEF Crash, Idle
  <2>2. CASE DeadLetter(r)
    BY <2>1, <2>2, DeadLetterRun
  <2>3. CASE /\ \E p \in Again(r) : Go(r, p)
             /\ UNCHANGED <<undoing, undone>>
    <3>1. PICK p \in {"redelivered", "queued"} : pc' = [pc EXCEPT ![r] = p]
      BY <2>3 DEF Go, Again
    <3>2. Progress(r) => Progress(r)'
      BY <2>1, <3>1 DEF TypeOK, Progress, Indexed
    <3> QED
      BY <2>1, <2>3, <3>1, <3>2, RunStep DEF Pcs
  <2> QED
    BY <1>13, <2>2, <2>3 DEF Crash
<1>14. ASSUME NEW a \in Actors, Undo(a) PROVE RunInv'
  <2>1. /\ pc[a] \in {"undo", "bury"} /\ pc[a] \notin Idle
        /\ UNCHANGED <<step, overlap, deleting>>
        /\ step[a] # "profile"
        /\ a \in undone \/ (step[a] \in {"parse", "chunk"} /\ undoing[a] = "stage")
        /\ pc[a] = "undo" => a \in Runs
    BY <1>14 DEF Undo, Shape, Idle, Actors, Runs, Cleaner
  <2>2. CASE undoing[a] = "stage" /\ pc[a] = "undo"
    BY <1>14, <2>1, <2>2, RetryRun DEF Undo
  <2>3. CASE ~(undoing[a] = "stage" /\ pc[a] = "undo")
    <3>1. PICK p \in {"undo", "bury", "mark"} : pc' = [pc EXCEPT ![a] = p]
      BY <1>14, <2>1, <2>3 DEF Undo, Go, TypeOK
    <3>2. UNCHANGED undone
      BY <1>14, <2>3 DEF Undo
    <3>3. CASE a = Cleaner
      BY <2>1, <3>1, <3>2, <3>3, CleanerStep DEF Pcs
    <3>4. CASE a \in Runs
      <4>1. p \in {"undo", "bury"} => undoing[a] # "stage"
        BY <1>14, <2>1, <2>3, <3>1 DEF Undo, Go, TypeOK
      <4>2. a \notin undone => Progress(a)'
        BY <2>1, <3>1, <4>1 DEF TypeOK, Progress, Indexed
      <4> QED
        BY <2>1, <3>1, <3>2, <3>4, <4>2, RunStep DEF Pcs, Undisturbed
    <3> QED
      BY <3>3, <3>4 DEF Actors, Runs, Cleaner
  <2> QED
    BY <2>2, <2>3
<1>15. ASSUME NEW a \in Actors, Mark(a) PROVE RunInv'
  <2>1. /\ pc[a] = "mark" /\ pc[a] \notin Idle
        /\ UNCHANGED <<step, undone, overlap, deleting, parents, chunks,
                       vectors, index, gaps>>
    BY <1>15 DEF Mark, Idle
  <2>2. CASE a = Cleaner
    <3>1. pc' = [pc EXCEPT ![Cleaner] = "new"]
      BY <1>15, <2>2 DEF Mark, Go
    <3> QED
      BY <2>1, <2>2, <3>1, CleanerStep DEF Pcs
  <2>3. CASE a \in Runs
    <3>1. pc' = [pc EXCEPT ![a] = "over"]
      BY <1>15, <2>3 DEF Mark, Go
    <3>2. Undisturbed(a) => stage' = "FAILED"
      BY <1>15 DEF Mark, Store, DocumentKept, Undisturbed
    <3>3. Undisturbed(a) /\ Progress(a) => Progress(a)'
      BY <2>1, <3>1, <3>2 DEF TypeOK, Progress, Indexed
    <3> QED
      BY <2>1, <2>3, <3>1, <3>3, RunStep DEF Pcs
  <2> QED
    BY <2>2, <2>3 DEF Actors, Runs, Cleaner
<1>16. ASSUME NEW a \in Actors, UndoFails(a) PROVE RunInv'
  <2>1. /\ pc[a] \in {"undo", "bury"} /\ pc[a] \notin Idle
        /\ UNCHANGED <<step, overlap, deleting, stage, parents, chunks,
                       vectors, index, gaps>>
        /\ step[a] # "profile"
        /\ a \in undone \/ step[a] \in {"parse", "chunk"}
        /\ pc[a] = "undo" => a \in Runs
    BY <1>16 DEF UndoFails, Shape, Idle, Actors, Runs, Cleaner
  <2>2. CASE pc[a] = "undo"
    BY <1>16, <2>1, <2>2, RetryRun DEF UndoFails
  <2>3. CASE pc[a] # "undo" /\ a = Cleaner
    <3>1. pc' = [pc EXCEPT ![Cleaner] = "new"] /\ UNCHANGED undone
      BY <1>16, <2>3 DEF UndoFails, Go
    <3> QED
      BY <2>1, <2>3, <3>1, CleanerStep DEF Pcs
  <2>4. CASE pc[a] # "undo" /\ a \in Runs
    <3>1. pc' = [pc EXCEPT ![a] = "over"] /\ UNCHANGED undone
      BY <1>16, <2>4 DEF UndoFails, Go
    <3>2. a \notin undone => Progress(a)'
      BY <2>1, <3>1 DEF TypeOK, Progress, Indexed
    <3> QED
      BY <2>1, <2>4, <3>1, <3>2, RunStep DEF Pcs, Undisturbed
  <2> QED
    BY <2>2, <2>3, <2>4 DEF Actors, Runs, Cleaner
<1>17. ASSUME NEW a \in Actors, MarkFails(a) PROVE RunInv'
  <2>1. /\ pc[a] = "mark" /\ pc[a] \notin Idle
        /\ UNCHANGED <<step, undone, overlap, deleting, stage, parents,
                       chunks, vectors, index, gaps>>
    BY <1>17 DEF MarkFails, Idle
  <2>2. CASE a = Cleaner
    <3>1. pc' = [pc EXCEPT ![Cleaner] = "new"]
      BY <1>17, <2>2 DEF MarkFails, Go
    <3> QED
      BY <2>1, <2>2, <3>1, CleanerStep DEF Pcs
  <2>3. CASE a \in Runs
    <3>1. pc' = [pc EXCEPT ![a] = "over"]
      BY <1>17, <2>3 DEF MarkFails, Go
    <3>2. Progress(a) => Progress(a)'
      BY <2>1, <3>1 DEF TypeOK, Progress, Indexed
    <3> QED
      BY <2>1, <2>3, <3>1, <3>2, RunStep DEF Pcs
  <2> QED
    BY <2>2, <2>3 DEF Actors, Runs, Cleaner
<1>18. CASE Cleanup
  <2>1. PICK s \in {"chunk", "vectorize", "index"} :
           step' = [step EXCEPT ![Cleaner] = s] /\ StartUndo(Cleaner, "bury", s)
    BY <1>18 DEF Cleanup, Stalled
  <2>2. /\ pc' = [pc EXCEPT ![Cleaner] = "bury"]
        /\ undone \subseteq undone'
        /\ UNCHANGED <<overlap, deleting, stage>>
        /\ \A r \in Runs : pc[r] \in Idle
        /\ stage \notin {"INDEXED", "PROFILED", "FAILED"}
    BY <1>18, <2>1 DEF Cleanup, Stalled, StartUndo, Go, Idle
  <2>3. \A r \in Runs : pc'[r] = pc[r] /\ step'[r] = step[r]
    BY <2>1, <2>2 DEF TypeOK
  <2>4. \A r \in Runs : Undisturbed(r)' =>
           pc[r] = "over" /\ step[r] \in {"parse", "chunk"}
    <3>1. \A r \in Runs : Undisturbed(r)' => Undisturbed(r)
      BY <2>2, <2>3 DEF Undisturbed
    <3> QED
      BY <2>2, <3>1 DEF RunInv, Progress, Undisturbed, Idle
  <2>5. \A r \in Runs : Undisturbed(r)' => Alone(r)'
    <3>1. \A a \in Actors : a \in Runs \/ a = Cleaner
      BY DEF Actors, Runs, Cleaner
    <3> QED
      BY <2>2, <2>3, <2>4, <3>1 DEF Alone
  <2>6. \A r \in Runs : Undisturbed(r)' => Progress(r)'
    BY <2>3, <2>4 DEF Progress, Indexed
  <2> QED
    BY <2>3, <2>5, <2>6 DEF RunInv
<1>19. CASE DeleteCheck
  BY <1>19, OperatorStep DEF DeleteCheck
<1>20. CASE DeleteStores
  BY <1>20, OperatorStep DEF DeleteStores
<1>21. CASE DeleteRows
  BY <1>21, OperatorStep DEF DeleteRows
<1>22. CASE DeleteFails
  BY <1>22, OperatorStep DEF DeleteFails
<1>23. CASE ReconcileStart
  BY <1>23, OperatorStep DEF ReconcileStart
<1>24. CASE ReconcilePg
  BY <1>24, OperatorStep DEF ReconcilePg, Orphan, DocumentKept
<1>25. CASE ReconcileEs
  BY <1>25, OperatorStep DEF ReconcileEs, Orphan, DocumentKept
<1>26. CASE ReconcileFails
  BY <1>26, OperatorStep DEF ReconcileFails
<1>27. CASE UNCHANGED vars
  BY <1>27 DEF vars, rowVars, storeVars, taskVars, jobVars, historyVars, RunInv,
               Undisturbed, Alone, Progress, Indexed
<1>28. ASSUME NEW r \in Runs, DeleteEs(r) PROVE RunInv'
  <2>1. /\ pc[r] \notin Idle /\ pc' = [pc EXCEPT ![r] = "store"]
        /\ UNCHANGED <<undone, overlap, deleting>>
    BY <1>28 DEF DeleteEs, Go, Idle
  <2>2. Undisturbed(r) /\ Progress(r) => Progress(r)'
    BY <1>28, <2>1 DEF DeleteEs, TypeOK, Progress, Indexed
  <2> QED
    BY <2>1, <2>2, RunStep DEF Pcs
<1>29. ASSUME NEW r \in Runs, RecordBuild(r) PROVE RunInv'
  <2>1. /\ pc[r] = "status" /\ pc[r] \notin Idle
        /\ pc' = [pc EXCEPT ![r] = "handover"]
        /\ UNCHANGED <<step, stage, parents, chunks, vectors, index, gaps, undone,
                       overlap, deleting>>
    BY <1>29 DEF RecordBuild, Go, Idle
  <2>2. Progress(r) => Progress(r)'
    BY <2>1 DEF TypeOK, Shape, Progress, Indexed
  <2> QED
    BY <2>1, <2>2, RunStep DEF Pcs
<1>30. ASSUME NEW r \in Runs, HandOver(r) PROVE RunInv'
  <2>1. /\ pc[r] = "handover" /\ pc[r] \notin Idle
        /\ UNCHANGED <<undone, overlap, deleting, stage, parents, chunks, vectors,
                       index, gaps>>
    BY <1>30 DEF HandOver, Idle
  <2>2. CASE step[r] = "profile"
    <3>1. pc' = [pc EXCEPT ![r] = "over"] /\ UNCHANGED step
      BY <1>30, <2>2 DEF HandOver, Go
    <3>2. Progress(r) => Progress(r)'
      BY <2>1, <2>2, <3>1 DEF TypeOK, Progress, Indexed
    <3> QED
      BY <2>1, <3>1, <3>2, RunStep DEF Pcs
  <2>3. CASE step[r] # "profile"
    <3>1. /\ pc' = [pc EXCEPT ![r] = "queued"]
          /\ step' = [step EXCEPT ![r] = NextStep(step[r])]
      BY <1>30, <2>3 DEF HandOver, Go
    <3>2. \/ step[r] = "parse" /\ step'[r] = "chunk"
          \/ step[r] = "chunk" /\ step'[r] = "vectorize"
          \/ step[r] = "vectorize" /\ step'[r] = "index"
          \/ step[r] = "index" /\ step'[r] = "profile"
      BY <2>3, <3>1 DEF TypeOK, Steps, NextStep
    <3>3. Progress(r) => Progress(r)'
      BY <2>1, <3>1, <3>2 DEF TypeOK, Progress, Indexed
    <3> QED
      BY <2>1, <3>1, <3>3, RunStep DEF Pcs
  <2> QED
    BY <2>2, <2>3
<1>31. ASSUME NEW r \in Runs, NEW q \in Runs, Fork(r, q) PROVE RunInv'
  <2>1. /\ pc[r] = "handover" /\ pc[q] = "new" /\ overlap' = TRUE
        /\ \A p \in Runs : p < q => pc[p] # "new"
        /\ pc' = [pc EXCEPT ![r] = "queued", ![q] = "queued"]
    BY <1>31 DEF Fork
  <2>2. \A s \in Runs : ~Undisturbed(s)'
    BY <2>1 DEF Undisturbed
  <2>3. \A s \in Runs : pc'[s] # "new" <=> (pc[s] # "new" \/ s = q)
    BY <2>1 DEF TypeOK
  <2>4. \A p, s \in Runs : p < s /\ pc'[s] # "new" => pc'[p] # "new"
    BY <2>1, <2>3 DEF RunInv
  <2> QED
    BY <2>2, <2>4 DEF RunInv
<1> QED
  BY <1>1, <1>2, <1>3, <1>4, <1>5, <1>6, <1>7, <1>8, <1>9, <1>10, <1>11, <1>12,
     <1>13, <1>14, <1>15, <1>16, <1>17, <1>18, <1>19, <1>20, <1>21, <1>22,
     <1>23, <1>24, <1>25, <1>26, <1>27, <1>28, <1>29, <1>30, <1>31
     DEF Next, Proceed, Compensate, Reconcile

-----------------------------------------------------------------------------
\* The lemmas about DataInv: what of a run's own data is stored, and why.

\* A step of actor a, by which it stores nothing but what it holds then, and
\* keeps or loses what was stored of it, keeps DataInv: the others hold as before.
LEMMA HoldStep ==
    ASSUME TypeOK, DataInv, NEW a \in Actors, exists' => exists,
           \A r \in Runs : r # a =>
               pc'[r] = pc[r] /\ step'[r] = step[r] /\ undoing'[r] = undoing[r],
           vectors' \in {vectors, Nothing, a}, chunks' \in {chunks, Nothing, a},
           a \in Runs /\ exists' /\ vectors' = a => Holds(a, {"rows", "vectors"})',
           a \in Runs /\ exists' /\ chunks' = a => Holds(a, {"rows"})'
    PROVE  DataInv'
<1> SUFFICES ASSUME exists', NEW r \in Runs
             PROVE  /\ vectors' = r => Holds(r, {"rows", "vectors"})'
                    /\ chunks' = r => Holds(r, {"rows"})'
  BY DEF DataInv
<1>1. r # Nothing
  BY DEF Runs, Nothing
<1>2. CASE r = a
  BY <1>2
<1>3. CASE r # a
  <2>1. /\ vectors' = r => vectors = r
        /\ chunks' = r => chunks = r
    BY <1>1, <1>3
  <2> QED
    BY <1>3, <2>1 DEF DataInv, Holds
<1> QED
  BY <1>2, <1>3

\* A task that is queued, delivered or at work holds what it held.
LEMMA ActiveHolds ==
    ASSUME TypeOK, NEW r \in Runs, NEW U \in SUBSET {"rows", "vectors"},
           step'[r] = step[r], Holds(r, U),
           pc'[r] \notin {"new", "mark", "undo", "bury", "over"}
    PROVE  Holds(r, U)'
BY DEF Holds

\* A compensation that begins has still to empty the two stores.
LEMMA DeadLetterHolds ==
    ASSUME TypeOK, NEW r \in Runs, NEW U \in SUBSET {"rows", "vectors"},
           "rows" \in U, Holds(r, U), DeadLetter(r), UNCHANGED step
    PROVE  Holds(r, U)'
<1>1. CASE step[r] = "profile"
  BY <1>1, Ranges DEF Holds, DeadLetter, Go, TypeOK
<1>2. CASE step[r] # "profile"
  <2>1. step[r] \in {"vectorize", "index"}
    BY <1>2 DEF Holds
  <2>2. pc'[r] = "bury" /\ undoing'[r] = "rows"
    BY <1>2, <2>1, Ranges DEF DeadLetter, StartUndo, FirstUndo, Go, TypeOK
  <2> QED
    BY <2>1, <2>2 DEF Holds
<1> QED
  BY <1>1, <1>2

LEMMA RetryHolds ==
    ASSUME TypeOK, NEW r \in Runs, NEW U \in SUBSET {"rows", "vectors"},
           "rows" \in U, Holds(r, U), RetryOrBury(r), UNCHANGED step
    PROVE  Holds(r, U)'
<1>1. CASE tries[r] < MaxRetries
  <2>1. pc'[r] = "queued"
    BY <1>1, Ranges DEF RetryOrBury, Go, TypeOK
  <2> QED
    BY <2>1, ActiveHolds
<1>2. CASE ~(tries[r] < MaxRetries)
  BY <1>2, DeadLetterHolds DEF RetryOrBury
<1> QED
  BY <1>1, <1>2

\* Neither touches another actor.
LEMMA RetryOthers ==
    ASSUME TypeOK, NEW a \in Actors, DeadLetter(a) \/ RetryOrBury(a)
    PROVE  \A r \in Runs : r # a => pc'[r] = pc[r] /\ undoing'[r] = undoing[r]
BY Ranges DEF DeadLetter, RetryOrBury, StartUndo, Go, TypeOK

\* Every step keeps what is said of the stored data.
LEMMA DataStep ==
    ASSUME TypeOK, Shape, DataInv, [Next]_vars
    PROVE  DataInv'
<1> USE Ranges DEF rowVars, storeVars, taskVars, jobVars, historyVars
<1> DEFINE V == {"rows", "vectors"}
           C == {"rows"}
           Kept(r) == /\ exists /\ vectors = r => Holds(r, V)
                      /\ exists /\ chunks = r => Holds(r, C)
<1>0. \A r \in Runs : Kept(r)
  BY DEF DataInv
<1>1. ASSUME NEW r \in Runs,
             Begin(r) \/ Parse(r) \/ Chunk(r) \/ DeleteEs(r) \/ IndexEs(r)
             \/ Profile(r) \/ Finish(r) \/ RecordBuild(r)
      PROVE  DataInv'
  <2>1. /\ UNCHANGED <<exists, vectors, chunks, step, undoing>>
        /\ \/ \E p \in {"work", "store", "finish", "status", "handover"} :
                  pc' = [pc EXCEPT ![r] = p]
           \/ pc' = [pc EXCEPT ![r] = "over"] /\ step[r] = "profile"
    BY <1>1 DEF Begin, Parse, Chunk, DeleteEs, IndexEs, Profile, Finish,
       RecordBuild, Go
  <2>2. \A U \in SUBSET V : Holds(r, U) => Holds(r, U)'
    BY <2>1 DEF Holds, TypeOK
  <2> QED
    BY <1>0, <2>1, <2>2, HoldStep DEF TypeOK
<1>2. ASSUME NEW r \in Runs, Vectorize(r) PROVE DataInv'
  <2>1. /\ UNCHANGED <<exists, chunks, step, undoing>> /\ vectors' = r
        /\ step[r] = "vectorize" /\ pc' = [pc EXCEPT ![r] = "store"]
    BY <1>2 DEF Vectorize, Go
  <2>2. \A U \in SUBSET V : Holds(r, U)'
    BY <2>1 DEF Holds, TypeOK
  <2> QED
    BY <2>1, <2>2, HoldStep DEF TypeOK
<1>3. ASSUME NEW r \in Runs, SaveChunks(r) PROVE DataInv'
  <2>1. /\ UNCHANGED <<exists, vectors, step, undoing>> /\ chunks' \in {chunks, r}
        /\ step[r] = "vectorize" /\ pc' = [pc EXCEPT ![r] = "finish"]
    BY <1>3 DEF SaveChunks, StoreChunks, Store, Go, Shape
  <2>2. \A U \in SUBSET V : Holds(r, U)'
    BY <2>1 DEF Holds, TypeOK
  <2> QED
    BY <2>1, <2>2, HoldStep DEF TypeOK
<1>4. ASSUME NEW r \in Runs, HandOver(r) PROVE DataInv'
  <2>1. /\ UNCHANGED <<exists, vectors, chunks, undoing>>
        /\ \/ /\ pc' = [pc EXCEPT ![r] = "queued"] /\ step[r] # "profile"
              /\ step' = [step EXCEPT ![r] = NextStep(step[r])]
           \/ /\ pc' = [pc EXCEPT ![r] = "over"] /\ step[r] = "profile"
              /\ step' = step
    BY <1>4 DEF HandOver, Go
  <2>2. \A U \in SUBSET V : Holds(r, U) => Holds(r, U)'
    BY <2>1 DEF Holds, TypeOK, NextStep
  <2> QED
    BY <1>0, <2>1, <2>2, HoldStep DEF TypeOK
<1>5. ASSUME NEW r \in Runs, RetryDocument(r) PROVE DataInv'
  <2>1. /\ UNCHANGED <<exists, vectors, chunks, step, undoing>>
        /\ pc[r] = "new" /\ pc' = [pc EXCEPT ![r] = "queued"]
    BY <1>5 DEF RetryDocument, Go
  <2>2. \A U \in SUBSET V : ~Holds(r, U)
    BY <2>1 DEF Holds
  <2> QED
    BY <1>0, <2>1, <2>2, HoldStep DEF TypeOK
<1>6. ASSUME NEW r \in Runs, BeginFails(r) \/ FailProfile(r) PROVE DataInv'
  <2>1. /\ UNCHANGED <<exists, vectors, chunks, step>>
        /\ DeadLetter(r) \/ RetryOrBury(r)
    BY <1>6 DEF BeginFails, FailProfile
  <2>2. \A U \in SUBSET V : "rows" \in U /\ Holds(r, U) => Holds(r, U)'
    BY <2>1, DeadLetterHolds, RetryHolds
  <2> QED
    BY <1>0, <2>1, <2>2, RetryOthers, HoldStep
<1>7. ASSUME NEW r \in Runs, Fail(r) PROVE DataInv'
  <2>1. /\ UNCHANGED <<exists, vectors, chunks, step>>
        /\ DeadLetter(r) \/ StartUndo(r, "undo", step[r])
        /\ step[r] # "profile"
    BY <1>7 DEF Fail
  <2>2. CASE DeadLetter(r)
    <3>1. \A U \in SUBSET V : "rows" \in U /\ Holds(r, U) => Holds(r, U)'
      BY <2>1, <2>2, DeadLetterHolds
    <3> QED
      BY <1>0, <2>1, <2>2, <3>1, RetryOthers, HoldStep
  <2>3. CASE StartUndo(r, "undo", step[r])
    <3>1. /\ pc' = [pc EXCEPT ![r] = "undo"]
          /\ undoing' = [undoing EXCEPT ![r] = FirstUndo(step[r])]
      BY <2>3 DEF StartUndo, Go
    <3>2. \A U \in SUBSET V : "rows" \in U /\ Holds(r, U) => Holds(r, U)'
      BY <2>1, <3>1 DEF Holds, FirstUndo, TypeOK
    <3> QED
      BY <1>0, <2>1, <3>1, <3>2, HoldStep DEF TypeOK
  <2> QED
    BY <2>1, <2>2, <2>3
<1>8. ASSUME NEW r \in Runs, Crash(r) PROVE DataInv'
  <2>1. UNCHANGED <<exists, vectors, chunks, step>>
    BY <1>8 DEF Crash
  <2>2. CASE DeadLetter(r)
    <3>1. \A U \in SUBSET V : "rows" \in U /\ Holds(r, U) => Holds(r, U)'
      BY <2>1, <2>2, DeadLetterHolds
    <3> QED
      BY <1>0, <2>1, <2>2, <3>1, RetryOthers, HoldStep
  <2>3. CASE ~DeadLetter(r)
    <3>1. /\ \E p \in {"redelivered", "queued"} : pc' = [pc EXCEPT ![r] = p]
          /\ UNCHANGED undoing
      BY <1>8, <2>3 DEF Crash, Go, Again
    <3>2. \A U \in SUBSET V : Holds(r, U) => Holds(r, U)'
      BY <2>1, <3>1 DEF Holds, TypeOK
    <3> QED
      BY <1>0, <2>1, <3>1, <3>2, HoldStep DEF TypeOK
  <2> QED
    BY <2>2, <2>3
<1>9. ASSUME NEW a \in Actors, Undo(a) PROVE DataInv'
  <2>1. /\ pc[a] \in {"undo", "bury"} /\ step[a] # "profile"
        /\ UNCHANGED <<exists, step>>
        /\ vectors' \in {vectors, Nothing} /\ chunks' \in {chunks, Nothing}
        /\ undoing[a] = "rows" /\ exists => chunks' = Nothing
        /\ undoing[a] = "vectors" /\ exists => vectors' = Nothing
    BY <1>9 DEF Undo, UndoEffect, UndoVectors, Store, Shape
  <2>2. a \in Runs => a # Nothing
    BY DEF Runs, Nothing
  <2>3. a \in Runs => (exists /\ vectors' = a => vectors = a /\ undoing[a] = "rows")
                      /\ (exists => chunks' # a)
    <3> SUFFICES ASSUME a \in Runs, exists
                 PROVE  /\ vectors' = a => vectors = a /\ undoing[a] = "rows"
                        /\ chunks' # a
      OBVIOUS
    <3>1. vectors = a => undoing[a] \in V
      BY <1>0, <2>1 DEF Holds
    <3>2. chunks = a => undoing[a] = "rows"
      BY <1>0, <2>1 DEF Holds
    <3> QED
      BY <2>1, <2>2, <3>1, <3>2
  <2>4. CASE undoing[a] # "stage"
    <3>1. /\ UNCHANGED pc
          /\ undoing' = [undoing EXCEPT ![a] = NextUndo(step[a], undoing[a])]
      BY <1>9, <2>4 DEF Undo
    <3>2. a \in Runs /\ exists /\ vectors' = a => Holds(a, V)'
      <4> SUFFICES ASSUME a \in Runs, exists, vectors' = a PROVE Holds(a, V)'
        OBVIOUS
      <4>1. Holds(a, V) /\ undoing'[a] = "vectors"
        BY <1>0, <2>3, <3>1 DEF NextUndo, TypeOK
      <4> QED
        BY <2>1, <3>1, <4>1 DEF Holds
    <3> QED
      BY <2>1, <2>3, <3>1, <3>2, HoldStep DEF TypeOK
  <2>5. CASE undoing[a] = "stage"
    <3>1. \A r \in Runs : r # a => pc'[r] = pc[r] /\ undoing'[r] = undoing[r]
      <4>1. CASE RetryOrBury(a)
        BY <4>1, RetryOthers
      <4>2. CASE Go(a, "mark") /\ UNCHANGED undoing
        BY <4>2 DEF Go, TypeOK
      <4> QED
        BY <1>9, <2>5, <4>1, <4>2 DEF Undo
    <3> QED
      BY <2>1, <2>3, <2>5, <3>1, HoldStep
  <2> QED
    BY <2>4, <2>5
<1>10. ASSUME NEW a \in Actors, UndoFails(a) PROVE DataInv'
  <2>1. /\ pc[a] \in {"undo", "bury"} /\ step[a] # "profile"
        /\ UNCHANGED <<exists, vectors, chunks, step>>
        /\ pc[a] = "undo" => a \in Runs
    BY <1>10 DEF UndoFails, Shape, Actors, Runs, Cleaner
  <2>2. CASE pc[a] = "undo"
    <3>1. RetryOrBury(a)
      BY <1>10, <2>2 DEF UndoFails
    <3>2. \A U \in SUBSET V : "rows" \in U /\ Holds(a, U) => Holds(a, U)'
      BY <2>1, <2>2, <3>1, RetryHolds
    <3> QED
      BY <1>0, <2>1, <2>2, <3>1, <3>2, RetryOthers, HoldStep
  <2>3. CASE pc[a] # "undo"
    <3>1. UNCHANGED undoing /\ \E p \in {"new", "over"} :
              pc' = [pc EXCEPT ![a] = p] /\ (a \in Runs => p = "over")
      BY <1>10, <2>3 DEF UndoFails, Go
    <3>2. a \in Runs => \A U \in SUBSET V : Holds(a, U) => Holds(a, U)'
      BY <2>1, <2>3, <3>1 DEF Holds, TypeOK
    <3> QED
      BY <1>0, <2>1, <3>1, <3>2, HoldStep DEF TypeOK
  <2> QED
    BY <2>2, <2>3
<1>11. ASSUME NEW a \in Actors, Mark(a) \/ MarkFails(a) PROVE DataInv'
  <2>1. /\ pc[a] = "mark" /\ UNCHANGED <<exists, vectors, chunks, step, undoing>>
        /\ \E p \in {"new", "over"} :
              pc' = [pc EXCEPT ![a] = p] /\ (a \in Runs => p = "over")
    BY <1>11 DEF Mark, MarkFails, Go
  <2>2. a \in Runs => \A U \in SUBSET V : Holds(a, U) => Holds(a, U)'
    BY <2>1 DEF Holds, TypeOK
  <2> QED
    BY <1>0, <2>1, <2>2, HoldStep DEF TypeOK
<1>12. CASE Cleanup
  <2>1. /\ UNCHANGED <<exists, vectors, chunks>>
        /\ \E s \in Steps : step' = [step EXCEPT ![Cleaner] = s]
                            /\ StartUndo(Cleaner, "bury", s)
    BY <1>12 DEF Cleanup, Stalled, Steps
  <2>2. \A r \in Runs :
            pc'[r] = pc[r] /\ step'[r] = step[r] /\ undoing'[r] = undoing[r]
    BY <2>1 DEF StartUndo, Go, TypeOK
  <2> QED
    BY <2>1, <2>2, HoldStep
<1>13. CASE DeleteCheck \/ DeleteStores \/ DeleteRows \/ DeleteFails
            \/ Reconcile \/ ReconcileFails
  <2>1. /\ UNCHANGED <<step, pc, undoing>>
        /\ exists' => exists
        /\ vectors' \in {vectors, Nothing} /\ chunks' \in {chunks, Nothing}
    BY <1>13 DEF DeleteCheck, DeleteStores, DeleteRows, DeleteFails, Reconcile,
       ReconcileStart, ReconcilePg, ReconcileEs, ReconcileFails, Orphan
  <2>2. Cleaner \in Actors /\ Cleaner \notin Runs
    BY Ranges
  <2> QED
    BY <2>1, <2>2, HoldStep
<1>14. ASSUME NEW r \in Runs, NEW q \in Runs, Fork(r, q) PROVE DataInv'
  <2>1. /\ UNCHANGED <<exists, vectors, chunks, undoing>> /\ q # r
        /\ pc[q] = "new" /\ step[r] # "profile"
    BY <1>14 DEF Fork
  <2>2. /\ pc'[r] = "queued" /\ step'[r] = NextStep(step[r])
        /\ \A s \in Runs : s \notin {r, q} => pc'[s] = pc[s] /\ step'[s] = step[s]
    BY <1>14, <2>1 DEF Fork, TypeOK
  <2>3. \A U \in SUBSET V : Holds(r, U) => Holds(r, U)'
    BY <2>1, <2>2 DEF Holds, NextStep
  <2>4. \A U \in SUBSET V : ~Holds(q, U)
    BY <2>1 DEF Holds
  <2>5. \A s \in Runs, U \in SUBSET V : s \notin {r, q} /\ Holds(s, U) => Holds(s, U)'
    BY <2>1, <2>2 DEF Holds
  <2>6. \A s \in Runs, U \in SUBSET V : Holds(s, U) => Holds(s, U)'
    BY <2>3, <2>4, <2>5
  <2> QED
    BY <1>0, <2>1, <2>6 DEF DataInv
<1>15. CASE UNCHANGED vars
  BY <1>15 DEF vars, DataInv, Holds
<1> QED
  BY <1>1, <1>2, <1>3, <1>4, <1>5, <1>6, <1>7, <1>8, <1>9, <1>10, <1>11,
     <1>12, <1>13, <1>14, <1>15 DEF Next, Proceed, Compensate

-----------------------------------------------------------------------------
\* The invariant holds initially and is kept by every step.
THEOREM Inductive == Spec => []IInv
<1>1. Init => IInv
  <2> SUFFICES ASSUME Init PROVE IInv
    OBVIOUS
  <2>1. TypeOK
    <3>1. 0 \in 0..MaxRuns /\ 0 \in 0..MaxRetries /\ 0 \in 0..MaxFaults
      BY PipelineAssumption
    <3>2. pc \in [Actors -> {"new", "queued"}]
      BY DEF Init
    <3> QED
      BY <3>1, <3>2 DEF Init, TypeOK, Nothing, Steps, Stages
  <2>2. Shape /\ DocumentKept
    BY Ranges DEF Init, Shape, DocumentKept
  <2>3. RunInv
    <3>1. \A a \in Actors : /\ a # 1 => pc[a] = "new"
                           /\ step[a] = "parse"
                           /\ pc[a] \in {"new", "queued"}
      BY DEF Init
    <3>2. \A r \in Runs : r \in Actors
      BY Ranges
    <3>3. \A r \in Runs : Undisturbed(r) => r = 1
      BY <3>1, <3>2 DEF Undisturbed
    <3>4. \A r \in Runs : Undisturbed(r) => Alone(r) /\ Progress(r)
      BY <3>1, <3>2, <3>3 DEF Alone, Progress, Indexed, Idle
    <3>5. \A q, r \in Runs : q < r => r # 1
      BY DEF Runs
    <3> QED
      BY <3>1, <3>2, <3>4, <3>5 DEF RunInv
  <2>4. DataInv
    BY DEF Init, DataInv, Runs, Nothing
  <2> QED
    BY <2>1, <2>2, <2>3, <2>4 DEF IInv
<1>2. IInv /\ [Next]_vars => IInv'
  BY TypeStep, ShapeStep, DocumentStep, RunsStep, DataStep DEF IInv
<1> QED
  BY <1>1, <1>2, PTL DEF Spec

\* The types of the document's row, its stores and its tasks.
THEOREM TypeCorrect == Spec => []TypeOK
<1>1. IInv => TypeOK
  BY DEF IInv
<1> QED
  BY <1>1, Inductive, PTL

\* A chain that was not compensated, overlapped, forked or deleted ends with its
\* own data in all four stores, but for documents that ES refused one by one, for
\* any number of runs, redeliveries and faults.
THEOREM StoresHoldTheRun == Spec => []StoresAgree
<1>1. IInv => StoresAgree
  BY DEF IInv, StoresAgree, RunInv, Undisturbed, Progress, Indexed
<1> QED
  BY <1>1, Inductive, PTL

\* A chain that is over has left vectors or chunks only when all but its profile
\* was done or its compensation was given up, for any number of overlapping
\* chains, retries, redeliveries, faults and deletes.
THEOREM FailedLeavesNothing == Spec => []FailedRunLeavesNothing
<1>1. IInv => FailedRunLeavesNothing
  BY DEF IInv, DataInv, Holds, FailedRunLeavesNothing, GivenUp
<1> QED
  BY <1>1, Inductive, PTL
-----------------------------------------------------------------------------
(* Without a compensation the stores only gain data, but for ES. *)

\* Nobody compensated a vectorize or index task, and nobody deletes.
Gaining == undone = {} /\ deleting = "no"

\* ES has documents, or it is known who is to have removed or not written them.
InEs == index # {} \/ gaps # {}

\* What run r has done, if it was started, is in the stores.
Filled(r) ==
    pc[r] # "new" =>
        /\ step[r] \in {"vectorize", "index", "profile"} => parents # Nothing
        /\ step[r] = "chunk" /\ pc[r] \in {"finish", "handover"} => parents # Nothing
        /\ step[r] = "vectorize" /\ pc[r] \in {"store", "finish", "handover"} =>
               vectors # Nothing
        /\ step[r] = "vectorize" /\ pc[r] \in {"finish", "handover"} =>
               chunks # Nothing
        /\ step[r] \in {"index", "profile"} => vectors # Nothing /\ chunks # Nothing
        /\ Indexed(r) => InEs

\* That holds of all runs, and so is all there that the stage claims.
FilledInv == Gaining => (\A r \in Runs : Filled(r)) /\ HolesHaveACause

\* No step empties a store, but for the index task, which is then in gaps.
LEMMA StoresGain ==
    ASSUME TypeOK, Shape, DocumentKept, [Next]_vars, Gaining'
    PROVE  /\ Gaining
           /\ parents # Nothing => parents' # Nothing
           /\ chunks # Nothing => chunks' # Nothing
           /\ vectors # Nothing => vectors' # Nothing
           /\ InEs => InEs'
<1> USE Ranges DEF rowVars, storeVars, taskVars, jobVars, historyVars, Gaining, InEs
<1> DEFINE Gains == /\ Gaining
                    /\ parents # Nothing => parents' # Nothing
                    /\ chunks # Nothing => chunks' # Nothing
                    /\ vectors # Nothing => vectors' # Nothing
                    /\ InEs => InEs'
<1>1. ASSUME NEW r \in Runs, Proceed(r) PROVE Gains
  <2>1. r # Nothing
    BY DEF Runs, Nothing
  <2> QED
    BY <1>1, <2>1 DEF Proceed, Begin, Parse, Chunk, Vectorize, SaveChunks, StoreChunks,
       DeleteEs, IndexEs, Profile, Finish, RecordBuild, HandOver, Store
<1>2. ASSUME NEW r \in Runs, RetryDocument(r) PROVE Gains
  BY <1>2 DEF RetryDocument
<1>3. ASSUME NEW r \in Runs, BeginFails(r) PROVE Gains
  BY <1>3 DEF BeginFails, DeadLetter, StartUndo
<1>4. ASSUME NEW r \in Runs, Fail(r) PROVE Gains
  <2>1. r \in Actors
    OBVIOUS
  <2>2. step[r] # "index"
    BY <1>4, <2>1 DEF Fail, DeadLetter, StartUndo, FirstUndo
  <2> QED
    BY <1>4, <2>2 DEF Fail, DeadLetter, StartUndo
<1>5. ASSUME NEW r \in Runs, FailProfile(r) PROVE Gains
  BY <1>5 DEF FailProfile, RetryOrBury, DeadLetter, StartUndo
<1>6. ASSUME NEW r \in Runs, Crash(r) PROVE Gains
  BY <1>6 DEF Crash, DeadLetter, StartUndo
<1>7. ASSUME NEW a \in Actors, Undo(a) PROVE Gains
  <2>1. Gaining
    BY <1>7 DEF Undo, RetryOrBury, DeadLetter, StartUndo
  <2>2. undoing[a] = "stage"
    BY <1>7, <2>1 DEF Undo, Shape
  <2> QED
    BY <1>7, <2>1, <2>2 DEF Undo, UndoEffect
<1>8. ASSUME NEW a \in Actors, Mark(a) \/ UndoFails(a) \/ MarkFails(a) PROVE Gains
  BY <1>8 DEF Mark, UndoFails, MarkFails, RetryOrBury, DeadLetter, StartUndo
<1>9. CASE Cleanup
  BY <1>9 DEF Cleanup, StartUndo
<1>10. CASE DeleteCheck \/ DeleteStores \/ DeleteRows \/ DeleteFails
  BY <1>10 DEF DeleteCheck, DeleteStores, DeleteRows, DeleteFails
<1>11. CASE Reconcile \/ ReconcileFails
  BY <1>11 DEF Reconcile, ReconcileStart, ReconcilePg, ReconcileEs, ReconcileFails, Orphan,
     DocumentKept
<1>12. CASE UNCHANGED vars
  BY <1>12 DEF vars
<1>13. ASSUME NEW r \in Runs, NEW q \in Runs, Fork(r, q) PROVE Gains
  BY <1>13 DEF Fork
<1> QED
  BY <1>1, <1>2, <1>3, <1>4, <1>5, <1>6, <1>7, <1>8, <1>9, <1>10, <1>11, <1>12,
     <1>13 DEF Next, Compensate

\* A task that does not get nearer to its end claims nothing new.
LEMMA FilledKept ==
    ASSUME NEW r \in Runs, Filled(r), step'[r] = step[r],
           parents # Nothing => parents' # Nothing,
           chunks # Nothing => chunks' # Nothing,
           vectors # Nothing => vectors' # Nothing,
           InEs => InEs',
           pc[r] # "new" \/ step[r] = "parse",
           pc'[r] \notin {"store", "finish", "status", "handover"} \/ pc'[r] = pc[r]
    PROVE  Filled(r)'
BY DEF Filled, Indexed

\* Every step keeps FilledInv.
LEMMA FilledStep ==
    ASSUME TypeOK, Shape, DocumentKept, FilledInv, [Next]_vars
    PROVE  FilledInv'
<1> SUFFICES ASSUME Gaining' PROVE (\A r \in Runs : Filled(r))' /\ HolesHaveACause'
  BY DEF FilledInv
<1>1. /\ Gaining
      /\ parents # Nothing => parents' # Nothing
      /\ chunks # Nothing => chunks' # Nothing
      /\ vectors # Nothing => vectors' # Nothing
      /\ InEs => InEs'
  BY StoresGain
<1>2. (\A r \in Runs : Filled(r)) /\ HolesHaveACause
  BY <1>1 DEF FilledInv
<1>3. exists
  BY <1>1 DEF Gaining, DocumentKept
<1> USE Ranges DEF rowVars, storeVars, taskVars, jobVars, historyVars
<1> DEFINE Same == UNCHANGED stage \/ stage' \notin {"INDEXED", "PROFILED"}
           Quiet == \A r \in Runs : /\ step'[r] = step[r]
                                    /\ pc[r] # "new" \/ step[r] = "parse"
                                    /\ \/ pc'[r] \notin {"store", "finish", "status", "handover"}
                                       \/ pc'[r] = pc[r]
<1>4. Same => HolesHaveACause'
  BY <1>1, <1>2 DEF HolesHaveACause, Gaining, InEs
<1>5. Quiet => \A r \in Runs : Filled(r)'
  BY <1>1, <1>2, FilledKept
<1>6. \A r \in Runs : pc[r] # "new" \/ step[r] = "parse"
  BY DEF Shape
<1> HIDE DEF Same, Quiet
<1>7. ASSUME NEW q \in Runs, Begin(q) PROVE Same /\ Quiet
  BY <1>6, <1>7 DEF Begin, Go, TypeOK, Same, Quiet
<1>8. ASSUME NEW q \in Runs,
             Parse(q) \/ Chunk(q) \/ Vectorize(q) \/ SaveChunks(q) \/ DeleteEs(q) \/ IndexEs(q)
      PROVE  Same /\ \A r \in Runs : Filled(r)'
  <2>1. Same
    BY <1>8 DEF Parse, Chunk, Vectorize, SaveChunks, DeleteEs, IndexEs, Same
  <2>2. q \in Nat \ {0} /\ q # Nothing
    BY DEF Runs, Nothing
  <2>3. ASSUME NEW r \in Runs, r # q PROVE Filled(r)'
    <3>1. step'[r] = step[r] /\ pc'[r] = pc[r]
      BY <1>8, <2>3 DEF Parse, Chunk, Vectorize, SaveChunks, DeleteEs, IndexEs, Go, TypeOK
    <3> QED
      BY <1>1, <1>2, <1>6, <3>1, FilledKept
  <2>4. Filled(q)'
    <3>1. step' = step /\ pc' = [pc EXCEPT ![q] = pc'[q]] /\ pc'[q] \in {"store", "finish"}
      BY <1>8 DEF Parse, Chunk, Vectorize, SaveChunks, DeleteEs, IndexEs, Go, TypeOK
    <3>2. Filled(q) /\ pc[q] # "new"
      BY <1>2, <1>8 DEF Parse, Chunk, Vectorize, SaveChunks, DeleteEs, IndexEs
    <3>3. CASE Parse(q)
      BY <1>1, <3>1, <3>2, <3>3 DEF Parse, Filled, Indexed
    <3>4. CASE Chunk(q)
      BY <1>1, <1>3, <2>2, <3>1, <3>2, <3>4 DEF Chunk, Store, Filled, Indexed
    <3>5. CASE Vectorize(q)
      BY <1>1, <2>2, <3>1, <3>2, <3>5 DEF Vectorize, Go, TypeOK, Filled, Indexed
    <3>6. CASE SaveChunks(q)
      BY <1>1, <1>3, <2>2, <3>1, <3>2, <3>6 DEF SaveChunks, StoreChunks, Store, Shape, Filled,
         Indexed
    <3>7. CASE DeleteEs(q)
      BY <1>1, <3>1, <3>2, <3>7 DEF DeleteEs, Go, TypeOK, Filled, Indexed
    <3>8. CASE IndexEs(q)
      <4>1. InEs' /\ UNCHANGED <<parents, chunks, vectors>>
        BY <3>8 DEF IndexEs, InEs
      <4> QED
        BY <3>1, <3>2, <3>8, <4>1 DEF IndexEs, Filled, Indexed
    <3> QED
      BY <1>8, <3>3, <3>4, <3>5, <3>6, <3>7, <3>8
  <2> QED
    BY <2>1, <2>3, <2>4
<1>9. ASSUME NEW q \in Runs, Profile(q)
      PROVE  Same /\ \A r \in Runs : Filled(r)'
  <2>1. Same
    BY <1>9 DEF Profile, Same
  <2>2. step' = step /\ pc[q] # "new" /\ step[q] = "profile" /\ \A r \in Runs : r # q => pc'[r] = pc[r]
    BY <1>9 DEF Profile, Go, TypeOK
  <2>3. ASSUME NEW r \in Runs, r # q PROVE Filled(r)'
    BY <1>1, <1>2, <1>6, <2>2, <2>3, FilledKept
  <2>4. Filled(q)'
    BY <1>1, <1>2, <2>2 DEF Filled, Indexed
  <2> QED
    BY <2>1, <2>3, <2>4
<1>10. ASSUME NEW q \in Runs, Finish(q)
       PROVE  HolesHaveACause' /\ \A r \in Runs : Filled(r)'
  <2>1. Filled(q) /\ pc[q] = "finish" /\ UNCHANGED <<storeVars, step, gaps>>
    BY <1>2, <1>10 DEF Finish
  <2>2. ASSUME NEW r \in Runs, r # q PROVE Filled(r)'
    <3>1. step'[r] = step[r] /\ pc'[r] = pc[r]
      BY <1>10, <2>2 DEF Finish, Go, TypeOK
    <3> QED
      BY <1>1, <1>2, <1>6, <3>1, FilledKept
  <2>3. pc'[q] \in {"status", "handover"}
    BY <1>10 DEF Finish, Go, TypeOK
  <2>4. Filled(q)'
    BY <2>1, <2>3 DEF Filled, Indexed, InEs
  <2>5. stage' = Reached(step[q])
    BY <1>3, <1>10 DEF Finish, Store
  <2>6. stage' \in {"INDEXED", "PROFILED"} => step[q] \in {"index", "profile"}
    BY <2>5 DEF Reached, Steps, TypeOK
  <2>7. HolesHaveACause'
    BY <2>1, <2>6 DEF HolesHaveACause, Filled, Indexed, InEs
  <2> QED
    BY <2>2, <2>4, <2>7
<1>11. ASSUME NEW q \in Runs, RetryDocument(q) PROVE Same /\ Quiet
  BY <1>6, <1>11 DEF RetryDocument, Go, TypeOK, Same, Quiet
<1>12. ASSUME NEW q \in Runs, BeginFails(q) PROVE Same /\ Quiet
  BY <1>6, <1>12 DEF BeginFails, DeadLetter, StartUndo, Go, TypeOK, Same, Quiet
<1>13. ASSUME NEW q \in Runs, Fail(q) PROVE Same /\ Quiet
  <2>1. step[q] # "index"
    BY <1>1, <1>13 DEF Fail, DeadLetter, StartUndo, FirstUndo, Gaining
  <2> QED
    BY <1>6, <1>13, <2>1 DEF Fail, DeadLetter, StartUndo, Go, TypeOK, Same, Quiet
<1>14. ASSUME NEW q \in Runs, FailProfile(q) PROVE Same /\ Quiet
  BY <1>6, <1>14 DEF FailProfile, RetryOrBury, DeadLetter, StartUndo, Go, TypeOK, Same, Quiet
<1>15. ASSUME NEW q \in Runs, Crash(q) PROVE Same /\ Quiet
  BY <1>6, <1>15 DEF Crash, Again, DeadLetter, StartUndo, Go, TypeOK, Same, Quiet
<1>16. ASSUME NEW a \in Actors, Undo(a) PROVE Same /\ Quiet
  <2>1. Same
    <3>1. stage' \in {stage, PreviousStage(step[a])} /\ step[a] \in Steps \ {"profile"}
      BY <1>16 DEF Undo, UndoEffect, Store, Shape, TypeOK
    <3> QED
      BY <3>1 DEF PreviousStage, Steps, Same
  <2>2. Quiet
    BY <1>6, <1>16 DEF Undo, RetryOrBury, DeadLetter, StartUndo, Go, TypeOK, Quiet
  <2> QED
    BY <2>1, <2>2
<1>17. ASSUME NEW a \in Actors, UndoFails(a) \/ MarkFails(a) PROVE Same /\ Quiet
  BY <1>6, <1>17 DEF UndoFails, MarkFails, RetryOrBury, DeadLetter, StartUndo, Go, TypeOK, Same,
     Quiet
<1>18. ASSUME NEW a \in Actors, Mark(a) PROVE Same /\ Quiet
  BY <1>6, <1>18 DEF Mark, Store, Go, TypeOK, Same, Quiet
<1>19. CASE Cleanup
  <2>1. Cleaner \notin Runs /\ UNCHANGED stage /\ \A r \in Runs : step'[r] = step[r] /\ pc'[r] = pc[r]
    BY <1>19 DEF Cleanup, StartUndo, Go, TypeOK
  <2> QED
    BY <1>4, <1>5, <1>6, <2>1 DEF Same, Quiet
<1>20. CASE DeleteCheck \/ DeleteStores \/ DeleteRows \/ DeleteFails \/ Reconcile \/ ReconcileFails
  <2>1. UNCHANGED <<stage, step, pc>>
    BY <1>20 DEF DeleteCheck, DeleteStores, DeleteRows, DeleteFails, Reconcile, ReconcileStart,
       ReconcilePg, ReconcileEs, ReconcileFails, Gaining
  <2> QED
    BY <1>4, <1>5, <1>6, <2>1 DEF Same, Quiet
<1>21. CASE UNCHANGED vars
  BY <1>4, <1>5, <1>6, <1>21 DEF vars, Same, Quiet
<1>22. ASSUME NEW q \in Runs, RecordBuild(q)
       PROVE  Same /\ \A r \in Runs : Filled(r)'
  <2>1. /\ Same /\ pc[q] = "status" /\ step[q] = "index" /\ UNCHANGED <<storeVars, step, gaps>>
        /\ pc' = [pc EXCEPT ![q] = "handover"]
    BY <1>22 DEF RecordBuild, Go, Shape, Same
  <2>2. ASSUME NEW r \in Runs, r # q PROVE Filled(r)'
    BY <1>1, <1>2, <1>6, <2>1, <2>2, FilledKept DEF TypeOK
  <2>3. Filled(q)'
    BY <1>2, <2>1 DEF TypeOK, Filled, Indexed, InEs
  <2> QED
    BY <2>1, <2>2, <2>3
<1>23. ASSUME NEW q \in Runs, HandOver(q)
       PROVE  Same /\ \A r \in Runs : Filled(r)'
  <2>1. Same /\ pc[q] = "handover" /\ UNCHANGED <<storeVars, gaps>>
    BY <1>23 DEF HandOver, Same
  <2>2. ASSUME NEW r \in Runs, r # q PROVE Filled(r)'
    <3>1. step'[r] = step[r] /\ pc'[r] = pc[r]
      BY <1>23, <2>2 DEF HandOver, Go, TypeOK
    <3> QED
      BY <1>1, <1>2, <1>6, <3>1, FilledKept
  <2>3. \/ pc'[q] = "over" /\ step[q] = "profile" /\ step'[q] = step[q]
        \/ pc'[q] = "queued" /\ step[q] # "profile" /\ step'[q] = NextStep(step[q])
    BY <1>23 DEF HandOver, Go, TypeOK
  <2>4. step[q] \in Steps
    BY DEF TypeOK
  <2>5. Filled(q)'
    BY <1>2, <2>1, <2>3, <2>4 DEF Filled, Indexed, InEs, NextStep, Steps
  <2> QED
    BY <2>1, <2>2, <2>5
<1>24. ASSUME NEW p \in Runs, NEW q \in Runs, Fork(p, q)
       PROVE  Same /\ \A r \in Runs : Filled(r)'
  <2>1. /\ Same /\ pc[p] = "handover" /\ p # q /\ step[p] # "profile"
        /\ UNCHANGED <<storeVars, gaps>>
    BY <1>24 DEF Fork, Same
  <2>2. /\ pc'[p] = "queued" /\ step'[p] = NextStep(step[p])
        /\ pc'[q] = "queued" /\ step'[q] = step[p]
        /\ \A r \in Runs : r \notin {p, q} => pc'[r] = pc[r] /\ step'[r] = step[r]
    BY <1>24, <2>1 DEF Fork, TypeOK
  <2>3. step[p] \in Steps /\ Filled(p)
    BY <1>2 DEF TypeOK
  <2>4. Filled(p)'
    BY <2>1, <2>2, <2>3 DEF Filled, Indexed, InEs, NextStep, Steps
  <2>5. Filled(q)'
    BY <2>1, <2>2, <2>3 DEF Filled, Indexed
  <2>6. ASSUME NEW r \in Runs, r \notin {p, q} PROVE Filled(r)'
    BY <1>1, <1>2, <1>6, <2>2, <2>6, FilledKept
  <2> QED
    BY <2>1, <2>4, <2>5, <2>6
<1> QED
  BY <1>4, <1>5, <1>7, <1>8, <1>9, <1>10, <1>11, <1>12, <1>13, <1>14, <1>15, <1>16, <1>17, <1>18,
     <1>19, <1>20, <1>21, <1>22, <1>23, <1>24 DEF Next, Proceed, Compensate

\* A document that says INDEXED has chunks, blocks and vectors, and documents in
\* ES, unless a failed vectorize or index task was compensated or (ES alone) an
\* index task has emptied ES or had documents refused: for any number of chains,
\* forks, overlaps, retries, redeliveries and faults there is no other cause.
THEOREM EveryHoleHasACause == Spec => []HolesHaveACause
<1>1. Init => FilledInv
  <2>1. Init => \A r \in Runs : step[r] = "parse" /\ pc[r] \in {"new", "queued"}
    BY Ranges DEF Init
  <2> QED
    BY <2>1 DEF FilledInv, Filled, HolesHaveACause, Init, Indexed
<1>2. IInv /\ FilledInv /\ [Next]_vars => FilledInv'
  BY FilledStep DEF IInv
<1>3. FilledInv => HolesHaveACause
  BY DEF FilledInv, Gaining, HolesHaveACause
<1> QED
  BY <1>1, <1>2, <1>3, Inductive, PTL DEF Spec
=============================================================================
