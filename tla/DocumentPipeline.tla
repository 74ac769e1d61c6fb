-------------------------- MODULE DocumentPipeline --------------------------
(***************************************************************************)
(* The Celery chain parse -> chunk -> vectorize -> index -> profile for    *)
(* ONE document (app/document/tasks), with its retries, its compensation,  *)
(* the dead letter handler (dlq.py), the jobs cleanup_orphan_documents and *)
(* reconcile_indexes, and what manage/service/document_service.py does to  *)
(* the document meanwhile: retry_document and delete_document.             *)
(*                                                                         *)
(* A run is one chain; run 1 is the one of the upload.  What a stage       *)
(* leaves in a store is represented by the run that wrote it, in ES by the *)
(* set of these runs, because an index task may fail to remove what an     *)
(* earlier run left (chunk ids are made from their content).  Every        *)
(* transaction, and every call of ES, is one action.  A chain forks when a *)
(* task is delivered again although it has queued its successor: the fork  *)
(* is a run of its own.  The stage log, the structure nodes, the graph in  *)
(* Neo4j (written and removed along with the ES index) and the objects in  *)
(* MinIO are left out.                                                     *)
(***************************************************************************)
EXTENDS Naturals

CONSTANTS
    MaxRuns,      \* bound: the upload, the calls of retry_document, the forks
    MaxRetries,   \* max_retries of the tasks
    MaxFaults     \* bound: exceptions and worker crashes

ASSUME PipelineAssumption ==
    /\ MaxRuns \in Nat \ {0}
    /\ MaxRetries \in Nat
    /\ MaxFaults \in Nat

Runs == 1..MaxRuns
Cleaner == 0            \* the job cleanup_orphan_documents
Actors == 0..MaxRuns    \* those who compensate
Nothing == 0            \* a store without data of the document

VARIABLES
    exists,        \* the row of the document in MySQL
    parseStatus,   \* parse_status
    indexStatus,   \* index_status
    stage,         \* pipeline_stage
    parents,       \* MySQL parent blocks
    chunks,        \* MySQL chunks
    vectors,       \* PGVector rows
    index,         \* ES documents, of each of these runs
    step,          \* the task of the chain that is due, or that failed
    pc,            \* where this task is
    undoing,       \* the next transaction of _compensate_async
    tries,         \* request.retries of the task
    deleting,      \* how far delete_document is
    reconciling,   \* how far reconcile_indexes is
    sawDocument,   \* its snapshot of MySQL held the document
    faults,        \* exceptions and crashes so far
    undone,        \* history: who compensated vectorize or index
    overlap,       \* history: a run began before the last one ended
    gaps           \* history: who emptied ES and has not filled it again, or had
                   \* documents refused by it

rowVars == <<exists, parseStatus, indexStatus, stage>>
storeVars == <<parents, chunks, vectors, index>>
taskVars == <<step, pc, undoing, tries>>
jobVars == <<deleting, reconciling, sawDocument>>
historyVars == <<undone, overlap, gaps>>
vars == <<rowVars, storeVars, taskVars, jobVars, faults, historyVars>>

Steps == {"parse", "chunk", "vectorize", "index", "profile"}
Stages == {"INIT", "PARSED", "CHUNKED", "VECTORIZED", "INDEXED", "PROFILED",
           "FAILED"}

TypeOK ==
    /\ exists \in BOOLEAN
    /\ parseStatus \in {"parsing", "success", "failed"}
    /\ indexStatus \in {"waiting", "success", "failed"}
    /\ stage \in Stages
    /\ parents \in 0..MaxRuns
    /\ chunks \in 0..MaxRuns
    /\ vectors \in 0..MaxRuns
    /\ index \subseteq Runs
    /\ step \in [Actors -> Steps]
    /\ pc \in [Actors -> {"new", "queued", "redelivered", "work", "store",
                          "finish", "status", "handover", "undo", "bury",
                          "mark", "over"}]
    /\ undoing \in [Actors -> {"rows", "vectors", "index", "stage"}]
    /\ tries \in [Actors -> 0..MaxRetries]
    /\ deleting \in {"no", "stores", "rows", "failed", "done"}
    /\ reconciling \in {"idle", "pg", "es"}
    /\ sawDocument \in BOOLEAN
    /\ faults \in 0..MaxFaults
    /\ undone \subseteq Actors
    /\ overlap \in BOOLEAN
    /\ gaps \subseteq Runs

\* upload_document() has committed and has triggered the first chain.
Init ==
    /\ exists = TRUE
    /\ parseStatus = "parsing"
    /\ indexStatus = "waiting"
    /\ stage = "INIT"
    /\ parents = Nothing
    /\ chunks = Nothing
    /\ vectors = Nothing
    /\ index = {}
    /\ step = [a \in Actors |-> "parse"]
    /\ pc = [a \in Actors |-> IF a = 1 THEN "queued" ELSE "new"]
    /\ undoing = [a \in Actors |-> "stage"]
    /\ tries = [a \in Actors |-> 0]
    /\ deleting = "no"
    /\ reconciling = "idle"
    /\ sawDocument = TRUE
    /\ faults = 0
    /\ undone = {}
    /\ overlap = FALSE
    /\ gaps = {}
-----------------------------------------------------------------------------
Go(a, p) == pc' = [pc EXCEPT ![a] = p]

\* An update of, or an insert for, a document that has a row in MySQL.
Store(new, old) == IF exists THEN new ELSE old

Fault == faults < MaxFaults /\ faults' = faults + 1

\* The row of the task says RUNNING, for get_active_task_count() (or, while a
\* task that had written SUCCESS compensates, may say it).
Active(r) == pc[r] \in {"redelivered", "work", "store", "finish", "undo"}

NextStep(s) ==
    CASE s = "parse" -> "chunk"
      [] s = "chunk" -> "vectorize"
      [] s = "vectorize" -> "index"
      [] s = "index" -> "profile"

\* Mutant: the stage of the task that is next.
MutReached(s) ==
    CASE s = "parse" -> "CHUNKED"
      [] s = "chunk" -> "VECTORIZED"
      [] s = "vectorize" -> "INDEXED"
      [] OTHER -> "PROFILED"

Reached(s) ==
    CASE s = "parse" -> "PARSED"
      [] s = "chunk" -> "CHUNKED"
      [] s = "vectorize" -> "VECTORIZED"
      [] s = "index" -> "INDEXED"
      [] s = "profile" -> "PROFILED"

\* _previous_stage()
PreviousStage(s) ==
    CASE s = "parse" -> "INIT"
      [] s = "chunk" -> "PARSED"
      [] s = "vectorize" -> "CHUNKED"
      [] s = "index" -> "VECTORIZED"

\* A worker takes the task and _record_task() sets its row to RUNNING.
Begin(r) ==
    /\ pc[r] \in {"queued", "redelivered"}
    /\ Go(r, "work")
    /\ UNCHANGED <<rowVars, storeVars, step, undoing, tries, jobVars, faults,
                   historyVars>>

\* The transaction of task_parse_document.
Parse(r) ==
    /\ pc[r] = "work" /\ step[r] = "parse"
    /\ parseStatus' = Store("success", parseStatus)
    /\ Go(r, "finish")
    /\ UNCHANGED <<exists, indexStatus, stage, storeVars, step, undoing, tries,
                   jobVars, faults, historyVars>>

\* build_chunks() replaces the parent blocks; the chunks travel in the result.
Chunk(r) ==
    /\ pc[r] = "work" /\ step[r] = "chunk"
    /\ parents' = Store(r, parents)
    /\ Go(r, "finish")
    /\ UNCHANGED <<rowVars, chunks, vectors, index, step, undoing, tries,
                   jobVars, faults, historyVars>>

\* _write_to_pgvector() replaces the vectors.  It does not look for the row (the
\* chunks of a document that was gone before carry the id 0).
Vectorize(r) ==
    /\ pc[r] = "work" /\ step[r] = "vectorize"
    /\ vectors' = r
    /\ Go(r, "store")
    /\ UNCHANGED <<rowVars, parents, chunks, index, step, undoing, tries,
                   jobVars, faults, historyVars>>

\* Mutant: a redelivered task does not replace the chunks it finds.
MutStoreChunks(r) == chunks' = IF chunks = Nothing THEN Store(r, chunks) ELSE chunks
StoreChunks(r) == chunks' = Store(r, chunks)

\* _save_mysql_document_chunks_async()
SaveChunks(r) ==
    /\ pc[r] = "store" /\ step[r] = "vectorize"
    /\ StoreChunks(r)
    /\ Go(r, "finish")
    /\ UNCHANGED <<rowVars, parents, vectors, index, step, undoing, tries,
                   jobVars, faults, historyVars>>

\* index_to_es() first removes the documents in ES (delete_by_query); an error
\* of that is only logged.
DeleteEs(r) ==
    /\ pc[r] = "work" /\ step[r] = "index"
    /\ \/ index' = {} /\ gaps' = {r} /\ UNCHANGED faults
       \/ Fault /\ UNCHANGED <<index, gaps>>
    /\ Go(r, "store")
    /\ UNCHANGED <<rowVars, parents, chunks, vectors, step, undoing, tries,
                   jobVars, undone, overlap>>

\* Then it writes its own (bulk).  The errors of single documents are only
\* logged, and the task does not look at the number that was written.
IndexEs(r) ==
    /\ pc[r] = "store" /\ step[r] = "index"
    /\ \/ index' = index \cup {r} /\ gaps' = gaps \ {r} /\ UNCHANGED faults
       \/ Fault /\ index' \in {index, index \cup {r}} /\ gaps' = gaps \cup {r}
    /\ Go(r, "finish")
    /\ UNCHANGED <<rowVars, parents, chunks, vectors, step, undoing, tries,
                   jobVars, undone, overlap>>

\* generate_profile(); an exception in it is swallowed, and the task is then
\* recorded as failed without PROFILED.
Profile(r) ==
    /\ pc[r] = "work" /\ step[r] = "profile"
    /\ \/ Go(r, "finish")
       \/ Go(r, "over")
    /\ UNCHANGED <<rowVars, storeVars, step, undoing, tries, jobVars, faults,
                   historyVars>>

\* The task has succeeded: its row says SUCCESS, then pipeline_stage is written.
\* (Only delete_document reads the row of the task, and nothing that it does
\* between these two transactions depends on the stage: they are one action.)
Finish(r) ==
    /\ pc[r] = "finish"
    /\ stage' = Store(Reached(step[r]), stage)
    /\ Go(r, IF step[r] = "index" THEN "status" ELSE "handover")
    /\ UNCHANGED <<exists, parseStatus, indexStatus, storeVars, step, undoing,
                   tries, jobVars, faults, historyVars>>

\* _update_index_build_result() with BUILD_SUCCESS.
RecordBuild(r) ==
    /\ pc[r] = "status"
    /\ indexStatus' = Store("success", indexStatus)
    /\ Go(r, "handover")
    /\ UNCHANGED <<exists, parseStatus, stage, storeVars, step, undoing, tries,
                   jobVars, faults, historyVars>>

\* The task returns: Celery queues the next one of the chain and acknowledges.
HandOver(r) ==
    /\ pc[r] = "handover"
    /\ IF step[r] = "profile"
       THEN Go(r, "over") /\ UNCHANGED <<step, tries>>
       ELSE /\ Go(r, "queued")
            /\ step' = [step EXCEPT ![r] = NextStep(@)]
            /\ tries' = [tries EXCEPT ![r] = 0]
    /\ UNCHANGED <<rowVars, storeVars, undoing, jobVars, faults, historyVars>>

\* The worker dies after it has queued the next task and before it acknowledges
\* (task_acks_late): the chain goes on, and q, the task delivered again, will
\* queue its successor as well.
Fork(r, q) ==
    /\ pc[r] = "handover"
    /\ step[r] # "profile"
    /\ pc[q] = "new"
    /\ \A p \in Runs : p < q => pc[p] # "new"
    /\ Fault
    /\ pc' = [pc EXCEPT ![r] = "queued", ![q] = "queued"]
    /\ step' = [step EXCEPT ![r] = NextStep(@), ![q] = step[r]]
    /\ tries' = [tries EXCEPT ![r] = 0, ![q] = tries[r]]
    /\ overlap' = TRUE
    /\ UNCHANGED <<rowVars, storeVars, undoing, jobVars, undone, gaps>>
-----------------------------------------------------------------------------
\* The transactions of _compensate_async(), in their order.
FirstUndo(s) == IF s \in {"vectorize", "index"} THEN "rows" ELSE "stage"
NextUndo(s, u) ==
    IF u = "rows" THEN "vectors"
    ELSE IF u = "vectors" /\ s = "index" THEN "index"
    ELSE "stage"

\* Mutant: the vectors stay.
MutUndoVectors == UNCHANGED vectors
UndoVectors == vectors' = Store(Nothing, vectors)

UndoEffect(a) ==
    \/ /\ undoing[a] = "rows"
       /\ chunks' = Store(Nothing, chunks)
       /\ parents' = Store(Nothing, parents)
       /\ UNCHANGED <<stage, vectors, index>>
    \/ /\ undoing[a] = "vectors"
       /\ UndoVectors
       /\ UNCHANGED <<stage, parents, chunks, index>>
    \/ \* An error of ES is only logged.
       /\ undoing[a] = "index"
       /\ index' \in {index, Store({}, index)}
       /\ UNCHANGED <<stage, parents, chunks, vectors>>
    \/ /\ undoing[a] = "stage"
       /\ stage' = Store(PreviousStage(step[a]), stage)
       /\ UNCHANGED storeVars

\* A compensation begins, in the task (undo) or in the dead letter handler or
\* the cleanup job (bury).
StartUndo(a, p, s) ==
    /\ Go(a, p)
    /\ undoing' = [undoing EXCEPT ![a] = FirstUndo(s)]
    /\ undone' = IF FirstUndo(s) = "rows" THEN undone \cup {a} ELSE undone

\* _on_task_failure(): it compensates (not for profile) and then marks.
DeadLetter(a) ==
    IF step[a] = "profile"
    THEN Go(a, "mark") /\ UNCHANGED <<undoing, undone>>
    ELSE StartUndo(a, "bury", step[a])

\* Mutant: one retry too many.
MutRetryOrBury(a) ==
    IF tries[a] <= MaxRetries
    THEN /\ Go(a, "queued")
         /\ tries' = [tries EXCEPT ![a] = @ + 1]
         /\ UNCHANGED <<undoing, undone>>
    ELSE DeadLetter(a) /\ UNCHANGED tries

\* self.retry(): queued again, or after max_retries the exception itself.
RetryOrBury(a) ==
    IF tries[a] < MaxRetries
    THEN /\ Go(a, "queued")
         /\ tries' = [tries EXCEPT ![a] = @ + 1]
         /\ UNCHANGED <<undoing, undone>>
    ELSE DeadLetter(a) /\ UNCHANGED tries

\* What precedes the try block raises: no retry and no compensation in the task.
BeginFails(r) ==
    /\ pc[r] \in {"queued", "redelivered"}
    /\ Fault
    /\ DeadLetter(r)
    /\ UNCHANGED <<rowVars, storeVars, step, tries, jobVars, overlap, gaps>>

\* The task raises; a bulk that does may have written its documents.  The handler
\* of the index task first writes BUILD_FAILED, and when that raises too nothing
\* else in it runs.
Fail(r) ==
    /\ pc[r] \in {"work", "store", "finish", "status"}
    /\ step[r] # "profile"
    /\ Fault
    /\ index' \in {index} \cup (IF step[r] = "index" /\ pc[r] = "store"
                                THEN {index \cup {r}} ELSE {})
    /\ \/ /\ StartUndo(r, "undo", step[r])
          /\ indexStatus' = IF step[r] = "index" THEN Store("failed", indexStatus)
                            ELSE indexStatus
       \/ /\ step[r] = "index"
          /\ DeadLetter(r)
          /\ UNCHANGED indexStatus
    /\ UNCHANGED <<exists, parseStatus, stage, parents, chunks, vectors, step,
                   tries, jobVars, overlap, gaps>>

\* The handler of the profile task retries, unless recording the failure raises.
FailProfile(r) ==
    /\ pc[r] \in {"work", "finish"}
    /\ step[r] = "profile"
    /\ Fault
    /\ \/ RetryOrBury(r)
       \/ DeadLetter(r) /\ UNCHANGED tries
    /\ UNCHANGED <<rowVars, storeVars, step, jobVars, overlap, gaps>>

\* One transaction of a compensation.
Undo(a) ==
    /\ pc[a] \in {"undo", "bury"}
    /\ UndoEffect(a)
    /\ IF undoing[a] # "stage"
       THEN /\ undoing' = [undoing EXCEPT ![a] = NextUndo(step[a], @)]
            /\ UNCHANGED <<pc, tries, undone>>
       ELSE IF pc[a] = "undo" THEN RetryOrBury(a)
       ELSE Go(a, "mark") /\ UNCHANGED <<undoing, tries, undone>>
    /\ UNCHANGED <<exists, parseStatus, indexStatus, step, jobVars, faults,
                   overlap, gaps>>

\* A transaction of a compensation raises: the task suppresses that, the dead
\* letter handler and the cleanup job end.
UndoFails(a) ==
    /\ pc[a] \in {"undo", "bury"}
    /\ Fault
    /\ IF pc[a] = "undo" THEN RetryOrBury(a)
       ELSE Go(a, IF a = Cleaner THEN "new" ELSE "over")
            /\ UNCHANGED <<undoing, tries, undone>>
    /\ UNCHANGED <<rowVars, storeVars, step, jobVars, overlap, gaps>>

\* _update_document_failed()
Mark(a) ==
    /\ pc[a] = "mark"
    /\ parseStatus' = Store("failed", parseStatus)
    /\ stage' = Store("FAILED", stage)
    /\ Go(a, IF a = Cleaner THEN "new" ELSE "over")
    /\ UNCHANGED <<exists, indexStatus, storeVars, step, undoing, tries,
                   jobVars, faults, historyVars>>

MarkFails(a) ==
    /\ pc[a] = "mark"
    /\ Fault
    /\ Go(a, IF a = Cleaner THEN "new" ELSE "over")
    /\ UNCHANGED <<rowVars, storeVars, step, undoing, tries, jobVars,
                   historyVars>>

\* What the row of a task says when the task is delivered again: RUNNING, or not
\* (at its end, the one or the other).
Again(r) ==
    {IF Active(r) THEN "redelivered" ELSE "queued"}
        \cup (IF pc[r] = "finish" THEN {"queued"} ELSE {})

\* The worker dies (task_acks_late): the broker delivers the task again.  When
\* only its child process dies, Celery reports the failure.
Crash(r) ==
    /\ pc[r] \in {"work", "store", "finish", "status", "handover", "undo",
                  "bury", "mark"}
    /\ Fault
    /\ \/ /\ \E p \in Again(r) : Go(r, p)
          /\ UNCHANGED <<undoing, undone>>
       \/ DeadLetter(r)
    /\ UNCHANGED <<rowVars, storeVars, step, tries, jobVars, overlap, gaps>>
-----------------------------------------------------------------------------
\* Mutant: VECTORIZED is left out.
MutStalled == stage \in {"PARSED", "CHUNKED"}

\* The stages cleanup_orphan_documents() looks for.
Stalled == stage \in {"PARSED", "CHUNKED", "VECTORIZED"}

\* It acts on documents without a change for two hours; here: without a chain.
Cleanup ==
    /\ pc[Cleaner] = "new"
    /\ exists
    /\ Stalled
    /\ \A r \in Runs : pc[r] \in {"new", "over"}
    /\ LET s == CASE stage = "PARSED" -> "chunk"
                  [] stage = "CHUNKED" -> "vectorize"
                  [] stage = "VECTORIZED" -> "index"
       IN  step' = [step EXCEPT ![Cleaner] = s] /\ StartUndo(Cleaner, "bury", s)
    /\ UNCHANGED <<rowVars, storeVars, tries, jobVars, faults, overlap,
                   gaps>>

\* retry_document(): nothing tells whether the last chain has ended.
RetryDocument(r) ==
    /\ pc[r] = "new"
    /\ \A q \in Runs : q < r => pc[q] # "new"
    /\ exists
    /\ parseStatus = "failed" \/ indexStatus = "failed"
    /\ parseStatus' = "parsing"
    /\ indexStatus' = "waiting"
    /\ Go(r, "queued")
    /\ overlap' = (overlap \/ \E a \in Actors : pc[a] \notin {"new", "over"})
    /\ UNCHANGED <<exists, stage, storeVars, step, undoing, tries, jobVars,
                   faults, undone, gaps>>

\* delete_document(): the check, the other stores (an error is only logged),
\* and the MySQL transaction (the columns of a row that is gone mean nothing).
DeleteCheck ==
    /\ exists
    /\ deleting \in {"no", "failed"}
    /\ \A r \in Runs : ~Active(r)
    /\ deleting' = "stores"
    /\ UNCHANGED <<rowVars, storeVars, taskVars, reconciling, sawDocument,
                   faults, historyVars>>

DeleteStores ==
    /\ deleting = "stores"
    /\ vectors' \in {vectors, Nothing}
    /\ index' \in {index, {}}
    /\ deleting' = "rows"
    /\ UNCHANGED <<rowVars, parents, chunks, taskVars, reconciling,
                   sawDocument, faults, historyVars>>

DeleteRows ==
    /\ deleting = "rows"
    /\ exists' = FALSE
    /\ parseStatus' = "parsing" /\ indexStatus' = "waiting" /\ stage' = "INIT"
    /\ parents' = Nothing
    /\ chunks' = Nothing
    /\ deleting' = "done"
    /\ UNCHANGED <<vectors, index, taskVars, reconciling, sawDocument, faults,
                   historyVars>>

\* The transaction is rolled back.
DeleteFails ==
    /\ deleting = "rows"
    /\ Fault
    /\ deleting' = "failed"
    /\ UNCHANGED <<rowVars, storeVars, taskVars, reconciling, sawDocument,
                   historyVars>>

\* reconcile_indexes(): the ids in MySQL, then each store against them.
ReconcileStart ==
    /\ reconciling = "idle"
    /\ sawDocument' = exists
    /\ reconciling' = "pg"
    /\ UNCHANGED <<rowVars, storeVars, taskVars, deleting, faults, historyVars>>

\* Mutant: nothing is taken for an orphan.
MutOrphan(store, none) == store
\* _compute_orphans(): what is stored for a document MySQL did not have.
Orphan(store, none) == IF sawDocument THEN store ELSE none

ReconcilePg ==
    /\ reconciling = "pg"
    /\ vectors' = Orphan(vectors, Nothing)
    /\ reconciling' = "es"
    /\ UNCHANGED <<rowVars, parents, chunks, index, taskVars, deleting,
                   sawDocument, faults, historyVars>>

ReconcileEs ==
    /\ reconciling = "es"
    /\ index' = Orphan(index, {})
    /\ reconciling' = "idle"
    /\ UNCHANGED <<rowVars, parents, chunks, vectors, taskVars, deleting,
                   sawDocument, faults, historyVars>>

\* PG raises, or ES fails (which is only logged).
ReconcileFails ==
    /\ reconciling \in {"pg", "es"}
    /\ Fault
    /\ reconciling' = "idle"
    /\ UNCHANGED <<rowVars, storeVars, taskVars, deleting, sawDocument,
                   historyVars>>
-----------------------------------------------------------------------------
Proceed(r) ==
    \/ Begin(r) \/ Parse(r) \/ Chunk(r) \/ Vectorize(r) \/ SaveChunks(r)
    \/ DeleteEs(r) \/ IndexEs(r) \/ Profile(r)
    \/ Finish(r) \/ RecordBuild(r) \/ HandOver(r)

Compensate(a) == Undo(a) \/ Mark(a)

Reconcile == ReconcileStart \/ ReconcilePg \/ ReconcileEs

Next ==
    \/ \E r \in Runs : \/ Proceed(r) \/ RetryDocument(r)
                       \/ BeginFails(r) \/ Fail(r) \/ FailProfile(r) \/ Crash(r)
                       \/ \E q \in Runs : Fork(r, q)
    \/ \E a \in Actors : Compensate(a) \/ UndoFails(a) \/ MarkFails(a)
    \/ Cleanup
    \/ DeleteCheck \/ DeleteStores \/ DeleteRows \/ DeleteFails
    \/ Reconcile \/ ReconcileFails

Spec == Init /\ [][Next]_vars

\* Celery delivers every queued task, and beat starts both jobs every day.
Fairness ==
    /\ \A r \in Runs : WF_vars(Proceed(r))
    /\ \A a \in Actors : WF_vars(Compensate(a))
    /\ WF_vars(Cleanup)
    /\ WF_vars(Reconcile)

FairSpec == Spec /\ Fairness
-----------------------------------------------------------------------------
\* The index task of r has returned from ES.
Indexed(r) ==
    \/ step[r] = "profile"
    \/ step[r] = "index" /\ pc[r] \in {"finish", "status", "handover"}

\* However often its tasks were delivered and whatever earlier runs left there,
\* a chain that was not compensated, overlapped, forked or deleted ends with its
\* own data in all four stores (in ES perhaps next to an earlier run's), but for
\* the documents that ES refused one by one.
StoresAgree ==
    \A r \in Runs :
        /\ pc[r] # "new" /\ Indexed(r)
        /\ r \notin undone /\ ~overlap /\ deleting = "no"
        /\ \A q \in Runs : q > r => pc[q] = "new"
        => <<parents, chunks, vectors>> = <<r, r, r>> /\ r \in index \cup gaps

\* The compensation of a's failure ended before it had emptied these stores.
GivenUp(a) == undoing[a] \in {"rows", "vectors"}

\* What a chain that is over has left in the vector store and the chunk table of
\* a document is there because all but its profile was done, or because its
\* compensation was given up: otherwise a failed run can not be retrieved, at
\* whichever try, task or transaction it failed, whatever was redelivered and
\* whatever other chains, the jobs or a delete did meanwhile.
FailedRunLeavesNothing ==
    exists => \A r \in Runs :
        pc[r] = "over" /\ r \in {vectors, chunks}
            => step[r] = "profile" \/ GivenUp(r)

\* A document does not stay between two stages: its chain, the dead letter
\* handler or the cleanup job brings it to an end.
Between == exists /\ stage \in {"PARSED", "CHUNKED", "VECTORIZED"}
StallsAreResolved == Between ~> ~Between

\* What a chain writes for a document deleted meanwhile is removed.
OrphansAreRemoved ==
    /\ ~exists /\ vectors # Nothing ~> vectors = Nothing
    /\ ~exists /\ index # {} ~> index = {}

\* enums.py:246: pipeline_stage names "the last step that was completed".  A
\* document at INDEXED or PROFILED has the results of all steps before, when ES
\* has refused nothing.
IndexedIsComplete ==
    /\ exists /\ deleting = "no" /\ ~overlap /\ gaps = {}
    /\ stage \in {"INDEXED", "PROFILED"}
    => Nothing \notin {parents, chunks, vectors} /\ index # {}

\* That is so as long as no failed vectorize or index task was compensated and ES
\* took every document, whatever else failed, was retried, overlapped, forked,
\* crashed or was delivered again.  A document that claims a step whose results
\* are gone was compensated, or misses in ES alone what a task has removed there
\* and not written (yet, or for the errors of single documents).
HolesHaveACause ==
    undone = {} /\ deleting = "no" /\ stage \in {"INDEXED", "PROFILED"} =>
        Nothing \notin {parents, chunks, vectors} /\ (index # {} \/ gaps # {})
=============================================================================
