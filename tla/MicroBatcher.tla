----------------------------- MODULE MicroBatcher -----------------------------
(* The micro batcher of the judging service (jev_service/batching.py with   *)
(* the request handler of server.py).  A request puts its job with a future *)
(* into a queue and waits at most 60 s; a worker coroutine takes the jobs   *)
(* that come within a window, has a thread run them together, and hands the *)
(* results to the futures.  close() cancels the worker wherever it waits.   *)
(* All of it runs in one event loop, so a step is what happens between two  *)
(* suspensions.  A result is the job it was computed for.                   *)
EXTENDS Naturals, Sequences, SequencesExt

CONSTANTS Callers,     \* requests, each with one job
          Loops,       \* worker coroutines that may be created
          NoLoop,
          MaxBatch,    \* max_batch
          MaxCloses    \* calls of close()

ASSUME BatcherAssumption ==
    MaxBatch \in Nat \ {0} /\ MaxCloses \in Nat /\ NoLoop \notin Loops

VARIABLES
    jobQueue,      \* _queue
    future,        \* of each request
    replyOf,       \* the job whose result a request got
    loopStep,      \* where each worker coroutine is
    loopBatch,     \* its local batch
    currentLoop,   \* _worker
    closing,       \* the worker close() waits for
    closes,        \* calls of close() so far
    dropped        \* history: what cancelled workers had taken

batchVars == <<jobQueue, future, replyOf, loopStep, loopBatch, currentLoop,
               closing, closes, dropped>>

BatchInit ==
    /\ jobQueue = <<>>
    /\ future = [c \in Callers |-> "none"]
    /\ replyOf = [c \in Callers |-> {}]
    /\ loopStep = [l \in Loops |-> "none"]
    /\ loopBatch = [l \in Loops |-> <<>>]
    /\ currentLoop = NoLoop
    /\ closing = NoLoop
    /\ closes = 0
    /\ dropped = {}

-----------------------------------------------------------------------------
Alive(l) == loopStep[l] \in {"wait", "collect", "run"}

\* start(), of which submit() makes sure.
StartLoop ==
    IF currentLoop # NoLoop /\ loopStep[currentLoop] # "dead"
    THEN UNCHANGED <<currentLoop, loopStep>>
    ELSE \E l \in Loops :
            /\ loopStep[l] = "none"
            /\ loopStep' = [loopStep EXCEPT ![l] = "wait"]
            /\ currentLoop' = l

Submit(c) ==
    /\ future[c] = "none"
    /\ StartLoop
    /\ future' = [future EXCEPT ![c] = "pending"]
    /\ jobQueue' = Append(jobQueue, c)
    /\ UNCHANGED <<replyOf, loopBatch, closing, closes, dropped>>

\* The timeout of the handler cancels the future; the job stays where it is.
Abandon(c) ==
    /\ future[c] = "pending"
    /\ future' = [future EXCEPT ![c] = "cancelled"]
    /\ UNCHANGED <<jobQueue, replyOf, loopStep, loopBatch, currentLoop, closing,
                   closes, dropped>>

\* A worker that close() has cancelled takes no step but to end.
Runnable(l, at) == loopStep[l] = at /\ closing # l

TakeJob(l) ==
    /\ jobQueue # <<>>
    /\ \/ Runnable(l, "wait")
       \/ Runnable(l, "collect") /\ Len(loopBatch[l]) < MaxBatch
    /\ jobQueue' = Tail(jobQueue)
    /\ loopBatch' = [loopBatch EXCEPT ![l] = Append(@, Head(jobQueue))]
    /\ loopStep' = [loopStep EXCEPT ![l] = "collect"]
    /\ UNCHANGED <<future, replyOf, currentLoop, closing, closes, dropped>>

\* The batch is full or the window is over.
RunBatch(l) ==
    /\ Runnable(l, "collect")
    /\ loopStep' = [loopStep EXCEPT ![l] = "run"]
    /\ UNCHANGED <<jobQueue, future, replyOf, loopBatch, currentLoop, closing,
                   closes, dropped>>

\* Mutant: jobs nobody waits for any more are left out of the run.
MutJobsRun(batch) == SelectSeq(batch, LAMBDA c : future[c] = "pending")

\* The jobs passed to run(), whose results come in the same order.
JobsRun(batch) == batch

\* The zip of the batch with the results: the place of a request decides.
ReplyTo(c, batch) ==
    {JobsRun(batch)[i] : i \in {k \in DOMAIN JobsRun(batch) : batch[k] = c}}

\* Mutant: futures that are done are not passed over.
MutWaiting(batch) == ToSet(batch)

Waiting(batch) == {c \in ToSet(batch) : future[c] = "pending"}

\* _dispatch() after the thread: each job has a result or an exception (when
\* run() itself raises, all have); a future that is done is passed over.
AnswerBatch(l) ==
    /\ Runnable(l, "run")
    /\ LET waiting == Waiting(loopBatch[l]) IN
       \E failing \in SUBSET waiting :
          /\ replyOf' = [c \in Callers |->
                IF c \in waiting \ failing THEN ReplyTo(c, loopBatch[l])
                ELSE replyOf[c]]
          /\ future' = [c \in Callers |->
                IF c \in failing THEN "failed"
                ELSE IF c \in waiting /\ replyOf'[c] # {} THEN "answered"
                ELSE future[c]]
    /\ loopStep' = [loopStep EXCEPT ![l] = "wait"]
    /\ loopBatch' = [loopBatch EXCEPT ![l] = <<>>]
    /\ UNCHANGED <<jobQueue, currentLoop, closing, closes, dropped>>

\* close(): the cancellation, the end of the worker, and _worker = None, with
\* other requests in between; a worker started meanwhile is forgotten there.
Close ==
    /\ closes < MaxCloses /\ closes' = closes + 1
    /\ closing = NoLoop /\ currentLoop # NoLoop
    /\ closing' = currentLoop
    /\ UNCHANGED <<jobQueue, future, replyOf, loopStep, loopBatch, currentLoop,
                   dropped>>

EndLoop(l) ==
    /\ closing = l /\ Alive(l)
    /\ loopStep' = [loopStep EXCEPT ![l] = "dead"]
    /\ dropped' = dropped \cup ToSet(loopBatch[l])
    /\ loopBatch' = [loopBatch EXCEPT ![l] = <<>>]
    /\ UNCHANGED <<jobQueue, future, replyOf, currentLoop, closing, closes>>

EndClose ==
    /\ closing # NoLoop /\ loopStep[closing] = "dead"
    /\ currentLoop' = NoLoop
    /\ closing' = NoLoop
    /\ UNCHANGED <<jobQueue, future, replyOf, loopStep, loopBatch, closes, dropped>>

BatchNext ==
    \/ \E c \in Callers : Submit(c) \/ Abandon(c)
    \/ \E l \in Loops : TakeJob(l) \/ RunBatch(l) \/ AnswerBatch(l) \/ EndLoop(l)
    \/ Close \/ EndClose

BatchSpec == BatchInit /\ [][BatchNext]_batchVars

-----------------------------------------------------------------------------
BatchTypeOK ==
    /\ jobQueue \in Seq(Callers)
    /\ future \in [Callers -> {"none", "pending", "answered", "failed", "cancelled"}]
    /\ replyOf \in [Callers -> SUBSET Callers]
    /\ loopStep \in [Loops -> {"none", "wait", "collect", "run", "dead"}]
    /\ loopBatch \in [Loops -> Seq(Callers)]
    /\ currentLoop \in Loops \cup {NoLoop} /\ closing \in Loops \cup {NoLoop}
    /\ closes \in 0 .. MaxCloses /\ dropped \subseteq Callers

\* A request that waits is heard: its job is queued before a worker, or one
\* worker has it, unless close() came in between; and what it gets is the
\* result of its own job, whoever of its batch gave up meanwhile and however
\* many workers a close() between two requests has left.
WaitersAreServed ==
    /\ \A c \in Callers : future[c] = "pending" =>
           \/ c \in ToSet(jobQueue) /\ ((\E l \in Loops : Alive(l)) \/ closes > 0)
           \/ \E l \in Loops : Alive(l) /\ c \in ToSet(loopBatch[l])
           \/ c \in dropped
    /\ \A c \in Callers : future[c] = "answered" => replyOf[c] = {c}

\* To its requests, the service with its queue, its workers and its shutdown is
\* one that gives each a final outcome of its own.
Judging == INSTANCE JudgeService WITH outcome <- future, reply <- replyOf

ImplementsJudgeService == Judging!Spec
=============================================================================
