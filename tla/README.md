# Verification of pipeline-rag in TLA+

pipeline-rag is a RAG chat server (FastAPI, asyncio, several uvicorn workers) with
a document pipeline (Celery) that feeds MySQL, PGVector, Elasticsearch and Neo4j.
This directory holds TLA+ models of the parts whose correctness depends on
interleavings, failures and time, TLC configurations for small instances, and
proofs, checked by TLAPS, for all values of the constants.

    tlc -workers 2 -config MCChatTurn.cfg MCChatTurn.tla     # one run
    tlapm ChatTurnProofs.tla                                 # one proof module

`PROJECT.json` lists the runs, the mutants that show each property can fail, the
source lines of every definition, the findings, the hazards and the theorems.

## Inventory

| component | state | operations | interacts with | hard because | correct when |
|---|---|---|---|---|---|
| circuit breaker `infra/circuit_breaker.py` | state, three counters, a time stamp | admit, record success or failure, call(), async with | every client of Redis, ES, the LLM | outcomes arrive in later windows; cancellation | counter and state agree; no slot is lost; it closes again |
| lease `infra/redis_lease.py` | the Redis key; per turn a renew task and failure counters | acquire, renew, is_owned, release | turns of all workers through Redis | late and lost commands, TTL against slow renewals, outages, crashes | one turn at a time; an overlap is bounded; the key is freed |
| chat turn `chat/service*.py`, `task_info.py`, `state_machine.py`, `session_service.py` | task, registry of each worker, exchange row, memory | stream, execute, finalize, stop, reset, cancel broadcast | lease, MySQL, pub/sub, executors | disconnect at any await, take-over, stop from another worker | stop reaches the turn; nothing is left behind; row, memory and state machine agree |
| document pipeline `document/tasks`, `dlq.py`, `manage/service/document_service.py` | statuses in MySQL; data in four stores; Celery queue | five tasks, retry, compensation, dead letter, daily jobs, retry and delete of a document | MySQL, PG, ES, broker | redelivery, failing compensation, operator calls during a chain | stores hold one run; failed documents are not retrievable; stalls and orphans go away |
| conversation memory `chat/memory_compressor.py`, `memory.py`, `memory_service.py` | summary row, its version and covered exchange id | compress, load, save, rebuild | turns, background tasks | snapshots, compare and set, insert conflicts against concurrent turns and rebuilds | coverage grows, no exchange is skipped or merged twice |
| response cache `chat/response_cache.py` | answers and two indexes in Redis | lookup, store, invalidate | turns, document changes | asked before and after the turn that changes the answer | no answer older than the documents |
| SSE resume buffer `api/chat_stream.py`, frontend `chat-stream.ts` | Redis list; the client's count | append, trim, expire, replay, retry | turns, clients | index into a trimmed list that several streams write | a resume misses and repeats nothing |
| fact memory, title `chat/fact_memory.py`, `chat/tasks.py` | PG rows; session title | extract, evict, retain; generate, rename | background tasks, users | limits, search then insert, check then write | a fact is stored once; the bound holds; the user's title stays |
| id generator `infra/id_generator.py` | per process the last millisecond and a sequence | next id, restart | all processes that write rows | full milliseconds, clocks set back, restarts, equal worker numbers | ids grow and are unique |
| rate limiter `infra/rate_limiter.py` | the sorted set of a client's window in Redis | admit | all requests of all workers | the clock is read before the script is sent; expiry; a client bound at import | no more than the limit in a window, and no rejection below it |
| model fallback `infra/model_fallback.py` | the index of the current model | call, switch | LLM calls | the index is moved after an await | every model is asked before a call gives up |
| admin tokens | denylist | revoke | administrators | — | outside of these models |
| JEV micro batcher `jev_service/batching.py` | queue, futures, worker | submit, collect, run, answer, time out, close | the JEV service's requests | timeouts and close between any two steps; results by place | a waiting request is heard and gets its own result |
| orchestrator `orchestrator/` | the plan of a turn | stages, fallback, clarification, navigation; split and review | LLM, route index | short cuts; documents chosen at three places | searched, selected and navigated document agree |
| executors `executors/`, `chat/service_executor.py` | draft, stored answer, citation check; layers of workers | draft, filter, review, regenerate, verify; run, merge | LLM, retrieval, the turn | several rounds over one stream, a task beside it, layers of dependencies | one safe draft is stored; nothing runs on; a plan runs whole |
| retrieval `rag/` | context and its numbers | recall, gate, fuse, filter, elevate, merge, number | stores, reranker | several merges with different keys | a citation names its evidence; corrections add |
| parsing, chunking, safety, observability, event bus, API, MCP, rest of the frontend | — | text, requests, records | — | not by interleaving | outside of these models, see below |

## Modules

| module | models | extends / instances |
|---|---|---|
| `CircuitBreaker` | one breaker with concurrent calls | |
| `IdGenerator`, `RateLimiter`, `ModelFallback` | the ids of a machine; the window of a client; the chain of models | |
| `MCInfra` | an instance of each of these three and of `CircuitBreaker`, in one run | the four |
| `LeaseService` | what a lease promises: exclusion | |
| `ConversationLease` | the lease in Redis and its managers | `LeaseService` by refinement |
| `TurnService` | what the turns of a conversation promise to those who see lease, record and memory | |
| `ChatTurn` | the turns of a conversation in several workers, over the lease | `TurnService` by refinement |
| `DocumentPipeline` | the chain of a document, its jobs and its operators | |
| `SummaryService` | what a summary stands for | |
| `ConversationMemory` | the summary row against its tasks, turns and rebuilds | `SummaryService` by refinement |
| `FactMemory` | the facts of a user against extraction tasks and deletions | |
| `SessionTitle` | the title against renames and the title task | |
| `RagAnswer` | the answer of a turn: generator, consumer, citation check | |
| `MultiAgent` | the supervisor and the parallel executor | |
| `Selections` | the sequence of some places of another one | |
| `Retrieval` | the evidence of a question over rounds and hops | `Selections` |
| `Orchestrator` | the stages from a question to a plan | `Selections` |
| `ResumeBuffer` | server streams, the Redis list and the reconnecting client | |
| `ResponseCache` | lookup, store and invalidation around a turn | |
| `JudgeService` | what a request of the judging service is promised | |
| `MicroBatcher` | the queue, the worker and the requests of the judging service | `JudgeService` by refinement |
| `MCServices` | an instance of each of the ten from `ConversationMemory` to here, in one run | the ten |
| `*Proofs` | the theorems of a component; `ExecutorProofs` of `RagAnswer` and `MultiAgent`, `EvidenceProofs` of `Orchestrator` and `Retrieval`, `ServicesProofs` of `SessionTitle`, `ResponseCache`, `MicroBatcher`, `FactMemory`, `ResumeBuffer` and `MCServices`, `InfraProofs` of `CircuitBreaker`, `IdGenerator`, `RateLimiter`, `ModelFallback` and `MCInfra` | the components, TLAPS |
| `MC*` | the constants of the runs | the component |

### CircuitBreaker
Every method body runs under the breaker's asyncio lock, so a method is an action.
`Enter` is `__aenter__` and the head of `call()`; `_should_allow()` is split into
`AllowClosed`, `AllowFirstProbe` and `AllowProbe`. `Succeed`, `Fail` and `Cancel`
are the outcomes; `Cancel` differs between the two styles, because `call()` catches
only `Exception`. `failure_count` saturates at the threshold (the code compares with
`>=` only), `sinceFailure` at the recovery time. `probes` and `lost` are history
variables and never guard a step.

### IdGenerator, RateLimiter and ModelFallback
`next_id()` runs under a lock of its process: `FreshMillisecond`, `SameMillisecond`,
`FullMillisecond` and `NextMillisecond` are its branches and its waiting loop;
`RestartProcess` loses the last time, `SetClockBack` moves the clock that all
processes of the machine read. An id is kept as its fields and the life that drew it,
and `IdOf` is its number. `ReadClock` is the time stamp a request takes before its
script is sent, up to `MaxDelay` before `RunScript`; `ScriptLost` is a request admitted
because the script raised, counted or not. `bound` is the client that
`from redis_lease import _redis` got. `ModelRaises` and `ModelLimits` are the two
kinds of error of a call; `SwitchToNext` moves the index that all calls share;
`refused` and `stale` are history.

### ConversationLease and LeaseService
`AcquireScript`, `RenewScript`, `ReleaseScript` are the Lua scripts. A Redis command
whose caller saw an error may have been applied, may be lost, or may be applied
later: `Abandon` puts it into `late`, `ApplyLate` and `DropLate` settle it, at most
`MaxLate` at a time. An acquire that was applied and then raised is
`AcquireError` followed by `ApplyLate`. Time passes in `Tick`; a due renewal is at
most `MaxLag` late. `sinceGrant` and `failedChecks` are history.
`LeaseService` has a set of granted turns and lets a grant happen only when
there is none; a manager is granted there while it works and its last acknowledged
grant is younger than the TTL. Beyond the TTL the code does not promise exclusion;
`UnnoticedLossBounded` says for how long two turns may overlap.

### ChatTurn
One action is the code between two awaits of a worker's event loop. `phase` is the place in
`stream()`; `sm`, `cancelled`, `finalized` and `flags` are the fields of `ChatTaskInfo` and
`_StreamState`; `registry` is the dictionary of each process. Here the lease is seen as
`ConversationLease` leaves it to a turn: a holder, and whether its renew task is alive;
`LeaseExpires` needs a dead renew task and `LeaseLost` is an outage longer than the TTL.
`ChunkStops` is a turn whose key is another's or gone; `LeaseDoubted` is one that `is_owned()`
stops without an answer from Redis, because its renewals were given up or ten checks failed,
whoever has the key then (`doubted` is history). A disconnect is a `CancelledError` or
`GeneratorExit`: inside the try it leads to finalization, outside nothing catches it. Cancel
broadcasts are counted per worker and may be missed; delivery cancels whatever turn is
registered then, as in the code. Fields of a finished turn go back to their initial values,
which keeps the state space small and hides nothing, since no code reads them. `TurnService`
sees of a turn whether it works, whether it was cut short, its row and its place in the memory.
Which phase, flag, registry entry or broadcast led to that is hidden from it; what it promises
is that a turn is let in once and only with a free lease, that its row goes one way and is
closed while the turn works, that only a completed turn is remembered, and that a turn is cut
short for one of five reasons: a call to stop it, a lease that is another's, a second turn at
work, no answer whether the lease is its own (`Doubt`), or a client that left.

### DocumentPipeline
A run is one Celery chain; what it left in a store is represented by its number (in ES by the
set of numbers, since a failed delete leaves the old documents there). Every transaction of a
task and every call of ES is an action: `work`, `store`, `finish`, then `status` (`RecordBuild`
writes BUILD_SUCCESS) and `handover` (the next task is queued). The index task empties ES
(`DeleteEs`) and writes its documents (`IndexEs`), any of which ES may refuse without the task
noticing. After a failure the compensation goes transaction by transaction (`Undo`), inside the
task (`undo`) or in the dead letter handler and the cleanup job (`bury`), and any of them may
raise. `Crash` gives the task back to the broker (`task_acks_late`), or reports it failed when
only the child process died; after a crash behind `handover`'s queueing the task comes again
although its successor is queued, and one chain becomes two (`Fork`). `RetryDocument`, the
delete in three steps and the reconciliation in three steps interleave with all of that.
`undone`, `overlap` and `gaps` (who emptied ES and has not filled it, or had documents refused)
are history.

### ConversationMemory
A task (`StartJob` .. `EndJob`) reads the row and the exchanges in one snapshot
(`ReadHistory`), then either inserts the first row (`CreateRow`, or `ReadConflict` when
another one was faster, then `RetryUpdate`), or updates under `summary_version`
(`UpdateRow`, `GiveUp`). `RebuildDelete` and `RebuildRead` are `rebuild_summary`. What a
summary says is the set of exchanges it was `merged` from; `epoch` counts the
deletions, `late` and `gaveUp` are history. `RecentTurns` is the window
`SummaryCompressionStrategy.load` puts into the prompt. `SummaryService` knows the completed
exchanges and the beginning of them the summary stands for; a summary that mixes two
incarnations (finding 5) is the state `"mixed"` of it, which only a rebuild can lead to.

### FactMemory and SessionTitle
`ExtractFacts` takes a task with the facts the model found; `SearchFact`, `InsertFact`
and `TrimFacts` are its statements, each committed by itself. `Evicted` is
`enforce_capacity` as it is coded. The rows are a set, ordered by `at`, the number of
their insertion (`edit_time`). `ResetFacts` and `PruneFacts` are the reset of a
conversation and the daily retention. In `SessionTitle` the finalization of a turn
(`FinishTurn`) queues the title task, which compares (`AskForTitle`), waits for the
model, and writes (`TakeTitle`); `RenameSession` comes between any two of these.

### RagAnswer
The async generator of `executors/rag.py` puts events into `ansEvents` and stands still
until `DeliverEvent` has handed each to the consumer in `service_executor.py`, which
collects `fullAnswer`. A piece of text is the number of its draft. The citation check is
a task beside both: started at the end of a safe draft, reused when its text is still
the answer (`Reusable`), cancelled otherwise. `Halt` is a stop or a lost lease,
`LoseClient` the end of the client; `SwallowCancel` is the cancellation of the turn while
it awaits the check, which the code swallows. `Finalize` is `task.finalize()`: the first call
cancels the check, a later one does nothing, and a stop is a first call. `safeDrafts`,
`citationLate` (the check was started after that) and `hungUp` are history.

### MultiAgent
`Decompose`, `Validate`, `Approve`, `Reject` are the supervisor graph with its retries; a
proposal is any set of sub-plans with any set of dependencies, on unknown ids and on itself too,
and with modes that have no executor. The validator takes sub-plans out of its queue one by one
(`VisitSubPlan`, `EndValidation`), the executor a whole queue as a layer (`AddLayer`,
`EndLayering`): two loops, as in the code. `RaiseUnregistered` is the exception that no `try` of
a worker holds; the other workers of its layer run on. `RunLayer`, `FinishWorker`,
`GatherLayer`, `Aggregate` are the two executors; `totalTokens` is the counter of the task and
`base` the copy each worker starts from, `spent` is history.

### Selections
The comprehensions with a condition in the code return the elements at some places of a
list, in their order. `AtPlaces` says so by a count (`PlaceNumber`: the place up to which
there are n), because `SelectSeq` recurses and the provers know nothing of it. For the same
reason sorting is the set of all lists in this order (`ByScore`, `Rankings`), which
also leaves the order of equal scores open, as the code does.

### Retrieval
The sub-questions of the plan are gathered in their order (`RetrieveOne`): the channels of
each recall any subset with any scores, and `SubResult` gates, fuses, filters and elevates
them. The last one ends the round and numbers the context. `CorrectRetrieval` rewrites and
asks again (`MergedByChunk`), `Hop` adds what is new (`Appended`). The lists of
the sub-questions are held one after the other. `NumberOf` numbers the context;
`References` is the list of the executor. `gathered` is the history of what was found (the
correction that finds nothing resets it, as the code does).

### Orchestrator
One action per stage, in the code's order, each with its short cut. What a question
matches is a choice; the ranking of documents, its confidence, the fallback's merge
(`MergedCandidates`), the clarification and `BuildFinalPlan` are computed. The document of the
plan (`PlanDocument`) and the one navigated (`NavigatedDocument`) are two expressions in
the code and here; they differ on a blank id, which a request may hold.

### ResumeBuffer and ResponseCache
`ResumeBuffer` has several server streams of one conversation: `AppendAndSend` writes
the Redis list, trims it (`KeepLast`) and sends; `Reconnect` replays what lies behind
the client's count (`Unconsumed`) and asks the question anew unless the replay held
DONE. `own` is history: it becomes false when the list stops being what this question's
streams made and the client was sent (an earlier question's events, a trim, an expiry, a
failed write), and when a stream that the client had lost writes while the client is
connected to a later one. The client is `chat-stream.ts`: it counts the events it read and retries.
`ResponseCache` follows a turn from `LookUp` over `StartExchange` to `StoreAnswer`, with
an invalidation in two steps (`ReadIndex`, then `DropAnswers` or `PurgeAnswers`).

### MicroBatcher
A worker of `batching.py` waits, collects (`TakeJob`), runs its batch in a thread
(`RunBatch`) and hands results and exceptions to the futures (`AnswerBatch`), by their
place. `Submit` starts a worker when there is none; `Abandon` is the 60 s timeout of the
request. `Close`, `EndLoop` and `EndClose` are `close()`, with other steps between its
awaits: a worker started there is forgotten by `_worker = None`, works on beside the next
one, and takes jobs from the same queue. `dropped` is history. `JudgeService` has only
the requests: their outcome and what they were answered.

## Runs

| run | checks | bounds |
|---|---|---|
| `infra` | `WindowConsistent` and `RecoversUnlessProbeLost` of the breaker, `IdsOrderedAndDistinct`, `LimitIsExact`, `SkippedOnlyByRace` | breaker: 3 calls, thresholds 2 and 2, recovery 2 ticks: a late outcome of an earlier window next to two probes; ids: 3 processes, two of them with one worker number, 2 ids a millisecond, 1 restart and 1 clock set back: full milliseconds and repeated ones; limiter: 4 requests, limit 2, window 3, delay 1: a script that clears what a later one should count; fallback: 3 calls, 3 models, 2 tries: the second switch of a race passes over a model that was not asked |
| `breaker_stuck` | `HalfOpenResolves` is violated | the breaker of `infra` |
| `lease` | `TypeOK`, `HealthyHolderKeepsKey`, `UnnoticedLossBounded`, `LostAtThreshold`, `ImplementsLeaseService`, `EventuallyFree` | 2 managers, TTL 3, renewals every tick with a lag of up to 1, 2 renew failures, 2 failed checks in a window of 1, one late command |
| `lease_ten_failures` | `LostAfterThreshold` is violated | the same |
| `turn` | `TypeOK`, `LiveTurnIsReachable`, `OverLeavesNothing`, `MachineTellsTheTruth`, `ImplementsTurnService` | 2 turns, 2 workers, 1 stop or reset, 1 crash; turns and workers are symmetric |
| `turn_progress` | `TurnEnds`, `LeaseFreedUnlessLeaked` | 2 turns, 1 worker, 1 crash, no stops |
| `turn_leak` | `LeaseFreed` is violated | 2 turns, 1 worker, no crash, no stops |
| `pipeline` | `TypeOK`, `StoresAgree`, `FailedRunLeavesNothing`, `HolesHaveACause` | 2 runs (the second a retry or a fork), 1 retry, 3 faults |
| `pipeline_progress` | `StallsAreResolved`, `OrphansAreRemoved` | 1 run (no retry of the document, no fork), 1 retry of a task, 3 faults |
| `pipeline_index_retry` | `IndexedIsComplete` is violated | 1 run, 1 retry, 1 fault |
| `services` | `SuiteTypeOK` and the properties of the ten components, below | see below |
| `memory_regress` | `SummaryNeverRegresses` is violated | 2 tasks, 5 exchanges, 1 rebuild |

`services` chooses one of its ten components initially and runs it alone, and `infra` one of
its four: they share no
state, so their states add up (1.9 million and 0.5 million) and one run answers for all.

| component | properties | bounds |
|---|---|---|
| `ConversationMemory` | `NothingForgottenWhenQuiet`, `ImplementsSummaryService` | 2 tasks, 4 exchanges of which 2 open, window 1, 1 rebuild, 1 lost message: the window overflows twice, and two tasks race for each overflow |
| `FactMemory` | `FactsOnceAndBounded` | 2 tasks, 2 conversations, 2 facts, capacity 1, 2 insertions, 1 deletion |
| `SessionTitle` | `RenameLostOnlyInTheCall` | 2 workers, a short and a long question, 2 names, 5 writes |
| `RagAnswer` | `StoresOneSafeDraft`, `NoVerificationLeftRunning` | 2 chunks a draft, 2 reviews: a second regeneration follows a citation check of the first |
| `MultiAgent` | `AcceptedPlanRunsWhole`, `TokensCharged` | 3 sub-plans (a cycle of three, three layers), 1 more attempt, up to 1 token a worker |
| `Retrieval` | `CitationIsPlace`, `EvidenceAccumulates` | 3 chunks of 2 blocks, 2 sub-questions, 2 corrections or hops, 2 chunks kept: a merged context is merged again |
| `Orchestrator` | `PlanIsConsistent` | 2 documents, scores on either side of the threshold |
| `ResumeBuffer` | `ShownWithoutGapOrRepeat` | 2 streams of 2 texts, a list of 4, 2 breaks: the list is trimmed below the client's count |
| `ResponseCache` | `NothingIsEverCached` | 2 conversations, 1 question, 1 document, 2 turns |
| `MicroBatcher` | `WaitersAreServed`, `ImplementsJudgeService` | 3 requests, batches of 2, 1 call of `close()`, 3 workers: a batch beside a queued job, and two workers at once |

Two managers or two turns are the smallest number that can be in each other's way, and
the code compares identities only; the theorems remove these bounds. Three
faults are enough for a failing task, its failing retry and a failing compensation.
`turn_progress` leaves stops out because liveness with them exceeds a few minutes;
a stop only brings a turn to its end sooner, and the safety runs have it. For the same
reason `pipeline_progress` has one chain; the largest safety runs, `pipeline` and
`turn`, have 11 and 4 million states.

**Fairness.** The breaker: callers keep coming, calls return (all clients have
timeouts), the clock runs. The lease: the clock runs, a due renew task runs (its
attempt may fail), a command on its way is settled in the end; nothing makes a turn
end. The turn: every await of a turn ends (chunks, MySQL and Redis calls have
timeouts), and Redis expires keys. The pipeline: Celery delivers every queued task,
and beat starts both daily jobs. The ten services, the ids, the limiter and the
models have safety properties only and no fairness. No environment event (fault, crash, stop,
disconnect, operator call) is ever assumed.

**Deadlock** is off for the turn runs, where all requests are served in the end, and for
`services`, `infra` and `memory_regress`: a plan that is made, an answer
that is stored and a bound that is reached are ends.

## What the runs show

The passing runs confirm the intended behaviour above. Some statements of the
repository about itself do not hold. Five have a run that violates them:

1. `breaker_stuck`: a probe cancelled inside `call()` is not recorded
   (`except Exception` at circuit_breaker.py:142); its slot is lost, and a breaker that
   lost all slots of a window stays HALF_OPEN and rejects every call.
   `StuckOnlyAfterLoss` proves that this is the only way to get there, and
   the run `infra` shows that without it the breaker closes (`RecoversUnlessProbeLost`).
2. `lease_ten_failures`: `is_owned` gives up at the eleventh failure, not at the
   tenth: the first one opens the window without being counted. `StopsSoon` proves that it
   is never later than that, wherever in the window the failures lie.
3. `turn_leak`: a client that disconnects between the registration and the try of
   `stream()`, or during `finalize_stream()`, ends the coroutine before
   `release()`; the renew task lives on and keeps the key.
   `LeaseFreedUnlessLeaked` shows that nothing else locks a conversation for ever.
4. `pipeline_index_retry`: the compensation of a failed vectorize or index task
   deletes chunks, parent blocks and vectors that earlier tasks of the chain wrote.
   The retry runs only the failed task, so the document becomes INDEXED without them.
   `EveryHoleHasACause` proves what else can make a hole: nothing in MySQL and PGVector, not the
   redelivery of a task, not a crash, not two chains at once, not a fork; in ES an index
   task that removed the documents and has not written its own, and finding 17.
5. `memory_regress`: a row created after a rebuild starts at version 1 again, so a
   compression that read version 1 before the rebuild passes the compare-and-set and
   puts a summary there that covers less. `RowAdvances` proves that within one
   incarnation of the row this cannot happen.

Others show in the form a property of a passing run had to take:

6. `NothingIsEverCached`: `store()` asks for the history after the turn wrote its own
   exchange, so the response cache is never filled.
7. `FactsOnceAndBounded`: `enforce_capacity` evicts from the wrong end; the bound holds,
   and the newest facts go.
8. `RenameLostOnlyInTheCall`: the title task compares before it calls the model and
   writes without a condition, so a rename made meanwhile is lost (and a question of
   more than 50 characters never gets a title).
9. `EvidenceAccumulates`: a correction that finds nothing throws away what the round
   before it had found.
10. `FailedRunLeavesNothing`: a run that fails in parse or chunk compensates nothing an
   earlier run left, so a document whose burial was given up, or whose profile failed,
   can be FAILED and retrievable.
11. `ShownWithoutGapOrRepeat`: a resume sends what lies behind the number of events the
   client has seen, but a stream that the client lost goes on writing to the same list
   while a later one tells the client that the conversation is busy; the count is then
   wrong, and after another break an event is shown twice. `ShownInOrder` proves that
   this, a list that is not the question's alone, and a trimmed or expired list are the only
   ways to get there. The proof attempt found this one: the property used to
   leave it out, and a run with two breaks shows it.
12. `IdsOrderedAndDistinct`: all processes take their worker number from an environment variable
    that nothing sets, so two workers draw equal ids in one millisecond. `IdsDistinct`
    proves that with a number for each process, and a clock that only grows, they do not.
13. `LimitIsExact`: the limiter imports the value of `_redis` when the module is loaded,
    before the client exists; it stays None, and every request is admitted. `LimitExact` is
    about the limiter with a client.
14. `SkippedOnlyByRace`: two calls that find the same model exhausted move the shared index
    twice, and a call gives up without having asked the model in between. This takes a
    chain of three models (the default has two) and a manager that several calls share, as
    the evaluation runner's is.
15. `NoVerificationLeftRunning`: a stop while the output filter is awaited uses up the one
    `finalize()`; the citation check is started after it, and no end of the turn cancels it.
    `VerificationEnds` proves that this and a stream closed between two events are the only ways.
16. `PlanIsConsistent`: in DOCUMENT mode `docIds: [""]` passes the validation; the plan selects
    nothing, whatever else is selected in the request, and searches an empty list, which the
    retrieval takes for all documents, while the navigation looks at `selectedDocumentId`.
    `PlansConsistent` proves that only a blank first id does this.
17. `HolesHaveACause`: documents that ES refuses one by one are logged, their number is ignored,
    and the document becomes INDEXED without them.

Behaviour that is in the models and that no text of the repository forbids: a turn
whose grant ran out before `acquire()` returned (the client sets no socket timeout;
`socket_timeout_ms` is never read) registers late, cancels the turn that holds the lease by
then, and is stopped itself at its first check, so both are cut short (`TurnService` has
this as "a second turn works beside it"; the refinement does not hold without it); a cancel
broadcast that arrives late cancels the next turn of the conversation; a stop after the
last chunk is acknowledged and the turn still recorded as completed; a disconnect after
DONE is recorded as stopped; chains started by `retry_document` may overlap.
`execute_structured`, which workers of a multi-agent plan use, ignores the clear, review and
error events of its stream, and the aggregator's answer passes no output filter. With a
second layer the tokens of the first are counted again by each of its workers
(`TokensCharged` says so), and those of a failed worker are not counted. A stream that is
closed between two events leaves its citation check running until the timeout
(`hungUp`), because nothing finalizes the generator. A sub-plan in a mode that exists but has
no executor passes the validator and fails the whole turn (`RaiseUnregistered`), while the other
workers run on. A turn that gets no answer from Redis about its lease is stopped though the lease
may be its own (`LeaseDoubted`). A cancellation during the wait for
the check is swallowed. A stop stores what was drafted so far, before the filter saw
it, in a turn recorded as stopped. The resume buffer is shared by the streams of a
conversation; after a break behind DONE the client asks the question again. A batch
whose worker `close()` cancels is never answered; its requests time out. A failed or
stopped turn takes a place in the window of recent turns that the compressor does
not count, so an exchange may be in neither window nor summary.

## Proofs

| module | theorems | argument |
|---|---|---|
| `InfraProofs` | `TypeCorrect`, `StateFollowsCount`, `SlotsAccountedFor`, joined in `WindowIsConsistent`; `StuckOnlyAfterLoss` | the type invariant with `CountMatchesState`, then `ProbeAccounting` on top: each of `Enter`, `Succeed`, `Fail`, `Cancel` moves one slot between running, recorded and lost, and cardinalities follow |
| | `IdTypeCorrect`, `IdsAlwaysGrow`, `ClashesExcused`, joined in `IdsDistinct` | an id is its fields written in one number, so ids are ordered as their fields (`FieldsOrder`) and equal only with equal fields (`FieldsTell`); `DrawnInv` and `OrderInv` say that what a life of a process drew lies behind its last time and sequence, `LivesInv` that lives follow each other while the clock only grows |
| | `LimiterTypeCorrect`, `LimitKept`, `RejectsWhenFull`, joined in `LimitExact` | an admitted request leaves the sorted set only when its window is over (`KeptInv`: the key outlives every entry), and no stamp is older than the delay (`StampInv`); so all that were admitted in the shorter window up to some time are in the set when the last of them is counted |
| | `FallbackTypeCorrect`, `SkipsOnlyByRace` | without a race a call in its loop has a try for each model that has not refused (`LoopInv`, `TriesInv`) |
| | `InfraTypeCorrect` | in the composition each part behaves as it does alone (`PartsBehave`) |
| `ConversationLeaseProofs` | `TypeCorrect`, `HealthyKeeps`, `LossBounded`, `FreesOnlyOwn`, `StopsOnEvidence`, `StopsSoon`, joined in `StopsAtThreshold`; `Exclusive` | the invariant ties `ttl`, `timer` and `sinceGrant` of a manager: a healthy renew task is at most interval plus lag after its last grant, which is less than the TTL, so its key cannot have run out; the refinement follows from the key being its owner's while a grant is young |
| `ChatTurnProofs` | `TypeCorrect`, `StaysReachable`, `LeavesNothing`, `SameVerdict`, `LegalTransitions`, joined in `TrueAccount`; `MemoryOfCompleted`, `TurnsServed` | `IInv` adds to the properties which registry entries and pending resets a turn may have (`RegistryInv`, `ResetInv`), which state the state machine has in each phase (`MachineInv`) and which row goes with which flags (`RowInv`); one lemma per part, one step per action. For the refinement `MailInv` adds that a broadcast on its way was caused by a call; one lemma for the steps of a turn (`TurnShown`), of a worker (`WorkerShown`) and of the environment (`FaultShown`) says which step of `TurnService`, or which stutter, they show |
| `DocumentPipelineProofs` | `TypeCorrect`, `StoresHoldTheRun`, `FailedLeavesNothing`, `EveryHoleHasACause` | `Shape` says which step and compensation go with a place of a task, `DocumentKept` that only a delete takes the row away. `RunInv` follows an undisturbed run: it is alone at work (`Alone`; only the cleanup job may follow a run that ended before storing), and the stores hold what its tasks have done (`Progress`). A step of an actor disturbs all other runs (`RunStep`), so each action is argued for its own run. `DataInv` says why data of a run is still stored: the run has reached vectorize and the transaction that empties the store is still to come; it needs no seriality, because a run's data is only ever written by that run. `FilledInv` needs none either: without a compensation or a delete no step empties a store but the index task ES, which is then in `gaps` (`StoresGain`), and each place of a chain, a fork's too, says what must have been stored before (`Filled`) |
| `ConversationMemoryProofs` | `MemTypeCorrect`, `FaithfulSummary`, `RowAdvances`, `NothingForgotten`, `SummaryServed` | `IInv` relates the row, and the row each task has seen, to the exchanges: whatever a task merges (`jobBatch`) together with what it had seen is the completed exchanges up to its last one except those of `late`, and two rows of one incarnation with one version are the same row, which is what makes the compare-and-set sound. `KInv` adds where the completed exchanges are: each is covered by the row, or a queued message or a task under way will cover it, or fewer than a window of completed exchanges follow it (`Remembered`), and at most `MaxOpen` turns run (`OpenBound`), so that the prompt's fetch reaches all of them. The refinement maps each write of the row to a longer beginning, or to the mixture of two incarnations when its snapshot is from before a rebuild |
| `ExecutorProofs` | `AnsTypeCorrect`, `OneSafeDraftStored`, `VerificationEnds` | `DInv` says, for each step of the generator and each queue of events, what the consumer's text and the generator's buffer differ by (`DraftShared`, `AnswerReady`); a second invariant says that a check that runs after `finalize()` was started late and after a stop |
| | `AgentTypeCorrect`, `PlansRunWhole`, `TokensAreCharged` | while the validator counts, an in-degree is the number of dependencies not visited yet, so what it has visited is founded: some sub-plan of any lot of them waits for none of the lot; while the executor counts, an in-degree is the number of dependencies without a layer, and when its queue is empty every sub-plan without a layer waits for another one without, so by foundedness there is none; the counter equals what was spent while the copies start from zero (`Charges`) |
| `EvidenceProofs` | `OrchTypeCorrect`, `PlansConsistent` | every list of candidates the stages build names a document once (`Lists`), because a selection and a first part of such a list and the merge of two do; `StageInv` says which questions reach which stage, `RoutingInv` that the routed document and the tasks come from the documents searched, `NavigationInv` what the navigation leaves to the plan; the two expressions for the document are compared case by case |
| | `RetTypeCorrect`, `CitedByPlace`, `EvidenceKept` | the key of every evidence is the block of its chunk (`OfParent`), which is why merging by chunk loses no block; a numbered list is cited by place whatever it holds: the keys up to a place and the first places up to it are in bijection (`NumberCountsFirsts`), and of two different keys the later one counts the other (`NumbersTellKeys`) |
| `ServicesProofs` | `TitleTypeCorrect`, `RenameKept`, `CacheTypeCorrect`, `CacheStaysEmpty` | as long as nobody wrote since a task asked, the title still is the question it asked about; a turn that runs has written its exchange |
| | `BatchTypeCorrect`, `WaitersServed`, `JudgedOnce` | a request that waits is `Placed`: in the queue, in the batch of a worker that collects or runs, or in a batch that was dropped; before the first `close()` the worker that `submit` started is the current one (`UnclosedInv`). A batch names a request once, and its reply is taken from its own place, which is all the refinement needs |
| | `FactTypeCorrect`, `FactsHold` | between its search and its insertion a task has seen all equal facts of its scope but those inserted since (`SeenInv`); outside of tasks that store, a conversation holds at most the limit (`BoundInv`), because what `Evicted` leaves of a conversation is the first `MaxFacts` of it |
| | `ResTypeCorrect`, `ShownInOrder` | while `own`, the list is the question's: each event has the number of its place among its stream's (`Listed`), every stream's events are there (`Counted`), and what the client shows and is being sent is a beginning of it (`Prefix`) |
| | `SuiteTypeCorrect` | a behaviour of the composition is one of each component, which steps or rests (`ComponentsBehave`); so the components' own theorems apply |

The assumptions are those the modules name: `BreakerAssumption` (finite calls, positive
thresholds), `LeaseAssumption` (interval plus lag is shorter than the TTL, as
the configuration has it: a renewal every 10 s against 30 s by default),
`TurnAssumption`, `PipelineAssumption` (at least one run), `IdAssumption` (a worker number below the
number of machines), `LimiterAssumption` (the key lives longer than the window, as the script
sets it), `FallbackAssumption` (a chain of at least one model), and those of the services (bounds are
natural numbers, special values lie outside of the sets they extend, a cut title is neither
empty nor a long question, documents and chunks are finitely many). `NothingForgotten` has a
hypothesis of its own, `MaxOpen + WindowSize <= FetchLimit`: the prompt fetches as many
exchanges as `FetchLimit` says, three windows or a window and four, and drops those that are
not completed, so an exchange behind too many running turns would be in neither. The lease
lets one turn run, or two when it was lost, and so the hypothesis holds for every window;
it is stated because `MaxOpen` is a bound of the model and not of the code. The
invariants are proved for any number of calls, managers, turns, workers, runs, retries, stops,
faults and crashes.

Every invariant, every action property and every refinement of the passing runs is stated by
a theorem; `SuiteTypeOK` is about the composition `MCServices` itself. Where a run checks a
conjunction of named properties (`WindowConsistent`, `LostAtThreshold`,
`MachineTellsTheTruth`, ...) each conjunct is a theorem of its own as well. Some theorems
state what no run asks for by itself, because a refinement that is checked tells more:
`FreesOnlyOwn`, `MemoryOfCompleted`, `FaithfulSummary`, `RowAdvances`; of the parts of `infra`,
and of their composition (`InfraTypeCorrect`), the types are proved and not checked.

Only model-checked are the liveness properties `RecoversUnlessProbeLost`,
`EventuallyFree`, `TurnEnds`, `LeaseFreedUnlessLeaked`, `StallsAreResolved` and
`OrphansAreRemoved`: they need fairness and ENABLED, which TLAPS does not prove
here.

Where an induction would be natural (a least place, a greatest score, a list that grows), the
proofs take a minimal element of a well-founded order (`WFMin`) or compare cardinalities of a
set and a part of it, since no installed prover can instantiate an induction theorem. Proof
attempts changed models: the list of finding 11; the reasons for which `TurnService` lets a turn
be cut short, which lacked the late registration above; the rows of `FactMemory`, the rankings
of `Orchestrator` and the lists of `Retrieval`, which were sequences computed by folds and sorts
and are sets or selections now; and the assumption that a cut title is not empty, without which
the bound on the title's writes would not hold.

## Not modelled

- `ConversationLease`: the breaker around Redis appears as a command that raises.
- `ChatTurn`: the response cache (off by default) except that its lookup may raise;
  two resets of one turn at once in one worker; answers, events, traces.
- `DocumentPipeline`: a crash between the upload's commit and the trigger; two
  deletes at once; a visibility timeout of the broker that delivers a task to two
  workers; the two-hour age of a stalled document (the job acts when no chain runs, so a
  queue delayed for more than two hours is left out); the race of the reconcile snapshot
  with an upload; MinIO, Neo4j, structure nodes and the log of stages. The SUCCESS of the
  task row and the stage of the document are one step (`Finish`); a crash between them is in
  `Again`. The branch of an index task that
  indexed no chunk is unreachable and left out.
- `ConversationMemory`, `FactMemory`, `RagAnswer`, `Orchestrator`: what a text says. A
  summary is the set of exchanges it was made from, similar facts are equal values, a
  draft is a number, what a question matches is a choice.
- `Retrieval`: real scores (three levels here), adaptive k, the second reranking of
  parent blocks, the parent block cache of each process (stale after a change made by
  another one), the budget of the prompt.
- `MultiAgent`: the merge of the workers' references and texts. The agent and graph
  executors are a stream of chunks in `ChatTurn`.
- `ResumeBuffer`: a client in two tabs; `ResponseCache`: the events a hit replays.
- `MicroBatcher`: the length of the window; `judge_entries_multi` (one result per job).
- `RateLimiter`: which client a request belongs to, and the other groups of limits, each a
  window of its own. `IdGenerator`: processes on other machines with the same number.
- The admin tokens: one key of Redis, set and read.
- Parsing, chunking, safety filters, prompts and the scoring of routes: functions of
  text, whose properties a bounded model does not reach. Connection handling, CRUD,
  observability, migrations, evaluation scripts and the rest of the frontend: straight
  lines of I/O without a state that two actors share. Together these are most of
  the repository's lines, which is why the models cover a small share of the lines and
  most of the state that more than one actor changes.

## Plan

1. A composition of `ChatTurn` with `ConversationLease` (the lease actions of the turn as
   the interface that the detailed lease implements) and with `RagAnswer` as the dispatch.
2. A start of `DocumentPipeline` before the trigger of the first chain, and a broker
   whose visibility timeout delivers a task twice.
3. Liveness of the memory's tasks, with the fairness of the task queue.
4. The step from `ChatTurn` to `ConversationLease` proved, once 1 has stated it.
