------------------------- MODULE ConversationMemory -------------------------
(* The long-term memory of one conversation (chat/memory_compressor.py,     *)
(* chat/memory.py, chat/memory_service.py, chat/tasks.py).  Every completed *)
(* turn queues a Celery task that merges the completed exchanges beyond the *)
(* window into the one summary row of the conversation, guarded by a        *)
(* compare-and-set on the row's version; a request can delete and rebuild   *)
(* the row meanwhile.  Exchanges are numbered in the order of their ids.    *)
(*                                                                          *)
(* A task reads the row and the exchanges in one REPEATABLE READ snapshot,  *)
(* and its second read of the row, before the write, returns the object the *)
(* session already holds: what it compares against is the row it started    *)
(* from, so its two early returns cannot be taken and are left out.  A      *)
(* merge by the model that fails falls back to a rule and covers the same   *)
(* exchanges, in batches that are all written at once.                      *)
EXTENDS Integers, FiniteSets, FiniteSetsExt

CONSTANTS Jobs,          \* compressions that can be running at a time
          MaxExchanges,  \* exchanges of the conversation
          WindowSize,    \* settings.memory.window_size
          MaxOpen,       \* turns open at a time: 2 when a lease was lost
          MaxRebuilds,   \* requests to rebuild the summary
          MaxLost,       \* tasks that fail or are never queued
          NoRow

ASSUME MemoryAssumption ==
    /\ MaxExchanges \in Nat /\ WindowSize \in Nat /\ MaxOpen \in Nat
    /\ MaxRebuilds \in Nat /\ MaxLost \in Nat
    /\ NoRow \notin [covered : Nat, count : Nat, version : Nat,
                     merged : SUBSET Nat, epoch : Nat]

Exchanges == 1 .. MaxExchanges
TurnStatuses == {"none", "running", "completed", "failed", "stopped"}
JobStates == {"idle", "rebuild", "merge", "conflict", "retry"}

\* The row, with two history fields: which exchanges the text was made
\* from, and the incarnation of the row it was made from.
Rows == [covered : Nat, count : Nat, version : Nat,
         merged : SUBSET Exchanges, epoch : Nat]

VARIABLES
    turnStatus,  \* [Exchanges -> TurnStatuses], the column turn_status
    summary,     \* the row of the conversation, or NoRow
    queue,       \* latest_exchange_id of the queued tasks
    jobState,    \* [Jobs -> JobStates]
    jobSeen,     \* the row a job will compare with
    jobBatch,    \* the exchanges it merges
    jobKnown,    \* its known_exchange_id
    epoch,       \* history: how often the row was deleted
    late,        \* history: exchanges completed after a later one had begun
    gaveUp,      \* history: a compare-and-set was lost to a smaller summary
    lost         \* bound: failed tasks so far

jobVars == <<jobState, jobSeen, jobBatch, jobKnown>>
memVars == <<turnStatus, summary, queue, jobVars, epoch, late, gaveUp, lost>>

MemInit ==
    /\ turnStatus = [x \in Exchanges |-> "none"]
    /\ summary = NoRow
    /\ queue = {}
    /\ jobState = [j \in Jobs |-> "idle"]
    /\ jobSeen = [j \in Jobs |-> NoRow]
    /\ jobBatch = [j \in Jobs |-> {}]
    /\ jobKnown = [j \in Jobs |-> 0]
    /\ epoch = 0 /\ late = {} /\ gaveUp = FALSE /\ lost = 0

With(st) == {x \in Exchanges : turnStatus[x] = st}
CoveredBy(row) == IF row = NoRow THEN 0 ELSE row.covered
MergedIn(row) == IF row = NoRow THEN {} ELSE row.merged
Greatest(S) == CHOOSE x \in S : \A y \in S : y <= x

\* The n greatest members of a set of exchanges.
Newest(S, n) == {x \in S : Cardinality({y \in S : y > x}) < n}

\* Mutant: one exchange too many is left to the window.
MutOverflowLate(covered, known) ==
    LET stable == {x \in With("completed") :
                       covered < x /\ (known = 0 \/ x <= known)}
    IN  stable \ Newest(stable, WindowSize + 1)

\* stable_exchanges beyond the window: what one compression covers.  A
\* known_exchange_id of None is 0.
Overflow(covered, known) ==
    LET stable == {x \in With("completed") :
                       covered < x /\ (known = 0 \/ x <= known)}
    IN  stable \ Newest(stable, WindowSize)

\* recent_turns, which the next turn finds in its prompt beside the summary
\* (SummaryCompressionStrategy.load): the last turns that are not running,
\* of the last fetch_limit exchanges.
FetchLimit == Max({WindowSize * 3, WindowSize + 4})
RecentTurns ==
    LET fetched == Newest(Exchanges \ With("none"), FetchLimit)
    IN  Newest(fetched \ With("running"), WindowSize)

-----------------------------------------------------------------------------
(* The turns. *)

\* start_exchange: ids grow with time; the lease serialises turns, unless
\* it was lost.
OpenTurn ==
    /\ Cardinality(With("running")) < MaxOpen
    /\ With("none") # {}
    /\ turnStatus' = [turnStatus EXCEPT
                        ![CHOOSE x \in With("none") :
                              \A y \in With("none") : x <= y] = "running"]
    /\ UNCHANGED <<summary, queue, jobVars, epoch, late, gaveUp, lost>>

\* finalize_stream of a completed turn: complete_exchange, then save, which
\* queues the task; when the broker fails, the exchange stays completed.
CompleteTurn(x) ==
    /\ turnStatus[x] = "running"
    /\ turnStatus' = [turnStatus EXCEPT ![x] = "completed"]
    /\ late' = IF \E y \in Exchanges : y > x /\ turnStatus[y] # "none"
               THEN late \cup {x} ELSE late
    /\ \/ queue' = queue \cup {x} /\ UNCHANGED lost
       \/ lost < MaxLost /\ lost' = lost + 1 /\ UNCHANGED queue
    /\ UNCHANGED <<summary, jobVars, epoch, gaveUp>>

\* finalize_stream of a failed or stopped turn.
BreakTurn(x) ==
    /\ turnStatus[x] = "running"
    /\ \E st \in {"failed", "stopped"} :
           turnStatus' = [turnStatus EXCEPT ![x] = st]
    /\ UNCHANGED <<summary, queue, jobVars, epoch, late, gaveUp, lost>>

-----------------------------------------------------------------------------
(* The compressions. *)

\* The job forgets its locals: its session is closed.
EndJob(j) ==
    /\ jobState' = [jobState EXCEPT ![j] = "idle"]
    /\ jobSeen' = [jobSeen EXCEPT ![j] = NoRow]
    /\ jobBatch' = [jobBatch EXCEPT ![j] = {}]
    /\ jobKnown' = [jobKnown EXCEPT ![j] = 0]

\* compress_history up to the first merge: read the row and the exchanges;
\* without overflow there is nothing to do.
ReadHistory(j, known) ==
    LET batch == Overflow(CoveredBy(summary), known) IN
    IF batch = {} THEN EndJob(j)
    ELSE /\ jobState' = [jobState EXCEPT ![j] = "merge"]
         /\ jobSeen' = [jobSeen EXCEPT ![j] = summary]
         /\ jobBatch' = [jobBatch EXCEPT ![j] = batch]
         /\ jobKnown' = [jobKnown EXCEPT ![j] = known]

\* A worker takes task_compress_conversation_memory from the queue.
StartJob(j) ==
    /\ jobState[j] = "idle"
    /\ \E known \in queue :
           queue' = queue \ {known} /\ ReadHistory(j, known)
    /\ UNCHANGED <<turnStatus, summary, epoch, late, gaveUp, lost>>

\* rebuild_summary: delete_memory commits, then the same request compresses
\* everything there is.
RebuildDelete(j) ==
    /\ jobState[j] = "idle" /\ epoch < MaxRebuilds
    /\ summary' = NoRow
    /\ epoch' = epoch + 1
    /\ jobState' = [jobState EXCEPT ![j] = "rebuild"]
    /\ UNCHANGED <<turnStatus, queue, jobSeen, jobBatch, jobKnown,
                   late, gaveUp, lost>>

RebuildRead(j) ==
    /\ jobState[j] = "rebuild"
    /\ ReadHistory(j, 0)
    /\ UNCHANGED <<turnStatus, summary, queue, epoch, late, gaveUp, lost>>

NewRow(j, count, version, from) ==
    [covered |-> Greatest(jobBatch[j]), count |-> count, version |-> version,
     merged |-> jobBatch[j] \cup MergedIn(from), epoch |-> epoch]

\* No row at the start: insert one; the unique key refuses a second.
CreateRow(j) ==
    /\ jobState[j] = "merge" /\ jobSeen[j] = NoRow
    /\ IF summary = NoRow
       THEN /\ summary' = NewRow(j, Cardinality(jobBatch[j]), 1, NoRow)
            /\ EndJob(j)
       ELSE /\ jobState' = [jobState EXCEPT ![j] = "conflict"]
            /\ UNCHANGED <<summary, jobSeen, jobBatch, jobKnown>>
    /\ UNCHANGED <<turnStatus, queue, epoch, late, gaveUp, lost>>

\* Mutant: the update is not conditional on the version.
MutVersionMatches(row, seen) == row # NoRow

\* The version test of the conditional update, as the database applies it.
VersionMatches(row, seen) == row # NoRow /\ row.version = seen.version

\* rowcount = 0: the summary is dropped, even one that covers more.
GiveUp(j) ==
    /\ gaveUp' = (gaveUp \/ Greatest(jobBatch[j]) > CoveredBy(summary))
    /\ UNCHANGED summary

\* A row at the start: the conditional update, which counts on.
UpdateRow(j) ==
    /\ jobState[j] = "merge" /\ jobSeen[j] # NoRow
    /\ IF VersionMatches(summary, jobSeen[j])
       THEN /\ summary' = [NewRow(j, summary.count + Cardinality(jobBatch[j]),
                               jobSeen[j].version + 1, jobSeen[j])
                            EXCEPT !.epoch = jobSeen[j].epoch]
            /\ UNCHANGED gaveUp
       ELSE GiveUp(j)
    /\ EndJob(j)
    /\ UNCHANGED <<turnStatus, queue, epoch, late, lost>>

\* The row covers less than the job has merged.
StillBehind(j) == summary # NoRow /\ CoveredBy(summary) < Greatest(jobBatch[j])

\* After the IntegrityError: rollback, read the row again, go on only when
\* it covers less.
ReadConflict(j) ==
    /\ jobState[j] = "conflict"
    /\ IF StillBehind(j)
       THEN /\ jobState' = [jobState EXCEPT ![j] = "retry"]
            /\ jobSeen' = [jobSeen EXCEPT ![j] = summary]
            /\ UNCHANGED <<jobBatch, jobKnown>>
       ELSE EndJob(j)
    /\ UNCHANGED <<turnStatus, summary, queue, epoch, late, gaveUp, lost>>

\* The second conditional update: its text was made without the other row,
\* and the count is the greater one.
RetryUpdate(j) ==
    /\ jobState[j] = "retry"
    /\ IF VersionMatches(summary, jobSeen[j])
       THEN /\ summary' = [NewRow(j, Max({summary.count, Cardinality(jobBatch[j])}),
                               jobSeen[j].version + 1, NoRow)
                            EXCEPT !.epoch = jobSeen[j].epoch]
            /\ UNCHANGED gaveUp
       ELSE GiveUp(j)
    /\ EndJob(j)
    /\ UNCHANGED <<turnStatus, queue, epoch, late, lost>>

\* A task raises and is over; a worker dies and the task, acknowledged
\* late, is delivered again.
FailJob(j) ==
    /\ jobState[j] # "idle" /\ lost < MaxLost
    /\ lost' = lost + 1
    /\ \/ UNCHANGED queue
       \/ jobKnown[j] \in Exchanges /\ queue' = queue \cup {jobKnown[j]}
    /\ EndJob(j)
    /\ UNCHANGED <<turnStatus, summary, epoch, late, gaveUp>>

MemNext ==
    \/ OpenTurn
    \/ \E x \in Exchanges : CompleteTurn(x) \/ BreakTurn(x)
    \/ \E j \in Jobs :
          \/ StartJob(j) \/ RebuildDelete(j) \/ RebuildRead(j)
          \/ CreateRow(j) \/ UpdateRow(j) \/ ReadConflict(j)
          \/ RetryUpdate(j) \/ FailJob(j)

MemSpec == MemInit /\ [][MemNext]_memVars

-----------------------------------------------------------------------------
MemTypeOK ==
    /\ turnStatus \in [Exchanges -> TurnStatuses]
    /\ summary \in Rows \cup {NoRow}
    /\ queue \subseteq Exchanges
    /\ jobState \in [Jobs -> JobStates]
    /\ jobSeen \in [Jobs -> Rows \cup {NoRow}]
    /\ jobBatch \in [Jobs -> SUBSET Exchanges]
    /\ jobKnown \in [Jobs -> 0 .. MaxExchanges]
    /\ epoch \in Nat /\ lost \in Nat /\ late \subseteq Exchanges
    /\ gaveUp \in BOOLEAN

\* The row was made, from its first version on, since the last deletion.
Unmixed(row) == row # NoRow /\ row.epoch = epoch

\* The summary stands for every completed exchange up to its pointer, once:
\* an exchange below covered_exchange_id that is not in the text was
\* completed only after a later one had begun, in a turn that lost its
\* lease; and when there was none, covered_exchange_count, which the API
\* shows, is the number of exchanges the text was made from.
SummaryIsFaithful ==
    Unmixed(summary) =>
        /\ {x \in With("completed") : x <= summary.covered}
               \subseteq summary.merged \cup late
        /\ late = {} => summary.count = Cardinality(summary.merged)

\* Of two compressions that race, the one that commits second gives up
\* unless it covers more (the compare-and-set on summary_version): within
\* one incarnation of the row no summary goes backwards.
AdvancesWithinIncarnation ==
    [][(Unmixed(summary) /\ summary' # NoRow /\ summary' # summary
        /\ summary'.epoch = epoch)
       => /\ summary'.covered > summary.covered
          /\ summary'.version = summary.version + 1]_memVars

\* Once all compressions are done, every completed exchange is in the next
\* prompt, by its text or in the summary, when turns were serialised, each
\* was completed, and no task got lost or gave up a summary that covers more
\* than the row.  (A failed or stopped turn takes a place in recent_turns
\* that the compressor does not count.)
NothingForgottenWhenQuiet ==
    (/\ queue = {} /\ \A j \in Jobs : jobState[j] = "idle"
     /\ ~gaveUp /\ lost = 0 /\ late = {} /\ epoch = 0
     /\ With("failed") = {} /\ With("stopped") = {})
    => With("completed") \subseteq MergedIn(summary) \cup RecentTurns

\* The summary, to those who read it: a prefix of the completed exchanges that
\* grows from one rebuild to the next, whatever compressions race, fail or come
\* late; and text of a former rebuild comes back only after a rebuild, and does
\* not become a part of a whole summary again.
Summaries == INSTANCE SummaryService WITH
    completed <- With("completed"),
    rebuilds <- epoch,
    kind <- IF summary = NoRow THEN "none"
            ELSE IF Unmixed(summary) THEN "whole" ELSE "mixed",
    upTo <- IF Unmixed(summary) THEN summary.covered ELSE 0,
    text <- IF Unmixed(summary) THEN summary.merged ELSE {}

ImplementsSummaryService == Summaries!Spec

\* What the comment of compress_history promises without exception
\* ("the one that commits later gives up, the summary does not go back").
SummaryNeverRegresses ==
    [][summary # NoRow /\ summary' # NoRow
       => summary'.covered >= summary.covered]_memVars
=============================================================================
