------------------------------ MODULE ChatTurn ------------------------------
(***************************************************************************)
(* The life of the turns of ONE conversation, in several worker processes: *)
(* app/chat/service.py stream(), service_executor.py execute_stream(),     *)
(* service_finalizer.py finalize_stream(), task_info.py (the task and the  *)
(* per-process ChatRuntimeRegistry), state_machine.py, and what            *)
(* session_service.py stop_session()/reset_session() and main.py           *)
(* _cancel_subscriber() do to a running turn.                              *)
(*                                                                         *)
(* A worker is one asyncio event loop: what runs between two awaits is one *)
(* action.  The lease is the interface of ConversationLease: a holder, and *)
(* whether its renew task is alive.  Answers, events and traces are left   *)
(* out; the response cache (off by default) is seen only where a failing   *)
(* lookup matters.                                                         *)
(***************************************************************************)
EXTENDS Naturals

CONSTANTS
    Turns,       \* requests to /api/chat/stream for the conversation
    Workers,     \* uvicorn worker processes
    NoTurn,      \* no turn: an empty registry entry, a free lease
    MaxStops,    \* bound: calls of stop_session and reset_session
    MaxCrashes   \* bound: worker crashes

ASSUME TurnAssumption ==
    /\ NoTurn \notin Turns
    /\ MaxStops \in Nat
    /\ MaxCrashes \in Nat

VARIABLES
    phase,       \* where stream() of each turn is
    worker,      \* the worker that serves the turn
    connected,   \* the request task still serves the client
    sm,          \* task.sm: its state, and whether it logged a bad transition
    cancelled,   \* task.cancelled
    finalized,   \* task.finalized
    flags,       \* _StreamState: which of turn_stopped, turn_failed are set
    row,         \* the exchange row: "none" or its turn_status
    remembered,  \* memory_service.save() of the turn succeeded
    registry,    \* ChatRuntimeRegistry._registry of each worker
    lease,       \* the turn whose token is under the Redis lease key
    renewing,    \* the renew task of the turn is alive
    doubted,     \* history: stopped by a check that Redis did not answer
    mail,        \* cancel broadcasts on their way to each worker
    resetting,   \* reset_session between its cancel and its unregister
    stops,       \* calls of stop_session and reset_session so far
    crashes      \* worker crashes so far

taskVars == <<sm, cancelled, finalized, flags, doubted>>
leaseVars == <<lease, renewing>>
storeVars == <<row, remembered>>
stopVars == <<mail, resetting, stops>>
vars == <<phase, worker, connected, taskVars, storeVars, registry, leaseVars,
          stopVars, crashes>>

\* "granted": the lease is taken in Redis, acquire() has not returned yet.
\* "announcing": registered, before the try of stream().  "loading" to "done":
\* inside it.  "persisting" to "releasing": in finalize_stream().  "leaked":
\* the coroutine ended before it released.  "dead": it ended before it
\* registered, or its process died.
Streaming == {"loading", "planning", "starting", "started", "executing",
              "enriching", "done"}
Finalizing == {"persisting", "titling", "closing"}
Phases == {"idle", "refused", "granted", "announcing", "releasing", "over",
           "leaked", "dead"} \cup Streaming \cup Finalizing
States == {"INITIALIZED", "LOCK_ACQUIRED", "REGISTERED", "MEMORY_LOADED",
           "ORCHESTRATING", "PREPARED", "EXECUTING", "FINALIZING",
           "COMPLETED", "FAILED", "CANCELLED", "REJECTED"}
Verdicts == {"completed", "failed", "stopped"}

TypeOK ==
    /\ phase \in [Turns -> Phases]
    /\ worker \in [Turns -> Workers]
    /\ connected \in [Turns -> BOOLEAN]
    /\ sm \in [Turns -> [at : States, warned : BOOLEAN]]
    /\ cancelled \in [Turns -> BOOLEAN]
    /\ finalized \in [Turns -> BOOLEAN]
    /\ flags \in [Turns -> SUBSET {"stopped", "failed"}]
    /\ row \in [Turns -> {"none", "running"} \cup Verdicts]
    /\ remembered \in [Turns -> BOOLEAN]
    /\ registry \in [Workers -> Turns \cup {NoTurn}]
    /\ lease \in Turns \cup {NoTurn}
    /\ renewing \in [Turns -> BOOLEAN]
    /\ doubted \in [Turns -> BOOLEAN]
    /\ mail \in [Workers -> 0..MaxStops]
    /\ resetting \in [Workers -> Turns \cup {NoTurn}]
    /\ stops \in 0..MaxStops
    /\ crashes \in 0..MaxCrashes

NewMachine == [at |-> "INITIALIZED", warned |-> FALSE]

Init ==
    /\ phase = [t \in Turns |-> "idle"]
    /\ worker \in [Turns -> Workers]
    /\ connected = [t \in Turns |-> TRUE]
    /\ sm = [t \in Turns |-> NewMachine]
    /\ cancelled = [t \in Turns |-> FALSE]
    /\ finalized = [t \in Turns |-> FALSE]
    /\ flags = [t \in Turns |-> {}]
    /\ row = [t \in Turns |-> "none"]
    /\ remembered = [t \in Turns |-> FALSE]
    /\ registry = [w \in Workers |-> NoTurn]
    /\ lease = NoTurn
    /\ renewing = [t \in Turns |-> FALSE]
    /\ doubted = [t \in Turns |-> FALSE]
    /\ mail = [w \in Workers |-> 0]
    /\ resetting = [w \in Workers |-> NoTurn]
    /\ stops = 0
    /\ crashes = 0
-----------------------------------------------------------------------------
\* _TERMINAL_STATES and _TRANSITIONS
Terminal == {"COMPLETED", "FAILED", "CANCELLED", "REJECTED"}

Allowed(s) ==
    CASE s = "INITIALIZED" -> {"LOCK_ACQUIRED", "FAILED", "CANCELLED"}
      [] s = "LOCK_ACQUIRED" -> {"REGISTERED", "FAILED", "CANCELLED"}
      [] s = "REGISTERED" -> {"MEMORY_LOADED", "FAILED", "CANCELLED"}
      [] s = "MEMORY_LOADED" -> {"ORCHESTRATING", "FAILED", "CANCELLED"}
      [] s = "ORCHESTRATING" -> {"PREPARED", "REJECTED", "FAILED", "CANCELLED"}
      [] s = "PREPARED" -> {"EXECUTING", "FAILED", "CANCELLED"}
      [] s = "EXECUTING" -> {"FINALIZING", "FAILED", "CANCELLED"}
      [] s = "FINALIZING" -> {"COMPLETED", "FAILED", "CANCELLED"}
      [] OTHER -> {}

\* transition(), not strict: a terminal state stays, any other bad transition
\* is made all the same; both only log a warning.
Transition(m, target) ==
    [at |-> IF m.at \in Terminal THEN m.at ELSE target,
     warned |-> m.warned \/ (target # m.at /\ target \notin Allowed(m.at))]

Go(t, p) == phase' = [phase EXCEPT ![t] = p]
Move(t, target) == sm' = [sm EXCEPT ![t] = Transition(@, target)]
Set(f, t) == [f EXCEPT ![t] = TRUE]
Raise(t, flag) == flags' = [flags EXCEPT ![t] = @ \cup {flag}]

\* The coroutines of these turns are gone.  Nothing reads their tasks again, so
\* the fields take their initial values.
DropTasks(T) ==
    /\ connected' = [t \in Turns |-> connected[t] \/ t \in T]
    /\ sm' = [t \in Turns |-> IF t \in T THEN NewMachine ELSE sm[t]]
    /\ cancelled' = [t \in Turns |-> cancelled[t] /\ t \notin T]
    /\ finalized' = [t \in Turns |-> finalized[t] /\ t \notin T]
    /\ doubted' = [t \in Turns |-> doubted[t] /\ t \notin T]
    /\ flags' = [t \in Turns |-> IF t \in T THEN {} ELSE flags[t]]

\* stream() leaves its try for finalize_stream().
CloseStream(t) ==
    /\ Go(t, "persisting")
    /\ IF sm[t].at = "EXECUTING" THEN Move(t, "FINALIZING") ELSE UNCHANGED sm
-----------------------------------------------------------------------------
\* acquire() in Redis.
Acquire(t) ==
    /\ phase[t] = "idle"
    /\ IF lease = NoTurn
       THEN lease' = t /\ Go(t, "granted")
       ELSE Go(t, "refused") /\ UNCHANGED lease
    /\ UNCHANGED <<worker, connected, taskVars, storeVars, registry, renewing,
                   stopVars, crashes>>

\* Mutant: it is the new task that is cancelled.
MutTakeOver(t) ==
    /\ registry' = [registry EXCEPT ![worker[t]] = t]
    /\ cancelled' = IF registry[worker[t]] = NoTurn THEN cancelled ELSE Set(cancelled, t)

\* register(), else replace(), which cancels the task it replaces.
TakeOver(t) ==
    LET old == registry[worker[t]] IN
    /\ registry' = [registry EXCEPT ![worker[t]] = t]
    /\ cancelled' = IF old = NoTurn THEN cancelled ELSE Set(cancelled, old)

\* acquire() returns, with the renew task started.
Register(t) ==
    /\ phase[t] = "granted"
    /\ renewing' = Set(renewing, t)
    /\ TakeOver(t)
    /\ sm' = [sm EXCEPT ![t] =
                Transition(Transition(@, "LOCK_ACQUIRED"), "REGISTERED")]
    /\ Go(t, "announcing")
    /\ UNCHANGED <<worker, connected, finalized, flags, doubted, storeVars,
                   lease, stopVars, crashes>>

\* The emit of "conversation.started" and the cache lookup are over.
Announced(t) ==
    /\ phase[t] = "announcing"
    /\ Go(t, "loading")
    /\ UNCHANGED <<worker, connected, taskVars, storeVars, registry, leaseVars,
                   stopVars, crashes>>

\* has_history() of the cache lookup raises, outside of any try.
LookupFails(t) ==
    /\ phase[t] = "announcing"
    /\ Go(t, "leaked")
    /\ UNCHANGED <<worker, connected, taskVars, storeVars, registry, leaseVars,
                   stopVars, crashes>>

LoadMemory(t) ==
    /\ phase[t] = "loading"
    /\ sm' = [sm EXCEPT ![t] =
                Transition(Transition(@, "MEMORY_LOADED"), "ORCHESTRATING")]
    /\ Go(t, "planning")
    /\ UNCHANGED <<worker, connected, cancelled, finalized, flags, doubted,
                   storeVars, registry, leaseVars, stopVars, crashes>>

Prepare(t) ==
    /\ phase[t] = "planning"
    /\ Move(t, "PREPARED")
    /\ Go(t, "starting")
    /\ UNCHANGED <<worker, connected, cancelled, finalized, flags, doubted,
                   storeVars, registry, leaseVars, stopVars, crashes>>

StartExchange(t) == row' = [row EXCEPT ![t] = "running"]

\* start_exchange() has committed; the THINKING event is yielded.
PrePersist(t) ==
    /\ phase[t] = "starting"
    /\ StartExchange(t)
    /\ Go(t, "started")
    /\ UNCHANGED <<worker, connected, taskVars, remembered, registry,
                   leaseVars, stopVars, crashes>>

Dispatch(t) ==
    /\ phase[t] = "started"
    /\ Move(t, "EXECUTING")
    /\ Go(t, "executing")
    /\ UNCHANGED <<worker, connected, cancelled, finalized, flags, doubted,
                   storeVars, registry, leaseVars, stopVars, crashes>>

\* A chunk arrives: the task was cancelled, or (after the chunk was yielded,
\* which is an await) is_owned() found that the key is no longer its own.
ChunkStops(t) ==
    /\ phase[t] = "executing"
    /\ cancelled[t] \/ lease # t
    /\ Raise(t, "stopped")
    /\ finalized' = Set(finalized, t)
    /\ CloseStream(t)
    /\ UNCHANGED <<worker, connected, cancelled, doubted, storeVars,
                   registry, leaseVars, stopVars, crashes>>

\* is_owned() says that the lease is lost without an answer from Redis, so that
\* the key may still be there and its own: the renew task has given up after
\* _MAX_RENEW_RETRIES failures, or this was the last of FAILURE_THRESHOLD checks
\* that failed.  (ConversationLease counts both.  That the renewals have given
\* up is read nowhere else; before and after, it shows only in LeaseLost.)
LeaseDoubted(t) ==
    /\ phase[t] = "executing"
    /\ renewing' \in {renewing, [renewing EXCEPT ![t] = FALSE]}
    /\ doubted' = Set(doubted, t)
    /\ Raise(t, "stopped")
    /\ finalized' = Set(finalized, t)
    /\ CloseStream(t)
    /\ UNCHANGED <<worker, connected, cancelled, storeVars, registry, lease,
                   stopVars, crashes>>

\* An ERROR chunk; every other chunk changes nothing.
ErrorChunk(t) ==
    /\ phase[t] = "executing"
    /\ Raise(t, "failed")
    /\ UNCHANGED <<phase, worker, connected, sm, cancelled, finalized,
                   doubted, storeVars, registry, leaseVars, stopVars,
                   crashes>>

\* The executor has no more chunks.  From here on task.cancelled is not read.
DispatchEnds(t) ==
    /\ phase[t] = "executing"
    /\ Go(t, "enriching")
    /\ UNCHANGED <<worker, connected, taskVars, storeVars, registry, leaseVars,
                   stopVars, crashes>>

\* References, recommendations and citations are sent, then DONE.
SendDone(t) ==
    /\ phase[t] = "enriching"
    /\ finalized' = Set(finalized, t)
    /\ Go(t, "done")
    /\ UNCHANGED <<worker, connected, sm, cancelled, flags, doubted,
                   storeVars, registry, leaseVars, stopVars, crashes>>

StreamEnds(t) ==
    /\ phase[t] = "done"
    /\ CloseStream(t)
    /\ UNCHANGED <<worker, connected, cancelled, finalized, flags, doubted,
                   storeVars, registry, leaseVars, stopVars, crashes>>

\* An exception, or no chunk within stream_timeout_seconds.
StreamFails(t) ==
    /\ phase[t] \in Streaming \ {"started"}
    /\ Raise(t, "failed")
    /\ finalized' = Set(finalized, t)
    /\ CloseStream(t)
    /\ UNCHANGED <<worker, connected, cancelled, doubted, storeVars,
                   registry, leaseVars, stopVars, crashes>>
-----------------------------------------------------------------------------
\* Mutant: a failed turn that was stopped is recorded as failed.
MutTurnStatus(t) ==
    IF "failed" \in flags[t] THEN "failed"
    ELSE IF "stopped" \in flags[t] THEN "stopped"
    ELSE "completed"

\* Mutant: the name of the final state instead of the status.
MutTurnStatusName(t) == IF "stopped" \in flags[t] THEN "CANCELLED"
                        ELSE IF "failed" \in flags[t] THEN "failed" ELSE "completed"

\* turn_status 4, 3, 2
TurnStatus(t) ==
    IF "stopped" \in flags[t] THEN "stopped"
    ELSE IF "failed" \in flags[t] THEN "failed"
    ELSE "completed"

\* complete_exchange() updates the row if there is one and commits; then
\* memory_service.save(), for completed turns.
CompleteExchange(t) ==
    row' = [row EXCEPT ![t] = IF @ = "none" THEN @ ELSE TurnStatus(t)]

Persist(t) ==
    /\ phase[t] = "persisting"
    /\ CompleteExchange(t)
    /\ remembered' = [remembered EXCEPT ![t] = TurnStatus(t) = "completed"]
    /\ Go(t, "titling")
    /\ UNCHANGED <<worker, connected, taskVars, registry, leaseVars, stopVars,
                   crashes>>

\* An exception in either is logged and swallowed.
PersistFails(t) ==
    /\ phase[t] = "persisting"
    /\ CompleteExchange(t) \/ UNCHANGED row
    /\ Go(t, "titling")
    /\ UNCHANGED <<worker, connected, taskVars, remembered, registry,
                   leaseVars, stopVars, crashes>>

\* get_session_title(), and the title and fact tasks are queued.
Title(t) ==
    /\ phase[t] = "titling"
    /\ Go(t, "closing")
    /\ UNCHANGED <<worker, connected, taskVars, storeVars, registry, leaseVars,
                   stopVars, crashes>>

\* get_session_title() raises, outside of any try.
TitleFails(t) ==
    /\ phase[t] = "titling"
    /\ TurnStatus(t) = "completed"
    /\ Go(t, "leaked")
    /\ UNCHANGED <<worker, connected, taskVars, storeVars, registry, leaseVars,
                   stopVars, crashes>>

FinalTransition(t) ==
    IF "stopped" \in flags[t] THEN Move(t, "CANCELLED")
    ELSE IF "failed" \in flags[t] THEN Move(t, "FAILED")
    ELSE IF sm[t].at \in {"FINALIZING", "EXECUTING", "PREPARED"}
    THEN Move(t, "COMPLETED")
    ELSE UNCHANGED sm

\* Mutant: unregister() does not compare the task.
MutUnregister(w, t) == registry' = [registry EXCEPT ![w] = NoTurn]

\* unregister(conversation_id, task)
Unregister(w, t) ==
    registry' = [registry EXCEPT ![w] = IF @ = t THEN NoTurn ELSE @]

Close(t) ==
    /\ phase[t] = "closing"
    /\ FinalTransition(t)
    /\ Unregister(worker[t], t)
    /\ Go(t, "releasing")
    /\ UNCHANGED <<worker, connected, cancelled, finalized, flags, doubted,
                   storeVars, leaseVars, stopVars, crashes>>

\* Mutant: release() leaves the renew task running.
MutStopRenewer(t) == UNCHANGED renewing
StopRenewer(t) == renewing' = [renewing EXCEPT ![t] = FALSE]

\* Mutant: the turn insists on deleting its own key.
MutReleaseKey(t) == lease = t /\ lease' = NoTurn
ReleaseKey(t) == lease' = IF lease = t THEN NoTurn ELSE lease

\* release(); when it raises or is cancelled the key stays, without renewals.
Release(t) ==
    /\ phase[t] = "releasing"
    /\ StopRenewer(t)
    /\ ReleaseKey(t)
    /\ Go(t, "over")
    /\ DropTasks({t})
    /\ UNCHANGED <<worker, storeVars, registry, stopVars, crashes>>

ReleaseFails(t) ==
    /\ phase[t] = "releasing"
    /\ StopRenewer(t)
    /\ Go(t, "over")
    /\ DropTasks({t})
    /\ UNCHANGED <<worker, storeVars, registry, lease, stopVars, crashes>>
-----------------------------------------------------------------------------
\* The client goes away.  Inside the try the turn sees a CancelledError at an
\* await, or a GeneratorExit at a yield, and is finalized as stopped.
DisconnectStreaming(t) ==
    /\ phase[t] \in Streaming
    /\ connected[t]
    /\ connected' = [connected EXCEPT ![t] = FALSE]
    /\ Raise(t, "stopped")
    /\ \/ UNCHANGED <<cancelled, finalized>>
       \/ /\ finalized' = Set(finalized, t)
          /\ cancelled' = IF finalized[t] THEN cancelled ELSE Set(cancelled, t)
    /\ CloseStream(t)
    /\ UNCHANGED <<worker, doubted, storeVars, registry, leaseVars, stopVars,
                   crashes>>

\* While acquire() waits for its answer nothing is set up yet.
DisconnectAcquiring(t) ==
    /\ phase[t] = "granted"
    /\ Go(t, "dead")
    /\ UNCHANGED <<worker, connected, taskVars, storeVars, registry, leaseVars,
                   stopVars, crashes>>

\* Before the try and in finalize_stream() nothing catches the CancelledError.
\* A turn that a disconnect brought to finalize_stream() is closed by the event
\* loop, no longer by the request task.
DisconnectOutside(t) ==
    /\ phase[t] \in {"announcing"} \cup Finalizing
    /\ connected[t]
    /\ connected' = [connected EXCEPT ![t] = FALSE]
    /\ Go(t, "leaked")
    /\ UNCHANGED <<worker, taskVars, storeVars, registry, leaseVars, stopVars,
                   crashes>>

\* The TTL of a key nobody renews runs out.
LeaseExpires(t) ==
    /\ lease = t
    /\ ~renewing[t]
    /\ lease' = NoTurn
    /\ UNCHANGED <<phase, worker, connected, taskVars, storeVars, registry,
                   renewing, stopVars, crashes>>

\* The renewals do not reach Redis for a TTL, or Redis loses the key.
LeaseLost(t) ==
    /\ lease = t
    /\ renewing[t]
    /\ lease' = NoTurn
    /\ UNCHANGED <<phase, worker, connected, taskVars, storeVars, registry,
                   renewing, stopVars, crashes>>

-----------------------------------------------------------------------------
\* publish on pipeline_rag:session:cancel; it fails silently.
Broadcast ==
    mail' \in {mail, [w \in Workers |-> IF mail[w] < MaxStops THEN mail[w] + 1
                                        ELSE mail[w]]}

CountStop == stops < MaxStops /\ stops' = stops + 1

\* stop_session() in the worker that runs the turn.  A finalized task is left
\* alone ("already over").
StopHere(w) ==
    LET t == registry[w] IN
    /\ CountStop
    /\ t # NoTurn
    /\ IF finalized[t]
       THEN UNCHANGED <<finalized, cancelled, mail>>
       ELSE /\ finalized' = Set(finalized, t)
            /\ cancelled' = Set(cancelled, t)
            /\ Broadcast
    /\ UNCHANGED <<phase, worker, connected, sm, flags, doubted, storeVars,
                   registry, leaseVars, resetting, crashes>>

\* stop_session() in any other worker.
StopElsewhere(w) ==
    /\ CountStop
    /\ registry[w] = NoTurn
    /\ Broadcast
    /\ UNCHANGED <<phase, worker, connected, taskVars, storeVars, registry,
                   leaseVars, resetting, crashes>>

\* _cancel_subscriber() gets a broadcast, or misses it while it reconnects.
Deliver(w) ==
    /\ mail[w] > 0
    /\ mail' = [mail EXCEPT ![w] = @ - 1]
    /\ cancelled' \in {cancelled} \cup
          IF registry[w] = NoTurn THEN {} ELSE {Set(cancelled, registry[w])}
    /\ UNCHANGED <<phase, worker, connected, sm, finalized, flags, doubted,
                   storeVars, registry, leaseVars, resetting, stops, crashes>>

\* reset_session(): cancel, then (after the commit and the fact cleanup)
\* unregister.
ResetCancel(w) ==
    /\ CountStop
    /\ registry[w] # NoTurn
    /\ resetting[w] = NoTurn
    /\ cancelled' = Set(cancelled, registry[w])
    /\ resetting' = [resetting EXCEPT ![w] = registry[w]]
    /\ UNCHANGED <<phase, worker, connected, sm, finalized, flags, doubted,
                   storeVars, registry, leaseVars, mail, crashes>>

ResetUnregister(w) ==
    /\ resetting[w] # NoTurn
    /\ Unregister(w, resetting[w])
    /\ resetting' = [resetting EXCEPT ![w] = NoTurn]
    /\ UNCHANGED <<phase, worker, connected, taskVars, storeVars, leaseVars,
                   mail, stops, crashes>>

\* A worker process dies and is started again.
Crash(w) ==
    LET lost == {t \in Turns : worker[t] = w /\
                               phase[t] \notin {"idle", "refused", "over"}} IN
    /\ crashes < MaxCrashes
    /\ crashes' = crashes + 1
    /\ phase' = [t \in Turns |-> IF t \in lost THEN "dead" ELSE phase[t]]
    /\ renewing' = [t \in Turns |-> renewing[t] /\ t \notin lost]
    /\ registry' = [registry EXCEPT ![w] = NoTurn]
    /\ mail' = [mail EXCEPT ![w] = 0]
    /\ resetting' = [resetting EXCEPT ![w] = NoTurn]
    /\ DropTasks(lost)
    /\ UNCHANGED <<worker, storeVars, lease, stops>>
-----------------------------------------------------------------------------
\* The turn goes its way, whatever the outcome of the calls it makes.
Proceed(t) ==
    \/ Acquire(t) \/ Register(t) \/ Announced(t)
    \/ LoadMemory(t) \/ Prepare(t) \/ PrePersist(t) \/ Dispatch(t)
    \/ ChunkStops(t) \/ DispatchEnds(t) \/ SendDone(t) \/ StreamEnds(t)
    \/ Persist(t) \/ Title(t) \/ Close(t) \/ Release(t)

Fault(t) ==
    \/ LookupFails(t) \/ ErrorChunk(t) \/ StreamFails(t)
    \/ PersistFails(t) \/ TitleFails(t) \/ ReleaseFails(t)
    \/ DisconnectAcquiring(t) \/ DisconnectStreaming(t) \/ DisconnectOutside(t)
    \/ LeaseLost(t) \/ LeaseDoubted(t)

Next ==
    \/ \E t \in Turns : Proceed(t) \/ Fault(t) \/ LeaseExpires(t)
    \/ \E w \in Workers :
          \/ StopHere(w) \/ StopElsewhere(w) \/ Deliver(w)
          \/ ResetCancel(w) \/ ResetUnregister(w)
          \/ Crash(w)

Spec == Init /\ [][Next]_vars

\* Every await of a turn ends (chunks, database and Redis calls have timeouts,
\* executors are finite), and Redis expires keys.
Fairness ==
    \A t \in Turns : WF_vars(Proceed(t)) /\ WF_vars(LeaseExpires(t))

FairSpec == Spec /\ Fairness
-----------------------------------------------------------------------------
\* The turn works and its finalization has not unregistered it yet.
Live(t) == phase[t] \in {"announcing"} \cup Streaming \cup Finalizing

\* A live turn that nobody cancelled is in the registry of its worker, so that
\* stop, reset and a cancel broadcast still reach it: no take-over, late
\* finalization or reset of another turn hides it.
LiveTurnIsReachable ==
    \A t \in Turns : Live(t) /\ ~cancelled[t] => registry[worker[t]] = t

\* A turn that came to an end has left no renew task and no registry entry
\* behind, in whatever order it was stopped, replaced, reset or lost its client.
OverLeavesNothing ==
    \A t \in Turns : phase[t] \in {"over", "dead", "refused"} =>
        ~renewing[t] /\ \A w \in Workers : registry[w] # t

\* The status in the exchange row and the final state of the state machine are
\* chosen in different places; they tell the same story.
VerdictsAgree ==
    \A t \in Turns : phase[t] = "releasing" =>
        \/ row[t] \in {"none", "running"}
        \/ row[t] = "completed" /\ sm[t].at = "COMPLETED"
        \/ row[t] = "failed" /\ sm[t].at = "FAILED"
        \/ row[t] = "stopped" /\ sm[t].at = "CANCELLED"

\* The state machine only warns of a transition outside its table; no path of
\* a turn takes one.
NoIllegalTransition == \A t \in Turns : ~sm[t].warned

\* The state machine is a true account of the turn: its way there is legal and
\* its end is the one that was recorded.
MachineTellsTheTruth == VerdictsAgree /\ NoIllegalTransition

\* Only turns recorded as completed enter the conversation memory.
RememberedIsRecorded ==
    \A t \in Turns : remembered[t] => row[t] = "completed"

\* What a conversation promises about its turns to those who see only its lease,
\* its records and its memory.
Conversation == INSTANCE TurnService WITH
    holder <- lease,
    asked <- {t \in Turns : phase[t] # "idle"},
    working <- {t \in Turns : phase[t] \notin {"idle", "refused", "over", "dead", "leaked"}},
    gone <- {t \in Turns : ~connected[t]},
    unsure <- {t \in Turns : doubted[t]},
    cut <- {t \in Turns : cancelled[t] \/ "stopped" \in flags[t]},
    calls <- stops,
    record <- row,
    memory <- {t \in Turns : remembered[t]}

\* Whatever stops, takes over, leaves, fails or dies: a turn is recorded once and
\* one way, remembered only as completed, and stopped only for a reason.
ImplementsTurnService == Conversation!Spec

\* Every request comes to an end.
TurnEnds ==
    \A t \in Turns :
        phase[t] # "idle" ~> phase[t] \in {"refused", "over", "leaked", "dead"}

\* The conversation is locked for ever only by a turn that leaked.
LeaseFreedUnlessLeaked ==
    \A t \in Turns : lease = t ~> lease # t \/ phase[t] = "leaked"

\* redis_lease.py:7: release() runs "whether the turn succeeds or fails".
LeaseFreed == \A t \in Turns : lease = t ~> lease # t
=============================================================================
