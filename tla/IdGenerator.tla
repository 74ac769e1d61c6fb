----------------------------- MODULE IdGenerator -----------------------------
(* The snowflake ids of one machine (infra/id_generator.py).  Each process  *)
(* has one generator, made at its first id, with the worker number of its   *)
(* environment.  next_id() runs under a lock of the process, so that it is  *)
(* one step, but for a full millisecond: then it spins, with the lock held, *)
(* until the clock shows a later one.  The time is that of time.time(),     *)
(* which an operator or NTP can set back, in milliseconds since EPOCH.      *)
EXTENDS Integers, FiniteSets

CONSTANTS Processes,    \* server and Celery processes of the machine
          Machines,     \* (MAX_DATACENTER_ID + 1) * (MAX_WORKER_ID + 1)
          WorkerOf,     \* SNOWFLAKE_WORKER_ID of each process, 0 by default
          Sequences,    \* MAX_SEQUENCE + 1
          MaxTime,      \* bound of the clock
          MaxRewinds,   \* bound: how often the clock is set back
          MaxRestarts   \* bound: restarts of each process

ASSUME IdAssumption ==
    /\ Machines \in Nat \ {0} /\ Sequences \in Nat \ {0}
    /\ WorkerOf \in [Processes -> 0 .. Machines - 1]
    /\ MaxTime \in Nat /\ MaxRewinds \in Nat /\ MaxRestarts \in Nat

VARIABLES
    wallTime,   \* time.time() in milliseconds since EPOCH
    lastTime,   \* _last_timestamp of each process
    sequence,   \* _sequence of each process
    spinning,   \* the process is in _wait_next_ms()
    life,       \* restarts of each process so far
    drawn,      \* history: ids drawn by each process
    issued,     \* history: the ids, with who drew them and in which order
    rewinds     \* how often the clock was set back

idVars == <<wallTime, lastTime, sequence, spinning, life, drawn, issued, rewinds>>

IdInit ==
    /\ wallTime = 0
    /\ lastTime = [p \in Processes |-> -1]
    /\ sequence = [p \in Processes |-> 0]
    /\ spinning = [p \in Processes |-> FALSE]
    /\ life = [p \in Processes |-> 0]
    /\ drawn = [p \in Processes |-> 0]
    /\ issued = {}
    /\ rewinds = 0

\* The shifts and ors put three fields side by side.
IdOf(i) == (i.time * Machines + WorkerOf[i.by]) * Sequences + i.seq

-----------------------------------------------------------------------------
Issue(p, t, s) ==
    /\ lastTime' = [lastTime EXCEPT ![p] = t]
    /\ sequence' = [sequence EXCEPT ![p] = s]
    /\ drawn' = [drawn EXCEPT ![p] = @ + 1]
    /\ issued' = issued \cup
          {[by |-> p, life |-> life[p], nth |-> drawn[p], time |-> t, seq |-> s]}
    /\ UNCHANGED <<wallTime, life, rewinds>>

\* The first id of a millisecond.  (An earlier one than the last: next_id()
\* raises and changes nothing.)
FreshMillisecond(p) ==
    /\ ~spinning[p]
    /\ wallTime > lastTime[p]
    /\ Issue(p, wallTime, 0)
    /\ UNCHANGED spinning

SameMillisecond(p) ==
    /\ ~spinning[p]
    /\ wallTime = lastTime[p] /\ sequence[p] + 1 < Sequences
    /\ Issue(p, wallTime, sequence[p] + 1)
    /\ UNCHANGED spinning

\* Mutant: the sequence wraps and nobody waits.
MutFullMillisecond(p) ==
    /\ ~spinning[p]
    /\ wallTime = lastTime[p] /\ sequence[p] + 1 = Sequences
    /\ Issue(p, wallTime, 0)
    /\ UNCHANGED spinning

\* All ids of the millisecond are drawn: the sequence wraps, the wait begins.
FullMillisecond(p) ==
    /\ ~spinning[p]
    /\ wallTime = lastTime[p] /\ sequence[p] + 1 = Sequences
    /\ sequence' = [sequence EXCEPT ![p] = 0]
    /\ spinning' = [spinning EXCEPT ![p] = TRUE]
    /\ UNCHANGED <<wallTime, lastTime, life, drawn, issued, rewinds>>

\* _wait_next_ms() sees a later millisecond.
NextMillisecond(p) ==
    /\ spinning[p] /\ wallTime > lastTime[p]
    /\ Issue(p, wallTime, 0)
    /\ spinning' = [spinning EXCEPT ![p] = FALSE]

-----------------------------------------------------------------------------
\* The process starts again, which takes longer than a millisecond, and with
\* it the generator.
RestartProcess(p) ==
    /\ life[p] < MaxRestarts /\ wallTime < MaxTime
    /\ life' = [life EXCEPT ![p] = @ + 1]
    /\ lastTime' = [lastTime EXCEPT ![p] = -1]
    /\ sequence' = [sequence EXCEPT ![p] = 0]
    /\ spinning' = [spinning EXCEPT ![p] = FALSE]
    /\ wallTime' = wallTime + 1
    /\ UNCHANGED <<drawn, issued, rewinds>>

PassMillisecond ==
    /\ wallTime < MaxTime
    /\ wallTime' = wallTime + 1
    /\ UNCHANGED <<lastTime, sequence, spinning, life, drawn, issued, rewinds>>

SetClockBack ==
    /\ rewinds < MaxRewinds
    /\ rewinds' = rewinds + 1
    /\ \E t \in 0 .. wallTime - 1 : wallTime' = t
    /\ UNCHANGED <<lastTime, sequence, spinning, life, drawn, issued>>

IdNext ==
    \/ \E p \in Processes :
          \/ FreshMillisecond(p) \/ SameMillisecond(p)
          \/ FullMillisecond(p) \/ NextMillisecond(p)
          \/ RestartProcess(p)
    \/ PassMillisecond \/ SetClockBack

IdSpec == IdInit /\ [][IdNext]_idVars

-----------------------------------------------------------------------------
IdTypeOK ==
    /\ wallTime \in Nat
    /\ lastTime \in [Processes -> Nat \cup {-1}]
    /\ sequence \in [Processes -> 0 .. Sequences - 1]
    /\ spinning \in [Processes -> BOOLEAN]
    /\ life \in [Processes -> Nat] /\ drawn \in [Processes -> Nat]
    /\ issued \subseteq [by : Processes, life : Nat, nth : Nat, time : Nat,
                         seq : 0 .. Sequences - 1]
    /\ rewinds \in Nat

\* The ids a process draws between two starts grow, whatever the clock does and
\* however full a millisecond is (id_generator.py:5, "naturally ordered"): an id
\* in the future of a clock that was set back is never drawn again.
IdsGrow ==
    \A i, j \in issued :
        i.by = j.by /\ i.life = j.life /\ i.nth < j.nth => IdOf(i) < IdOf(j)

\* Two ids are equal only when two processes have the same worker number, or
\* when a process was started again on a machine whose clock was set back:
\* with a worker number for each process, and a clock that only grows, the ids
\* of the machine are different.
ClashOnlyByConfiguration ==
    \A i, j \in issued : i # j /\ IdOf(i) = IdOf(j) =>
        /\ WorkerOf[i.by] = WorkerOf[j.by]
        /\ i.by # j.by \/ (i.life # j.life /\ rewinds > 0)

\* The ids of the machine are ordered within each process and different between
\* them, but for those two causes (chunker/utils.py:31 has them unique and
\* ordered without exception).
IdsOrderedAndDistinct == IdsGrow /\ ClashOnlyByConfiguration
=============================================================================
