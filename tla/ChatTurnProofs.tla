--------------------------- MODULE ChatTurnProofs ---------------------------
(* Proofs of the safety properties of ChatTurn, for every set of turns and   *)
(* workers and every number of stops and crashes.                            *)
EXTENDS ChatTurn, TLAPS

\* Who can be registered, and who can own a renew task.
RegistryInv ==
    /\ \A w \in Workers, t \in Turns :
          registry[w] = t => worker[t] = w /\ (Live(t) \/ phase[t] = "leaked")
    /\ \A t \in Turns :
          renewing[t] => Live(t) \/ phase[t] \in {"leaked", "releasing"}

\* A reset under way is about a turn that was registered, and cancelled it.
ResetInv ==
    \A w \in Workers, t \in Turns :
        resetting[w] = t =>
            /\ phase[t] \notin {"idle", "refused", "granted"}
            /\ Live(t) => cancelled[t]

\* The state of the state machine in each phase.
MachineInv ==
    \A t \in Turns :
        /\ phase[t] \in {"idle", "granted"} => sm[t].at = "INITIALIZED"
        /\ phase[t] \in {"announcing", "loading"} => sm[t].at = "REGISTERED"
        /\ phase[t] = "planning" => sm[t].at = "ORCHESTRATING"
        /\ phase[t] \in {"starting", "started"} => sm[t].at = "PREPARED"
        /\ phase[t] \in {"executing", "enriching", "done"} =>
              sm[t].at = "EXECUTING"
        /\ phase[t] \in Finalizing =>
              /\ sm[t].at \in {"REGISTERED", "ORCHESTRATING", "PREPARED",
                               "FINALIZING"}
              /\ flags[t] = {} => sm[t].at = "FINALIZING"

\* What is stored in each phase.
RowInv ==
    \A t \in Turns :
        /\ phase[t] \in {"idle", "refused", "granted", "announcing"}
                        \cup Streaming \cup {"persisting"} =>
              row[t] \in {"none", "running"} /\ ~remembered[t]
        /\ phase[t] \in {"started", "executing", "enriching", "done"} =>
              row[t] = "running"
        /\ phase[t] = "persisting" /\ flags[t] = {} => row[t] = "running"
        /\ phase[t] \in {"titling", "closing"} =>
              row[t] \in {"none", "running", TurnStatus(t)}

IInv ==
    /\ TypeOK
    /\ RegistryInv /\ ResetInv
    /\ LiveTurnIsReachable /\ OverLeavesNothing
    /\ MachineInv /\ NoIllegalTransition
    /\ RowInv /\ VerdictsAgree /\ RememberedIsRecorded
-----------------------------------------------------------------------------
Machine == [at : States, warned : BOOLEAN]

\* transition() leads from a state of the machine to one.
LEMMA TransitionTyped ==
    ASSUME NEW m \in Machine, NEW target \in States
    PROVE  Transition(m, target) \in Machine
BY DEF Machine, Transition

\* What leaving the try of stream() does to the turn and to the others.
LEMMA CloseStreamEffect ==
    ASSUME TypeOK, NEW t \in Turns, CloseStream(t)
    PROVE  /\ phase' = [phase EXCEPT ![t] = "persisting"]
           /\ sm' \in [Turns -> Machine]
           /\ \A u \in Turns : u # t => sm'[u] = sm[u]
           /\ sm'[t].warned = sm[t].warned
           /\ sm'[t].at = IF sm[t].at = "EXECUTING" THEN "FINALIZING"
                           ELSE sm[t].at
<1>1. CASE sm[t].at = "EXECUTING"
  <2>1. sm' = [sm EXCEPT ![t] = Transition(sm[t], "FINALIZING")]
    BY <1>1 DEF CloseStream, Move
  <2>2. Transition(sm[t], "FINALIZING") \in Machine
    BY TransitionTyped DEF TypeOK, Machine, States
  <2>3. Transition(sm[t], "FINALIZING").at = "FINALIZING"
        /\ Transition(sm[t], "FINALIZING").warned = sm[t].warned
    BY <1>1 DEF Transition, Terminal, Allowed, TypeOK
  <2> QED
    BY <1>1, <2>1, <2>2, <2>3 DEF TypeOK, Machine, CloseStream, Go
<1>2. CASE sm[t].at # "EXECUTING"
  BY <1>2 DEF CloseStream, Go, TypeOK, Machine
<1> QED
  BY <1>1, <1>2

\* Every step keeps the types.
LEMMA TypeStep ==
    ASSUME TypeOK, [Next]_vars
    PROVE  TypeOK'
<1> USE TurnAssumption DEF TypeOK, NewMachine, Phases, Streaming, Finalizing,
   States, Verdicts, TurnStatus, taskVars, storeVars, leaseVars, stopVars
<1>1. ASSUME NEW t \in Turns, Acquire(t) PROVE TypeOK'
  BY <1>1 DEF Acquire, Go
<1>2. ASSUME NEW t \in Turns, Register(t) PROVE TypeOK'
  BY <1>2 DEF Register, Go, TakeOver, Set, Transition, Allowed, Terminal
<1>3. ASSUME NEW t \in Turns, Announced(t) PROVE TypeOK'
  BY <1>3 DEF Announced, Go
<1>4. ASSUME NEW t \in Turns, LookupFails(t) PROVE TypeOK'
  BY <1>4 DEF LookupFails, Go
<1>5. ASSUME NEW t \in Turns, LoadMemory(t) PROVE TypeOK'
  BY <1>5 DEF LoadMemory, Go, Transition, Allowed, Terminal
<1>6. ASSUME NEW t \in Turns, Prepare(t) PROVE TypeOK'
  BY <1>6 DEF Prepare, Go, Move, Transition, Allowed, Terminal
<1>7. ASSUME NEW t \in Turns, PrePersist(t) PROVE TypeOK'
  BY <1>7 DEF PrePersist, Go, StartExchange
<1>8. ASSUME NEW t \in Turns, Dispatch(t) PROVE TypeOK'
  BY <1>8 DEF Dispatch, Go, Move, Transition, Allowed, Terminal
<1>9. ASSUME NEW t \in Turns, ChunkStops(t) PROVE TypeOK'
  BY <1>9 DEF ChunkStops, Raise, Set, CloseStream, Go, Move, Transition,
     Allowed, Terminal
<1>10. ASSUME NEW t \in Turns, ErrorChunk(t) PROVE TypeOK'
  BY <1>10 DEF ErrorChunk, Raise
<1>11. ASSUME NEW t \in Turns, DispatchEnds(t) PROVE TypeOK'
  BY <1>11 DEF DispatchEnds, Go
<1>12. ASSUME NEW t \in Turns, SendDone(t) PROVE TypeOK'
  BY <1>12 DEF SendDone, Go, Set
<1>13. ASSUME NEW t \in Turns, StreamEnds(t) PROVE TypeOK'
  <2>1. CloseStream(t)
    BY <1>13 DEF StreamEnds
  <2>2. /\ phase' = [phase EXCEPT ![t] = "persisting"]
        /\ sm' \in [Turns -> Machine]
        /\ \A u \in Turns : u # t => sm'[u] = sm[u]
        /\ sm'[t].warned = sm[t].warned
        /\ sm'[t].at = IF sm[t].at = "EXECUTING" THEN "FINALIZING"
                        ELSE sm[t].at
    BY <2>1, CloseStreamEffect
  <2> QED
    BY <1>13, <2>2 DEF StreamEnds, Machine
<1>14. ASSUME NEW t \in Turns, StreamFails(t) PROVE TypeOK'
  <2>1. CloseStream(t)
    BY <1>14 DEF StreamFails
  <2>2. /\ phase' = [phase EXCEPT ![t] = "persisting"]
        /\ sm' \in [Turns -> Machine]
        /\ \A u \in Turns : u # t => sm'[u] = sm[u]
        /\ sm'[t].warned = sm[t].warned
        /\ sm'[t].at = IF sm[t].at = "EXECUTING" THEN "FINALIZING"
                        ELSE sm[t].at
    BY <2>1, CloseStreamEffect
  <2> QED
    BY <1>14, <2>2 DEF StreamFails, Raise, Set, Machine
<1>15. ASSUME NEW t \in Turns, Persist(t) PROVE TypeOK'
  BY <1>15 DEF Persist, Go, CompleteExchange
<1>16. ASSUME NEW t \in Turns, PersistFails(t) PROVE TypeOK'
  BY <1>16 DEF PersistFails, Go, CompleteExchange
<1>17. ASSUME NEW t \in Turns, Title(t) PROVE TypeOK'
  BY <1>17 DEF Title, Go
<1>18. ASSUME NEW t \in Turns, TitleFails(t) PROVE TypeOK'
  BY <1>18 DEF TitleFails, Go
<1>19. ASSUME NEW t \in Turns, Close(t) PROVE TypeOK'
  <2>1. sm' \in [Turns -> Machine]
    <3>1. \A target \in States : Transition(sm[t], target) \in Machine
      BY TransitionTyped DEF Machine
    <3>2. \/ UNCHANGED sm
          \/ \E target \in States :
                sm' = [sm EXCEPT ![t] = Transition(sm[t], target)]
      BY <1>19 DEF Close, FinalTransition, Move
    <3> QED
      BY <3>1, <3>2 DEF Machine
  <2> QED
    BY <1>19, <2>1 DEF Close, Go, Unregister, Machine
<1>20. ASSUME NEW t \in Turns, Release(t) PROVE TypeOK'
  BY <1>20 DEF Release, Go, StopRenewer, ReleaseKey, DropTasks
<1>21. ASSUME NEW t \in Turns, ReleaseFails(t) PROVE TypeOK'
  BY <1>21 DEF ReleaseFails, Go, StopRenewer, DropTasks
<1>22. ASSUME NEW t \in Turns, DisconnectAcquiring(t) PROVE TypeOK'
  BY <1>22 DEF DisconnectAcquiring, Go
<1>23. ASSUME NEW t \in Turns, DisconnectStreaming(t) PROVE TypeOK'
  <2>1. CloseStream(t)
    BY <1>23 DEF DisconnectStreaming
  <2>2. /\ phase' = [phase EXCEPT ![t] = "persisting"]
        /\ sm' \in [Turns -> Machine]
    BY <2>1, CloseStreamEffect
  <2>3. finalized' \in [Turns -> BOOLEAN] /\ cancelled' \in [Turns -> BOOLEAN]
    BY <1>23 DEF DisconnectStreaming, Set
  <2>4. /\ flags' \in [Turns -> SUBSET {"stopped", "failed"}]
        /\ connected' \in [Turns -> BOOLEAN]
    BY <1>23 DEF DisconnectStreaming, Raise
  <2> QED
    BY <1>23, <2>2, <2>3, <2>4 DEF DisconnectStreaming, Machine
<1>24. ASSUME NEW t \in Turns, DisconnectOutside(t) PROVE TypeOK'
  BY <1>24 DEF DisconnectOutside, Go
<1>25. ASSUME NEW t \in Turns, LeaseExpires(t) PROVE TypeOK'
  BY <1>25 DEF LeaseExpires
<1>26. ASSUME NEW t \in Turns, LeaseLost(t) PROVE TypeOK'
  BY <1>26 DEF LeaseLost
<1>27. ASSUME NEW w \in Workers, StopHere(w) PROVE TypeOK'
  <2>1. finalized' \in [Turns -> BOOLEAN] /\ cancelled' \in [Turns -> BOOLEAN]
    BY <1>27 DEF StopHere, Set
  <2>2. mail' \in [Workers -> 0..MaxStops]
    BY <1>27 DEF StopHere, Broadcast
  <2>3. stops' \in 0..MaxStops
    BY <1>27 DEF StopHere, CountStop
  <2> QED
    BY <1>27, <2>1, <2>2, <2>3 DEF StopHere
<1>28. ASSUME NEW w \in Workers, StopElsewhere(w) PROVE TypeOK'
  <2>1. mail' \in [Workers -> 0..MaxStops]
    BY <1>28 DEF StopElsewhere, Broadcast
  <2>2. stops' \in 0..MaxStops
    BY <1>28 DEF StopElsewhere, CountStop
  <2> QED
    BY <1>28, <2>1, <2>2 DEF StopElsewhere
<1>29. ASSUME NEW w \in Workers, Deliver(w) PROVE TypeOK'
  <2>1. cancelled' \in [Turns -> BOOLEAN]
    BY <1>29 DEF Deliver, Set
  <2>2. mail' \in [Workers -> 0..MaxStops]
    BY <1>29 DEF Deliver
  <2> QED
    BY <1>29, <2>1, <2>2 DEF Deliver
<1>30. ASSUME NEW w \in Workers, ResetCancel(w) PROVE TypeOK'
  BY <1>30 DEF ResetCancel, CountStop, Set
<1>31. ASSUME NEW w \in Workers, ResetUnregister(w) PROVE TypeOK'
  BY <1>31 DEF ResetUnregister, Unregister
<1>32. ASSUME NEW w \in Workers, Crash(w) PROVE TypeOK'
  BY <1>32 DEF Crash, DropTasks
<1>33. CASE UNCHANGED vars
  BY <1>33 DEF vars
<1>34. ASSUME NEW t \in Turns, LeaseDoubted(t) PROVE TypeOK'
  <2>1. CloseStream(t)
    BY <1>34 DEF LeaseDoubted
  <2>2. /\ phase' = [phase EXCEPT ![t] = "persisting"]
        /\ sm' \in [Turns -> Machine]
        /\ \A u \in Turns : u # t => sm'[u] = sm[u]
        /\ sm'[t].warned = sm[t].warned
        /\ sm'[t].at = IF sm[t].at = "EXECUTING" THEN "FINALIZING"
                        ELSE sm[t].at
    BY <2>1, CloseStreamEffect
  <2> QED
    BY <1>34, <2>2 DEF LeaseDoubted, Raise, Set, Machine
<1> QED
  BY <1>1, <1>2, <1>3, <1>4, <1>5, <1>6, <1>7, <1>8, <1>9, <1>10, <1>11,
     <1>12, <1>13, <1>14, <1>15, <1>16, <1>17, <1>18, <1>19, <1>20, <1>21,
     <1>22, <1>23, <1>24, <1>25, <1>26, <1>27, <1>28, <1>29, <1>30, <1>31,
     <1>32, <1>33, <1>34 DEF Next, Proceed, Fault

\* Registry and renew tasks: only a turn's own end, a take-over, a reset of the
\* turn or a crash of its worker takes its entry away.
LEMMA RegistryStep ==
    ASSUME TypeOK, RegistryInv, [Next]_vars
    PROVE  RegistryInv'
<1> USE TurnAssumption DEF TypeOK, RegistryInv, Live, Streaming, Finalizing,
   taskVars, storeVars, leaseVars, stopVars
<1>1. ASSUME NEW t \in Turns, Acquire(t) PROVE RegistryInv'
  <2>1. \A u \in Turns : phase'[u] = phase[u] \/ phase[u] = "idle"
    BY <1>1 DEF Acquire, Go
  <2>2. UNCHANGED <<registry, worker, renewing>>
    BY <1>1 DEF Acquire
  <2>3. \A u \in Turns : Live(u) \/ phase[u] \in {"leaked", "releasing"} =>
           phase'[u] = phase[u]
    BY <2>1
  <2>4. \A w \in Workers, u \in Turns : registry'[w] = u =>
           worker'[u] = w /\ (Live(u)' \/ phase'[u] = "leaked")
    BY <2>2, <2>3
  <2>5. \A u \in Turns :
           renewing'[u] => Live(u)' \/ phase'[u] \in {"leaked", "releasing"}
    BY <2>2, <2>3
  <2> QED
    BY <2>4, <2>5
<1>2. ASSUME NEW t \in Turns, Register(t) PROVE RegistryInv'
  BY <1>2 DEF Register, Go, TakeOver, Set, Transition, Allowed, Terminal
<1>3. ASSUME NEW t \in Turns, Announced(t) PROVE RegistryInv'
  BY <1>3 DEF Announced, Go
<1>4. ASSUME NEW t \in Turns, LookupFails(t) PROVE RegistryInv'
  BY <1>4 DEF LookupFails, Go
<1>5. ASSUME NEW t \in Turns, LoadMemory(t) PROVE RegistryInv'
  BY <1>5 DEF LoadMemory, Go, Transition, Allowed, Terminal
<1>6. ASSUME NEW t \in Turns, Prepare(t) PROVE RegistryInv'
  BY <1>6 DEF Prepare, Go, Move, Transition, Allowed, Terminal
<1>7. ASSUME NEW t \in Turns, PrePersist(t) PROVE RegistryInv'
  BY <1>7 DEF PrePersist, Go, StartExchange
<1>8. ASSUME NEW t \in Turns, Dispatch(t) PROVE RegistryInv'
  BY <1>8 DEF Dispatch, Go, Move, Transition, Allowed, Terminal
<1>9. ASSUME NEW t \in Turns, ChunkStops(t) PROVE RegistryInv'
  BY <1>9 DEF ChunkStops, Raise, Set, CloseStream, Go, Move, Transition,
     Allowed, Terminal
<1>10. ASSUME NEW t \in Turns, ErrorChunk(t) PROVE RegistryInv'
  BY <1>10 DEF ErrorChunk, Raise
<1>11. ASSUME NEW t \in Turns, DispatchEnds(t) PROVE RegistryInv'
  BY <1>11 DEF DispatchEnds, Go
<1>12. ASSUME NEW t \in Turns, SendDone(t) PROVE RegistryInv'
  BY <1>12 DEF SendDone, Go, Set
<1>13. ASSUME NEW t \in Turns, StreamEnds(t) PROVE RegistryInv'
  BY <1>13 DEF StreamEnds, CloseStream, Go, Move, Transition, Allowed,
     Terminal
<1>14. ASSUME NEW t \in Turns, StreamFails(t) PROVE RegistryInv'
  BY <1>14 DEF StreamFails, Raise, Set, CloseStream, Go, Move, Transition,
     Allowed, Terminal
<1>15. ASSUME NEW t \in Turns, Persist(t) PROVE RegistryInv'
  BY <1>15 DEF Persist, Go, CompleteExchange
<1>16. ASSUME NEW t \in Turns, PersistFails(t) PROVE RegistryInv'
  BY <1>16 DEF PersistFails, Go, CompleteExchange
<1>17. ASSUME NEW t \in Turns, Title(t) PROVE RegistryInv'
  BY <1>17 DEF Title, Go
<1>18. ASSUME NEW t \in Turns, TitleFails(t) PROVE RegistryInv'
  BY <1>18 DEF TitleFails, Go
<1>19. ASSUME NEW t \in Turns, Close(t) PROVE RegistryInv'
  BY <1>19 DEF Close, Go, FinalTransition, Move, Transition, Allowed,
     Terminal, Unregister
<1>20. ASSUME NEW t \in Turns, Release(t) PROVE RegistryInv'
  BY <1>20 DEF Release, Go, StopRenewer, ReleaseKey, DropTasks
<1>21. ASSUME NEW t \in Turns, ReleaseFails(t) PROVE RegistryInv'
  BY <1>21 DEF ReleaseFails, Go, StopRenewer, DropTasks
<1>22. ASSUME NEW t \in Turns, DisconnectAcquiring(t) PROVE RegistryInv'
  BY <1>22 DEF DisconnectAcquiring, Go
<1>23. ASSUME NEW t \in Turns, DisconnectStreaming(t) PROVE RegistryInv'
  BY <1>23 DEF DisconnectStreaming, Raise, Set, CloseStream, Go, Move,
     Transition, Allowed, Terminal
<1>24. ASSUME NEW t \in Turns, DisconnectOutside(t) PROVE RegistryInv'
  BY <1>24 DEF DisconnectOutside, Go
<1>25. ASSUME NEW t \in Turns, LeaseExpires(t) PROVE RegistryInv'
  BY <1>25 DEF LeaseExpires
<1>26. ASSUME NEW t \in Turns, LeaseLost(t) PROVE RegistryInv'
  BY <1>26 DEF LeaseLost
<1>27. ASSUME NEW w \in Workers, StopHere(w) PROVE RegistryInv'
  BY <1>27 DEF StopHere, CountStop, Set, Broadcast
<1>28. ASSUME NEW w \in Workers, StopElsewhere(w) PROVE RegistryInv'
  BY <1>28 DEF StopElsewhere, CountStop, Broadcast
<1>29. ASSUME NEW w \in Workers, Deliver(w) PROVE RegistryInv'
  BY <1>29 DEF Deliver, Set
<1>30. ASSUME NEW w \in Workers, ResetCancel(w) PROVE RegistryInv'
  BY <1>30 DEF ResetCancel, CountStop, Set
<1>31. ASSUME NEW w \in Workers, ResetUnregister(w) PROVE RegistryInv'
  BY <1>31 DEF ResetUnregister, Unregister
<1>32. ASSUME NEW w \in Workers, Crash(w) PROVE RegistryInv'
  <2>1. \A u \in Turns : worker[u] # w => phase'[u] = phase[u]
    BY <1>32 DEF Crash
  <2>2. \A v \in Workers : registry'[v] = IF v = w THEN NoTurn ELSE registry[v]
    BY <1>32 DEF Crash
  <2>3. \A u \in Turns : renewing'[u] => renewing[u] /\ phase'[u] = phase[u]
    BY <1>32 DEF Crash
  <2>4. UNCHANGED worker
    BY <1>32 DEF Crash
  <2> QED
    BY <2>1, <2>2, <2>3, <2>4
<1>33. CASE UNCHANGED vars
  BY <1>33 DEF vars
<1>34. ASSUME NEW t \in Turns, LeaseDoubted(t) PROVE RegistryInv'
  BY <1>34 DEF LeaseDoubted, Raise, Set, CloseStream, Go, Move, Transition,
     Allowed, Terminal
<1> QED
  BY <1>1, <1>2, <1>3, <1>4, <1>5, <1>6, <1>7, <1>8, <1>9, <1>10, <1>11,
     <1>12, <1>13, <1>14, <1>15, <1>16, <1>17, <1>18, <1>19, <1>20, <1>21,
     <1>22, <1>23, <1>24, <1>25, <1>26, <1>27, <1>28, <1>29, <1>30, <1>31,
     <1>32, <1>33, <1>34 DEF Next, Proceed, Fault

\* A live turn loses its entry only after it was cancelled.
LEMMA ReachableStep ==
    ASSUME TypeOK, RegistryInv, ResetInv, LiveTurnIsReachable, [Next]_vars
    PROVE  (ResetInv /\ LiveTurnIsReachable)'
<1> USE TurnAssumption DEF TypeOK, RegistryInv, ResetInv,
   LiveTurnIsReachable, Live, Streaming, Finalizing, taskVars, storeVars,
   leaseVars, stopVars
<1>1. ASSUME NEW t \in Turns, Acquire(t) PROVE (ResetInv /\ LiveTurnIsReachable)'
  BY <1>1 DEF Acquire, Go
<1>2. ASSUME NEW t \in Turns, Register(t) PROVE (ResetInv /\ LiveTurnIsReachable)'
  BY <1>2 DEF Register, Go, TakeOver, Set, Transition, Allowed, Terminal
<1>3. ASSUME NEW t \in Turns, Announced(t) PROVE (ResetInv /\ LiveTurnIsReachable)'
  BY <1>3 DEF Announced, Go
<1>4. ASSUME NEW t \in Turns, LookupFails(t) PROVE (ResetInv /\ LiveTurnIsReachable)'
  BY <1>4 DEF LookupFails, Go
<1>5. ASSUME NEW t \in Turns, LoadMemory(t) PROVE (ResetInv /\ LiveTurnIsReachable)'
  BY <1>5 DEF LoadMemory, Go, Transition, Allowed, Terminal
<1>6. ASSUME NEW t \in Turns, Prepare(t) PROVE (ResetInv /\ LiveTurnIsReachable)'
  BY <1>6 DEF Prepare, Go, Move, Transition, Allowed, Terminal
<1>7. ASSUME NEW t \in Turns, PrePersist(t) PROVE (ResetInv /\ LiveTurnIsReachable)'
  BY <1>7 DEF PrePersist, Go, StartExchange
<1>8. ASSUME NEW t \in Turns, Dispatch(t) PROVE (ResetInv /\ LiveTurnIsReachable)'
  BY <1>8 DEF Dispatch, Go, Move, Transition, Allowed, Terminal
<1>9. ASSUME NEW t \in Turns, ChunkStops(t) PROVE (ResetInv /\ LiveTurnIsReachable)'
  BY <1>9 DEF ChunkStops, Raise, Set, CloseStream, Go, Move, Transition,
     Allowed, Terminal
<1>10. ASSUME NEW t \in Turns, ErrorChunk(t) PROVE (ResetInv /\ LiveTurnIsReachable)'
  BY <1>10 DEF ErrorChunk, Raise
<1>11. ASSUME NEW t \in Turns, DispatchEnds(t) PROVE (ResetInv /\ LiveTurnIsReachable)'
  BY <1>11 DEF DispatchEnds, Go
<1>12. ASSUME NEW t \in Turns, SendDone(t) PROVE (ResetInv /\ LiveTurnIsReachable)'
  BY <1>12 DEF SendDone, Go, Set
<1>13. ASSUME NEW t \in Turns, StreamEnds(t) PROVE (ResetInv /\ LiveTurnIsReachable)'
  BY <1>13 DEF StreamEnds, CloseStream, Go, Move, Transition, Allowed,
     Terminal
<1>14. ASSUME NEW t \in Turns, StreamFails(t) PROVE (ResetInv /\ LiveTurnIsReachable)'
  BY <1>14 DEF StreamFails, Raise, Set, CloseStream, Go, Move, Transition,
     Allowed, Terminal
<1>15. ASSUME NEW t \in Turns, Persist(t) PROVE (ResetInv /\ LiveTurnIsReachable)'
  BY <1>15 DEF Persist, Go, CompleteExchange
<1>16. ASSUME NEW t \in Turns, PersistFails(t) PROVE (ResetInv /\ LiveTurnIsReachable)'
  BY <1>16 DEF PersistFails, Go, CompleteExchange
<1>17. ASSUME NEW t \in Turns, Title(t) PROVE (ResetInv /\ LiveTurnIsReachable)'
  BY <1>17 DEF Title, Go
<1>18. ASSUME NEW t \in Turns, TitleFails(t) PROVE (ResetInv /\ LiveTurnIsReachable)'
  BY <1>18 DEF TitleFails, Go
<1>19. ASSUME NEW t \in Turns, Close(t) PROVE (ResetInv /\ LiveTurnIsReachable)'
  BY <1>19 DEF Close, Go, FinalTransition, Move, Transition, Allowed,
     Terminal, Unregister
<1>20. ASSUME NEW t \in Turns, Release(t) PROVE (ResetInv /\ LiveTurnIsReachable)'
  BY <1>20 DEF Release, Go, StopRenewer, ReleaseKey, DropTasks
<1>21. ASSUME NEW t \in Turns, ReleaseFails(t) PROVE (ResetInv /\ LiveTurnIsReachable)'
  BY <1>21 DEF ReleaseFails, Go, StopRenewer, DropTasks
<1>22. ASSUME NEW t \in Turns, DisconnectAcquiring(t) PROVE (ResetInv /\ LiveTurnIsReachable)'
  BY <1>22 DEF DisconnectAcquiring, Go
<1>23. ASSUME NEW t \in Turns, DisconnectStreaming(t) PROVE (ResetInv /\ LiveTurnIsReachable)'
  BY <1>23 DEF DisconnectStreaming, Raise, Set, CloseStream, Go, Move,
     Transition, Allowed, Terminal
<1>24. ASSUME NEW t \in Turns, DisconnectOutside(t) PROVE (ResetInv /\ LiveTurnIsReachable)'
  BY <1>24 DEF DisconnectOutside, Go
<1>25. ASSUME NEW t \in Turns, LeaseExpires(t) PROVE (ResetInv /\ LiveTurnIsReachable)'
  BY <1>25 DEF LeaseExpires
<1>26. ASSUME NEW t \in Turns, LeaseLost(t) PROVE (ResetInv /\ LiveTurnIsReachable)'
  BY <1>26 DEF LeaseLost
<1>27. ASSUME NEW w \in Workers, StopHere(w) PROVE (ResetInv /\ LiveTurnIsReachable)'
  <2>1. \A u \in Turns : cancelled[u] => cancelled'[u]
    BY <1>27 DEF StopHere, Set
  <2>2. UNCHANGED <<phase, worker, registry, resetting>>
    BY <1>27 DEF StopHere
  <2> QED
    BY <2>1, <2>2
<1>28. ASSUME NEW w \in Workers, StopElsewhere(w) PROVE (ResetInv /\ LiveTurnIsReachable)'
  BY <1>28 DEF StopElsewhere, CountStop, Broadcast
<1>29. ASSUME NEW w \in Workers, Deliver(w) PROVE (ResetInv /\ LiveTurnIsReachable)'
  <2>1. \A u \in Turns : cancelled[u] => cancelled'[u]
    BY <1>29 DEF Deliver, Set
  <2>2. UNCHANGED <<phase, worker, registry, resetting>>
    BY <1>29 DEF Deliver
  <2> QED
    BY <2>1, <2>2
<1>30. ASSUME NEW w \in Workers, ResetCancel(w) PROVE (ResetInv /\ LiveTurnIsReachable)'
  BY <1>30 DEF ResetCancel, CountStop, Set
<1>31. ASSUME NEW w \in Workers, ResetUnregister(w) PROVE (ResetInv /\ LiveTurnIsReachable)'
  BY <1>31 DEF ResetUnregister, Unregister
<1>32. ASSUME NEW w \in Workers, Crash(w) PROVE (ResetInv /\ LiveTurnIsReachable)'
  BY <1>32 DEF Crash, DropTasks
<1>33. CASE UNCHANGED vars
  BY <1>33 DEF vars
<1>34. ASSUME NEW t \in Turns, LeaseDoubted(t) PROVE (ResetInv /\ LiveTurnIsReachable)'
  BY <1>34 DEF LeaseDoubted, Raise, Set, CloseStream, Go, Move, Transition,
     Allowed, Terminal
<1> QED
  BY <1>1, <1>2, <1>3, <1>4, <1>5, <1>6, <1>7, <1>8, <1>9, <1>10, <1>11,
     <1>12, <1>13, <1>14, <1>15, <1>16, <1>17, <1>18, <1>19, <1>20, <1>21,
     <1>22, <1>23, <1>24, <1>25, <1>26, <1>27, <1>28, <1>29, <1>30, <1>31,
     <1>32, <1>33, <1>34 DEF Next, Proceed, Fault

\* The final transition of a finalized turn obeys the table, and its target
\* says what TurnStatus says.
LEMMA CloseEffect ==
    ASSUME TypeOK, MachineInv, NoIllegalTransition, NEW t \in Turns, Close(t)
    PROVE  /\ phase' = [phase EXCEPT ![t] = "releasing"]
           /\ \A u \in Turns : u # t => sm'[u] = sm[u]
           /\ ~sm'[t].warned
           /\ sm'[t].at = CASE TurnStatus(t) = "stopped" -> "CANCELLED"
                             [] TurnStatus(t) = "failed" -> "FAILED"
                             [] OTHER -> "COMPLETED"
<1>1. /\ sm[t].at \in {"REGISTERED", "ORCHESTRATING", "PREPARED", "FINALIZING"}
      /\ flags[t] = {} => sm[t].at = "FINALIZING"
      /\ ~sm[t].warned
  BY DEF Close, MachineInv, NoIllegalTransition, Finalizing
<1>2. phase' = [phase EXCEPT ![t] = "releasing"] /\ FinalTransition(t)
  BY DEF Close, Go
<1>3. ASSUME NEW target \in {"CANCELLED", "FAILED", "COMPLETED"},
             target = "COMPLETED" => flags[t] = {},
             Move(t, target)
      PROVE  /\ \A u \in Turns : u # t => sm'[u] = sm[u]
             /\ sm'[t].at = target /\ ~sm'[t].warned
  <2>1. sm' = [sm EXCEPT ![t] = Transition(sm[t], target)]
    BY <1>3 DEF Move
  <2>2. sm[t].at \notin Terminal /\ target \in Allowed(sm[t].at)
    BY <1>1, <1>3 DEF Terminal, Allowed
  <2>3. Transition(sm[t], target).at = target
        /\ ~Transition(sm[t], target).warned
    BY <1>1, <2>2 DEF Transition
  <2> QED
    BY <2>1, <2>3 DEF TypeOK
<1>4. CASE "stopped" \in flags[t]
  BY <1>2, <1>3, <1>4 DEF FinalTransition, TurnStatus
<1>5. CASE "stopped" \notin flags[t] /\ "failed" \in flags[t]
  BY <1>2, <1>3, <1>5 DEF FinalTransition, TurnStatus
<1>6. CASE "stopped" \notin flags[t] /\ "failed" \notin flags[t]
  <2>1. flags[t] = {}
    BY <1>6 DEF TypeOK
  <2>2. Move(t, "COMPLETED")
    BY <1>1, <1>2, <1>6, <2>1 DEF FinalTransition
  <2> QED
    BY <1>2, <1>3, <1>6, <2>1, <2>2 DEF TurnStatus
<1> QED
  BY <1>4, <1>5, <1>6

\* The phases follow the transition table.
LEMMA MachineStep ==
    ASSUME TypeOK, MachineInv, NoIllegalTransition, [Next]_vars
    PROVE  (MachineInv /\ NoIllegalTransition)'
<1> USE TurnAssumption DEF TypeOK, MachineInv, NoIllegalTransition,
   NewMachine, Streaming, Finalizing, taskVars, storeVars, leaseVars,
   stopVars
<1>1. ASSUME NEW t \in Turns, Acquire(t) PROVE (MachineInv /\ NoIllegalTransition)'
  BY <1>1 DEF Acquire, Go
<1>2. ASSUME NEW t \in Turns, Register(t) PROVE (MachineInv /\ NoIllegalTransition)'
  BY <1>2 DEF Register, Go, TakeOver, Set, Transition, Allowed, Terminal
<1>3. ASSUME NEW t \in Turns, Announced(t) PROVE (MachineInv /\ NoIllegalTransition)'
  BY <1>3 DEF Announced, Go
<1>4. ASSUME NEW t \in Turns, LookupFails(t) PROVE (MachineInv /\ NoIllegalTransition)'
  BY <1>4 DEF LookupFails, Go
<1>5. ASSUME NEW t \in Turns, LoadMemory(t) PROVE (MachineInv /\ NoIllegalTransition)'
  BY <1>5 DEF LoadMemory, Go, Transition, Allowed, Terminal
<1>6. ASSUME NEW t \in Turns, Prepare(t) PROVE (MachineInv /\ NoIllegalTransition)'
  BY <1>6 DEF Prepare, Go, Move, Transition, Allowed, Terminal
<1>7. ASSUME NEW t \in Turns, PrePersist(t) PROVE (MachineInv /\ NoIllegalTransition)'
  BY <1>7 DEF PrePersist, Go, StartExchange
<1>8. ASSUME NEW t \in Turns, Dispatch(t) PROVE (MachineInv /\ NoIllegalTransition)'
  BY <1>8 DEF Dispatch, Go, Move, Transition, Allowed, Terminal
<1>9. ASSUME NEW t \in Turns, ChunkStops(t) PROVE (MachineInv /\ NoIllegalTransition)'
  <2>1. CloseStream(t)
    BY <1>9 DEF ChunkStops
  <2>2. /\ phase' = [phase EXCEPT ![t] = "persisting"]
        /\ sm' \in [Turns -> Machine]
        /\ \A u \in Turns : u # t => sm'[u] = sm[u]
        /\ sm'[t].warned = sm[t].warned
        /\ sm'[t].at = IF sm[t].at = "EXECUTING" THEN "FINALIZING"
                        ELSE sm[t].at
    BY <2>1, CloseStreamEffect
  <2> QED
    BY <1>9, <2>2 DEF ChunkStops, Raise
<1>10. ASSUME NEW t \in Turns, ErrorChunk(t) PROVE (MachineInv /\ NoIllegalTransition)'
  BY <1>10 DEF ErrorChunk, Raise
<1>11. ASSUME NEW t \in Turns, DispatchEnds(t) PROVE (MachineInv /\ NoIllegalTransition)'
  BY <1>11 DEF DispatchEnds, Go
<1>12. ASSUME NEW t \in Turns, SendDone(t) PROVE (MachineInv /\ NoIllegalTransition)'
  BY <1>12 DEF SendDone, Go, Set
<1>13. ASSUME NEW t \in Turns, StreamEnds(t) PROVE (MachineInv /\ NoIllegalTransition)'
  <2>1. CloseStream(t)
    BY <1>13 DEF StreamEnds
  <2>2. /\ phase' = [phase EXCEPT ![t] = "persisting"]
        /\ sm' \in [Turns -> Machine]
        /\ \A u \in Turns : u # t => sm'[u] = sm[u]
        /\ sm'[t].warned = sm[t].warned
        /\ sm'[t].at = IF sm[t].at = "EXECUTING" THEN "FINALIZING"
                        ELSE sm[t].at
    BY <2>1, CloseStreamEffect
  <2> QED
    BY <1>13, <2>2 DEF StreamEnds
<1>14. ASSUME NEW t \in Turns, StreamFails(t) PROVE (MachineInv /\ NoIllegalTransition)'
  <2>1. CloseStream(t)
    BY <1>14 DEF StreamFails
  <2>2. /\ phase' = [phase EXCEPT ![t] = "persisting"]
        /\ sm' \in [Turns -> Machine]
        /\ \A u \in Turns : u # t => sm'[u] = sm[u]
        /\ sm'[t].warned = sm[t].warned
        /\ sm'[t].at = IF sm[t].at = "EXECUTING" THEN "FINALIZING"
                        ELSE sm[t].at
    BY <2>1, CloseStreamEffect
  <2> QED
    BY <1>14, <2>2 DEF StreamFails, Raise
<1>15. ASSUME NEW t \in Turns, Persist(t) PROVE (MachineInv /\ NoIllegalTransition)'
  BY <1>15 DEF Persist, Go, CompleteExchange
<1>16. ASSUME NEW t \in Turns, PersistFails(t) PROVE (MachineInv /\ NoIllegalTransition)'
  BY <1>16 DEF PersistFails, Go, CompleteExchange
<1>17. ASSUME NEW t \in Turns, Title(t) PROVE (MachineInv /\ NoIllegalTransition)'
  BY <1>17 DEF Title, Go
<1>18. ASSUME NEW t \in Turns, TitleFails(t) PROVE (MachineInv /\ NoIllegalTransition)'
  BY <1>18 DEF TitleFails, Go
<1>19. ASSUME NEW t \in Turns, Close(t) PROVE (MachineInv /\ NoIllegalTransition)'
  <2>1. /\ phase' = [phase EXCEPT ![t] = "releasing"]
        /\ \A u \in Turns : u # t => sm'[u] = sm[u]
        /\ ~sm'[t].warned
    BY <1>19, CloseEffect
  <2>2. UNCHANGED flags
    BY <1>19 DEF Close
  <2> QED
    BY <2>1, <2>2
<1>20. ASSUME NEW t \in Turns, Release(t) PROVE (MachineInv /\ NoIllegalTransition)'
  BY <1>20 DEF Release, Go, StopRenewer, ReleaseKey, DropTasks
<1>21. ASSUME NEW t \in Turns, ReleaseFails(t) PROVE (MachineInv /\ NoIllegalTransition)'
  BY <1>21 DEF ReleaseFails, Go, StopRenewer, DropTasks
<1>22. ASSUME NEW t \in Turns, DisconnectAcquiring(t) PROVE (MachineInv /\ NoIllegalTransition)'
  BY <1>22 DEF DisconnectAcquiring, Go
<1>23. ASSUME NEW t \in Turns, DisconnectStreaming(t) PROVE (MachineInv /\ NoIllegalTransition)'
  <2>1. CloseStream(t)
    BY <1>23 DEF DisconnectStreaming
  <2>2. /\ phase' = [phase EXCEPT ![t] = "persisting"]
        /\ sm' \in [Turns -> Machine]
        /\ \A u \in Turns : u # t => sm'[u] = sm[u]
        /\ sm'[t].warned = sm[t].warned
        /\ sm'[t].at = IF sm[t].at = "EXECUTING" THEN "FINALIZING"
                        ELSE sm[t].at
    BY <2>1, CloseStreamEffect
  <2> QED
    BY <1>23, <2>2 DEF DisconnectStreaming, Raise
<1>24. ASSUME NEW t \in Turns, DisconnectOutside(t) PROVE (MachineInv /\ NoIllegalTransition)'
  BY <1>24 DEF DisconnectOutside, Go
<1>25. ASSUME NEW t \in Turns, LeaseExpires(t) PROVE (MachineInv /\ NoIllegalTransition)'
  BY <1>25 DEF LeaseExpires
<1>26. ASSUME NEW t \in Turns, LeaseLost(t) PROVE (MachineInv /\ NoIllegalTransition)'
  BY <1>26 DEF LeaseLost
<1>27. ASSUME NEW w \in Workers, StopHere(w) PROVE (MachineInv /\ NoIllegalTransition)'
  BY <1>27 DEF StopHere, CountStop, Set, Broadcast
<1>28. ASSUME NEW w \in Workers, StopElsewhere(w) PROVE (MachineInv /\ NoIllegalTransition)'
  BY <1>28 DEF StopElsewhere, CountStop, Broadcast
<1>29. ASSUME NEW w \in Workers, Deliver(w) PROVE (MachineInv /\ NoIllegalTransition)'
  BY <1>29 DEF Deliver, Set
<1>30. ASSUME NEW w \in Workers, ResetCancel(w) PROVE (MachineInv /\ NoIllegalTransition)'
  BY <1>30 DEF ResetCancel, CountStop, Set
<1>31. ASSUME NEW w \in Workers, ResetUnregister(w) PROVE (MachineInv /\ NoIllegalTransition)'
  BY <1>31 DEF ResetUnregister, Unregister
<1>32. ASSUME NEW w \in Workers, Crash(w) PROVE (MachineInv /\ NoIllegalTransition)'
  BY <1>32 DEF Crash, DropTasks
<1>33. CASE UNCHANGED vars
  BY <1>33 DEF vars
<1>34. ASSUME NEW t \in Turns, LeaseDoubted(t) PROVE (MachineInv /\ NoIllegalTransition)'
  <2>1. CloseStream(t)
    BY <1>34 DEF LeaseDoubted
  <2>2. /\ phase' = [phase EXCEPT ![t] = "persisting"]
        /\ sm' \in [Turns -> Machine]
        /\ \A u \in Turns : u # t => sm'[u] = sm[u]
        /\ sm'[t].warned = sm[t].warned
        /\ sm'[t].at = IF sm[t].at = "EXECUTING" THEN "FINALIZING"
                        ELSE sm[t].at
    BY <2>1, CloseStreamEffect
  <2>3. flags'[t] # {} /\ \A u \in Turns : u # t => flags'[u] = flags[u]
    BY <1>34 DEF LeaseDoubted, Raise
  <2>4. phase[t] = "executing" /\ sm'[t].at = "FINALIZING"
    BY <1>34, <2>2 DEF LeaseDoubted
  <2> QED
    BY <2>2, <2>3, <2>4
<1> QED
  BY <1>1, <1>2, <1>3, <1>4, <1>5, <1>6, <1>7, <1>8, <1>9, <1>10, <1>11,
     <1>12, <1>13, <1>14, <1>15, <1>16, <1>17, <1>18, <1>19, <1>20, <1>21,
     <1>22, <1>23, <1>24, <1>25, <1>26, <1>27, <1>28, <1>29, <1>30, <1>31,
     <1>32, <1>33, <1>34 DEF Next, Proceed, Fault

\* Rows, memory and final states are written in step.
LEMMA RowStep ==
    ASSUME TypeOK, MachineInv, NoIllegalTransition, RowInv, VerdictsAgree,
           RememberedIsRecorded, [Next]_vars
    PROVE  (RowInv /\ VerdictsAgree /\ RememberedIsRecorded)'
<1> USE TurnAssumption DEF TypeOK, MachineInv, RowInv, VerdictsAgree,
   RememberedIsRecorded, TurnStatus, Verdicts, NewMachine, Streaming,
   Finalizing, taskVars, storeVars, leaseVars, stopVars
<1>1. ASSUME NEW t \in Turns, Acquire(t) PROVE (RowInv /\ VerdictsAgree /\ RememberedIsRecorded)'
  BY <1>1 DEF Acquire, Go
<1>2. ASSUME NEW t \in Turns, Register(t) PROVE (RowInv /\ VerdictsAgree /\ RememberedIsRecorded)'
  BY <1>2 DEF Register, Go, TakeOver, Set, Transition, Allowed, Terminal
<1>3. ASSUME NEW t \in Turns, Announced(t) PROVE (RowInv /\ VerdictsAgree /\ RememberedIsRecorded)'
  BY <1>3 DEF Announced, Go
<1>4. ASSUME NEW t \in Turns, LookupFails(t) PROVE (RowInv /\ VerdictsAgree /\ RememberedIsRecorded)'
  BY <1>4 DEF LookupFails, Go
<1>5. ASSUME NEW t \in Turns, LoadMemory(t) PROVE (RowInv /\ VerdictsAgree /\ RememberedIsRecorded)'
  BY <1>5 DEF LoadMemory, Go, Transition, Allowed, Terminal
<1>6. ASSUME NEW t \in Turns, Prepare(t) PROVE (RowInv /\ VerdictsAgree /\ RememberedIsRecorded)'
  BY <1>6 DEF Prepare, Go, Move, Transition, Allowed, Terminal
<1>7. ASSUME NEW t \in Turns, PrePersist(t) PROVE (RowInv /\ VerdictsAgree /\ RememberedIsRecorded)'
  BY <1>7 DEF PrePersist, Go, StartExchange
<1>8. ASSUME NEW t \in Turns, Dispatch(t) PROVE (RowInv /\ VerdictsAgree /\ RememberedIsRecorded)'
  BY <1>8 DEF Dispatch, Go, Move, Transition, Allowed, Terminal
<1>9. ASSUME NEW t \in Turns, ChunkStops(t) PROVE (RowInv /\ VerdictsAgree /\ RememberedIsRecorded)'
  BY <1>9 DEF ChunkStops, Raise, Set, CloseStream, Go, Move, Transition,
     Allowed, Terminal
<1>10. ASSUME NEW t \in Turns, ErrorChunk(t) PROVE (RowInv /\ VerdictsAgree /\ RememberedIsRecorded)'
  BY <1>10 DEF ErrorChunk, Raise
<1>11. ASSUME NEW t \in Turns, DispatchEnds(t) PROVE (RowInv /\ VerdictsAgree /\ RememberedIsRecorded)'
  BY <1>11 DEF DispatchEnds, Go
<1>12. ASSUME NEW t \in Turns, SendDone(t) PROVE (RowInv /\ VerdictsAgree /\ RememberedIsRecorded)'
  BY <1>12 DEF SendDone, Go, Set
<1>13. ASSUME NEW t \in Turns, StreamEnds(t) PROVE (RowInv /\ VerdictsAgree /\ RememberedIsRecorded)'
  BY <1>13 DEF StreamEnds, CloseStream, Go, Move, Transition, Allowed,
     Terminal
<1>14. ASSUME NEW t \in Turns, StreamFails(t) PROVE (RowInv /\ VerdictsAgree /\ RememberedIsRecorded)'
  BY <1>14 DEF StreamFails, Raise, Set, CloseStream, Go, Move, Transition,
     Allowed, Terminal
<1>15. ASSUME NEW t \in Turns, Persist(t) PROVE (RowInv /\ VerdictsAgree /\ RememberedIsRecorded)'
  <2>1. \A u \in Turns : u # t => /\ phase'[u] = phase[u] /\ row'[u] = row[u]
                                  /\ remembered'[u] = remembered[u]
    BY <1>15 DEF Persist, Go, CompleteExchange
  <2>2. /\ phase'[t] = "titling"
        /\ row'[t] = IF row[t] = "none" THEN "none" ELSE TurnStatus(t)
        /\ remembered'[t] = (TurnStatus(t) = "completed")
    BY <1>15 DEF Persist, Go, CompleteExchange
  <2>3. TurnStatus(t) = "completed" => row[t] = "running"
    BY <1>15 DEF Persist
  <2>4. UNCHANGED <<sm, flags>>
    BY <1>15 DEF Persist
  <2>5. RowInv'
    BY <2>1, <2>2, <2>4
  <2>6. VerdictsAgree'
    BY <2>1, <2>2, <2>4
  <2>7. RememberedIsRecorded'
    BY <2>1, <2>2, <2>3
  <2> QED
    BY <2>5, <2>6, <2>7
<1>16. ASSUME NEW t \in Turns, PersistFails(t) PROVE (RowInv /\ VerdictsAgree /\ RememberedIsRecorded)'
  BY <1>16 DEF PersistFails, Go, CompleteExchange
<1>17. ASSUME NEW t \in Turns, Title(t) PROVE (RowInv /\ VerdictsAgree /\ RememberedIsRecorded)'
  BY <1>17 DEF Title, Go
<1>18. ASSUME NEW t \in Turns, TitleFails(t) PROVE (RowInv /\ VerdictsAgree /\ RememberedIsRecorded)'
  BY <1>18 DEF TitleFails, Go
<1>19. ASSUME NEW t \in Turns, Close(t) PROVE (RowInv /\ VerdictsAgree /\ RememberedIsRecorded)'
  <2>1. /\ phase' = [phase EXCEPT ![t] = "releasing"]
        /\ \A u \in Turns : u # t => sm'[u] = sm[u]
        /\ sm'[t].at = CASE TurnStatus(t) = "stopped" -> "CANCELLED"
                          [] TurnStatus(t) = "failed" -> "FAILED"
                          [] OTHER -> "COMPLETED"
    BY <1>19, CloseEffect
  <2>2. UNCHANGED <<flags, row, remembered>>
    BY <1>19 DEF Close
  <2>3. row[t] \in {"none", "running", TurnStatus(t)}
    BY <1>19 DEF Close
  <2>4. RowInv'
    BY <2>1, <2>2
  <2>5. VerdictsAgree'
    BY <2>1, <2>2, <2>3
  <2>6. RememberedIsRecorded'
    BY <2>2
  <2> QED
    BY <2>4, <2>5, <2>6
<1>20. ASSUME NEW t \in Turns, Release(t) PROVE (RowInv /\ VerdictsAgree /\ RememberedIsRecorded)'
  BY <1>20 DEF Release, Go, StopRenewer, ReleaseKey, DropTasks
<1>21. ASSUME NEW t \in Turns, ReleaseFails(t) PROVE (RowInv /\ VerdictsAgree /\ RememberedIsRecorded)'
  BY <1>21 DEF ReleaseFails, Go, StopRenewer, DropTasks
<1>22. ASSUME NEW t \in Turns, DisconnectAcquiring(t) PROVE (RowInv /\ VerdictsAgree /\ RememberedIsRecorded)'
  BY <1>22 DEF DisconnectAcquiring, Go
<1>23. ASSUME NEW t \in Turns, DisconnectStreaming(t) PROVE (RowInv /\ VerdictsAgree /\ RememberedIsRecorded)'
  <2>1. phase' = [phase EXCEPT ![t] = "persisting"] /\ UNCHANGED storeVars
    BY <1>23 DEF DisconnectStreaming, CloseStream, Go
  <2>2. flags' = [flags EXCEPT ![t] = @ \cup {"stopped"}]
    BY <1>23 DEF DisconnectStreaming, Raise
  <2>3. \A u \in Turns : u # t => sm'[u] = sm[u]
    BY <1>23, CloseStreamEffect DEF DisconnectStreaming
  <2>4. RowInv'
    BY <1>23, <2>1, <2>2 DEF DisconnectStreaming
  <2>5. VerdictsAgree' /\ RememberedIsRecorded'
    BY <2>1, <2>3
  <2> QED
    BY <2>4, <2>5
<1>24. ASSUME NEW t \in Turns, DisconnectOutside(t) PROVE (RowInv /\ VerdictsAgree /\ RememberedIsRecorded)'
  BY <1>24 DEF DisconnectOutside, Go
<1>25. ASSUME NEW t \in Turns, LeaseExpires(t) PROVE (RowInv /\ VerdictsAgree /\ RememberedIsRecorded)'
  BY <1>25 DEF LeaseExpires
<1>26. ASSUME NEW t \in Turns, LeaseLost(t) PROVE (RowInv /\ VerdictsAgree /\ RememberedIsRecorded)'
  BY <1>26 DEF LeaseLost
<1>27. ASSUME NEW w \in Workers, StopHere(w) PROVE (RowInv /\ VerdictsAgree /\ RememberedIsRecorded)'
  BY <1>27 DEF StopHere, CountStop, Set, Broadcast
<1>28. ASSUME NEW w \in Workers, StopElsewhere(w) PROVE (RowInv /\ VerdictsAgree /\ RememberedIsRecorded)'
  BY <1>28 DEF StopElsewhere, CountStop, Broadcast
<1>29. ASSUME NEW w \in Workers, Deliver(w) PROVE (RowInv /\ VerdictsAgree /\ RememberedIsRecorded)'
  BY <1>29 DEF Deliver, Set
<1>30. ASSUME NEW w \in Workers, ResetCancel(w) PROVE (RowInv /\ VerdictsAgree /\ RememberedIsRecorded)'
  BY <1>30 DEF ResetCancel, CountStop, Set
<1>31. ASSUME NEW w \in Workers, ResetUnregister(w) PROVE (RowInv /\ VerdictsAgree /\ RememberedIsRecorded)'
  BY <1>31 DEF ResetUnregister, Unregister
<1>32. ASSUME NEW w \in Workers, Crash(w) PROVE (RowInv /\ VerdictsAgree /\ RememberedIsRecorded)'
  BY <1>32 DEF Crash, DropTasks
<1>33. CASE UNCHANGED vars
  BY <1>33 DEF vars
<1>34. ASSUME NEW t \in Turns, LeaseDoubted(t) PROVE (RowInv /\ VerdictsAgree /\ RememberedIsRecorded)'
  BY <1>34 DEF LeaseDoubted, Raise, Set, CloseStream, Go, Move, Transition,
     Allowed, Terminal
<1> QED
  BY <1>1, <1>2, <1>3, <1>4, <1>5, <1>6, <1>7, <1>8, <1>9, <1>10, <1>11,
     <1>12, <1>13, <1>14, <1>15, <1>16, <1>17, <1>18, <1>19, <1>20, <1>21,
     <1>22, <1>23, <1>24, <1>25, <1>26, <1>27, <1>28, <1>29, <1>30, <1>31,
     <1>32, <1>33, <1>34 DEF Next, Proceed, Fault

\* A turn at its end is in no registry and has no renew task.
LEMMA OverIsClean == TypeOK /\ RegistryInv => OverLeavesNothing
BY DEF TypeOK, RegistryInv, OverLeavesNothing, Live, Streaming, Finalizing

\* The strengthening of the safety properties is inductive.
THEOREM Inductive == Spec => []IInv
<1>1. Init => IInv
  <2> SUFFICES ASSUME Init PROVE IInv
    OBVIOUS
  <2>1. TypeOK
    BY TurnAssumption DEF Init, TypeOK, NewMachine, Phases, States
  <2>2. RegistryInv /\ ResetInv /\ LiveTurnIsReachable
    BY TurnAssumption DEF Init, RegistryInv, ResetInv, LiveTurnIsReachable,
       Live, Streaming, Finalizing
  <2>3. MachineInv /\ NoIllegalTransition
    BY DEF Init, MachineInv, NoIllegalTransition, NewMachine, Finalizing
  <2>4. RowInv /\ VerdictsAgree /\ RememberedIsRecorded
    BY DEF Init, RowInv, VerdictsAgree, RememberedIsRecorded
  <2> QED
    BY <2>1, <2>2, <2>3, <2>4, OverIsClean DEF IInv
<1>2. IInv /\ [Next]_vars => IInv'
  <2> SUFFICES ASSUME IInv, [Next]_vars PROVE IInv'
    OBVIOUS
  <2>1. TypeOK'
    BY TypeStep DEF IInv
  <2>2. RegistryInv'
    BY RegistryStep DEF IInv
  <2>3. (ResetInv /\ LiveTurnIsReachable)'
    BY ReachableStep DEF IInv
  <2>4. (MachineInv /\ NoIllegalTransition)'
    BY MachineStep DEF IInv
  <2>5. (RowInv /\ VerdictsAgree /\ RememberedIsRecorded)'
    BY RowStep DEF IInv
  <2>6. OverLeavesNothing'
    BY <2>1, <2>2, OverIsClean, PTL
  <2> QED
    BY <2>1, <2>2, <2>3, <2>4, <2>5, <2>6 DEF IInv
<1> QED
  BY <1>1, <1>2, PTL DEF Spec

\* Type correctness.
THEOREM TypeCorrect == Spec => []TypeOK
BY Inductive, PTL DEF IInv

\* A live turn that nobody cancelled can always be stopped through its worker.
THEOREM StaysReachable == Spec => []LiveTurnIsReachable
BY Inductive, PTL DEF IInv

\* A turn that is over leaves neither renew task nor registry entry behind.
THEOREM LeavesNothing == Spec => []OverLeavesNothing
BY Inductive, PTL DEF IInv

\* The exchange row and the state machine agree on how the turn ended.
THEOREM SameVerdict == Spec => []VerdictsAgree
BY Inductive, PTL DEF IInv

\* The state machine never has to warn.
THEOREM LegalTransitions == Spec => []NoIllegalTransition
BY Inductive, PTL DEF IInv

\* The state machine tells what was recorded, by a legal way.
THEOREM TrueAccount == Spec => []MachineTellsTheTruth
BY SameVerdict, LegalTransitions, PTL DEF MachineTellsTheTruth

\* Only completed turns are remembered.
THEOREM MemoryOfCompleted == Spec => []RememberedIsRecorded
BY Inductive, PTL DEF IInv
-----------------------------------------------------------------------------
(* The refinement of TurnService. *)

\* A cancel broadcast is on its way only after somebody called stop or reset.
MailInv == \A w \in Workers : mail[w] > 0 => stops > 0

\* Every step keeps it.
LEMMA MailStep ==
    ASSUME TypeOK, MailInv, [Next]_vars
    PROVE  MailInv'
<1> USE TurnAssumption DEF MailInv, stopVars
<1>1. CASE UNCHANGED <<mail, stops>>
  BY <1>1
<1>2. ASSUME NEW w \in Workers, StopHere(w) \/ StopElsewhere(w) \/ ResetCancel(w) PROVE MailInv'
  <2>1. stops' = stops + 1 /\ stops \in Nat
    BY <1>2 DEF StopHere, StopElsewhere, ResetCancel, CountStop, TypeOK
  <2> QED
    BY <2>1
<1>3. ASSUME NEW w \in Workers, Deliver(w) PROVE MailInv'
  <2>1. mail' = [mail EXCEPT ![w] = @ - 1] /\ mail[w] > 0 /\ UNCHANGED stops
    BY <1>3 DEF Deliver
  <2> QED
    BY <2>1 DEF TypeOK
<1>4. ASSUME NEW w \in Workers, Crash(w) PROVE MailInv'
  BY <1>4 DEF Crash, TypeOK
<1>5. ASSUME NEW t \in Turns, Proceed(t) PROVE UNCHANGED <<mail, stops>>
  BY <1>5 DEF Proceed, Acquire, Register, Announced, LoadMemory, Prepare, PrePersist, Dispatch,
     ChunkStops, DispatchEnds, SendDone, StreamEnds, Persist, Title, Close, Release
<1>6. ASSUME NEW t \in Turns, Fault(t) \/ LeaseExpires(t) PROVE UNCHANGED <<mail, stops>>
  BY <1>6 DEF Fault, LookupFails, ErrorChunk, StreamFails, PersistFails, TitleFails,
     ReleaseFails, DisconnectAcquiring, DisconnectStreaming, DisconnectOutside, LeaseLost,
     LeaseDoubted, LeaseExpires
<1>7. ASSUME NEW w \in Workers, ResetUnregister(w) PROVE UNCHANGED <<mail, stops>>
  BY <1>7 DEF ResetUnregister
<1> QED
  BY <1>1, <1>2, <1>3, <1>4, <1>5, <1>6, <1>7 DEF Next, vars

\* The state that TurnService sees.
Asked == {t \in Turns : phase[t] # "idle"}
Working == {t \in Turns : phase[t] \notin {"idle", "refused", "over", "dead", "leaked"}}
Gone == {t \in Turns : ~connected[t]}
Unsure == {t \in Turns : doubted[t]}
Cut == {t \in Turns : cancelled[t] \/ "stopped" \in flags[t]}
Memory == {t \in Turns : remembered[t]}
Shown == <<lease, Asked, Working, Gone, Unsure, Cut, stops, row, Memory>>

\* A turn that goes on inside its coroutine shows nothing.
LEMMA Unshown ==
    ASSUME TypeOK, NEW t \in Turns, NEW p \in Phases,
           phase' = [phase EXCEPT ![t] = p],
           t \in Working, p \notin {"idle", "refused", "over", "dead", "leaked"},
           UNCHANGED <<connected, cancelled, doubted, row, remembered, lease, stops>>,
           \A u \in Turns : "stopped" \in flags'[u] <=> "stopped" \in flags[u]
    PROVE  UNCHANGED Shown
<1>1. Asked' = Asked /\ Working' = Working
  BY DEF TypeOK, Asked, Working
<1>2. Gone' = Gone /\ Unsure' = Unsure /\ Cut' = Cut /\ Memory' = Memory
  BY DEF Gone, Unsure, Cut, Memory
<1> QED
  BY <1>1, <1>2 DEF Shown
\* DropTasks takes the turns from those whose client left and those told to stop.
LEMMA DropShown ==
    ASSUME TypeOK, NEW T \in SUBSET Turns, DropTasks(T)
    PROVE  Gone' = Gone \ T /\ Unsure' = Unsure \ T /\ Cut' = Cut \ T
BY DEF TypeOK, DropTasks, Gone, Unsure, Cut

\* Every step of a turn is one of TurnService, or shows nothing.
LEMMA TurnShown ==
    ASSUME IInv, NEW t \in Turns, Proceed(t)
    PROVE  Conversation!Next \/ UNCHANGED Shown
<1> USE TurnAssumption DEF TypeOK, Streaming, Finalizing, Phases, taskVars, storeVars, leaseVars,
   stopVars
<1>0. TypeOK
  BY DEF IInv
<1>1. CASE Acquire(t)
  <2>1. /\ Asked' = Asked \cup {t} /\ t \notin Asked
        /\ UNCHANGED <<Gone, Unsure, Cut, stops, row, Memory>>
    BY <1>0, <1>1 DEF Acquire, Go, Asked, Gone, Unsure, Cut, Memory
  <2>2. CASE lease = NoTurn
    <3>1. lease' = t /\ Working' = Working \cup {t}
      BY <1>0, <1>1, <2>2 DEF Acquire, Go, Working
    <3> QED
      BY <2>1, <2>2, <3>1 DEF Conversation!Next, Conversation!Ask, Asked, Working, Gone, Unsure, Cut, Memory
  <2>3. CASE lease # NoTurn
    <3>1. lease' = lease /\ Working' = Working
      BY <1>0, <1>1, <2>3 DEF Acquire, Go, Working
    <3> QED
      BY <2>1, <2>3, <3>1 DEF Conversation!Next, Conversation!Ask, Asked, Working, Gone, Unsure, Cut, Memory
  <2> QED
    BY <2>2, <2>3
<1>2. CASE Register(t)
  <2>1. /\ Asked' = Asked /\ Working' = Working /\ t \in Working
        /\ UNCHANGED <<lease, Gone, Unsure, stops, row, Memory>>
    BY <1>0, <1>2 DEF Register, Go, Asked, Working, Gone, Unsure, Memory
  <2>2. CASE registry[worker[t]] = NoTurn
    <3>1. Cut' = Cut
      BY <1>2, <2>2 DEF Register, TakeOver, Cut
    <3> QED
      BY <2>1, <3>1 DEF Shown
  <2>3. CASE registry[worker[t]] # NoTurn
    <3>1. PICK old \in Turns : registry[worker[t]] = old
      BY <1>0, <2>3
    <3>2. old # t /\ phase[old] # "idle"
      BY <1>0, <1>2, <3>1 DEF IInv, RegistryInv, Register, Live
    <3>3. Cut' = Cut \cup {old}
      BY <1>0, <1>2, <2>3, <3>1 DEF Register, TakeOver, Set, Cut
    <3>4. old \in Asked /\ t \in Working \ {old}
      BY <2>1, <3>1, <3>2 DEF Asked
    <3>5. Conversation!CutShort(old)
      BY <2>1, <3>3, <3>4 DEF Conversation!CutShort, Asked, Working, Gone, Unsure, Cut, Memory
    <3> QED
      BY <3>5 DEF Conversation!Next
  <2> QED
    BY <2>2, <2>3
<1>3. CASE Announced(t)
  BY <1>0, <1>3, Unshown DEF Announced, Go, Working
<1>4. CASE LoadMemory(t)
  BY <1>0, <1>4, Unshown DEF LoadMemory, Go, Working
<1>5. CASE Prepare(t)
  BY <1>0, <1>5, Unshown DEF Prepare, Go, Working
<1>6. CASE PrePersist(t)
  <2>1. UNCHANGED <<lease, Asked, Working, Gone, Unsure, Cut, stops, Memory>> /\ t \in Working
    BY <1>0, <1>6 DEF PrePersist, Go, Asked, Working, Gone, Unsure, Cut, Memory
  <2>2. row' = [row EXCEPT ![t] = "running"] /\ row[t] \in {"none", "running"}
    BY <1>6 DEF PrePersist, StartExchange, IInv, RowInv
  <2>3. CASE row[t] = "none"
    BY <2>1, <2>2, <2>3 DEF Conversation!Next, Conversation!Start, Asked, Working, Gone, Unsure, Cut, Memory
  <2>4. CASE row[t] = "running"
    <3>1. row' = row
      BY <1>0, <2>2, <2>4
    <3> QED
      BY <2>1, <3>1 DEF Shown
  <2> QED
    BY <2>2, <2>3, <2>4
<1>7. CASE Dispatch(t)
  BY <1>0, <1>7, Unshown DEF Dispatch, Go, Working
<1>8. CASE ChunkStops(t)
  <2>1. phase' = [phase EXCEPT ![t] = "persisting"]
    BY <1>8 DEF ChunkStops, CloseStream, Go
  <2>2. UNCHANGED <<lease, Asked, Working, Gone, Unsure, stops, row, Memory>> /\ t \in Asked
    BY <1>0, <1>8, <2>1 DEF ChunkStops, Asked, Working, Gone, Unsure, Memory
  <2>3. Cut' = Cut \cup {t}
    BY <1>0, <1>8 DEF ChunkStops, Raise, Cut
  <2>4. CASE t \in Cut
    BY <2>2, <2>3, <2>4 DEF Shown
  <2>5. CASE t \notin Cut
    <3>1. lease # t
      BY <1>8, <2>5 DEF ChunkStops, Cut
    <3>2. Conversation!CutShort(t)
      BY <2>2, <2>3, <3>1 DEF Conversation!CutShort, Asked, Working, Gone, Unsure, Cut, Memory
    <3> QED
      BY <3>2 DEF Conversation!Next
  <2> QED
    BY <2>4, <2>5
<1>9. CASE DispatchEnds(t)
  BY <1>0, <1>9, Unshown DEF DispatchEnds, Go, Working
<1>10. CASE SendDone(t)
  BY <1>0, <1>10, Unshown DEF SendDone, Go, Working
<1>11. CASE StreamEnds(t)
  BY <1>0, <1>11, Unshown DEF StreamEnds, CloseStream, Go, Working
<1>12. CASE Persist(t)
  <2>1. UNCHANGED <<lease, Asked, Working, Gone, Unsure, Cut, stops>> /\ t \in Working
    BY <1>0, <1>12 DEF Persist, Go, Asked, Working, Gone, Unsure, Cut
  <2>2. /\ row' = [row EXCEPT ![t] = IF row[t] = "none" THEN "none" ELSE TurnStatus(t)]
        /\ remembered' = [remembered EXCEPT ![t] = TurnStatus(t) = "completed"]
        /\ row[t] \in {"none", "running"} /\ ~remembered[t]
        /\ flags[t] = {} => row[t] = "running"
    BY <1>12 DEF Persist, CompleteExchange, IInv, RowInv
  <2>3. CASE row[t] = "none"
    <3>1. TurnStatus(t) # "completed"
      <4>1. flags[t] \subseteq {"stopped", "failed"} /\ flags[t] # {}
        BY <1>0, <2>2, <2>3
      <4> QED
        BY <4>1 DEF TurnStatus
    <3>2. row' = row /\ \A u \in Turns : remembered'[u] <=> remembered[u]
      BY <1>0, <2>2, <2>3, <3>1
    <3>3. Memory' = Memory
      BY <3>2 DEF Memory
    <3> QED
      BY <2>1, <3>2, <3>3 DEF Shown
  <2>4. CASE row[t] = "running"
    <3>1. /\ TurnStatus(t) \in {"completed", "failed", "stopped"}
          /\ TurnStatus(t) = "stopped" => t \in Cut
      BY DEF TurnStatus, Cut
    <3>2. row' = [row EXCEPT ![t] = TurnStatus(t)]
      BY <2>2, <2>4
    <3>3. \A u \in Turns :
             remembered'[u] <=> IF u = t THEN TurnStatus(t) = "completed" ELSE remembered[u]
      BY <1>0, <2>2
    <3>4. /\ TurnStatus(t) = "completed" => Memory' = Memory \cup {t}
          /\ TurnStatus(t) # "completed" => Memory' = Memory
      BY <2>2, <3>3 DEF Memory
    <3>5. PICK verdict \in {"completed", "failed", "stopped"} : verdict = TurnStatus(t)
      BY <3>1
    <3>6. Conversation!Record(t, verdict)
      BY <2>1, <2>4, <3>1, <3>2, <3>4, <3>5
         DEF Conversation!Record, Asked, Working, Gone, Unsure, Cut, Memory
    <3> QED
      BY <3>6 DEF Conversation!Next
  <2> QED
    BY <2>2, <2>3, <2>4
<1>13. CASE Title(t)
  BY <1>0, <1>13, Unshown DEF Title, Go, Working
<1>14. CASE Close(t)
  BY <1>0, <1>14, Unshown DEF Close, Go, Working
<1>15. CASE Release(t)
  <2>1. Asked' = Asked /\ Working' = Working \ {t} /\ t \in Asked
    BY <1>0, <1>15 DEF Release, Go, Asked, Working
  <2>2. Gone' = Gone \ {t} /\ Unsure' = Unsure \ {t} /\ Cut' = Cut \ {t}
    BY <1>0, <1>15, DropShown DEF Release
  <2>3. /\ lease' = lease \/ (lease = t /\ lease' = NoTurn)
        /\ UNCHANGED <<stops, row, Memory>>
    BY <1>15 DEF Release, ReleaseKey, Memory
  <2>4. Conversation!End({t})
    BY <2>1, <2>2, <2>3 DEF Conversation!End, Asked, Working, Gone, Unsure, Cut, Memory
  <2> QED
    BY <2>4 DEF Conversation!Next
<1> QED
  BY <1>1, <1>2, <1>3, <1>4, <1>5, <1>6, <1>7, <1>8, <1>9, <1>10, <1>11, <1>12, <1>13, <1>14,
     <1>15 DEF Proceed
\* So is every fault of a turn.
LEMMA FaultShown ==
    ASSUME IInv, NEW t \in Turns, Fault(t) \/ LeaseExpires(t)
    PROVE  Conversation!Next \/ UNCHANGED Shown
<1> USE TurnAssumption DEF TypeOK, Streaming, Finalizing, Phases, taskVars, storeVars, leaseVars,
   stopVars
<1>0. TypeOK
  BY DEF IInv
<1>1. CASE LookupFails(t) \/ TitleFails(t) \/ DisconnectAcquiring(t)
  <2>1. /\ Asked' = Asked /\ Working' = Working \ {t} /\ t \in Asked
        /\ UNCHANGED <<lease, Gone, Unsure, Cut, stops, row, Memory>>
    BY <1>0, <1>1 DEF LookupFails, TitleFails, DisconnectAcquiring, Go, Asked, Working, Gone, Unsure, Cut,
       Memory
  <2>2. Conversation!End({t})
    BY <2>1 DEF Conversation!End, Asked, Working, Gone, Unsure, Cut, Memory
  <2> QED
    BY <2>2 DEF Conversation!Next
<1>2. CASE ErrorChunk(t)
  <2>1. UNCHANGED <<phase, connected, cancelled, doubted, lease, stops, row, remembered>>
    BY <1>2 DEF ErrorChunk
  <2>2. \A u \in Turns : "stopped" \in flags'[u] <=> "stopped" \in flags[u]
    BY <1>0, <1>2 DEF ErrorChunk, Raise
  <2>3. UNCHANGED <<Asked, Working, Gone, Unsure, Memory>>
    BY <2>1 DEF Asked, Working, Gone, Unsure, Memory
  <2>4. UNCHANGED Cut
    BY <2>1, <2>2 DEF Cut
  <2> QED
    BY <2>1, <2>3, <2>4 DEF Shown
<1>3. CASE StreamFails(t)
  <2>1. \A u \in Turns : "stopped" \in flags'[u] <=> "stopped" \in flags[u]
    BY <1>0, <1>3 DEF StreamFails, Raise
  <2> QED
    BY <1>0, <1>3, <2>1, Unshown DEF StreamFails, CloseStream, Go, Working
<1>4. CASE PersistFails(t)
  <2>1. UNCHANGED <<lease, Asked, Working, Gone, Unsure, Cut, stops, Memory>> /\ t \in Working
    BY <1>0, <1>4 DEF PersistFails, Go, Asked, Working, Gone, Unsure, Cut, Memory
  <2>2. /\ \/ row' = row
           \/ row' = [row EXCEPT ![t] = IF row[t] = "none" THEN "none" ELSE TurnStatus(t)]
        /\ row[t] \in {"none", "running"}
    BY <1>4 DEF PersistFails, CompleteExchange, IInv, RowInv
  <2>3. CASE row' = row
    BY <2>1, <2>3 DEF Shown
  <2>4. CASE row' # row
    <3>1. row[t] = "running" /\ row' = [row EXCEPT ![t] = TurnStatus(t)]
      BY <1>0, <2>2, <2>4
    <3>2. PICK verdict \in {"completed", "failed", "stopped"} : verdict = TurnStatus(t)
      BY DEF TurnStatus
    <3>3. verdict = "stopped" => t \in Cut
      BY <3>2 DEF TurnStatus, Cut
    <3>4. Conversation!Record(t, verdict)
      BY <2>1, <3>1, <3>2, <3>3 DEF Conversation!Record, Asked, Working, Gone, Unsure, Cut, Memory
    <3> QED
      BY <3>4 DEF Conversation!Next
  <2> QED
    BY <2>3, <2>4
<1>5. CASE ReleaseFails(t)
  <2>1. Asked' = Asked /\ Working' = Working \ {t} /\ t \in Asked
    BY <1>0, <1>5 DEF ReleaseFails, Go, Asked, Working
  <2>2. Gone' = Gone \ {t} /\ Unsure' = Unsure \ {t} /\ Cut' = Cut \ {t} /\ UNCHANGED <<lease, stops, row, Memory>>
    BY <1>0, <1>5, DropShown DEF ReleaseFails, Memory
  <2>3. Conversation!End({t})
    BY <2>1, <2>2 DEF Conversation!End, Asked, Working, Gone, Unsure, Cut, Memory
  <2> QED
    BY <2>3 DEF Conversation!Next
<1>6. CASE DisconnectStreaming(t)
  <2>1. phase' = [phase EXCEPT ![t] = "persisting"]
    BY <1>6 DEF DisconnectStreaming, CloseStream, Go
  <2>2. /\ Asked' = Asked /\ Working' = Working /\ t \in Asked
        /\ UNCHANGED <<lease, Unsure, stops, row, Memory>>
    BY <1>0, <1>6, <2>1 DEF DisconnectStreaming, Asked, Working, Unsure, Memory
  <2>3. t \notin Gone /\ Gone' = Gone \cup {t}
    BY <1>0, <1>6 DEF DisconnectStreaming, Gone
  <2>4. Cut' = Cut \cup {t}
    <3>1. \A u \in Turns : "stopped" \in flags'[u] <=> u = t \/ "stopped" \in flags[u]
      BY <1>0, <1>6 DEF DisconnectStreaming, Raise
    <3>2. \A u \in Turns : u # t => cancelled'[u] = cancelled[u]
      BY <1>0, <1>6 DEF DisconnectStreaming, Set
    <3> QED
      BY <3>1, <3>2 DEF Cut
  <2>5. Conversation!Leave(t)
    BY <2>2, <2>3, <2>4 DEF Conversation!Leave, Asked, Working, Gone, Unsure, Cut, Memory
  <2> QED
    BY <2>5 DEF Conversation!Next
<1>7. CASE DisconnectOutside(t)
  <2>1. /\ Asked' = Asked /\ Working' = Working \ {t} /\ t \in Asked
        /\ UNCHANGED <<lease, Unsure, Cut, stops, row, Memory>>
    BY <1>0, <1>7 DEF DisconnectOutside, Go, Asked, Working, Unsure, Cut, Memory
  <2>2. t \notin Gone /\ Gone' = Gone \cup {t}
    BY <1>0, <1>7 DEF DisconnectOutside, Gone
  <2>3. Conversation!Leave(t)
    BY <2>1, <2>2 DEF Conversation!Leave, Asked, Working, Gone, Unsure, Cut, Memory
  <2> QED
    BY <2>3 DEF Conversation!Next
<1>8. CASE LeaseLost(t) \/ LeaseExpires(t)
  <2>1. lease' = NoTurn /\ UNCHANGED <<Asked, Working, Gone, Unsure, Cut, stops, row, Memory>>
    BY <1>8 DEF LeaseLost, LeaseExpires, Asked, Working, Gone, Unsure, Cut, Memory
  <2>2. Conversation!LoseLease
    BY <2>1 DEF Conversation!LoseLease, Asked, Working, Gone, Unsure, Cut, Memory
  <2> QED
    BY <2>2 DEF Conversation!Next
<1>9. CASE LeaseDoubted(t)
  <2>1. phase' = [phase EXCEPT ![t] = "persisting"]
    BY <1>9 DEF LeaseDoubted, CloseStream, Go
  <2>2. UNCHANGED <<lease, Asked, Working, Gone, stops, row, Memory>> /\ t \in Working
    BY <1>0, <1>9, <2>1 DEF LeaseDoubted, Asked, Working, Gone, Memory
  <2>3. Cut' = Cut \cup {t}
    BY <1>0, <1>9 DEF LeaseDoubted, Raise, Cut
  <2>4. Unsure' = Unsure \cup {t}
    BY <1>0, <1>9 DEF LeaseDoubted, Set, Unsure
  <2>5. Conversation!Doubt(t)
    BY <2>2, <2>3, <2>4 DEF Conversation!Doubt, Asked, Working, Gone, Unsure, Cut, Memory
  <2> QED
    BY <2>5 DEF Conversation!Next
<1> QED
  BY <1>1, <1>2, <1>3, <1>4, <1>5, <1>6, <1>7, <1>8, <1>9 DEF Fault

\* And so is what stops, resets, broadcasts and crashes do.
LEMMA WorkerShown ==
    ASSUME IInv, MailInv, NEW w \in Workers,
           \/ StopHere(w) \/ StopElsewhere(w) \/ Deliver(w)
           \/ ResetCancel(w) \/ ResetUnregister(w) \/ Crash(w)
    PROVE  Conversation!Next \/ UNCHANGED Shown
<1> USE TurnAssumption DEF TypeOK, taskVars, storeVars, leaseVars, stopVars
<1>0. TypeOK
  BY DEF IInv
<1>1. registry[w] # NoTurn => registry[w] \in Turns /\ phase[registry[w]] # "idle"
  BY <1>0 DEF IInv, RegistryInv, Live, Streaming, Finalizing
<1>2. CASE StopHere(w) \/ StopElsewhere(w) \/ ResetCancel(w)
  <2>1. /\ UNCHANGED <<lease, Asked, Working, Gone, Unsure, row, Memory>>
        /\ stops' = stops + 1
    BY <1>2 DEF StopHere, StopElsewhere, ResetCancel, CountStop, Asked, Working, Gone, Unsure, Memory
  <2>2. CASE cancelled' = cancelled
    <3>1. Cut' = Cut
      BY <1>2, <2>2 DEF StopHere, StopElsewhere, ResetCancel, Cut
    <3>2. Conversation!Call
      BY <2>1, <3>1 DEF Conversation!Call, Asked, Working, Gone, Unsure, Cut, Memory
    <3> QED
      BY <3>2 DEF Conversation!Next
  <2>3. CASE cancelled' # cancelled
    <3>1. registry[w] # NoTurn /\ cancelled' = Set(cancelled, registry[w]) /\ UNCHANGED flags
      BY <1>2, <2>3 DEF StopHere, StopElsewhere, ResetCancel
    <3>2. PICK t \in Turns : registry[w] = t
      BY <1>1, <3>1
    <3>3. t \in Asked /\ Cut' = Cut \cup {t}
      BY <1>0, <1>1, <3>1, <3>2 DEF Set, Asked, Cut
    <3>4. Conversation!Call
      BY <2>1, <3>3 DEF Conversation!Call, Asked, Working, Gone, Unsure, Cut, Memory
    <3> QED
      BY <3>4 DEF Conversation!Next
  <2> QED
    BY <2>2, <2>3
<1>3. CASE Deliver(w)
  <2>1. UNCHANGED <<lease, Asked, Working, Gone, Unsure, stops, row, Memory>>
    BY <1>3 DEF Deliver, Asked, Working, Gone, Unsure, Memory
  <2>2. CASE cancelled' = cancelled
    <3>1. Cut' = Cut
      BY <1>3, <2>2 DEF Deliver, Cut
    <3> QED
      BY <2>1, <3>1 DEF Shown
  <2>3. CASE cancelled' # cancelled
    <3>1. registry[w] # NoTurn /\ cancelled' = Set(cancelled, registry[w]) /\ UNCHANGED flags
      BY <1>3, <2>3 DEF Deliver
    <3>2. PICK t \in Turns : registry[w] = t
      BY <1>1, <3>1
    <3>3. t \in Asked /\ Cut' = Cut \cup {t}
      BY <1>0, <1>1, <3>1, <3>2 DEF Set, Asked, Cut
    <3>4. stops > 0
      BY <1>3 DEF Deliver, MailInv
    <3>5. Conversation!CutShort(t)
      BY <2>1, <3>3, <3>4 DEF Conversation!CutShort, Asked, Working, Gone, Unsure, Cut, Memory
    <3> QED
      BY <3>5 DEF Conversation!Next
  <2> QED
    BY <2>2, <2>3
<1>4. CASE ResetUnregister(w)
  BY <1>4 DEF ResetUnregister, Shown, Asked, Working, Gone, Unsure, Cut, Memory
<1>5. CASE Crash(w)
  <2> DEFINE lost == {t \in Turns : worker[t] = w /\ phase[t] \notin {"idle", "refused", "over"}}
  <2>1. /\ phase' = [t \in Turns |-> IF t \in lost THEN "dead" ELSE phase[t]]
        /\ DropTasks(lost)
        /\ UNCHANGED <<lease, stops, row, remembered>>
    BY <1>5 DEF Crash
  <2>2. lost \in SUBSET Turns /\ lost \subseteq Asked
    BY DEF Asked
  <2> HIDE DEF lost
  <2>3. Asked' = Asked /\ Working' = Working \ lost
    BY <2>1, <2>2 DEF Asked, Working
  <2>4. Gone' = Gone \ lost /\ Unsure' = Unsure \ lost /\ Cut' = Cut \ lost /\ Memory' = Memory
    BY <1>0, <2>1, <2>2, DropShown DEF Memory
  <2>5. PICK T \in SUBSET Turns : T = lost
    BY <2>2
  <2>6. Conversation!End(T)
    BY <2>1, <2>2, <2>3, <2>4, <2>5 DEF Conversation!End, Asked, Working, Gone, Unsure, Cut, Memory
  <2> QED
    BY <2>6 DEF Conversation!Next
<1> QED
  BY <1>2, <1>3, <1>4, <1>5

\* For any number of turns, workers, stops and crashes a conversation keeps what
\* TurnService promises: turns are recorded once and one way, remembered only as
\* completed, and stopped only for a reason.
THEOREM TurnsServed == Spec => ImplementsTurnService
<1>1. Init => Conversation!Init
  BY DEF Init, Conversation!Init
<1>2. IInv /\ MailInv /\ [Next]_vars => [Conversation!Next]_Conversation!vars
  <2> SUFFICES ASSUME IInv, MailInv, [Next]_vars
               PROVE  Conversation!Next \/ UNCHANGED Conversation!vars
    OBVIOUS
  <2>1. UNCHANGED Shown => UNCHANGED Conversation!vars
    BY DEF Shown, Conversation!vars, Asked, Working, Gone, Unsure, Cut, Memory
  <2>2. CASE UNCHANGED vars
    <3>1. UNCHANGED <<phase, connected, cancelled, doubted, flags, row, remembered, lease, stops>>
      BY <2>2 DEF vars, taskVars, storeVars, leaseVars, stopVars
    <3>2. UNCHANGED Shown
      BY <3>1 DEF Shown, Asked, Working, Gone, Unsure, Cut, Memory
    <3> QED
      BY <2>1, <3>2
  <2> QED
    BY <2>1, <2>2, TurnShown, FaultShown, WorkerShown DEF Next
<1>3. Init => MailInv
  BY DEF Init, MailInv
<1>4. IInv /\ MailInv /\ [Next]_vars => MailInv'
  BY MailStep DEF IInv
<1> QED
  BY <1>1, <1>2, <1>3, <1>4, Inductive, PTL DEF Spec, ImplementsTurnService, Conversation!Spec
=============================================================================
