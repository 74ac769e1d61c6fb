----------------------------- MODULE TurnService -----------------------------
(* What a conversation promises about its turns to those who see only its   *)
(* lease, its records and its memory.  A turn is let in once, when nobody   *)
(* holds the lease.  Its record runs one way, is closed once and while the  *)
(* turn works, and enters the memory only as it is closed as completed.  A  *)
(* turn is cut short for a reason: a stop or reset was asked for, its       *)
(* client left, its lease is lost or it could not make sure of it, or a     *)
(* second turn works beside it; and none is recorded as stopped that was    *)
(* not cut short.                                                           *)
EXTENDS Naturals

CONSTANTS Turns, NoTurn

VARIABLES
    holder,    \* the turn that holds the lease, or NoTurn
    asked,     \* the turns that have asked for it
    working,   \* those that were let in and have not ended
    gone,      \* those whose client has left
    unsure,    \* those that got no answer whether the lease is theirs
    cut,       \* those that were told to stop
    calls,     \* how often a stop or a reset was asked for
    record,    \* of each turn: "none", "running" or how it was closed
    memory     \* the turns that were remembered

vars == <<holder, asked, working, gone, unsure, cut, calls, record, memory>>

Init ==
    /\ holder = NoTurn /\ calls = 0
    /\ asked = {} /\ working = {} /\ gone = {} /\ cut = {} /\ memory = {}
    /\ unsure = {}
    /\ record = [t \in Turns |-> "none"]

Ask(t) ==
    /\ t \notin asked
    /\ asked' = asked \cup {t}
    /\ IF holder = NoTurn
       THEN holder' = t /\ working' = working \cup {t}
       ELSE UNCHANGED <<holder, working>>
    /\ UNCHANGED <<gone, unsure, cut, calls, record, memory>>

Start(t) ==
    /\ t \in working /\ record[t] = "none"
    /\ record' = [record EXCEPT ![t] = "running"]
    /\ UNCHANGED <<holder, asked, working, gone, unsure, cut, calls, memory>>

Record(t, verdict) ==
    /\ t \in working /\ record[t] = "running"
    /\ verdict = "stopped" => t \in cut
    /\ record' = [record EXCEPT ![t] = verdict]
    /\ \/ UNCHANGED memory
       \/ verdict = "completed" /\ memory' = memory \cup {t}
    /\ UNCHANGED <<holder, asked, working, gone, unsure, cut, calls>>

\* Somebody calls stop or reset, and the turn may hear of it at once or later.
Call ==
    /\ calls' = calls + 1
    /\ cut' = cut \/ \E t \in asked : cut' = cut \cup {t}
    /\ UNCHANGED <<holder, asked, working, gone, unsure, record, memory>>

CutShort(t) ==
    /\ t \in asked
    /\ calls > 0 \/ holder # t \/ working \ {t} # {}
    /\ cut' = cut \cup {t}
    /\ UNCHANGED <<holder, asked, working, gone, unsure, calls, record, memory>>

\* A working turn gets no answer whether the lease is its own: that cuts it
\* short, whoever holds the lease.
Doubt(t) ==
    /\ t \in working
    /\ unsure' = unsure \cup {t}
    /\ cut' = cut \cup {t}
    /\ UNCHANGED <<holder, asked, working, gone, calls, record, memory>>

\* The client leaves: the turn is cut short, or ends without a word.
Leave(t) ==
    /\ t \in asked \ gone
    /\ gone' = gone \cup {t}
    /\ \/ cut' = cut \cup {t} /\ UNCHANGED working
       \/ working' = working \ {t} /\ UNCHANGED cut
    /\ UNCHANGED <<holder, asked, unsure, calls, record, memory>>

LoseLease ==
    /\ holder' = NoTurn
    /\ UNCHANGED <<asked, working, gone, unsure, cut, calls, record, memory>>

\* Turns end, alone or with their process; who ends may give the lease back.
End(T) ==
    /\ T \subseteq asked
    /\ working' = working \ T
    /\ gone' \in {gone, gone \ T}
    /\ unsure' \in {unsure, unsure \ T}
    /\ cut' \in {cut, cut \ T}
    /\ holder' = holder \/ (holder \in T /\ holder' = NoTurn)
    /\ UNCHANGED <<asked, calls, record, memory>>

Next ==
    \/ \E t \in Turns :
          \/ Ask(t) \/ Start(t) \/ CutShort(t) \/ Doubt(t) \/ Leave(t)
          \/ \E verdict \in {"completed", "failed", "stopped"} : Record(t, verdict)
    \/ Call \/ LoseLease
    \/ \E T \in SUBSET Turns : End(T)

Spec == Init /\ [][Next]_vars
=============================================================================
