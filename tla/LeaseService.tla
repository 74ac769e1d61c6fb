---------------------------- MODULE LeaseService ----------------------------
(***************************************************************************)
(* What a conversation lease promises to the turns that take it: at any    *)
(* time at most one of them works under a grant younger than the TTL.  A   *)
(* grant ends when its turn gives it back or when the TTL runs out without *)
(* an acknowledged renewal; until then nobody else is granted.             *)
(***************************************************************************)
CONSTANT Managers
VARIABLE granted   \* the turns whose grant is still young

Init == granted = {}

Grant(m) ==
    /\ granted = {}
    /\ granted' = {m}

\* Given back, or expired.
End(m) ==
    /\ granted = {m}
    /\ granted' = {}

Next == \E m \in Managers : Grant(m) \/ End(m)

Spec == Init /\ [][Next]_granted
=============================================================================
