---------------------------- MODULE SummaryService ----------------------------
(* What the summary of a conversation promises to those who read it: it     *)
(* stands for a beginning of the completed exchanges, and that beginning    *)
(* only gets longer, until somebody has the summary built again.  After     *)
(* that, and only after that, a compression begun before may put the old    *)
(* text back; nothing is promised about it until the next rebuild.          *)
EXTENDS Naturals

CONSTANT Exchanges

VARIABLES
    completed,  \* the completed exchanges
    late,       \* those that were completed after a later one had begun
    rebuilds,   \* how often the summary was built again
    kind,       \* "none", "whole", or "mixed" with that of a former rebuild
    upTo,       \* the last exchange a whole summary stands for
    text        \* the exchanges it was made from

vars == <<completed, late, rebuilds, kind, upTo, text>>

Init ==
    /\ completed = {} /\ late = {} /\ rebuilds = 0
    /\ kind = "none" /\ upTo = 0 /\ text = {}

\* An exchange that the summary has passed over is late.
Complete(x) ==
    /\ x \notin completed
    /\ completed' = completed \cup {x}
    /\ late' \in {late, late \cup {x}}
    /\ kind = "whole" /\ x <= upTo => x \in late'
    /\ UNCHANGED <<rebuilds, kind, upTo, text>>

Summarise ==
    /\ kind \in {"none", "whole"} /\ kind' = "whole"
    /\ upTo' \in completed /\ upTo' > upTo
    /\ text' \subseteq {x \in completed : x <= upTo'}
    /\ {x \in completed : x <= upTo'} \subseteq text' \cup late
    /\ UNCHANGED <<completed, late, rebuilds>>

\* The text of an earlier rebuild comes back.
Mix ==
    /\ kind = "whole" /\ rebuilds > 0
    /\ kind' = "mixed" /\ upTo' = 0 /\ text' = {}
    /\ UNCHANGED <<completed, late, rebuilds>>

Rebuild ==
    /\ rebuilds' = rebuilds + 1
    /\ kind' = "none" /\ upTo' = 0 /\ text' = {}
    /\ UNCHANGED <<completed, late>>

Next == (\E x \in Exchanges : Complete(x)) \/ Summarise \/ Mix \/ Rebuild

Spec == Init /\ [][Next]_vars
=============================================================================
