----------------------------- MODULE JudgeService -----------------------------
(* What the judging service promises to its requests: each has one outcome, *)
(* which is final, and an answer is the judgement of its own job, whatever  *)
(* it was batched with.  Several requests may be answered at once; one that *)
(* has given up is left alone.                                              *)
CONSTANT Callers

VARIABLES outcome,   \* of each request
          reply      \* the jobs whose result it got

vars == <<outcome, reply>>

Init ==
    /\ outcome = [c \in Callers |-> "none"]
    /\ reply = [c \in Callers |-> {}]

Ask(c) ==
    /\ outcome[c] = "none"
    /\ outcome' = [outcome EXCEPT ![c] = "pending"]
    /\ UNCHANGED reply

GiveUp(c) ==
    /\ outcome[c] = "pending"
    /\ outcome' = [outcome EXCEPT ![c] = "cancelled"]
    /\ UNCHANGED reply

Judged(c) == outcome'[c] = "answered" /\ reply'[c] = {c}
Failed(c) == outcome'[c] = "failed" /\ reply'[c] = reply[c]

Answer ==
    /\ DOMAIN outcome' = Callers /\ DOMAIN reply' = Callers
    /\ \A c \in Callers :
          \/ outcome[c] = "pending" /\ (Judged(c) \/ Failed(c))
          \/ outcome'[c] = outcome[c] /\ reply'[c] = reply[c]

Next == (\E c \in Callers : Ask(c) \/ GiveUp(c)) \/ Answer

Spec == Init /\ [][Next]_vars
=============================================================================
