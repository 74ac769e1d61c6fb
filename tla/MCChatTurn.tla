----------------------------- MODULE MCChatTurn -----------------------------
(* Two turns of one conversation, in the same worker or in different ones,  *)
(* with one stop or reset and one crash: enough for a take-over after a     *)
(* lost lease, a late finalization and a stop aimed at either turn.         *)
EXTENDS ChatTurn, TLC

CONSTANTS t1, t2, w1, w2
MCTurns == {t1, t2}
MCWorkers == {w1, w2}
OneWorker == {w1}
Alike == Permutations(MCTurns) \cup Permutations(MCWorkers)
=============================================================================
