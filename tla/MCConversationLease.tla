------------------------ MODULE MCConversationLease ------------------------
(* Two turns compete for one conversation.  TTL, RenewInterval and the      *)
(* retry limit keep the proportions of the defaults (30 s, 10 s, 5): the    *)
(* renew task gives up only after the TTL is over, so turns can overlap.    *)
EXTENDS ConversationLease, TLC

CONSTANTS m1, m2
MCManagers == {m1, m2}
=============================================================================
