----------------------------- MODULE FactMemory -----------------------------
(* What the system remembers about a user (chat/fact_memory.py and the task *)
(* chat.extract_user_facts of chat/tasks.py).  A finished turn may queue a  *)
(* task that has the model extract facts and stores each one that is not    *)
(* already known: the embedding, the search for a similar fact and the      *)
(* insertion are three calls, and every statement of the database commits   *)
(* by itself, so tasks of one user interleave between them.  Afterwards the *)
(* facts of the conversation are trimmed to max_facts.  A reset of the      *)
(* conversation and the daily retention run delete facts meanwhile.         *)
(*                                                                          *)
(* Two facts are similar exactly when they are the same value of Facts, and *)
(* one user (one user_key) holds the conversations.                         *)
EXTENDS Integers, Sequences, FiniteSets

CONSTANTS Tasks,          \* extractions that can be running at a time
          Conversations, Facts,
          MaxFacts,       \* settings.fact_memory.max_facts
          MaxInserts,     \* bound: insertions over time
          MaxPurges,      \* bound: resets and retention runs
          NoConv

ASSUME FactAssumption ==
    /\ MaxFacts \in Nat \ {0} /\ MaxInserts \in Nat /\ MaxPurges \in Nat
    /\ NoConv \notin Conversations

\* keyed: the row has the user_key.  at is the edit_time, as the number of
\* facts inserted before; checked is history, at when its task searched.
FactRows == [conv : Conversations, fact : Facts, keyed : BOOLEAN,
             at : Nat, checked : Nat]
TaskSteps == {"idle", "search", "insert", "trim"}

VARIABLES
    facts,       \* the rows of user_fact_memory
    taskStep,    \* [Tasks -> TaskSteps]
    taskConv,    \* conversation_id of the task
    taskKeyed,   \* whether the turn had a user_key
    taskTodo,    \* the facts still to store; the first is in hand
    taskStored,  \* inserted > 0
    taskSaw,     \* history: insertions at the time of its search
    untrimmed,   \* history: conversations whose last trim did not happen
    inserts, purges

taskVars == <<taskStep, taskConv, taskKeyed, taskTodo, taskStored, taskSaw>>
factVars == <<facts, taskVars, untrimmed, inserts, purges>>

FactInit ==
    /\ facts = {}
    /\ taskStep = [t \in Tasks |-> "idle"]
    /\ taskConv = [t \in Tasks |-> NoConv]
    /\ taskKeyed = [t \in Tasks |-> FALSE]
    /\ taskTodo = [t \in Tasks |-> <<>>]
    /\ taskStored = [t \in Tasks |-> FALSE]
    /\ taskSaw = [t \in Tasks |-> 0]
    /\ untrimmed = {} /\ inserts = 0 /\ purges = 0

Of(conv) == {r \in facts : r.conv = conv}

\* The rows the search of insert_many compares with: those of the user and
\* of the conversation, or without a user_key of the conversation only.
InScope(row, conv, keyed) == row.conv = conv \/ (keyed /\ row.keyed)

\* Mutant: facts of the user's other conversations are not looked at.
MutSimilar(fact, conv, keyed) ==
    \E r \in facts : r.conv = conv /\ r.fact = fact

Similar(fact, conv, keyed) ==
    \E r \in facts : InScope(r, conv, keyed) /\ r.fact = fact

\* The task ends and forgets its locals.
EndTask(t) ==
    /\ taskStep' = [taskStep EXCEPT ![t] = "idle"]
    /\ taskConv' = [taskConv EXCEPT ![t] = NoConv]
    /\ taskKeyed' = [taskKeyed EXCEPT ![t] = FALSE]
    /\ taskTodo' = [taskTodo EXCEPT ![t] = <<>>]
    /\ taskStored' = [taskStored EXCEPT ![t] = FALSE]
    /\ taskSaw' = [taskSaw EXCEPT ![t] = 0]

\* On to the next fact, then to enforce_capacity when one was stored.
NextFact(t, stored) ==
    IF Len(taskTodo[t]) = 1 /\ ~stored THEN EndTask(t)
    ELSE /\ taskStep' = [taskStep EXCEPT ![t] =
                            IF Len(taskTodo[t]) = 1 THEN "trim" ELSE "search"]
         /\ taskTodo' = [taskTodo EXCEPT ![t] = Tail(@)]
         /\ taskStored' = [taskStored EXCEPT ![t] = stored]
         /\ taskSaw' = [taskSaw EXCEPT ![t] = 0]
         /\ UNCHANGED <<taskConv, taskKeyed>>

\* task_extract_user_facts: the model found facts in the turn.
ExtractFacts(t) ==
    /\ taskStep[t] = "idle" /\ inserts < MaxInserts
    /\ \E c \in Conversations, keyed \in BOOLEAN, f \in Facts, g \in Facts :
          /\ taskConv' = [taskConv EXCEPT ![t] = c]
          /\ taskKeyed' = [taskKeyed EXCEPT ![t] = keyed]
          /\ taskTodo' = [taskTodo EXCEPT ![t] =
                            IF f = g THEN <<f>> ELSE <<f, g>>]
    /\ taskStep' = [taskStep EXCEPT ![t] = "search"]
    /\ UNCHANGED <<facts, taskStored, taskSaw, untrimmed, inserts, purges>>

\* One round of the loop up to the search.  The embedding comes first and
\* outside the try: when it fails, the exception leaves insert_many, and
\* facts stored in earlier rounds stay untrimmed.
SearchFact(t) ==
    /\ taskStep[t] = "search"
    /\ IF Similar(Head(taskTodo[t]), taskConv[t], taskKeyed[t])
       THEN NextFact(t, taskStored[t])
       ELSE /\ taskStep' = [taskStep EXCEPT ![t] = "insert"]
            /\ taskSaw' = [taskSaw EXCEPT ![t] = inserts]
            /\ UNCHANGED <<taskConv, taskKeyed, taskTodo, taskStored>>
    /\ UNCHANGED <<facts, untrimmed, inserts, purges>>

FailEmbedding(t) ==
    /\ taskStep[t] = "search"
    /\ EndTask(t)
    /\ untrimmed' = IF taskStored[t] THEN untrimmed \cup {taskConv[t]}
                    ELSE untrimmed
    /\ UNCHANGED <<facts, inserts, purges>>

\* A failed insertion is logged and the next fact is tried.
InsertFact(t) ==
    /\ taskStep[t] = "insert"
    /\ \/ /\ inserts < MaxInserts /\ inserts' = inserts + 1
          /\ facts' = facts \cup {[conv |-> taskConv[t],
                        fact |-> Head(taskTodo[t]), keyed |-> taskKeyed[t],
                        at |-> inserts, checked |-> taskSaw[t]]}
          /\ NextFact(t, TRUE)
       \/ NextFact(t, taskStored[t]) /\ UNCHANGED <<facts, inserts>>
    /\ UNCHANGED <<untrimmed, purges>>

\* The rows DELETE ... WHERE id IN (SELECT id ... ORDER BY edit_time ASC
\* OFFSET max_facts) removes: all behind the max_facts oldest.
Evicted(conv) ==
    {r \in Of(conv) : Cardinality({q \in Of(conv) : q.at < r.at}) >= MaxFacts}

TrimFacts(t) ==
    /\ taskStep[t] = "trim"
    /\ \/ /\ facts' = facts \ Evicted(taskConv[t])
          /\ untrimmed' = untrimmed \ {taskConv[t]}
       \/ UNCHANGED facts /\ untrimmed' = untrimmed \cup {taskConv[t]}
    /\ EndTask(t)
    /\ UNCHANGED <<inserts, purges>>

\* reset_session deletes the facts of the conversation, without the user_key.
ResetFacts ==
    /\ purges < MaxPurges /\ purges' = purges + 1
    /\ \E c \in Conversations : facts' = facts \ Of(c)
    /\ UNCHANGED <<taskVars, untrimmed, inserts>>

\* prune_expired deletes what is older than the retention.
PruneFacts ==
    /\ purges < MaxPurges /\ purges' = purges + 1
    /\ \E r \in facts : facts' = {q \in facts : q.at > r.at}
    /\ UNCHANGED <<taskVars, untrimmed, inserts>>

FactNext ==
    \/ \E t \in Tasks : \/ ExtractFacts(t) \/ SearchFact(t) \/ FailEmbedding(t)
                        \/ InsertFact(t) \/ TrimFacts(t)
    \/ ResetFacts \/ PruneFacts

FactSpec == FactInit /\ [][FactNext]_factVars

-----------------------------------------------------------------------------
FactTypeOK ==
    /\ facts \subseteq FactRows
    /\ taskStep \in [Tasks -> TaskSteps]
    /\ taskConv \in [Tasks -> Conversations \cup {NoConv}]
    /\ taskKeyed \in [Tasks -> BOOLEAN]
    /\ taskTodo \in [Tasks -> Seq(Facts)]
    /\ taskStored \in [Tasks -> BOOLEAN]
    /\ taskSaw \in [Tasks -> Nat]
    /\ untrimmed \subseteq Conversations
    /\ inserts \in Nat /\ purges \in Nat

\* Two equal facts of one scope come from a race: the second task searched
\* before the first had inserted.
DuplicatesOnlyFromRaces ==
    \A q, r \in facts :
        (q.at < r.at /\ q.fact = r.fact /\ InScope(q, r.conv, r.keyed))
        => r.checked <= q.at

\* More than max_facts of a conversation: a task of it is not done, or the
\* last one failed to trim.
CapacityRestored ==
    \A c \in Conversations \ untrimmed :
        (\A t \in Tasks : taskConv[t] = c => ~taskStored[t])
        => Cardinality(Of(c)) <= MaxFacts

\* However the tasks of a user interleave, with each other and with resets and
\* the retention: a fact is stored twice in one scope only by the check-then-
\* insert of insert_many, with no constraint behind it; and once the tasks that
\* store facts of a conversation are done it keeps no more than max_facts, but
\* for those whose last task failed to trim them.
FactsOnceAndBounded == DuplicatesOnlyFromRaces /\ CapacityRestored
=============================================================================
