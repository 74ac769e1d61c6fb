---------------------------- MODULE ResponseCache ----------------------------
(* The cache of answers to first questions (chat/response_cache.py, as      *)
(* chat/service.py uses it when settings.chat_cache.enabled).  A turn looks *)
(* its question up before it runs, and stores its answer after it ran; both *)
(* ask first whether the conversation has an exchange of any kind.  A       *)
(* change of a document drops the answers indexed under it and those that   *)
(* name no document, reading the two index sets before it deletes.          *)
(*                                                                          *)
(* The lease lets one turn of a conversation run at a time.  An answer is   *)
(* its key: the question with the documents asked about, all if none.       *)
EXTENDS Integers, FiniteSets

CONSTANTS Chats,      \* conversations
          CacheQuestions,
          Docs,
          AllDocs,    \* the index __all__
          MaxRuns     \* bound: turns of one conversation

ASSUME CacheAssumption ==
    MaxRuns \in Nat /\ AllDocs \notin Docs /\ CacheQuestions # {}

CacheKeys == [question : CacheQuestions, docs : SUBSET Docs, cacheable : BOOLEAN]
IndexSets == Docs \cup {AllDocs}

VARIABLES
    cache,        \* keys with an answer in Redis
    docKeys,      \* [IndexSets -> SUBSET CacheKeys]: doc_keys:{doc_id}
    askedKey,     \* [Chats -> CacheKeys]: what the running turn was asked
    runStep,      \* [Chats -> "idle", "asked", "prepare", "run"]
    exchangesOf,  \* [Chats -> Nat]: its rows in conversation_exchange
    invalidating  \* the document of an invalidation, and what it will delete

cacheVars == <<cache, docKeys, askedKey, runStep, exchangesOf, invalidating>>

NoKey == [question |-> CHOOSE q \in CacheQuestions : TRUE, docs |-> {}, cacheable |-> FALSE]
Nothing == [doc |-> AllDocs, keys |-> {}]

CacheInit ==
    /\ cache = {} /\ docKeys = [d \in IndexSets |-> {}]
    /\ askedKey = [c \in Chats |-> NoKey]
    /\ runStep = [c \in Chats |-> "idle"]
    /\ exchangesOf = [c \in Chats |-> 0]
    /\ invalidating = Nothing

\* Mutant: the exchange of the running turn is not history.
MutHasHistory(c) == exchangesOf[c] > 1

HasHistory(c) == exchangesOf[c] > 0

\* is_cacheable: auto and document modes, in a conversation without history.
IsCacheable(c) == askedKey[c].cacheable /\ ~HasHistory(c)

IndexOf(key) == IF key.docs = {} THEN {AllDocs} ELSE key.docs

-----------------------------------------------------------------------------
(* The turn. *)

AskTurn(c) ==
    /\ runStep[c] = "idle" /\ exchangesOf[c] < MaxRuns
    /\ \E key \in CacheKeys : askedKey' = [askedKey EXCEPT ![c] = key]
    /\ runStep' = [runStep EXCEPT ![c] = "asked"]
    /\ UNCHANGED <<cache, docKeys, exchangesOf, invalidating>>

\* A hit writes its exchange and is replayed; it is not stored again.
LookUp(c) ==
    /\ runStep[c] = "asked"
    /\ IF IsCacheable(c) /\ askedKey[c] \in cache
       THEN /\ exchangesOf' = [exchangesOf EXCEPT ![c] = @ + 1]
            /\ runStep' = [runStep EXCEPT ![c] = "idle"]
       ELSE /\ runStep' = [runStep EXCEPT ![c] = "prepare"]
            /\ UNCHANGED exchangesOf
    /\ UNCHANGED <<cache, docKeys, askedKey, invalidating>>

\* execute_stream writes the exchange before it yields its first event.
StartExchange(c) ==
    /\ runStep[c] = "prepare"
    /\ exchangesOf' = [exchangesOf EXCEPT ![c] = @ + 1]
    /\ runStep' = [runStep EXCEPT ![c] = "run"]
    /\ UNCHANGED <<cache, docKeys, askedKey, invalidating>>

\* The turn fails, is stopped, or ends before it begins to run.
FailTurn(c) ==
    /\ runStep[c] \in {"prepare", "run"}
    /\ runStep' = [runStep EXCEPT ![c] = "idle"]
    /\ UNCHANGED <<cache, docKeys, askedKey, exchangesOf, invalidating>>

\* The turn is completed: store() writes the answer, then its place in the
\* index, which may fail after the answer is written.
StoreAnswer(c) ==
    /\ runStep[c] = "run"
    /\ IF IsCacheable(c)
       THEN /\ cache' = cache \cup {askedKey[c]}
            /\ \/ docKeys' = [d \in IndexSets |->
                     IF d \in IndexOf(askedKey[c])
                     THEN docKeys[d] \cup {askedKey[c]} ELSE docKeys[d]]
               \/ UNCHANGED docKeys
       ELSE UNCHANGED <<cache, docKeys>>
    /\ runStep' = [runStep EXCEPT ![c] = "idle"]
    /\ UNCHANGED <<askedKey, exchangesOf, invalidating>>

-----------------------------------------------------------------------------
(* invalidate_cache(doc_id), after a document was deleted or its index      *)
(* build was submitted, and the purge of all.                               *)

ReadIndex(d) ==
    /\ invalidating = Nothing
    /\ invalidating' = [doc |-> d, keys |-> docKeys[d] \cup docKeys[AllDocs]]
    /\ UNCHANGED <<cache, docKeys, askedKey, runStep, exchangesOf>>

DropAnswers ==
    /\ invalidating # Nothing
    /\ cache' = cache \ invalidating.keys
    /\ docKeys' = [docKeys EXCEPT ![invalidating.doc] = {}, ![AllDocs] = {}]
    /\ invalidating' = Nothing
    /\ UNCHANGED <<askedKey, runStep, exchangesOf>>

\* invalidate_cache(None), or the TTL of everything: what is about to be
\* deleted by name is deleted all the same.
PurgeAnswers ==
    /\ cache' = {} /\ docKeys' = [d \in IndexSets |-> {}]
    /\ UNCHANGED <<askedKey, runStep, exchangesOf, invalidating>>

CacheNext ==
    \/ \E c \in Chats : \/ AskTurn(c) \/ LookUp(c) \/ StartExchange(c)
                        \/ FailTurn(c) \/ StoreAnswer(c)
    \/ \E d \in Docs : ReadIndex(d)
    \/ DropAnswers \/ PurgeAnswers

CacheSpec == CacheInit /\ [][CacheNext]_cacheVars

-----------------------------------------------------------------------------
CacheTypeOK ==
    /\ cache \subseteq CacheKeys
    /\ docKeys \in [IndexSets -> SUBSET CacheKeys]
    /\ askedKey \in [Chats -> CacheKeys]
    /\ runStep \in [Chats -> {"idle", "asked", "prepare", "run"}]
    /\ exchangesOf \in [Chats -> Nat]
    /\ invalidating.doc \in IndexSets /\ invalidating.keys \subseteq CacheKeys

\* No answer is ever cached: has_history() of store() sees the exchange of
\* the very turn that is being stored, which execute_stream committed before
\* its first event.
NothingIsEverCached == cache = {} /\ \A d \in IndexSets : docKeys[d] = {}
=============================================================================
