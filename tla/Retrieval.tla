------------------------------ MODULE Retrieval ------------------------------
(* The evidence for one question (rag/engine.py with rag/parent_block.py,   *)
(* fusion.py and multi_hop.py): every sub-question asks two channels, gates *)
(* and fuses what they recall, reranks and filters it and lifts chunks to   *)
(* the blocks they were cut from; when the evidence is insufficient the     *)
(* question is rewritten and asked again (retrieve_with_correction), or, in *)
(* the other mode, further hops add to it.  The numbers the answer cites by *)
(* are given at the end of each round; the executor lists the references    *)
(* without repetition and the citation check finds them by their place.     *)
(*                                                                          *)
(* Scores are three levels.  Which block a chunk was cut from is always     *)
(* known; the text of the block may not be found.                           *)
(* Sub-questions run side by side and share nothing but the set of used     *)
(* channels; their lists are gathered in the order of the plan and held     *)
(* here one after the other, as everything that reads them goes through     *)
(* all of them in this order.                                               *)
EXTENDS Integers, Sequences, SequencesExt, FiniteSets, FiniteSetsExt, Functions,
        Selections

CONSTANTS Chunks,
          ParentOf,      \* [Chunks -> blocks], a chunk itself when it has none
          FinalTopK,     \* settings.rag.final_top_k
          SubQuestions,  \* number of sub-questions of the plan
          MaxRounds      \* corrective_retrieval_max_rounds, or further hops

ASSUME RetrievalAssumption ==
    /\ FinalTopK \in Nat \ {0} /\ SubQuestions \in Nat \ {0}
    /\ MaxRounds \in Nat
    /\ IsFiniteSet(Chunks) /\ DOMAIN ParentOf = Chunks

Levels == 0 .. 2
Scores == [Chunks -> Levels]
Greatest2(S) == IF S = {} THEN 0 ELSE Max(S)

\* An evidence: key is what _unique_key makes of it, id its number.
Evidence(c, key, score) == [chunk |-> c, key |-> key, score |-> score, id |-> 0]

\* By score, best first; equal ones in some order.
ByScore(S) ==
    {s \in [1 .. Cardinality(S) -> S] :
        ToSet(s) = S /\ \A i, j \in DOMAIN s : i < j => s[i].score >= s[j].score}

-----------------------------------------------------------------------------
(* One sub-question (_retrieve_one). *)

\* _apply_evidence_gate.  Vector: what reaches the threshold (2); or else
\* one that is near it (1).  Keyword: what is near enough to the best.
VectorGate(hits) ==
    LET passed == {c \in Chunks : hits[c] = 2}
        near == {c \in Chunks : hits[c] = 1}
    IN  IF passed # {} THEN {passed}
        ELSE IF near # {} THEN {{c} : c \in near} ELSE {{}}
KeywordGate(hits) ==
    {c \in Chunks : hits[c] > 0 /\ hits[c] = Greatest2(Range(hits))}

\* _apply_rerank_filter with a threshold relative to the best score; a
\* score of 0 counts as 1.0, and a filter that keeps too few keeps all.
Filtered(S, rerank) ==
    LET threshold == Max({1, Greatest2({rerank[c] : c \in S})})
        kept == {c \in S : rerank[c] = 0 \/ rerank[c] >= threshold}
    IN  IF Cardinality(kept) < Min({FinalTopK, Cardinality(S)}) THEN S ELSE kept

\* ParentBlockElevator.elevate: children of one block give one evidence, the
\* best child's; those of a block whose text is not found stay apart, but
\* carry its id.
Elevated(S, score, found) ==
    LET grouped == {c \in S : ParentOf[c] # c /\ ParentOf[c] \in found}
        best(p) == CHOOSE c \in grouped : ParentOf[c] = p
                       /\ \A d \in grouped : ParentOf[d] = p => score[d] <= score[c]
    IN  {Evidence(c, ParentOf[c], score[c]) : c \in S \ grouped}
        \cup {Evidence(best(p), p, score[best(p)]) : p \in {ParentOf[c] : c \in grouped}}

FirstOf(s, n) == SubSeq(s, 1, Min({n, Len(s)}))

\* Without the reranker candidates keep the score of the fusion, and their
\* rerank_score is 0.
SubResult(vector, keyword, score, reranked, found) ==
    LET merged == vector \cup keyword
        kept == IF reranked THEN Filtered(merged, score)
                ELSE Filtered(merged, [c \in Chunks |-> 0])
    IN  {FirstOf(s, FinalTopK) : s \in ByScore(Elevated(kept, score, found))}

\* All a sub-question may come to; <<>> also when it fails or times out, or
\* both channels do.
SubResults ==
    {<<>>} \cup
    UNION {UNION {SubResult(v, KeywordGate(kh), score, reranked, found) :
                      v \in VectorGate(vh)} :
           vh \in Scores, kh \in Scores, score \in Scores,
           reranked \in BOOLEAN, found \in SUBSET Range(ParentOf)}

-----------------------------------------------------------------------------
VARIABLES
    retStep,      \* "retrieve", "check", "over"
    multiHop,     \* settings.rag.iterative_multi_hop_enabled
    pending,      \* sub-questions of the plan still to be gathered
    retRound,     \* rewritten questions, or hops, so far
    context,      \* sub_question_evidence_list
    gathered      \* history: keys found since the last round without evidence

retVars == <<retStep, multiHop, pending, retRound, context, gathered>>

RetInit ==
    /\ retStep = "retrieve" /\ multiHop \in BOOLEAN
    /\ pending \in 1 .. SubQuestions
    /\ retRound = 0 /\ context = <<>> /\ gathered = {}

Keys(ctx) == {ctx[i].key : i \in DOMAIN ctx}

FirstWith(key, ctx) == CHOOSE i \in DOMAIN ctx :
                           ctx[i].key = key /\ \A k \in 1 .. i - 1 : ctx[k].key # key

\* Mutant: the place in the whole list, not among the distinct keys.
MutNumberOf(key, ctx) == FirstWith(key, ctx)

\* _assign_reference_ids: one number for one key, in the order of the list.
NumberOf(key, ctx) ==
    Cardinality({ctx[i].key : i \in 1 .. FirstWith(key, ctx)})
Numbered(ctx) ==
    [i \in DOMAIN ctx |-> [ctx[i] EXCEPT !.id = NumberOf(ctx[i].key, ctx)]]

\* Mutant: only what the rewritten question found is kept.
MutMergedByChunk(previous, fresh) == ByScore(ToSet(fresh))

\* _merge_evidence_lists: one evidence for a chunk, the earlier one, with
\* the better score.
MergedByChunk(previous, fresh) ==
    LET s == previous \o fresh
        scores(c) == {s[i].score : i \in {k \in DOMAIN s : s[k].chunk = c}}
        first(c) == s[CHOOSE i \in DOMAIN s : s[i].chunk = c
                          /\ \A k \in 1 .. i - 1 : s[k].chunk # c]
    IN  ByScore({[first(c) EXCEPT !.score = Max(scores(c))] :
                     c \in {s[i].chunk : i \in DOMAIN s}})

\* _merge_contexts: what has a key that is new comes after the rest.
Appended(ctx, extra) ==
    ctx \o AtPlaces(extra, {i \in DOMAIN extra : extra[i].key \notin Keys(ctx)})

\* The next sub-question of the plan is gathered; the last one ends the round.
RetrieveOne ==
    /\ retStep = "retrieve"
    /\ \E r \in SubResults :
          /\ context' = IF pending = 1 THEN Numbered(context \o r) ELSE context \o r
          /\ gathered' = gathered \cup Keys(r)
    /\ pending' = pending - 1
    /\ retStep' = IF pending > 1 THEN "retrieve"
                  ELSE IF MaxRounds = 0 THEN "over" ELSE "check"
    /\ UNCHANGED <<multiHop, retRound>>

\* The evidence is sufficient, or nobody can tell; the question cannot be
\* rewritten, or not differently; there is no evidence to hop from.
StopRetrieval ==
    /\ retStep = "check"
    /\ retStep' = "over"
    /\ UNCHANGED <<multiHop, pending, retRound, context, gathered>>

\* The rewritten question takes the place of all sub-questions.
CorrectRetrieval ==
    /\ retStep = "check" /\ ~multiHop /\ retRound < MaxRounds
    /\ \E r \in SubResults :
          /\ IF context # <<>> /\ r # <<>>
             THEN \E merged \in MergedByChunk(context, r) : context' = Numbered(merged)
             ELSE context' = Numbered(r)
          /\ gathered' = IF r = <<>> THEN {} ELSE gathered \cup Keys(r)
    /\ retRound' = retRound + 1
    /\ retStep' = IF retRound' = MaxRounds THEN "over" ELSE "check"
    /\ UNCHANGED <<multiHop, pending>>

Hop ==
    /\ retStep = "check" /\ multiHop /\ retRound < MaxRounds
    /\ context # <<>>
    /\ \E r \in SubResults :
          /\ context' = Numbered(Appended(context, r))
          /\ gathered' = gathered \cup Keys(r)
    /\ retRound' = retRound + 1
    /\ retStep' = IF retRound' = MaxRounds THEN "over" ELSE "check"
    /\ UNCHANGED <<multiHop, pending>>

RetNext == RetrieveOne \/ StopRetrieval \/ CorrectRetrieval \/ Hop

RetSpec == RetInit /\ [][RetNext]_retVars

-----------------------------------------------------------------------------
RetTypeOK ==
    /\ retStep \in {"retrieve", "check", "over"} /\ multiHop \in BOOLEAN
    /\ pending \in 0 .. SubQuestions /\ (pending > 0 <=> retStep = "retrieve")
    /\ retRound \in 0 .. MaxRounds
    /\ context \in Seq([chunk : Chunks, key : Range(ParentOf), score : Levels, id : Nat])
    /\ gathered \subseteq Range(ParentOf)

\* dedupe_references: the list the client and the citation check get.
References(ctx) ==
    AtPlaces(ctx, {i \in DOMAIN ctx : \A k \in 1 .. i - 1 : ctx[k].id # ctx[i].id})

\* The number an answer cites is the place of the reference in the list,
\* which the citation check counts on, and one number stands for one block,
\* after the first round and any sequence of merged rounds and hops.
CitationIsPlace ==
    retStep # "retrieve" =>
        LET refs == References(context) IN
        /\ \A n \in DOMAIN refs : refs[n].id = n
        /\ \A i, j \in DOMAIN context :
              context[i].id = context[j].id <=> context[i].key = context[j].key

\* Evidence once found is in the context at the end, whatever was merged,
\* unless a later correction came back empty: that one takes everything away.
EvidenceAccumulates == Keys(context) = gathered
=============================================================================
