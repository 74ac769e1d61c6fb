----------------------------- MODULE Orchestrator -----------------------------
(* How one question becomes an execution plan (orchestrator/orchestrator.py *)
(* and its stages, fallback_router.py, plan_builder.py, route_scorer.py,    *)
(* navigation_analyzer.py): stages run in a fixed order, each may end the   *)
(* pipeline with a plan.  In AUTO mode the documents to search are found by *)
(* a scored route, widened by a fallback when the route is not confident,   *)
(* or the user is asked which one is meant; then the structure of one       *)
(* document may be navigated.  The documents searched, the one selected and *)
(* the one navigated are computed in three places, each from the request in *)
(* its own words: they differ on a blank id, which the API accepts.         *)
(*                                                                          *)
(* What the texts of the question match is a choice; scores are whole       *)
(* numbers, and the confidence is compared without rounding.                *)
EXTENDS Integers, Sequences, SequencesExt, FiniteSets, FiniteSetsExt, Selections

CONSTANTS Documents,
          NoDocument,      \* no document: None, or a blank id; both are falsy
          ScopeOf,         \* [Documents -> scopes]
          RouteScores,     \* scores of the route, whole numbers
          Threshold,       \* knowledge_route_confidence_threshold, in percent
          ConfidentLimit,  \* 3: candidates of a route of 80 percent
          WideLimit        \* 5: candidates of any other

ASSUME OrchestratorAssumption ==
    /\ IsFiniteSet(Documents) /\ NoDocument \notin Documents /\ DOMAIN ScopeOf = Documents
    /\ RouteScores \subseteq Nat /\ Threshold \in 0 .. 100
    /\ ConfidentLimit \in Nat \ {0} /\ WideLimit \in Nat \ {0}

MaybeDocument == Documents \cup {NoDocument}
ChatModes == {"auto", "document", "open_chat"}
Candidates == [doc : Documents, task : BOOLEAN, score : RouteScores]
PlanModes == {"REFUSAL", "REACT_AGENT", "CLARIFICATION", "RETRIEVAL",
              "GRAPH_ONLY", "GRAPH_THEN_EVIDENCE"}

\* What a query of the documents finds: each at most once, best first, equal
\* ones in some order.
Rankings ==
    {s \in UNION {[1 .. n -> Candidates] : n \in 0 .. Cardinality(Documents)} :
        \A i, j \in DOMAIN s : i < j => s[i].doc # s[j].doc /\ s[i].score >= s[j].score}

VARIABLES
    orchStep,    \* the stage that is next
    chatMode, docIds, selectedId,      \* of the request
    route,       \* route_decision.documents
    candidates,  \* candidate_documents
    routedDoc,   \* ctx.routed_document_id
    topDocs,     \* ctx.top_doc_ids
    topTasks,    \* documents of ctx.top_task_ids
    navDoc,      \* history: the document navigated
    execMode,    \* ctx.execution_mode
    section,     \* of the navigation decision: "none", "code" or "node"
    plan         \* the plan, or NoPlan

orchVars == <<orchStep, chatMode, docIds, selectedId, route, candidates,
              routedDoc, topDocs, topTasks, navDoc, execMode, section, plan>>
request == <<chatMode, docIds, selectedId>>
routing == <<route, candidates, routedDoc, topDocs, topTasks>>
navigation == <<navDoc, execMode, section>>

NoPlan == [mode |-> "NONE", selected |-> NoDocument, searched |-> <<>>, tasks |-> <<>>]

OrchInit ==
    /\ orchStep = "guardrail"
    /\ chatMode \in ChatModes
    /\ docIds \in {<<>>} \cup {<<d>> : d \in MaybeDocument}
                 \cup {<<d, e>> : d \in MaybeDocument, e \in MaybeDocument}
    /\ selectedId \in MaybeDocument
    /\ route = <<>> /\ candidates = <<>>
    /\ routedDoc = NoDocument /\ topDocs = <<>> /\ topTasks = <<>>
    /\ navDoc = NoDocument /\ execMode = "RETRIEVAL" /\ section = "none"
    /\ plan = NoPlan

\* Terminate: a plan that searches nothing.
EndWith(mode) == orchStep' = "over" /\ plan' = [NoPlan EXCEPT !.mode = mode]
Continue(stage) == orchStep' = stage /\ UNCHANGED plan

\* build_final_plan: a first id, blank or not, hides the selected document.
PlanDocument ==
    IF routedDoc # NoDocument THEN routedDoc
    ELSE IF docIds # <<>> THEN Head(docIds) ELSE selectedId

\* Mutant: the document of the route is not the one that is navigated.
MutNavigatedDocument ==
    IF docIds # <<>> /\ Head(docIds) # NoDocument THEN Head(docIds) ELSE selectedId

\* NavigationAnalysisStage: a blank first id falls through to the selected one.
NavigatedDocument ==
    IF routedDoc # NoDocument THEN routedDoc
    ELSE IF docIds # <<>> /\ Head(docIds) # NoDocument THEN Head(docIds)
    ELSE selectedId

-----------------------------------------------------------------------------
\* GuardrailStage; the history and the dates that follow end nothing.
Guardrail ==
    /\ orchStep = "guardrail"
    /\ EndWith("REFUSAL") \/ Continue("validation")
    /\ UNCHANGED <<request, routing, navigation>>

\* ValidationStage, but for OPEN_CHAT: settings.rag.enabled, and a document
\* in DOCUMENT mode, be its id blank.  OpenChatShortcutStage ends OPEN_CHAT.
Validation ==
    /\ orchStep = "validation"
    /\ CASE chatMode = "open_chat" -> EndWith("REACT_AGENT")
         [] chatMode = "document" /\ docIds = <<>> /\ selectedId = NoDocument ->
                EndWith("REFUSAL")
         [] OTHER -> EndWith("REFUSAL") \/ Continue("rewrite")
    /\ UNCHANGED <<request, routing, navigation>>

\* QueryRewriteStage: AUTO questions that need no document, by rule or by
\* the model.
QueryRewrite ==
    /\ orchStep = "rewrite"
    /\ \/ chatMode = "auto" /\ EndWith("REACT_AGENT")
       \/ Continue(IF chatMode = "auto" THEN "route" ELSE "navigation")
    /\ UNCHANGED <<request, routing, navigation>>

\* KnowledgeRouteService.route, from its cache or not; a route without
\* documents for a question without terms.
KnowledgeRoute ==
    /\ orchStep = "route"
    /\ route' \in Rankings
    /\ Continue("candidates")
    /\ UNCHANGED <<request, candidates, routedDoc, topDocs, topTasks, navigation>>

\* resolve_confidence: top / max(10, top + second + 5) is n percent at least.
AtLeast(n) ==
    LET top == route[1].score
        second == IF Len(route) > 1 THEN route[2].score ELSE 0
    IN  route # <<>> /\ 100 * top >= n * Max({10, top + second + 5})

First(s, n) == SubSeq(s, 1, Min({n, Len(s)}))
DocsOf(s) == [i \in DOMAIN s |-> s[i].doc]

MergedCandidates(primary, secondary) ==
    primary \o AtPlaces(secondary, {i \in DOMAIN secondary :
                             secondary[i].doc \notin ToSet(DocsOf(primary))})

WithTask(s) == AtPlaces(s, {i \in DOMAIN s : s[i].task})

\* select_auto_candidates; fallback is what fallback_documents would find.
SelectAuto(fallback) ==
    LET limit == IF AtLeast(80) THEN ConfidentLimit ELSE WideLimit
        indexed == First(WithTask(route), limit)
    IN  IF route = <<>> THEN First(fallback, WideLimit)
        ELSE IF indexed = <<>> THEN First(fallback, limit)
        ELSE IF ~AtLeast(Threshold)
             THEN First(MergedCandidates(indexed, First(fallback, limit)), limit)
        ELSE indexed

SelectCandidates ==
    /\ orchStep = "candidates"
    /\ \E fallback \in Rankings : candidates' = SelectAuto(fallback)
    /\ Continue("clarify")
    /\ UNCHANGED <<request, route, routedDoc, topDocs, topTasks, navigation>>

\* should_ask_clarification; named: the question has a word of the name of
\* the first candidate.
ShouldAsk(named) ==
    \/ candidates = <<>> \/ route = <<>>
    \/ ~AtLeast(Threshold) /\ ~(AtLeast(25) /\ named)
    \/ /\ AtLeast(Threshold) /\ Len(candidates) > 1
       /\ candidates[1].score - candidates[2].score <= 3
       /\ ScopeOf[candidates[1].doc] # ScopeOf[candidates[2].doc]

AskClarification ==
    /\ orchStep = "clarify"
    /\ \E named \in BOOLEAN :
          IF ShouldAsk(named)
          THEN EndWith("CLARIFICATION") /\ UNCHANGED <<routedDoc, topDocs, topTasks>>
          ELSE /\ topDocs' = DocsOf(candidates)
               /\ topTasks' = DocsOf(WithTask(candidates))
               /\ routedDoc' = IF AtLeast(Threshold) /\ candidates[1].task
                               THEN candidates[1].doc ELSE NoDocument
               /\ Continue("navigation")
    /\ UNCHANGED <<request, route, candidates, navigation>>

\* NavigationAnalysisStage and analyze(): a question about the order of
\* sections goes to the graph whatever section is found for it, one about a
\* step only with a node; a section found by its number has no node.
Navigate ==
    /\ orchStep = "navigation"
    /\ navDoc' = NavigatedDocument
    /\ section' \in IF navDoc' = NoDocument THEN {"none"} ELSE {"none", "code", "node"}
    /\ \/ execMode' = "RETRIEVAL"
       \/ execMode' = "GRAPH_ONLY"
       \/ section' = "node" /\ execMode' = "GRAPH_THEN_EVIDENCE"
    /\ Continue("final")
    /\ UNCHANGED <<request, routing>>

\* build_final_plan.
BuildFinalPlan ==
    /\ orchStep = "final"
    /\ plan' = [mode |-> execMode, selected |-> PlanDocument,
                searched |-> IF topDocs # <<>> THEN topDocs
                             ELSE IF PlanDocument # NoDocument THEN <<PlanDocument>>
                             ELSE <<>>,
                tasks |-> topTasks]
    /\ orchStep' = "over"
    /\ UNCHANGED <<request, routing, navigation>>

OrchNext ==
    \/ Guardrail \/ Validation \/ QueryRewrite \/ KnowledgeRoute
    \/ SelectCandidates \/ AskClarification \/ Navigate \/ BuildFinalPlan

OrchSpec == OrchInit /\ [][OrchNext]_orchVars

-----------------------------------------------------------------------------
OrchTypeOK ==
    /\ orchStep \in {"guardrail", "validation", "rewrite", "route", "candidates",
                     "clarify", "navigation", "final", "over"}
    /\ chatMode \in ChatModes /\ docIds \in Seq(MaybeDocument)
    /\ {selectedId, routedDoc, navDoc} \subseteq MaybeDocument
    /\ route \in Seq(Candidates) /\ candidates \in Seq(Candidates)
    /\ topDocs \in Seq(Documents) /\ topTasks \in Seq(Documents)
    /\ execMode \in PlanModes /\ section \in {"none", "code", "node"}
    /\ plan.mode \in PlanModes \cup {"NONE"}

\* The request names its first document by a blank id and no route replaces it.
BlankNamed == docIds # <<>> /\ Head(docIds) = NoDocument /\ routedDoc = NoDocument

\* A plan that retrieves searches no document twice, and the document it
\* selects is, but for an AUTO question whose route was not confident, one of
\* those it searches.  It searches some document and selects the one whose
\* structure was navigated, so that a plan to locate a step has the document
\* and the section the executor asks for; except where the request names its
\* first document by a blank id.  Such a plan selects nothing, whatever else
\* the request names, and searches what the route found, in DOCUMENT mode an
\* empty list, which the retrieval takes for all documents.
PlanIsConsistent ==
    plan.mode \in {"RETRIEVAL", "GRAPH_ONLY", "GRAPH_THEN_EVIDENCE"} =>
        /\ IsInjective(plan.searched) /\ ToSet(plan.tasks) \subseteq ToSet(plan.searched)
        /\ plan.selected \in ToSet(plan.searched) \cup {NoDocument}
           \/ (chatMode = "auto" /\ routedDoc = NoDocument)
        /\ \/ /\ plan.searched # <<>> /\ plan.selected = navDoc
              /\ plan.mode = "GRAPH_THEN_EVIDENCE" =>
                     section = "node" /\ plan.selected # NoDocument
           \/ /\ BlankNamed /\ plan.selected = NoDocument /\ navDoc = selectedId
              /\ (plan.searched = <<>>) <=> (chatMode = "document")
=============================================================================
