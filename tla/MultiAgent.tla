----------------------------- MODULE MultiAgent -----------------------------
(* A question answered by several workers: the supervisor graph has the     *)
(* model split the question, validates the sub-plans and has them reviewed  *)
(* (orchestrator/supervisor.py, supervisor_graph.py, subplan.py); the       *)
(* parallel executor runs the accepted ones in layers of their dependencies *)
(* and the aggregator makes one answer of the results                       *)
(* (executors/parallel_executor.py, aggregator_executor.py).  The texts and *)
(* the references are left out; what a worker spends in tokens is kept,     *)
(* because each works on a copy of the task whose counters are merged.      *)
(* Validator and executor each sort the sub-plans for themselves, by        *)
(* counting down what a sub-plan still waits for.                           *)
EXTENDS Integers, FiniteSets, Sequences

CONSTANTS SubPlanIds,
          MaxReviewRetries,  \* settings.rag.supervisor_max_review_retries
          MaxTokens          \* bound: tokens of one worker

ASSUME MultiAgentAssumption ==
    /\ MaxReviewRetries \in Nat /\ MaxTokens \in Nat \ {0}
    /\ IsFiniteSet(SubPlanIds)

\* depends_on names ids, of sub-plans that are there or not; malformed stands
\* for a repeated id or an empty question; unregistered are the sub-plans in a
\* mode that exists but has no executor (OPEN_CHAT, AGENT).
Proposals == [ids : SUBSET SubPlanIds,
              dependsOn : [SubPlanIds -> SUBSET SubPlanIds],
              malformed : BOOLEAN,
              unregistered : SUBSET SubPlanIds]
NoSubPlans == [ids |-> {}, dependsOn |-> [p \in SubPlanIds |-> {}],
               malformed |-> FALSE, unregistered |-> {}]

VARIABLES
    supStep,       \* "decompose", "validate", "visit", "review", "layering",
                   \* "layer", "gather", "aggregate", "over"
    subPlans,      \* the sub-plans in the state of the graph
    reviewRetries,
    outcome,       \* "none", then how the question was dealt with
    inDegree,      \* in_degree of the loop that runs: dependencies to come
    planQueue,     \* its queue
    visited,       \* validate_sub_plans: what was taken out of the queue
    layers,        \* _topological_layers: the layers so far
    worker,        \* [SubPlanIds -> "none", "running", "done", "error" or
                   \* "raised"]
    base,          \* total_tokens of the copies of the task, when copied
    layerNo,       \* layers begun
    totalTokens,   \* task.total_tokens
    spent,         \* history: tokens of the workers that succeeded
    supCancelled   \* task.is_cancelled

supVars == <<supStep, subPlans, reviewRetries, outcome>>
sortVars == <<inDegree, planQueue, visited, layers>>
runVars == <<worker, base, layerNo, totalTokens, spent>>
agentVars == <<supVars, sortVars, runVars, supCancelled>>

AgentInit ==
    /\ supStep = "decompose" /\ subPlans = NoSubPlans /\ reviewRetries = 0
    /\ outcome = "none"
    /\ inDegree = [p \in SubPlanIds |-> 0] /\ planQueue = {}
    /\ visited = {} /\ layers = <<>>
    /\ worker = [p \in SubPlanIds |-> "none"]
    /\ base = 0 /\ layerNo = 0 /\ totalTokens = 0 /\ spent = 0
    /\ supCancelled = FALSE

Having(st) == {p \in subPlans.ids : worker[p] = st}
Finish(how) == supStep' = "over" /\ outcome' = how

\* Each loop begins with what depends on nothing.
BeginCount ==
    /\ inDegree' = [i \in SubPlanIds |->
          IF i \in subPlans.ids THEN Cardinality(subPlans.dependsOn[i]) ELSE 0]
    /\ planQueue' = {i \in subPlans.ids : subPlans.dependsOn[i] = {}}

-----------------------------------------------------------------------------
(* The supervisor graph. *)

\* decompose_node: two sub-plans at least, fewer when the model names a mode
\* that does not exist; or none.
Decompose ==
    /\ supStep = "decompose"
    /\ \/ \E p \in Proposals :
             /\ p.ids # {}
             /\ \A i \in SubPlanIds \ p.ids : p.dependsOn[i] = {}
             /\ p.unregistered \subseteq p.ids
             /\ subPlans' = p
       \/ subPlans' = NoSubPlans
    /\ supStep' = "validate"
    /\ UNCHANGED <<reviewRetries, outcome, sortVars, runVars, supCancelled>>

\* validate_node: what is rejected here is not tried again, and the question
\* keeps its single mode.  Cycles are looked for last.
Validate ==
    /\ supStep = "validate"
    /\ IF /\ subPlans.ids # {} /\ ~subPlans.malformed
          /\ \A i \in subPlans.ids : subPlans.dependsOn[i] \subseteq subPlans.ids
       THEN supStep' = "visit" /\ BeginCount /\ UNCHANGED <<subPlans, outcome>>
       ELSE /\ Finish("single") /\ subPlans' = NoSubPlans
            /\ UNCHANGED <<inDegree, planQueue>>
    /\ UNCHANGED <<reviewRetries, visited, layers, runVars, supCancelled>>

\* What waits for nothing any more once i is visited.
Freed(i) ==
    {j \in subPlans.ids : i \in subPlans.dependsOn[j] /\ inDegree[j] = 1}

VisitSubPlan(i) ==
    /\ supStep = "visit" /\ i \in planQueue
    /\ visited' = visited \cup {i}
    /\ inDegree' = [j \in SubPlanIds |->
          IF i \in subPlans.dependsOn[j] THEN inDegree[j] - 1 ELSE inDegree[j]]
    /\ planQueue' = (planQueue \ {i}) \cup Freed(i)
    /\ UNCHANGED <<supVars, layers, runVars, supCancelled>>

\* Mutant: what was visited is not counted.
MutEndValidation ==
    /\ supStep = "visit" /\ planQueue = {}
    /\ supStep' = "review" /\ UNCHANGED <<subPlans, outcome>>
    /\ inDegree' = [p \in SubPlanIds |-> 0] /\ visited' = {}
    /\ UNCHANGED <<reviewRetries, planQueue, layers, runVars, supCancelled>>

\* A cycle is what was never queued.
EndValidation ==
    /\ supStep = "visit" /\ planQueue = {}
    /\ IF visited = subPlans.ids
       THEN supStep' = "review" /\ UNCHANGED <<subPlans, outcome>>
       ELSE Finish("single") /\ subPlans' = NoSubPlans
    /\ inDegree' = [p \in SubPlanIds |-> 0] /\ visited' = {}
    /\ UNCHANGED <<reviewRetries, planQueue, layers, runVars, supCancelled>>

\* review_node: approved, or not reviewed because the call failed.
Approve ==
    /\ supStep = "review"
    /\ supStep' = "layering" /\ BeginCount
    /\ UNCHANGED <<subPlans, reviewRetries, outcome, visited, layers, runVars,
                   supCancelled>>

Reject ==
    /\ supStep = "review"
    /\ reviewRetries' = reviewRetries + 1
    /\ IF reviewRetries + 1 <= MaxReviewRetries
       THEN supStep' = "decompose" /\ UNCHANGED outcome
       ELSE Finish("single")
    /\ UNCHANGED <<subPlans, sortVars, runVars, supCancelled>>

-----------------------------------------------------------------------------
(* The parallel executor. *)

\* _topological_layers: a whole queue is a layer, and the next one is what
\* this layer was the last to be waited for by.
AddLayer ==
    /\ supStep = "layering" /\ planQueue # {}
    /\ layers' = Append(layers, planQueue)
    /\ inDegree' = [j \in SubPlanIds |->
          inDegree[j] - Cardinality(subPlans.dependsOn[j] \cap planQueue)]
    /\ planQueue' = {j \in subPlans.ids :
          inDegree'[j] = 0 /\ subPlans.dependsOn[j] \cap planQueue # {}}
    /\ UNCHANGED <<supVars, visited, runVars, supCancelled>>

Layered(n) == UNION {layers[m] : m \in {k \in DOMAIN layers : k <= n}}

\* Sub-plans that no layer has are a cycle, which is answered with an apology.
EndLayering ==
    /\ supStep = "layering" /\ planQueue = {}
    /\ IF Layered(Len(layers)) # subPlans.ids
       THEN Finish("cycle")
       ELSE supStep' = "layer" /\ UNCHANGED outcome
    /\ UNCHANGED <<subPlans, reviewRetries, sortVars, runVars, supCancelled>>

\* The next layer: each worker gets a copy of the task.
RunLayer ==
    /\ supStep = "layer" /\ ~supCancelled
    /\ worker' = [p \in SubPlanIds |->
          IF p \in layers[layerNo + 1] THEN "running" ELSE worker[p]]
    /\ base' = totalTokens
    /\ layerNo' = layerNo + 1
    /\ supStep' = "gather"
    /\ UNCHANGED <<subPlans, reviewRetries, outcome, sortVars, totalTokens,
                   spent, supCancelled>>

\* A worker runs on when another one's exception has ended the turn.
Works(p) == supStep \in {"gather", "over"} /\ worker[p] = "running"

\* Mutant: the counter of the copy replaces that of the task.
MutFinishWorker(p) ==
    /\ Works(p)
    /\ \/ /\ p \notin subPlans.unregistered
          /\ worker' = [worker EXCEPT ![p] = "done"]
          /\ \E n \in 0 .. MaxTokens :
                totalTokens' = base + n /\ spent' = spent + n
       \/ /\ p \in subPlans.unregistered => supCancelled
          /\ worker' = [worker EXCEPT ![p] = "error"]
          /\ UNCHANGED <<totalTokens, spent>>
    /\ UNCHANGED <<supVars, sortVars, base, layerNo, supCancelled>>

\* _run_single merges the counters of its copy, which began as the task's.
\* An exception of its executor is an error, as is a task cancelled before the
\* worker looked, and its counters are lost.
FinishWorker(p) ==
    /\ Works(p)
    /\ \/ /\ p \notin subPlans.unregistered
          /\ worker' = [worker EXCEPT ![p] = "done"]
          /\ \E n \in 0 .. MaxTokens :
                /\ totalTokens' = totalTokens + base + n
                /\ spent' = spent + n
       \/ /\ p \in subPlans.unregistered => supCancelled
          /\ worker' = [worker EXCEPT ![p] = "error"]
          /\ UNCHANGED <<totalTokens, spent>>
    /\ UNCHANGED <<supVars, sortVars, base, layerNo, supCancelled>>

\* The registry has no executor for the mode: it raises before the try, so
\* asyncio.gather() raises too, and the turn fails without its other workers.
RaiseUnregistered(p) ==
    /\ Works(p) /\ p \in subPlans.unregistered
    /\ worker' = [worker EXCEPT ![p] = "raised"]
    /\ IF supStep = "gather" THEN Finish("failed")
                            ELSE UNCHANGED <<supStep, outcome>>
    /\ UNCHANGED <<subPlans, reviewRetries, sortVars, base, layerNo,
                   totalTokens, spent, supCancelled>>

GatherLayer ==
    /\ supStep = "gather" /\ Having("running") = {}
    /\ supStep' = IF layerNo = Len(layers) THEN "aggregate" ELSE "layer"
    /\ base' = 0
    /\ UNCHANGED <<subPlans, reviewRetries, outcome, sortVars, worker, layerNo,
                   totalTokens, spent, supCancelled>>

\* Before a layer and before the aggregation the cancellation is looked up.
AbandonPlan ==
    /\ supStep \in {"layer", "aggregate"} /\ supCancelled
    /\ Finish("cancelled")
    /\ UNCHANGED <<subPlans, reviewRetries, sortVars, runVars, supCancelled>>

\* synthesize_streaming: one answer of the texts there are (the model's, or
\* the texts side by side when it fails), or an apology for having none.
Aggregate ==
    /\ supStep = "aggregate" /\ ~supCancelled
    /\ \/ Having("done") # {} /\ Finish("answered")
       \/ Finish("apology")
    /\ UNCHANGED <<subPlans, reviewRetries, sortVars, runVars, supCancelled>>

CancelPlan ==
    /\ supStep \in {"layering", "layer", "gather", "aggregate"}
    /\ ~supCancelled
    /\ supCancelled' = TRUE
    /\ UNCHANGED <<supVars, sortVars, runVars>>

AgentNext ==
    \/ Decompose \/ Validate \/ EndValidation \/ Approve \/ Reject
    \/ AddLayer \/ EndLayering
    \/ RunLayer \/ GatherLayer \/ AbandonPlan \/ Aggregate
    \/ \E p \in SubPlanIds :
          VisitSubPlan(p) \/ FinishWorker(p) \/ RaiseUnregistered(p)
    \/ CancelPlan

AgentSpec == AgentInit /\ [][AgentNext]_agentVars

-----------------------------------------------------------------------------
AgentTypeOK ==
    /\ supStep \in {"decompose", "validate", "visit", "review", "layering",
                    "layer", "gather", "aggregate", "over"}
    /\ subPlans \in Proposals
    /\ reviewRetries \in 0 .. MaxReviewRetries + 1
    /\ outcome \in {"none", "single", "cycle", "cancelled", "failed",
                    "answered", "apology"}
    /\ inDegree \in [SubPlanIds -> Int]
    /\ planQueue \subseteq SubPlanIds /\ visited \subseteq SubPlanIds
    /\ layers \in Seq(SUBSET SubPlanIds)
    /\ worker \in [SubPlanIds -> {"none", "running", "done", "error", "raised"}]
    /\ {base, layerNo, totalTokens, spent} \subseteq Nat
    /\ supCancelled \in BOOLEAN

\* What the validator lets pass, the executor can run: no accepted split of
\* a question ends in the apology for a cycle, a worker runs only after
\* everything it depends on, and an answer is made of all the results.  Only
\* a mode without executor, which the validator does not look for, fails it.
AcceptedPlanRunsWhole ==
    LET reported == Having("done") \cup Having("error") IN
    /\ outcome # "cycle"
    /\ \A p \in subPlans.ids : worker[p] # "none" =>
           subPlans.dependsOn[p] \subseteq reported
    /\ outcome \in {"answered", "apology"} =>
           subPlans.ids = reported /\ subPlans.unregistered = {}
    /\ outcome = "failed" =>
           subPlans.unregistered \cap Having("raised") # {}

\* The tokens the turn is charged for are those of its successful workers as
\* long as there is one layer, and never fewer.  (With a second layer the
\* first is counted again by each of its workers.)
TokensCharged ==
    /\ totalTokens >= spent
    /\ layerNo <= 1 => totalTokens = spent
=============================================================================
