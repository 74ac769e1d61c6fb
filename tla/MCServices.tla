------------------------------ MODULE MCServices ------------------------------
(* Instances of the components that share no state in the model: a run      *)
(* takes one of them, and the others stay as they are initially, so the     *)
(* states of all of them add up and do not multiply.                        *)
EXTENDS ConversationMemory, FactMemory, SessionTitle, RagAnswer, MultiAgent,
        Retrieval, Orchestrator, ResumeBuffer, ResponseCache,
        MicroBatcher

VARIABLE component

suiteVars == <<component, memVars, factVars, titleVars, ansVars, agentVars,
               retVars, orchVars, resVars, cacheVars, batchVars>>

Components == {"memory", "facts", "title", "answer", "agents", "retrieval",
               "orchestrator", "resume", "cache", "batcher"}

\* The scopes and blocks of the instance: every document is a scope of its
\* own, and two of the three chunks were cut from one block.
MCScopeOf == [d \in Documents |-> d]
MCParentOf == [c \in Chunks |-> IF c = "c3" THEN c ELSE "p"]
MCCut == [q \in Long |-> "q2cut"]

\* The other components rest in one initial state of theirs.
SuiteInit ==
    /\ component \in Components
    /\ MemInit /\ FactInit /\ TitleInit /\ AnsInit /\ AgentInit
    /\ RetInit /\ (component # "retrieval" => ~multiHop /\ pending = 1)
    /\ OrchInit /\ (component # "orchestrator" =>
          chatMode = "auto" /\ docIds = <<>> /\ selectedId = NoDocument)
    /\ ResInit /\ CacheInit /\ BatchInit

-----------------------------------------------------------------------------
CompressMemory ==
    /\ component = "memory" /\ MemNext
    /\ UNCHANGED <<component, factVars, titleVars, ansVars, agentVars,
                    retVars, orchVars, resVars, cacheVars, batchVars>>

RememberFacts ==
    /\ component = "facts" /\ FactNext
    /\ UNCHANGED <<component, memVars, titleVars, ansVars, agentVars,
                    retVars, orchVars, resVars, cacheVars, batchVars>>

NameSession ==
    /\ component = "title" /\ TitleNext
    /\ UNCHANGED <<component, memVars, factVars, ansVars, agentVars,
                    retVars, orchVars, resVars, cacheVars, batchVars>>

AnswerTurn ==
    /\ component = "answer" /\ AnsNext
    /\ UNCHANGED <<component, memVars, factVars, titleVars, agentVars,
                    retVars, orchVars, resVars, cacheVars, batchVars>>

RunAgents ==
    /\ component = "agents" /\ AgentNext
    /\ UNCHANGED <<component, memVars, factVars, titleVars, ansVars,
                    retVars, orchVars, resVars, cacheVars, batchVars>>

GatherEvidence ==
    /\ component = "retrieval" /\ RetNext
    /\ UNCHANGED <<component, memVars, factVars, titleVars, ansVars,
                    agentVars, orchVars, resVars, cacheVars, batchVars>>

PlanQuestion ==
    /\ component = "orchestrator" /\ OrchNext
    /\ UNCHANGED <<component, memVars, factVars, titleVars, ansVars,
                    agentVars, retVars, resVars, cacheVars, batchVars>>

ServeStream ==
    /\ component = "resume" /\ ResNext
    /\ UNCHANGED <<component, memVars, factVars, titleVars, ansVars,
                    agentVars, retVars, orchVars, cacheVars, batchVars>>

CacheAnswers ==
    /\ component = "cache" /\ CacheNext
    /\ UNCHANGED <<component, memVars, factVars, titleVars, ansVars,
                    agentVars, retVars, orchVars, resVars, batchVars>>

BatchJobs ==
    /\ component = "batcher" /\ BatchNext
    /\ UNCHANGED <<component, memVars, factVars, titleVars, ansVars,
                    agentVars, retVars, orchVars, resVars, cacheVars>>

SuiteNext ==
    \/ CompressMemory \/ RememberFacts \/ NameSession
    \/ AnswerTurn \/ RunAgents \/ GatherEvidence
    \/ PlanQuestion \/ ServeStream \/ CacheAnswers
    \/ BatchJobs

SuiteSpec == SuiteInit /\ [][SuiteNext]_suiteVars

-----------------------------------------------------------------------------
\* The state of every component has its type: what each module lists as the
\* columns, fields and locals of its code.
SuiteTypeOK ==
    /\ component \in Components
    /\ MemTypeOK /\ FactTypeOK /\ TitleTypeOK /\ AnsTypeOK /\ AgentTypeOK
    /\ RetTypeOK /\ OrchTypeOK /\ ResTypeOK /\ CacheTypeOK
    /\ BatchTypeOK
=============================================================================
