---------------------------- MODULE ModelFallback ----------------------------
(* A ModelFallbackManager (infra/model_fallback.py) with several calls of   *)
(* chat_completion() at a time: scripts/evaluation/runner.py shares one     *)
(* manager among all questions that it evaluates at once.  Everything runs  *)
(* in one event loop, so a step is what happens between the answers of two  *)
(* requests.  The models of the chain are numbered in its order.            *)
EXTENDS Naturals

CONSTANTS Prompts,      \* the calls of chat_completion()
          ChainLength,  \* len(_chain)
          MaxTries      \* max_retries_per_model

ASSUME FallbackAssumption ==
    ChainLength \in Nat \ {0} /\ MaxTries \in Nat \ {0}

Models == 1 .. ChainLength

VARIABLES
    current,     \* _current_index
    callStep,    \* where each call is
    callModel,   \* its current_model
    triesLeft,   \* what is left of its loop over the models
    retried,     \* its retries with this model
    refused,     \* history: models whose quota was found exhausted
    stale        \* history: a call switched away from a model it had not asked

fallbackVars == <<current, callStep, callModel, triesLeft, retried, refused, stale>>

FallbackInit ==
    /\ current = 1
    /\ callStep = [c \in Prompts |-> "new"]
    /\ callModel = [c \in Prompts |-> 1]
    /\ triesLeft = [c \in Prompts |-> 0]
    /\ retried = [c \in Prompts |-> 0]
    /\ refused = {}
    /\ stale = FALSE

End(c, result) ==
    /\ callStep' = [callStep EXCEPT ![c] = result]
    /\ UNCHANGED <<callModel, triesLeft, retried>>

\* The first request, to the model of the moment; the loop will try as many
\* models as there are from it on.
StartCall(c) ==
    /\ callStep[c] = "new"
    /\ callStep' = [callStep EXCEPT ![c] = "asking"]
    /\ callModel' = [callModel EXCEPT ![c] = current]
    /\ triesLeft' = [triesLeft EXCEPT ![c] = ChainLength - current + 1]
    /\ UNCHANGED <<current, retried, refused, stale>>

\* The model answers, or raises something that is neither quota nor limit, or
\* limits the last of the tries.
ModelAnswers(c) ==
    /\ callStep[c] = "asking"
    /\ End(c, "answered")
    /\ UNCHANGED <<current, refused, stale>>

ModelRaises(c) ==
    /\ callStep[c] = "asking"
    /\ End(c, "raised")
    /\ UNCHANGED <<current, refused, stale>>

\* 429 before the last try: it sleeps and asks the same model again.
ModelLimits(c) ==
    /\ callStep[c] = "asking" /\ retried[c] < MaxTries - 1
    /\ callStep' = [callStep EXCEPT ![c] = "sleeping"]
    /\ retried' = [retried EXCEPT ![c] = @ + 1]
    /\ UNCHANGED <<current, callModel, triesLeft, refused, stale>>

AskAgain(c) ==
    /\ callStep[c] = "sleeping"
    /\ callStep' = [callStep EXCEPT ![c] = "asking"]
    /\ UNCHANGED <<current, callModel, triesLeft, retried, refused, stale>>

\* Mutant: two models are passed over at once.
MutSwitchToNext == current' = IF current + 1 < ChainLength THEN current + 2 ELSE current

\* _switch_to_next(): from the model of the manager, which another call may
\* have moved on meanwhile.
SwitchToNext == current' = IF current < ChainLength THEN current + 1 ELSE current

\* The quota of the model is exhausted: switch, and go on with the new one, or
\* leave the loop and raise RuntimeError.
QuotaExhausted(c) ==
    /\ callStep[c] = "asking"
    /\ refused' = refused \cup {callModel[c]}
    /\ stale' = (stale \/ callModel[c] # current)
    /\ SwitchToNext
    /\ triesLeft' = [triesLeft EXCEPT ![c] = @ - 1]
    /\ retried' = [retried EXCEPT ![c] = 0]
    /\ IF triesLeft[c] > 1
       THEN /\ callModel' = [callModel EXCEPT ![c] = current']
            /\ UNCHANGED callStep
       ELSE /\ callStep' = [callStep EXCEPT ![c] = "exhausted"]
            /\ UNCHANGED callModel

FallbackNext ==
    \E c \in Prompts :
        \/ StartCall(c) \/ ModelAnswers(c) \/ ModelRaises(c)
        \/ ModelLimits(c) \/ AskAgain(c) \/ QuotaExhausted(c)

FallbackSpec == FallbackInit /\ [][FallbackNext]_fallbackVars

-----------------------------------------------------------------------------
FallbackTypeOK ==
    /\ current \in Models
    /\ callStep \in [Prompts -> {"new", "asking", "sleeping", "answered",
                                 "raised", "exhausted"}]
    /\ callModel \in [Prompts -> Models]
    /\ triesLeft \in [Prompts -> 0 .. ChainLength]
    /\ retried \in [Prompts -> 0 .. MaxTries - 1]
    /\ refused \subseteq Models
    /\ stale \in BOOLEAN

\* A model is passed over, and a call gives up before every model has refused,
\* only after a race: a call that found its model exhausted switched away from
\* the next one, because another call had switched before.  (The docstring of
\* chat_completion(), model_fallback.py:75, has RuntimeError only "when all models
\* are exhausted".)
SkippedOnlyByRace ==
    ~stale =>
        /\ \A m \in Models : m < current => m \in refused
        /\ \A c \in Prompts : callStep[c] = "exhausted" => refused = Models
=============================================================================
