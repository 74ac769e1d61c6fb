------------------------------- MODULE MCInfra -------------------------------
(* Instances of four parts of the infrastructure that share no state: a run *)
(* takes one of them, and the others rest.                                  *)
EXTENDS CircuitBreaker, IdGenerator, RateLimiter, ModelFallback

VARIABLE part

infraVars == <<part, vars, idVars, limiterVars, fallbackVars>>

\* p1 and p2 run with the default of get_id_generator(), p3 has a number of its
\* own.
MCWorkerOf == [p \in Processes |-> IF p = "p3" THEN 1 ELSE 0]

InfraInit ==
    /\ part \in {"breaker", "ids", "limiter", "fallback"}
    /\ Init /\ IdInit /\ FallbackInit
    /\ LimiterInit /\ (part # "limiter" => bound)

\* The other parts rest.
OnlyBreaker == part = "breaker" /\ UNCHANGED <<part, idVars, limiterVars, fallbackVars>>

UseBreaker == OnlyBreaker /\ Next

DrawIds ==
    /\ part = "ids" /\ IdNext
    /\ UNCHANGED <<part, vars, limiterVars, fallbackVars>>

LimitRequests ==
    /\ part = "limiter" /\ LimiterNext
    /\ UNCHANGED <<part, vars, idVars, fallbackVars>>

FallBack ==
    /\ part = "fallback" /\ FallbackNext
    /\ UNCHANGED <<part, vars, idVars, limiterVars>>

InfraNext == UseBreaker \/ DrawIds \/ LimitRequests \/ FallBack

InfraSpec == InfraInit /\ [][InfraNext]_infraVars

\* The fairness of the breaker; the other parts need none.
FairInfraSpec ==
    /\ InfraSpec
    /\ \A c \in Calls :
          /\ WF_infraVars(OnlyBreaker /\ \E style \in Styles : Enter(c, style))
          /\ WF_infraVars(OnlyBreaker /\ Finish(c))
    /\ WF_infraVars(OnlyBreaker /\ Tick)

-----------------------------------------------------------------------------
\* The fields of the breaker, of the generators, of the window and of the
\* manager have their types.
InfraTypeOK ==
    /\ part \in {"breaker", "ids", "limiter", "fallback"}
    /\ TypeOK /\ IdTypeOK /\ LimiterTypeOK /\ FallbackTypeOK
=============================================================================
