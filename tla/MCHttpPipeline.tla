---------------------------- MODULE MCHttpPipeline ----------------------------
(* Instances of HttpPipeline for TLC: an application with a domain error and *)
(* a subclass of it.                                                        *)
EXTENDS HttpPipeline

MCMro ==
  [HTTPException |-> <<"HTTPException", "Exception", "BaseException">>,
   RequestValidationError |-> <<"RequestValidationError", "Exception", "BaseException">>,
   RuntimeError |-> <<"RuntimeError", "Exception", "BaseException">>,
   CancelledError |-> <<"CancelledError", "BaseException">>,
   DomainError |-> <<"DomainError", "Exception", "BaseException">>,
   ChildError |-> <<"ChildError", "DomainError", "Exception", "BaseException">>]
MCClasses == DOMAIN MCMro

\* A mapping of both domain errors, one of everything, and none.
Both == [DomainError |-> 409, ChildError |-> 410]
All == [c \in {"Exception", "ChildError"} |-> IF c = "Exception" THEN 500 ELSE 410]
No == [c \in {} |-> 500]

MCConfigs ==
  {c \in [access_log : BOOLEAN, log_health : BOOLEAN, health : BOOLEAN, fallback : BOOLEAN,
          renderer : Renderers, mappers : {{}, {"DomainError"}, {"HTTPException", "Exception"}},
          own : {{}, {"header", "body"}},
          table : {Both, All, No}, policy_renderer : {"none", "problem"},
          validation_status : {400, 422}] :
     /\ ~(c.table = All /\ c.fallback)
     /\ c.log_health => c.health /\ c.access_log
     /\ c.policy_renderer = "none" => c.validation_status = 422}
=============================================================================
