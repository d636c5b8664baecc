-------------------------- MODULE MCManagedLifespan --------------------------
(* A small application: three resources, one of them without a healthcheck, *)
(* one whose factory and one whose close is sync, and a runtime of up to    *)
(* two services.                                                            *)
EXTENDS ManagedLifespan

CONSTANTS keycloak, redis   \* the runtime's services

MCChecked     == {1, 3}
MCRequired    == {1, 2}
MCSync        == {2}
MCSyncClose   == {2, 3}
MCServices    == {keycloak, redis}
\* Application code registers a check under a resource's and a service's name.
MCUserNames   == {3, redis}

Conf(explicit, check, report, auth, custom, services) ==
  [explicit |-> explicit, startup_healthcheck |-> check, report |-> report,
   require_auth |-> auth, custom_auth |-> custom, services |-> services]

\* no services at all; a runtime to assemble; an explicit runtime
MCConfigs ==
  {Conf(FALSE, TRUE, FALSE, FALSE, FALSE, {}),
   Conf(FALSE, FALSE, FALSE, TRUE, FALSE, {keycloak, redis}),
   Conf(FALSE, TRUE, TRUE, FALSE, FALSE, {redis}),
   Conf(TRUE, TRUE, FALSE, TRUE, FALSE, {keycloak}),
   Conf(TRUE, TRUE, TRUE, TRUE, TRUE, {redis})}

\* every way to pass an auth provider or to choose the failure mode
MCAllConfigs == [explicit : BOOLEAN, startup_healthcheck : BOOLEAN, report : BOOLEAN,
                 require_auth : BOOLEAN, custom_auth : BOOLEAN,
                 services : {{}, {keycloak}}]
=============================================================================
