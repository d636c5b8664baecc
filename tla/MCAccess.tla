------------------------------ MODULE MCAccess ------------------------------
(* Instances of Access: a client that logs in, one that asks for a user with *)
(* two requirements, and one that wants a service or logs in too, on two     *)
(* workers.                                                                  *)
EXTENDS Access

MCUsers ==
  [t \in {"reader", "admin"} |->
     CASE t = "reader" -> [realm_roles |-> {}, client_roles |-> {}, scope |-> {{"read"}}]
       [] t = "admin" -> [realm_roles |-> {"read"}, client_roles |-> {{"admin"}}, scope |-> {}]]

Need(by, names) == [by |-> by, names |-> names]
User(token, needs) == [kind |-> "user", token |-> token, needs |-> needs, service |-> "keycloak"]
Login == [kind |-> "token", token |-> "none", needs |-> <<>>, service |-> "keycloak"]
CONSTANTS r1, r2, r3
MCRequests == {r1, r2, r3}
MCPlans ==
  [r \in MCRequests |->
     CASE r = r1 -> {Login}
       [] r = r2 ->
            {User("none", <<Need("roles", {})>>),
             User("reader", <<Need("scopes", {"read"}), Need("permissions", {"read"})>>)}
            \cup {User(t, <<Need("roles", {"read"}), Need("scopes", {"read"})>>) : t \in DOMAIN MCUsers}
       [] r = r3 ->
            {[kind |-> "client", token |-> "none", needs |-> <<>>, service |-> "nats"], Login}]

Client(wrapped, type) == [wrapped |-> wrapped, type |-> type]
None == [s \in Services |-> Absent]
Runtime(keycloak, nats) == [s \in Services |-> IF s = "nats" THEN nats ELSE keycloak]
MCClients ==
  {None, Runtime(Client(TRUE, "auth"), Client(FALSE, "builder")),
   Runtime(Client(TRUE, "other"), Client(TRUE, "builder")),
   Runtime(Client(FALSE, "auth"), Client(TRUE, "other"))}
MCConfigs ==
  {[auth_router |-> a, custom |-> c = None, given |-> TRUE, clients |-> c,
    selected |-> TRUE, diagnosed |-> TRUE] : a \in BOOLEAN, c \in MCClients}
  \cup {[auth_router |-> a, custom |-> c, given |-> FALSE, clients |-> None,
         selected |-> (a /\ ~c) => s, diagnosed |-> (a /\ ~c) => s /\ d] :
           a \in BOOLEAN, c \in BOOLEAN, s \in BOOLEAN, d \in BOOLEAN}
=============================================================================
