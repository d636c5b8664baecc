------------------------------- MODULE Access -------------------------------
(***************************************************************************)
(* Who gets into an endpoint: the auth provider and the service clients of *)
(* an application, from create_app's checks over the lifespan to the       *)
(* dependencies of requests, and the token endpoint.                       *)
(*                                                                         *)
(* The event loop runs one thing at a time.  FastAPI runs a dependency     *)
(* that is a plain function in a worker thread; there are Workers of them. *)
(* get_current_user is a coroutine and calls its provider on the loop,     *)
(* which belongs to the request (the variable loop) until the call is      *)
(* over; issue_token calls it in a worker.                                 *)
(*                                                                         *)
(* The application is called whatever its lifespan does: a server may run  *)
(* none, and does not run that of a mounted application.                   *)
(*                                                                         *)
(* Mut_X is X with a plausible bug; nothing uses it.                       *)
(***************************************************************************)
EXTENDS Naturals, Sequences, FiniteSets

CONSTANTS
  Requests, NoOne,
  Workers,      \* anyio's limit of worker threads
  Configs,      \* the arguments of create_app considered
  Plans,        \* for each request, what it may be
  Users         \* the user a token is of, for each token

Services == {"keycloak", "nats"}
\* What runtime.get returns for a service.
Absent == [wrapped |-> FALSE, type |-> "none"]
Clients == {Absent} \cup [wrapped : BOOLEAN, type : {"auth", "builder", "other"}]

\* custom: create_app was given a provider.  given: it was given a runtime;
\* else one is planned, of the enabled services.  selected: Keycloak is an
\* enabled and required one; diagnosed: its settings are there.
IsConfig(c) ==
  /\ DOMAIN c = {"auth_router", "custom", "given", "clients", "selected", "diagnosed"}
  /\ {c.auth_router, c.custom, c.given, c.selected, c.diagnosed} \subseteq BOOLEAN
  /\ c.clients \in [Services -> Clients]
\* A user request asks for a user with what is needed, one requirement after the
\* other; a token request logs in; a client request depends on a service.
IsPlan(p) ==
  /\ DOMAIN p = {"kind", "token", "needs", "service"}
  /\ p.kind \in {"user", "token", "client"} /\ p.service \in Services
  /\ p.token \in {"none"} \cup DOMAIN Users
  /\ Len(p.needs) \in Nat /\ (p.kind = "user" => p.needs # <<>>)
  /\ \A i \in 1 .. Len(p.needs) : p.needs[i].by \in {"roles", "scopes", "permissions"}
ASSUME AccessAssumption ==
  /\ NoOne \notin Requests /\ Workers \in Nat
  /\ \A c \in Configs : IsConfig(c)
  /\ \A r \in Requests : \A p \in Plans[r] : IsPlan(p)
  /\ "none" \notin DOMAIN Users

VARIABLES
  config, plan,      \* the arguments and the requests
  phase,             \* of the application
  service_runtime,   \* app.state.service_runtime: {}, or the one runtime's clients
  auth_provider,     \* app.state.auth_provider: "none", "custom" or "runtime"
  loop,              \* the request whose provider call holds the loop
  pc,
  users,             \* which current users a request has, by their scopes
  answer

vars == <<config, plan, phase, service_runtime, auth_provider, loop, pc, users, answer>>
app == <<config, plan, phase, service_runtime, auth_provider>>

InWorker == {r \in Requests : pc[r] \in {"reading", "looking", "storing", "fetching"}}
\* one too many
Mut_HasWorker == Cardinality(InWorker) <= Workers
HasWorker == Cardinality(InWorker) < Workers
TokenRequests == {r \in Requests : plan[r].kind = "token"}
LoopFree == loop = NoOne

Init ==
  /\ config \in Configs
  /\ plan \in [Requests -> UNION {Plans[r] : r \in Requests}]
  /\ \A r \in Requests : plan[r] \in Plans[r]
  /\ phase = "new"
  /\ service_runtime = {} /\ auth_provider = "none"
  /\ loop = NoOne
  /\ pc = [r \in Requests |-> "idle"]
  /\ users = [r \in Requests |-> {}]
  /\ answer = [r \in Requests |-> [status |-> 0, why |-> "none"]]

-----------------------------------------------------------------------------
(* Services.                                                               *)

\* A typed dependency of the service finds the client of its type, or says 503
\* or 500.  NATS's builder may come without a wrapper.
Expected == [s \in Services |-> IF s = "nats" THEN "builder" ELSE "auth"]
Found == [status |-> 200, why |-> "found"]
Lookup(service, runtime) ==
  IF runtime = {} THEN [status |-> 503, why |-> "runtime"]
  ELSE LET client == (CHOOSE c \in runtime : TRUE)[service]
       IN  CASE client = Absent -> [status |-> 503, why |-> "service"]
             [] client # Absent /\ ~client.wrapped /\ service # "nats" ->
                  [status |-> 500, why |-> "wrapper"]
             [] OTHER -> IF client.type = Expected[service] THEN Found
                         ELSE [status |-> 500, why |-> "type"]

\* configure_service_runtime takes a wrapped KeycloakAuthService for provider.
ProviderOf(clients) == clients["keycloak"].wrapped /\ clients["keycloak"].type = "auth"

-----------------------------------------------------------------------------
(* create_app and the lifespan.                                            *)

\* The auth router needs a provider: given, or the given runtime's, or that of
\* a service selected, required and configured.
Refuses ==
  /\ config.auth_router /\ ~config.custom
  /\ IF config.given THEN ~ProviderOf(config.clients) ELSE ~(config.selected /\ config.diagnosed)

CreateApp ==
  /\ phase = "new"
  /\ IF Refuses THEN phase' = "refused" /\ UNCHANGED <<service_runtime, auth_provider>>
     ELSE /\ phase' = "created"
          /\ service_runtime' = IF config.given THEN {config.clients} ELSE {}
          /\ auth_provider' = IF config.custom THEN "custom"
                              ELSE IF config.given /\ ProviderOf(config.clients) THEN "runtime"
                              ELSE "none"
  /\ UNCHANGED <<config, plan, loop, pc, users, answer>>

\* The lifespan begins: a given runtime is connected already, a planned one is
\* to be assembled.
Start ==
  /\ phase = "created" /\ LoopFree
  /\ phase' = IF config.given THEN "connected" ELSE "assembling"
  /\ UNCHANGED <<config, plan, service_runtime, auth_provider, loop, pc, users, answer>>

\* The runtime is there, with clients as they come, and configure_service_runtime
\* takes its provider; it stores the runtime itself afterwards, and threads run
\* in between.  Or assembling or configuring it fails.
Assemble ==
  /\ phase = "assembling" /\ LoopFree
  /\ \/ /\ \E clients \in {c.clients : c \in Configs} :
             /\ config' = [config EXCEPT !.clients = clients]
             /\ auth_provider' = IF ProviderOf(clients) THEN "runtime" ELSE auth_provider
        /\ phase' = "configuring"
     \/ /\ phase' = "failed"
        /\ UNCHANGED <<config, auth_provider>>
  /\ UNCHANGED <<plan, service_runtime, loop, pc, users, answer>>

StoreRuntime ==
  /\ phase = "configuring"
  /\ service_runtime' = {config.clients} /\ phase' = "connected"
  /\ UNCHANGED <<config, plan, auth_provider, loop, pc, users, answer>>

\* nobody looks
Mut_Connected == "serving"
Connected == IF config.auth_router /\ auth_provider = "none" THEN "failed" ELSE "serving"
\* managed_lifespan looks for a provider before it starts the resources.
RequireAuth ==
  /\ phase = "connected" /\ LoopFree
  /\ phase' = Connected
  /\ UNCHANGED <<config, plan, service_runtime, auth_provider, loop, pc, users, answer>>

\* At shutdown nothing is taken out of app.state.
Stop ==
  /\ phase = "serving" /\ LoopFree /\ phase' = "stopped"
  /\ UNCHANGED <<config, plan, service_runtime, auth_provider, loop, pc, users, answer>>

-----------------------------------------------------------------------------
(* The provider of a request.                                              *)

Goto(r, place) == pc' = [pc EXCEPT ![r] = place]
Answer(r, status, why) ==
  /\ Goto(r, "answered")
  /\ answer' = [answer EXCEPT ![r] = [status |-> status, why |-> why]]

Arrive(r) ==
  /\ pc[r] = "idle" /\ phase \notin {"new", "refused"} /\ LoopFree
  /\ Goto(r, "queued")
  /\ UNCHANGED <<app, loop, users, answer>>

\* A worker takes up the dependency, or the provider's fetch.
Dispatch(r) ==
  /\ pc[r] \in {"queued", "posting"} /\ LoopFree
  /\ HasWorker
  /\ Goto(r, CASE pc[r] = "posting" -> "fetching"
               [] pc[r] = "queued" /\ plan[r].kind = "client" -> "looking"
               [] pc[r] = "queued" /\ plan[r].kind # "client" -> "reading")
  /\ UNCHANGED <<app, loop, users, answer>>

\* get_auth_provider, in its worker: the one there is, or that of the runtime,
\* which it then stores.
ReadProvider(r) ==
  /\ pc[r] = "reading"
  /\ Goto(r, IF auth_provider # "none" THEN "resolved" ELSE "looking")
  /\ UNCHANGED <<app, loop, users, answer>>

\* A service dependency ends here; its endpoint has the client.
LookupClient(r) ==
  /\ pc[r] = "looking"
  /\ LET found == Lookup(IF plan[r].kind = "client" THEN plan[r].service ELSE "keycloak",
                         service_runtime)
     IN  IF found # Found THEN Answer(r, found.status, found.why)
         ELSE Goto(r, IF plan[r].kind = "client" THEN "entered" ELSE "storing") /\ UNCHANGED answer
  /\ UNCHANGED <<app, loop, users>>

StoreProvider(r) ==
  /\ pc[r] = "storing"
  /\ auth_provider' = "runtime" /\ Goto(r, "resolved")
  /\ UNCHANGED <<config, plan, phase, service_runtime, loop, users, answer>>

-----------------------------------------------------------------------------
(* Authentication and authorization.                                       *)

\* FastAPI solves get_current_user once for the requirements without scopes, and
\* once for each set of scopes.
KeyOf(need) == IF need.by = "scopes" THEN need.names ELSE {}

\* _get_roles and _get_scopes; the scope claim, if it is a text, is a set.
Roles(user) == user.realm_roles \cup UNION user.client_roles
Scopes(user) == UNION user.scope
\* whatever is asked for
Mut_Granted(user, by) == Roles(user) \cup Scopes(user)
Granted(user, by) ==
  CASE by = "roles" -> Roles(user)
    [] by = "scopes" -> Scopes(user)
    [] by = "permissions" -> Roles(user) \cup Scopes(user)

\* one user for all scopes
Mut_Unsolved(r) == {i \in 1 .. Len(plan[r].needs) : users[r] = {}}
\* the requirements whose current user is not solved yet
Unsolved(r) == {i \in 1 .. Len(plan[r].needs) : KeyOf(plan[r].needs[i]) \notin users[r]}
\* _raise_for_missing
Missing(r, i) ==
  LET need == plan[r].needs[i]
  IN  ~(need.names \subseteq Granted(Users[plan[r].token], need.by))

\* Requirements are solved in order: the next one's user first, if it has none
\* yet, unless an earlier requirement is not met.
NextUnsolved(r) == CHOOSE i \in Unsolved(r) : \A j \in Unsolved(r) : i <= j
FailsBefore(r, i) == \E j \in 1 .. i - 1 : Missing(r, j)

\* get_current_user: no token, or the provider is asked.
Authenticate(r) ==
  /\ pc[r] = "resolved" /\ plan[r].kind = "user" /\ LoopFree
  /\ IF plan[r].token = "none" THEN Answer(r, 401, "not authenticated") /\ UNCHANGED loop
     ELSE Goto(r, "verifying") /\ loop' = r /\ UNCHANGED answer
  /\ UNCHANGED <<app, users>>

\* extract_user_info returns the token's user, refuses the token, or raises
\* something else; the loop is free again.
VerifyEnds(r) ==
  /\ pc[r] = "verifying" /\ loop' = NoOne
  /\ \/ /\ users' = [users EXCEPT ![r] = @ \cup {KeyOf(plan[r].needs[NextUnsolved(r)])}]
        /\ Goto(r, "authorizing") /\ UNCHANGED answer
     \/ /\ Answer(r, 401, "invalid token") /\ UNCHANGED users
     \/ /\ Answer(r, 500, "unexpected") /\ UNCHANGED users
  /\ UNCHANGED app

\* The requirements up to the next one that lacks its user.
Authorize(r) ==
  /\ pc[r] = "authorizing" /\ LoopFree
  /\ LET all == Len(plan[r].needs) + 1
         i == IF Unsolved(r) = {} THEN all ELSE NextUnsolved(r)
     IN  IF FailsBefore(r, i) THEN Answer(r, 403, "forbidden")
         ELSE Goto(r, IF i = all THEN "entered" ELSE "resolved") /\ UNCHANGED answer
  /\ UNCHANGED <<app, loop, users>>

Return(r) ==
  /\ pc[r] = "entered" /\ LoopFree
  /\ Answer(r, 200, "done")
  /\ UNCHANGED <<app, loop, users>>

-----------------------------------------------------------------------------
(* The token endpoint.                                                     *)

\* without run_in_threadpool
Mut_LoopAfter(r) == r
\* the loop stays free, for the fetch waits for a worker
LoopAfter(r) == loop
IssueToken(r) ==
  /\ pc[r] = "resolved" /\ plan[r].kind = "token" /\ LoopFree
  /\ Goto(r, "posting") /\ loop' = LoopAfter(r)
  /\ UNCHANGED <<app, users, answer>>

\* An exception is the set of the table's classes it is an instance of.
Table == <<[type |-> "authentication", status |-> 401], [type |-> "configuration", status |-> 500],
           [type |-> "temporary", status |-> 503], [type |-> "token", status |-> 502]>>
Failures == {{}, {"token"}} \cup {{t, "token"} : t \in {"authentication", "configuration", "temporary"}}
TokenStatus(e) ==
  LET rows == {i \in 1 .. Len(Table) : Table[i].type \in e}
  IN  IF rows = {} THEN 500 ELSE Table[CHOOSE i \in rows : \A j \in rows : i <= j].status

FetchEnds(r) ==
  /\ pc[r] = "fetching"
  /\ \/ Answer(r, 200, "done")
     \/ \E e \in Failures : Answer(r, TokenStatus(e), "fetch")
  /\ UNCHANGED <<app, loop, users>>

-----------------------------------------------------------------------------
Step(r) ==
  \/ Dispatch(r)
  \/ ReadProvider(r)
  \/ LookupClient(r)
  \/ StoreProvider(r)
  \/ Authenticate(r)
  \/ VerifyEnds(r)
  \/ Authorize(r)
  \/ Return(r)
  \/ IssueToken(r)

\* Nothing is left to do.
Finished ==
  /\ phase \in {"refused", "failed", "stopped"}
  /\ phase = "refused" \/ \A r \in Requests : pc[r] = "answered"
  /\ UNCHANGED vars

Next ==
  \/ CreateApp
  \/ Start
  \/ Assemble
  \/ StoreRuntime
  \/ RequireAuth
  \/ Stop
  \/ \E r \in Requests : Arrive(r) \/ Step(r) \/ FetchEnds(r)
  \/ Finished

\* The loop, the pool and a verification come to their ends.  Nothing says that
\* the provider's fetch does.
Fairness == \A r \in Requests : WF_vars(Step(r))
Spec == Init /\ [][Next]_vars /\ Fairness

-----------------------------------------------------------------------------
(* What is promised.                                                       *)

\* Every variable has its type, and the loop is held by the one request whose
\* provider is being asked.
TypeOK ==
  /\ IsConfig(config) /\ DOMAIN plan = Requests /\ \A r \in Requests : plan[r] \in Plans[r]
  /\ phase \in {"new", "refused", "created", "assembling", "configuring", "connected",
                "serving", "failed", "stopped"}
  /\ service_runtime \in {{}, {config.clients}}
  /\ auth_provider \in {"none", "custom", "runtime"}
  /\ pc \in [Requests -> {"idle", "queued", "reading", "looking", "storing", "resolved",
                          "verifying", "authorizing", "entered", "posting", "fetching",
                          "answered"}]
  /\ \A r \in Requests : (pc[r] = "verifying") <=> (loop = r)
  /\ loop \in Requests \cup {NoOne}
  /\ Cardinality(InWorker) <= Workers

\* An endpoint is entered only with a current user for every requirement: with a
\* token the provider has accepted, for each set of scopes asked for and, where
\* roles or permissions are, without scopes; and with every role, scope and
\* permission granted.  Or with a client of the service's type (SRS-AUTH-012 to
\* -015, SRS-DEP-005).
OnlyGrantedEnter ==
  \A r \in Requests : pc[r] = "entered" =>
    CASE plan[r].kind = "client" -> Lookup(plan[r].service, service_runtime) = Found
      [] plan[r].kind = "user" ->
           LET user == Users[plan[r].token]
               roles == user.realm_roles \cup UNION user.client_roles
           IN  /\ plan[r].token # "none"
               /\ \A i \in 1 .. Len(plan[r].needs) :
                    LET need == plan[r].needs[i]
                    IN  /\ (IF need.by = "scopes" THEN need.names ELSE {}) \in users[r]
                        /\ need.by = "roles" => need.names \subseteq roles
                        /\ need.by = "scopes" => need.names \subseteq UNION user.scope
                        /\ \A n \in need.names : n \in roles \/ n \in UNION user.scope
      [] OTHER -> FALSE

\* With the auth router, an application that serves never tells a client of the
\* router that there is no provider: create_app, the lifespan and the
\* dependency agree on what one is, also for a request that found none while
\* the runtime was being connected (SRS-AUTH-003).
AuthRouterServes ==
  [][\A r \in Requests :
       config.auth_router /\ phase = "serving" /\ plan[r].kind # "client"
       /\ answer'[r] # answer[r] =>
         answer'[r].why \notin {"runtime", "service", "wrapper", "type"}]_vars

\* As long as fewer clients log in than there are workers, everyone else is
\* answered, though the provider's fetch may never return (SRS-AUTH-007).
OthersAnswered ==
  \A r \in Requests :
    (pc[r] = "queued" /\ plan[r].kind # "token" /\ Cardinality(TokenRequests) < Workers)
    ~> (pc[r] = "answered")
=============================================================================
