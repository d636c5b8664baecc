------------------------------ MODULE Assembly ------------------------------
(***************************************************************************)
(* create_app puts an application together from what it is given: routers, *)
(* domain modules with their transport policies, resources, checks and     *)
(* error mappers.  It refuses declarations that collide, registers the     *)
(* error mappers, and includes one router after the other, noting for each *)
(* operation the policy its errors follow.  The application then answers   *)
(* requests and describes itself by OpenAPI, both from those notes.        *)
(*                                                                         *)
(* An operation is a method and a path; what it documents is a function    *)
(* from statuses to texts.  A transport policy is a record with the fields *)
(* of the TransportPolicy class; a field not set has its value in Unset.   *)
(* An optional policy is a set of at most one.                             *)
(*                                                                         *)
(* Mut_X is X with a plausible bug; nothing uses it.                       *)
(***************************************************************************)
EXTENDS Naturals, Sequences, FiniteSets, SequencesExt

CONSTANTS
  Applications,  \* the arguments of create_app considered
  Methods,       \* HTTP methods of requests
  Matches,       \* for each URL, the paths (templates) that match it
  Classes        \* exception classes endpoints raise and mappers are for

Unset ==
  [dependencies |-> <<>>, validation_status |-> 0, validation_response_model |-> "none",
   common_error_response_model |-> "none", fallback_response_model |-> "none",
   common_error_statuses |-> <<>>, include_synthetic_422 |-> "unset",
   responses |-> <<>>, error_renderer |-> "none"]
ContractFields == DOMAIN Unset \ {"dependencies"}

\* _DEFAULT_COMMON_ERROR_STATUSES
DefaultStatuses == <<400, 401, 403, 404, 409, 422, 500, 502, 503>>

\* TransportPolicy.__post_init__ accepts error statuses only; responses are
\* documented under statuses of HTTP.
IsList(s) == s \in Seq(ToSet(s))
Statuses == 100 .. 599
IsPolicy(p) ==
  /\ DOMAIN p = DOMAIN Unset
  /\ IsList(p.dependencies) /\ DOMAIN p.responses \subseteq Statuses
  /\ p.validation_status \in {0} \cup 400 .. 599
  /\ Range(p.common_error_statuses) \subseteq 400 .. 599
  /\ p.include_synthetic_422 \in {"unset", "yes", "no"}
IsRoute(r) ==
  /\ DOMAIN r = {"methods", "path", "id", "params", "responses", "dependencies", "in_schema"}
  /\ r.methods \subseteq Methods /\ {r.params, r.in_schema} \subseteq BOOLEAN
  /\ IsList(r.dependencies) /\ DOMAIN r.responses \subseteq Statuses
AreRouters(routers) ==
  /\ IsList(routers)
  /\ \A i \in DOMAIN routers :
       IsList(routers[i]) /\ \A j \in DOMAIN routers[i] : IsRoute(routers[i][j])
\* The names are the model's own for what comes with no module.
IsModule(m) ==
  /\ m.name \notin {"health", "direct", "nobody"}
  /\ AreRouters(m.routers) /\ IsList(m.dependencies)
  /\ Cardinality(m.policy) <= 1 /\ \A p \in m.policy : IsPolicy(p)
\* The exception classes mapped, by the application and by its modules.
MappersOf(a) == a.mappers \o FlattenSeq([i \in DOMAIN a.modules |-> a.modules[i].mappers])
ASSUME ClassesAssumption ==
  /\ Classes \cap {"none", "invalid", "method", "path"} = {}
  /\ \A a \in Applications : ToSet(MappersOf(a)) \subseteq Classes
ASSUME MethodsAssumption == "GET" \in Methods
ASSUME ApplicationsAssumption ==
  \A a \in Applications :
    /\ IsList(a.modules) /\ \A i \in DOMAIN a.modules : IsModule(a.modules[i])
    /\ AreRouters(a.routers)
    /\ Cardinality(a.policy) <= 1 /\ \A p \in a.policy : IsPolicy(p)

VARIABLES
  app,       \* the arguments, fixed
  pc,        \* the part of create_app to run next, or "serving", "refused"
  cursor,    \* the router to include next
  routes,    \* what app.router holds, in order
  policies,  \* app.state.transport_policies, by operation
  mappers,   \* app.state.error_mapper_types
  stack,     \* {}, or the one set of classes the middleware stack was built with
  schema,    \* the cached OpenAPI document: responses by operation; empty at first
  answer     \* the last error response

vars == <<app, pc, cursor, routes, policies, mappers, stack, schema, answer>>

-----------------------------------------------------------------------------
(* Transport policies.                                                     *)

Constantly(S, v) == [x \in S |-> v]
\* f, and the values of g where f has none: what setdefault and update leave.
WithDefaults(f, g) ==
  [x \in DOMAIN f \cup DOMAIN g |-> IF x \in DOMAIN f THEN f[x] ELSE g[x]]

\* without the default
Mut_EffectiveStatus(p) == p.validation_status
EffectiveStatus(p) == IF p.validation_status # 0 THEN p.validation_status ELSE 422
EffectiveInclude(p) ==
  IF p.include_synthetic_422 # "unset" THEN p.include_synthetic_422 = "yes"
  ELSE EffectiveStatus(p) = 422
EffectiveCommon(p) ==
  IF p.common_error_statuses # <<>> THEN p.common_error_statuses ELSE DefaultStatuses

ValidationText(p) ==
  IF p.validation_response_model # "none" THEN p.validation_response_model
  ELSE "validation error"
ResponseDefinitions(p) ==
  WithDefaults(p.responses,
    WithDefaults(Constantly({EffectiveStatus(p)}, ValidationText(p)),
      WithDefaults(Constantly(IF p.common_error_response_model = "none" THEN {}
                              ELSE Range(EffectiveCommon(p)), p.common_error_response_model),
                   Constantly(IF p.fallback_response_model = "none" THEN {} ELSE {500},
                              p.fallback_response_model))))

\* The responses of both, whatever else one of them sets, and all dependencies.
Mut_ResolveAll(base, override) ==
  [field \in DOMAIN Unset |->
     IF override[field] # Unset[field] THEN override[field] ELSE base[field]]
Resolve(base, override) ==
  [field \in DOMAIN Unset |->
     CASE field = "responses" -> WithDefaults(override[field], base[field])
       [] field = "dependencies" -> base[field] \o override[field]
       [] OTHER -> IF override[field] # Unset[field] THEN override[field] ELSE base[field]]

\* validate_module_conflicts: two values of one field.
Conflict(ps) ==
  \E field \in ContractFields :
    \E p, q \in ps : /\ p[field] # q[field]
                     /\ Unset[field] \notin {p[field], q[field]}

-----------------------------------------------------------------------------
(* create_app.                                                             *)

HealthRouter ==
  [i \in 1 .. 2 |-> [methods |-> {"GET"}, path |-> <<"/health/readiness", "/health/liveness">>[i],
                     id |-> <<"readiness", "liveness">>[i], params |-> FALSE,
                     responses |-> <<>>, dependencies |-> <<>>, in_schema |-> TRUE]]

\* The routers in the order they are included, each with its owner.
Owned(owner, routers) == [i \in DOMAIN routers |-> [owner |-> owner, routes |-> routers[i]]]
Routers ==
  Owned("health", <<HealthRouter>>) \o Owned("direct", app.routers)
  \o FlattenSeq([i \in DOMAIN app.modules |-> Owned(app.modules[i].name, app.modules[i].routers)])

Of(owner) == CHOOSE m \in ToSet(app.modules) : m.name = owner
Only(policy) == IF policy = {} THEN Unset ELSE CHOOSE p \in policy : TRUE
BasePolicy == Resolve(Unset, Only(app.policy))

Gathered(own, ofModule(_)) ==
  own \o FlattenSeq([i \in DOMAIN app.modules |-> ofModule(app.modules[i])])
Resources == LET of(m) == m.resources IN Gathered(app.resources, of)
Checks == LET of(m) == m.checks IN Gathered(<<>>, of)
Mappers == MappersOf(app)

Init ==
  /\ app \in Applications
  /\ pc = "modules" /\ cursor = 1
  /\ routes = <<>> /\ policies = <<>> /\ mappers = {} /\ stack = {} /\ schema = <<>>
  /\ answer = [to |-> "nobody", op |-> <<>>, kind |-> "none", status |-> 0, renderer |-> "none"]

\* One part of the validation: it raises, or the next part follows.
Validate(part, next, refuses) ==
  /\ pc = part
  /\ pc' = IF refuses THEN "refused" ELSE next
  /\ UNCHANGED <<app, cursor, routes, policies, mappers, stack, schema, answer>>

FlattenModules ==
  Validate("modules", "routes",
    \/ ~IsInjective([i \in DOMAIN app.modules |-> app.modules[i].name])
    \/ Conflict(UNION {app.modules[i].policy : i \in DOMAIN app.modules}))

\* Two routes may not share an operation nor an id; a route's own operations
\* have its one id, which nothing looks at.
SameOperation(r, s) == r.id = s.id \/ (r.path = s.path /\ r.methods \cap s.methods # {})
RoutesCollide ==
  \E i, j \in DOMAIN Routers : \E k \in DOMAIN Routers[i].routes, l \in DOMAIN Routers[j].routes :
    (i # j \/ k # l) /\ SameOperation(Routers[i].routes[k], Routers[j].routes[l])
ValidateRoutes == Validate("routes", "names", RoutesCollide)

\* services are those of the runtime given, or of the runtime planned.
ClashesWithServices(names) == ToSet(names) \cap app.services # {}
ValidateNames ==
  LET names == Resources \o Checks
  IN  Validate("names", "mappers", ~IsInjective(names) \/ ClashesWithServices(names))

ValidateMappers == Validate("mappers", "install", ~IsInjective(Mappers))

\* install_problem_handlers starts the set, register_error_mapper adds to it.
\* only the application's own
Mut_Installed(specs) == ToSet(app.mappers)
Installed(specs) == ToSet(specs)
InstallHandlers ==
  /\ pc = "install" /\ pc' = "include"
  /\ mappers' = Installed(Mappers)
  /\ UNCHANGED <<app, cursor, routes, policies, stack, schema, answer>>

\* Without a policy of the application or of the module a router is included as
\* it is, with its module's dependencies.
Declared(owner) ==
  CASE owner = "health" -> FALSE
    [] owner = "direct" -> app.policy # {}
    [] owner \notin {"health", "direct"} -> app.policy # {} \/ Of(owner).policy # {}
PolicyOf(owner) ==
  IF owner = "direct" THEN BasePolicy ELSE Resolve(BasePolicy, Only(Of(owner).policy))
DependenciesOf(owner) ==
  (IF owner \in {"health", "direct"} THEN <<>> ELSE Of(owner).dependencies)
  \o (IF Declared(owner) THEN PolicyOf(owner).dependencies ELSE <<>>)

\* include_router: a route's own dependencies come last and its own responses
\* win.
Include(r, owner) ==
  [methods |-> r.methods, path |-> r.path, id |-> r.id, owner |-> owner,
   params |-> r.params, in_schema |-> r.in_schema,
   dependencies |-> DependenciesOf(owner) \o r.dependencies,
   responses |-> IF Declared(owner)
                 THEN WithDefaults(r.responses, ResponseDefinitions(PolicyOf(owner)))
                 ELSE r.responses]
Operations(r) == r.methods \X {r.path}

\* what the module declares, not merged into the application's
Mut_Recorded(owner) == IF owner = "direct" THEN BasePolicy ELSE Only(Of(owner).policy)
Recorded(owner) == PolicyOf(owner)

IncludeRouter ==
  /\ pc = "include"
  /\ LET r == Routers[cursor]
     IN  /\ routes' = routes \o [i \in DOMAIN r.routes |-> Include(r.routes[i], r.owner)]
         /\ policies' =
              IF Declared(r.owner)
              THEN WithDefaults(Constantly(UNION {Operations(s) : s \in ToSet(r.routes)},
                                           Recorded(r.owner)), policies)
              ELSE policies
  /\ cursor' = cursor + 1
  /\ pc' = IF cursor = Len(Routers) THEN "serving" ELSE "include"
  /\ UNCHANGED <<app, mappers, stack, schema, answer>>

-----------------------------------------------------------------------------
(* The application at work.                                                *)

\* FastAPI documents a 422 of its own for a route with something to validate.
Generated ==
  LET visible == {r \in ToSet(routes) : r.in_schema}
      own(r)  == WithDefaults(r.responses, Constantly({200}, "ok"))
  IN  [op \in UNION {Operations(r) : r \in visible} |->
         LET r == CHOOSE s \in visible : op \in Operations(s)
         IN  WithDefaults(own(r), Constantly(IF r.params THEN {422} ELSE {}, "synthetic"))]

\* app_openapi adds to the cached document, for the operations with a policy.
\* whatever the policy says of 422
Mut_Adjusted(responses, p) ==
  WithDefaults(responses, Constantly({EffectiveStatus(p)}, "validation error"))
Adjusted(responses, p) ==
  LET all == WithDefaults(responses, Constantly({EffectiveStatus(p)}, "validation error"))
  IN  IF EffectiveInclude(p) THEN all ELSE Restrict(all, DOMAIN all \ {422})
OpenApi ==
  /\ pc = "serving"
  /\ LET document == IF schema = <<>> THEN Generated ELSE schema
     IN  schema' = [op \in DOMAIN document |->
                      IF op \in DOMAIN policies THEN Adjusted(document[op], policies[op])
                      ELSE document[op]]
  /\ UNCHANGED <<app, pc, cursor, routes, policies, mappers, stack, answer>>

\* Starlette takes the first route that matches path and method; or the first
\* that matches the path, which answers 405; or answers 404.
First(P(_)) == CHOOSE i \in DOMAIN routes : P(routes[i]) /\ \A j \in 1 .. i - 1 : ~P(routes[j])
MatchesPath(url, r) == r.path \in Matches[url]
MatchesAll(method, url, r) == MatchesPath(url, r) /\ method \in r.methods

\* _route_policy, looked up under the method of the request and the path of
\* the route, which give the handlers status and renderer.
RoutePolicy(method, path) ==
  IF <<method, path>> \in DOMAIN policies THEN {policies[<<method, path>>]} ELSE {}
RendererBy(policy) ==
  IF policy # {} /\ Only(policy).error_renderer # "none" THEN Only(policy).error_renderer
  ELSE "application"

\* The middleware stack is built with the handlers registered by the first
\* time the application is called.
StackBuilt == IF stack = {} THEN {mappers} ELSE stack
Handled(built) == UNION built

Answers(to, op, kind, status, policy) ==
  answer' = [to |-> to, op |-> op, kind |-> kind, status |-> status,
             renderer |-> RendererBy(policy)]

\* A request some route answers, whose input is refused or whose endpoint
\* raises an exception of class e.
Request(method, url, kind) ==
  /\ pc = "serving" /\ stack' = StackBuilt
  /\ \E r \in ToSet(routes) : MatchesAll(method, url, r)
  /\ LET serves(r) == MatchesAll(method, url, r)
         route  == routes[First(serves)]
         op     == <<method, route.path>>
         policy == RoutePolicy(method, route.path)
     IN  \/ /\ kind = "invalid" /\ route.params
            /\ Answers(route.owner, op, kind,
                       IF policy # {} THEN EffectiveStatus(Only(policy)) ELSE 422, policy)
         \/ /\ kind \in Classes
            /\ Answers(route.owner, op, kind, IF kind \in Handled(StackBuilt) THEN 409 ELSE 500,
                       policy)
  /\ UNCHANGED <<app, pc, cursor, routes, policies, mappers, schema>>

\* One that no route answers.
Unanswered(method, url) ==
  /\ pc = "serving" /\ stack' = StackBuilt
  /\ ~\E r \in ToSet(routes) : MatchesAll(method, url, r)
  /\ LET reaches(r) == MatchesPath(url, r)
     IN  IF \E r \in ToSet(routes) : reaches(r)
         THEN Answers("nobody", <<>>, "method", 405, RoutePolicy(method, routes[First(reaches)].path))
         ELSE Answers("nobody", <<>>, "path", 404, {})
  /\ UNCHANGED <<app, pc, cursor, routes, policies, mappers, schema>>

\* The server's lifespan scope is the first call of a served application.
StartServer ==
  /\ pc = "serving" /\ stack = {} /\ stack' = StackBuilt
  /\ UNCHANGED <<app, pc, cursor, routes, policies, mappers, schema, answer>>

\* register_error_mapper by application code, refused for a class that has one.
RegisterErrorMapper(e) ==
  /\ pc = "serving"
  /\ e \notin mappers /\ mappers' = mappers \cup {e}
  /\ UNCHANGED <<app, pc, cursor, routes, policies, stack, schema, answer>>

Refused == pc = "refused" /\ UNCHANGED vars

Next ==
  \/ FlattenModules
  \/ ValidateRoutes
  \/ ValidateNames
  \/ ValidateMappers
  \/ InstallHandlers
  \/ IncludeRouter
  \/ OpenApi
  \/ StartServer
  \/ \E e \in Classes : RegisterErrorMapper(e)
  \/ \E m \in Methods, u \in DOMAIN Matches, k \in Classes \cup {"invalid"} : Request(m, u, k)
  \/ \E m \in Methods, u \in DOMAIN Matches : Unanswered(m, u)
  \/ Refused

Spec == Init /\ [][Next]_vars
-----------------------------------------------------------------------------
(* What the application promises.                                          *)

\* Every variable has its type: what is recorded of an operation is a policy,
\* and what is documented and answered is an HTTP status.
TypeOK ==
  /\ app \in Applications
  /\ pc \in {"modules", "routes", "names", "mappers", "install", "include", "serving", "refused"}
  /\ cursor \in 1 .. Len(Routers) + 1
  /\ \A i \in DOMAIN routes : routes[i].methods \subseteq Methods
  /\ \A op \in DOMAIN policies : op[1] \in Methods /\ IsPolicy(policies[op])
  /\ mappers \subseteq Classes /\ Cardinality(stack) <= 1 /\ Handled(stack) \subseteq mappers
  /\ \A op \in DOMAIN schema : DOMAIN schema[op] \subseteq Statuses
  /\ answer.status \in {0} \cup 400 .. 599

\* What the declarations say of an owner's routes, field by field: the module's
\* word, or else the application's, or else nothing.
Modules == {app.modules[i].name : i \in DOMAIN app.modules}
Said(owner, field) ==
  LET module == IF owner \in Modules THEN Only(Of(owner).policy)[field] ELSE Unset[field]
      application == IF owner = "health" THEN Unset[field] ELSE Only(app.policy)[field]
  IN  IF module # Unset[field] THEN module ELSE application
Status422(owner) == Said(owner, "validation_status") \in {0, 422}
Refuses422(owner) ==
  \/ Said(owner, "include_synthetic_422") = "no"
  \/ Said(owner, "include_synthetic_422") = "unset" /\ ~Status422(owner)

\* The error a client gets of an operation follows what was declared for the
\* module its endpoint came with, whatever the order of modules and whoever
\* else has that path; an error of no operation follows the application
\* (SRS-HTTP-004, SRS-APP-011).
ErrorsFollowDeclaration ==
  IF answer.to = "nobody" THEN answer.renderer \in {"none", "application"}
  ELSE /\ answer.renderer = IF Said(answer.to, "error_renderer") = "none" THEN "application"
                            ELSE Said(answer.to, "error_renderer")
       /\ answer.kind = "invalid" =>
            answer.status = IF Status422(answer.to) THEN 422
                            ELSE Said(answer.to, "validation_status")

\* The declared status of refused input is documented, and where the declaration
\* does without the synthetic 422 there is none, not of FastAPI's nor of the
\* common errors.  Routes without a declaration keep FastAPI's.
StatusesFollow ==
  \A r \in ToSet(routes) : \A op \in Operations(r) \cap DOMAIN schema :
    LET status == IF Status422(r.owner) THEN 422 ELSE Said(r.owner, "validation_status")
    IN  IF Declared(r.owner)
        THEN /\ (422 \in DOMAIN schema[op]) => ~Refuses422(r.owner)
             /\ status \in DOMAIN schema[op] \/ (status = 422 /\ Refuses422(r.owner))
        ELSE r.params => 422 \in DOMAIN schema[op]

\* A text documented for an error is the one of the first who has a word on its
\* status: the route, the module's policy, the application's, the validation
\* response, the common errors, the fallback.
TextsFollow ==
  \A i \in DOMAIN Routers : \A r \in ToSet(Routers[i].routes) :
    \A op \in Operations(r) \cap DOMAIN schema : \A s \in DOMAIN schema[op] \ {200, 422} :
      LET owner    == Routers[i].owner
          word(f)  == Said(owner, f)
          validation == IF Status422(owner) THEN 422 ELSE word("validation_status")
          common   == IF word("common_error_statuses") = <<>> THEN DefaultStatuses
                      ELSE word("common_error_statuses")
          of(p, t) == IF s \in DOMAIN p THEN {p[s]} ELSE t
          first == of(r.responses,
                   of(IF owner \in Modules THEN Only(Of(owner).policy).responses ELSE <<>>,
                   of(Only(app.policy).responses,
                   IF s = validation
                   THEN {word("validation_response_model"), "validation error"} \ {"none"}
                   ELSE IF s \in ToSet(common) /\ word("common_error_response_model") # "none"
                   THEN {word("common_error_response_model")}
                   ELSE {word("fallback_response_model")})))
      IN  schema[op][s] \in first

\* What a client gets for refused input is what the document says, and each text
\* of the document is the word of the one to say it, through the merging of
\* policies and the repeated adjusting of the cached document (SRS-APP-011,
\* SRS-HTTP-005).
DocumentFollowsDeclaration == StatusesFollow /\ TextsFollow

\* A dependency of a module or of its policy guards that module's routes and no
\* others; one of the application's policy guards all but the built-in ones
\* (SRS-MOD-004, SRS-HTTP-006).
DependenciesStay ==
  \A i \in DOMAIN Routers : \A r \in ToSet(Routers[i].routes) : \A s \in ToSet(routes) :
    s.id = r.id =>
      LET owner == Routers[i].owner
      IN  ToSet(s.dependencies) =
            ToSet(r.dependencies)
            \cup (IF owner = "health" THEN {} ELSE ToSet(Only(app.policy).dependencies))
            \cup (IF owner \in Modules
                  THEN ToSet(Of(owner).dependencies) \cup ToSet(Only(Of(owner).policy).dependencies)
                  ELSE {})

\* An exception is answered as the mapper declared for its class says, the
\* application's or a module's, from the first request on.
DeclaredMapperAnswers ==
  answer.kind \in ToSet(Mappers) => answer.status = 409
=============================================================================
