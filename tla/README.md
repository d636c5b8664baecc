# A formal model of fastapi-core

`fastapi-core` builds a FastAPI application with an owned runtime of backend
services, managed resources, readiness checks, uniform errors, and closing
streams. These TLA+ modules model the parts of `src/fastapi_core` in which the
order of events, failures and cancellations decides whether the result is
right. TLC checks them on small instances; TLAPS proves all their safety
properties, and two refinements, for every value of the constants.

## 1. The system

Everything runs on one asyncio event loop. A task gives up control only at an
`await`, so two pieces of code interleave only there. Plain functions handed to
`invoke_resource` run in worker threads, which no cancellation stops.

| component | state | operations | hard about it | what makes it correct | model |
|---|---|---|---|---|---|
| application lifespan (`lifecycle.py`) | the local `app_runtime`, `app.state` | enter: assemble, connect, check, start resources, user lifespan; exit in reverse | any step may fail or be cancelled, also while releasing | release always ends, in reverse, with the first error kept | `ManagedLifespan` |
| managed resources (`resources.py`) | `instances`, and checks in the readiness registry | `start`, `check_startup`, `require`, `close` | rollback and shutdown both close; requests look resources up while a close waits | nothing closed twice, nothing usable after its close began, nothing left | `ManagedLifespan` |
| service runtime (`runtime.py`) | the runtime's services and their checks | `assemble_runtime`, `configure_service_runtime` | name collisions half way; who owns the auth provider | all or nothing; explicit arguments win | `ManagedLifespan` |
| readiness registry (`readiness.py`) | `specs` | `register`, `unregister`, `check`, merging of structured results | the registry changes while checks run; dotted names; timeouts; adapters | no failure hidden, no result lost, always an answer | `Readiness` |
| health router (`routers/health.py`) | none | readiness, liveness | policies read after the await | 200, 503 and redaction follow the checks' policies | `Readiness` |
| streaming response (`streaming.py`) | lock, `_closed` | send, then close once | cancellation while closing, concurrent calls | one close, finished before the call returns, its failure reported | `StreamClose` |
| invocation (`invocation.py`) | the default thread pool | `invoke_resource` with a timeout | the thread outlives the call | its effects are expected | in `ManagedLifespan`, `StreamClose` |
| HTTP middleware and errors (`http.py`) | per request: correlation id, `status_code`, `logged`; per app: handlers, mapping table | id, access log, exception handlers, renderers | exceptions at any time, before, during and after the response | one truthful record, the most specific mapping, one id | `HttpPipeline` |
| application factory (`factory.py`) | routes, `transport_policies`, `error_mapper_types`, the cached OpenAPI document | `create_app`: validate, install handlers, include routers; `app_openapi` | many declarations merged in an order; a document adjusted again and again; a middleware stack built at the first call | collisions refused; routes, errors and document as declared | `Assembly` |
| transport policy, modules (`transport.py`, `modules.py`, `extensions.py`) | a policy by operation | `resolve`, `validate_module_conflicts`, the effective values | two policies merged field by field | runtime and documentation follow one policy | `Assembly` |
| settings (`config.py`, `docmesh_settings.py`), test support (`testing.py`) | two process-wide caches over the environment | `load_app_config`, `load_docmesh_settings`, `test_environment` | stale caches, contexts in each other, one that fails half way | nothing stale is cached; a context leaves what it found | `Settings`, `DynamicScopes` |
| authentication (`routers/auth.py`, `dependencies/auth.py`) | `app.state.auth_provider` | `get_auth_provider`, `get_current_user`, the three requirements, `issue_token` | dependencies run in threads while the lifespan connects; a provider that blocks the loop, or a worker | only who was granted all of it gets in; who has the router has a provider | `Access` |
| service dependencies (`dependencies/services.py`) | `app.state.service_runtime` | lookup of a client and its type | the runtime comes and goes | the client of the right type, or 503 or 500 | `Access` |
| logging, schemas | none | output, data classes | | | not modelled |

The lifespan calls the runtime and the resource registry; both register checks
in the readiness registry, which the health router reads from other tasks.
Requests reach resources only through the registry's `instances`. Streaming
responses use `invoke_resource` to close, as the resource registry does. The
HTTP middleware surrounds every endpoint, the health router's too, and its
handlers ask the policies that `create_app` recorded. Dependencies of requests
read the runtime and the provider that the lifespan, and sometimes they
themselves, put into `app.state`.

## 2. The modules

### OwnedScope: what a lifespan promises

Resources `1 .. N` are acquired in order under a runtime, used when all are
held, and released in reverse, the runtime last. A failure may end acquiring at
any point. It knows nothing of cancellation, errors or readiness.

### ManagedLifespan: how the lifespan does it

`pc` is where the lifespan task stands: an await, or straight-line code about to
run. An action is what happens between two awaits. `Suspended` is the condition
under which other tasks act.

| model | code |
|---|---|
| `Init` | what `create_app` leaves: an explicit runtime connected, then the explicit auth provider |
| `Begin`, `AssembleRuntime`, `ConfigureRuntime`, `CheckRuntime`, `RequireAuth` | `managed_lifespan` up to `resources.start()`; `Collides` is the name check of `configure_service_runtime` |
| `StartResource`, `FactoryReturns`, `FactoryRaises` | the loop of `ResourceRegistry.start`, with registration of the check and rollback |
| `CheckStartup`, `EnterLifespan`, `StopServing`, `ExitLifespan` | `check_startup` and the user's lifespan |
| `CloseNext`, `CloseReturns`, `Closed` | the loop of `ResourceRegistry.close`: pop, await, unregister the check if it is still that instance's (`Bound`), collect the failure |
| `CloseRuntime` | the inner `finally` of `managed_lifespan` |
| `Cancel`, `ThreadEnds` | a `CancelledError` at any of the awaits, and what a sync callable's thread does afterwards |
| `UserRegisters`, `UserUnregisters` | application code using the readiness registry in other tasks |

`phase`, `origin` and `released` are history: what became of each resource, what
`start()` raised, whether the runtime's `close()` was called. `Scope` is the
refinement mapping to `OwnedScope`.

Assumed of callbacks: a check that is cancelled ends; an async close lets its
cancellation through; every resource has a close with at least one await (a
resource without one is a close that returns at once). `docmesh_py_core` is
seen through the calls made to it: assembling, checking or closing a runtime
succeeds or raises.

### Readiness: one request for readiness

A request takes a snapshot of `specs` (`Request`), runs it in order or in
parallel (`Start` ... `CheckTimesOut`), merges structured results (`Expands`,
`Services`), and renders each result with the policy found in the registry *as
it is by then* (`ResolveSpec`, `Respond`). An adapter is called on the event
loop: while a sync one runs (`Holding`), no timer fires and nothing else goes on
(`LoopFree`, `AdapterEnds`). `Register` and `Unregister` are other tasks, or a
check or an adapter itself. A name is the sequence of its dotted parts. Results
are reduced to passed or not, what the error says, and the services in them.
`async_check_all_services` of docmesh_py_core is external: checks one after the
other or together, all results collected, the overall timeout discarding them.

### StreamClose: the end of a streaming response

Any number of calls of one `ManagedStreamingResponse` share its lock and flag.
`StreamEnds` and `Cancel` end the stream and create the close task; `CloseOnce`,
`WaitForLock` and `CloseEnds` are `_close_once`; `Resume` is what the call
raises in the end, and what it notes on the stream's error (`Raised`). A
cancellation is absorbed by the shield the first time (`pc` goes to "awaiting")
and reaches the close task the second time (`ReachesTask`, `Interrupts`). One
that comes when the task is over, before the call runs again, is thrown all the
same: at the shield the call still gets the task's outcome ("leaving"), at the
second await the cancellation takes its place ("cut"). Cancellations that come
before one is thrown are one with it.

### HttpPipeline: one request through the middleware

`Receive` is `CorrelationIdMiddleware`; `SendStart` and `SendBody` are the two
`send` wrappers together; `Unwind` is the `except BaseException` of the access
log; `Raises` and `Handle` are Starlette's `ExceptionMiddleware` with the
handlers of `install_problem_handlers` and `register_error_mapper`;
`ServerError` is Starlette's `ServerErrorMiddleware` with
`_unhandled_exception_handler` and the `ExceptionMappingTable`. An exception
is its class, a response its status and the two correlation ids in it. Not
there: CORS, masking, the layout of bodies.

### Assembly: what create_app makes of its arguments

| model | code |
|---|---|
| `FlattenModules`, `ValidateRoutes`, `ValidateNames`, `ValidateMappers` | `_flatten_modules` and the validations, each of which may refuse |
| `InstallHandlers` | `install_problem_handlers` and `register_error_mapper` for the declared mappers |
| `IncludeRouter` | `_include_transport_router` and `include_router`: the health router, the direct ones, then each module's, with the policy recorded for each operation |
| `Resolve`, `Conflict`, `ResponseDefinitions`, `Effective...` | `TransportPolicy` |
| `OpenApi` | `app_openapi` over FastAPI's generated document (external), which it adjusts again at each call |
| `Request`, `Unanswered` | Starlette's matching of routes (external), `_route_policy`, the choice of status and renderer, the mapping of an exception |
| `StartServer`, `RegisterErrorMapper` | the middleware stack is built at the first call; application code registers at any time |

A path is a name; which URLs it matches is a constant, so that two templates can
match one URL. A response's text stands for its model. The properties compute
what is promised from the declarations alone (`Said`), without `Resolve`.

### Access: who gets into an endpoint

One module for what runs in different tasks and threads: `CreateApp`'s refusals,
`Start` to `Stop` of the lifespan as far as it sets `app.state`, and requests.
`Dispatch` gives a request one of `Workers` threads; `ReadProvider`,
`LookupClient` and `StoreProvider` are the steps of `get_auth_provider` in
it, between which other threads and the loop act; `Authenticate` and
`VerifyEnds` are `get_current_user`, which holds the loop during the
provider's call (`loop`); `Authorize` is the requirements with FastAPI's cache
of one user for each set of scopes; `IssueToken` and `FetchEnds` are the token
endpoint with its table of errors. The provider and Keycloak's user are
external: what a token grants is a constant, what a call comes to any outcome.

### DynamicScopes: what contexts in each other promise

A scope binds variables, the innermost binding of a variable is the one seen and
assigned to, and with a scope its bindings are gone. It knows nothing of saving
and restoring.

### Settings: the environment and its two caches

`LoadAppConfig` and `LoadDocmeshSettings` fill a cache that is empty, or holds
another selection; an exception is not kept. `Enter`, `EnterFails` and `Leave`
are `test_environment` with both `cache_clear`s; `SetVariable` is other code
writing into `os.environ`. `frames` is what each open context has saved; the
value of a variable at a depth is what the next context that overrides it has
saved (`At`), which is the refinement mapping to `DynamicScopes`. `dirty` is
history: which caches were filled before a foreign write.

Definitions named `Mut_X` are X with a plausible bug, used by nothing. They
show that each property notices the bug it is there for.

## 3. What TLC checks

| run | instance | states | shows |
|---|---|---|---|
| `lifespan` | 3 resources (sync and async, checked and not), 2 services, 5 configurations, 2 lifespans, 2 cancellations | 80 247 | registry truth, checks only of open instances, complete serving, no silent failure, the startup error kept, everything released, foreign checks kept, release ends, refinement of `OwnedScope` |
| `readiness` | 3 names, one of them a service of another, 3 policies with a sync, an async and no adapter, both schedules, 1 registry change in flight | 296 348 | "ok" means all passed, 503 exactly for required failures, no result lost, redaction, 500 only for a name with a dot or gone from the registry, an answer if adapters give the loop back |
| `streaming` | 2 calls, 4 cancellations, three kinds of close | 16 999 | one close call, closed before the return, nothing swallowed, a failed close reported once, every call ends |
| `http` | 6 exception classes, 1350 configurations | 430 810 | one log record, success only of complete responses, which responses have the request's id, status of a failed response |
| `assembly` | 508 applications: policies of application and modules, routes that meet, names and mappers that collide; 2 methods, 2 exception classes | 20 550 | errors, documents and guards follow the declarations; declared mappers answer |
| `access` | 3 requests (a login, a user's, a service's or a second login), 2 workers, 112 initial configurations | 554 846 | only the granted enter, the auth router has its provider, hanging logins hold nobody else |
| `settings` | 3 environments, 5 overrides, 3 contexts in each other, 1 foreign write | 113 784 | nothing stale is cached; refinement of `DynamicScopes` |

The `lifespan` bounds: three resources give a first, a middle and a last one,
which a rollback or a reverse order can confuse; a second lifespan meets what
the first one left; two cancellations hit startup and the release that follows,
or two awaits of one release. The user's check names include a resource's and a
service's name, so a foreign check can stand where the framework wants its own.
`readiness`: three names suffice for a check, another, and a collision of a
service with a check; a stale policy needs one change. `streaming`: one call to
hold the lock and one to wait; three cancellations of one call are enough to
end its stream, pass the shield, and reach the task. `http` has no counter; its
bound is the class hierarchy, in which a class and its base class are mapped.
`assembly`: two modules and the application are enough for a conflict, for an
agreement that only the merge brings, and for one owner's policy reaching
another's routes; `create_app` looks at parts of its arguments one after the
other, so they are enumerated in three groups. `access`: two workers, so that
one hanging login leaves one, and two leave none (`OthersAnswered` promises
nothing then); three requests, so that someone
waits. `settings`: at depth three a variable is overridden, left alone and
overridden again.

Fairness. `ManagedLifespan`: weak fairness of the lifespan task's own steps,
that is, callbacks end. The event loop always resumes a task whose await is
over; nothing makes a server start or stop serving, so `Begin` and `StopServing`
have none. `Readiness`: the loop starts checks, fires timers and sends the
answer while no sync adapter holds it; no check or adapter is assumed to return.
`AlwaysAnswers` therefore assumes that the loop is free again and again
(`[]<>LoopFree`), and promises an answer if there is an overall timeout, or if
every check has one and no adapter is async. Coroutine functions are taken to
give up the loop. `StreamClose`: close tasks run and end; a stream need not.
`Access`: weak fairness of each request's own steps: the loop runs what is
ready, a worker that is free is given, a verification ends; a login's fetch is
not assumed to. `HttpPipeline`, `Assembly` and `Settings` have only safety
properties and a refinement without liveness.

`CHECK_DEADLOCK FALSE` is set for `Readiness` and `StreamClose`, whose one
request or calls are over after finitely many steps.

Five runs show where the program disagrees with its documents:

| run | the code | the document |
|---|---|---|
| `report_mode` | a failing check of a required resource ends startup in REPORT mode (`resources.py:234`) | SRS-LIFE-003 |
| `auth_override` | connecting an assembled runtime replaces the explicit auth provider (`runtime.py:106`) | SRS-AUTH-004 |
| `adapter_timeout` | an adapter runs outside its check's timeout, a sync one outside any (`readiness.py:149`) | SRS-READY-010 |
| `dotted_parent` | services of a check with a dotted name get another check's policy (`readiness.py:119`) | SRS-READY-005 |
| `renderer_id` | the header of an extractor's renderer is overwritten, its body is not (`http.py:83`) | SRS-ERR-011 |

Other disagreements were met while modelling, are in the models, and have no run
of their own:

- after a cancelled sync close the runtime is closed while the thread still
  closes (`resources.py:253`, SRS-LIFE-004);
- a second cancellation interrupts an async close of a stream
  (`streaming.py:77`, SRS-HTTP-007); `ClosedBeforeReturn` excepts it, and
  `CloseFailureReported` the second cancellation that takes the place of a failed
  close's error;
- what ServerErrorMiddleware answers passes no `CorrelationIdMiddleware`: with a
  renderer of the application, or a mapping that sets the header itself, it has
  another id in its header, or none (`http.py:403`, SRS-HTTP-001, SRS-OBS-006);
  `Correlated` says that these answers, and no others, are so;
- a stream that a disconnect ends without an exception has no access log record
  (`http.py:138`, SRS-OBS-004 counts a failed send as completion); `LoggedOnce`
  excepts it;
- the access log's record of an exception the mapping table answers says 500,
  whatever the answer's status (`http.py:146`, SRS-OBS-002);
- a route with two methods documents two operations under one id
  (`factory.py:109`, SRS-APP-006);
- a policy with status 422 and `include_synthetic_422=False` leaves the 422 its
  handlers answer out of the document (`factory.py:193`, SRS-APP-011);
  `StatusesFollow` excepts it;
- a mapper registered after the first request is recorded and never asked
  (`http.py:467`, SRS-ERR-005); `DeclaredMapperAnswers` is about declared ones.

## 4. What is proved

| module | theorems | from |
|---|---|---|
| `ManagedLifespan_proofs` | all safety properties of `lifespan`, the refinement of `OwnedScope`; also that closes happen in reverse order, that no close begins twice, that release takes a bounded number of steps, and where the explicit auth provider does stay | `NAssumption` (naturals), `NamesAssumption` (`create_app` refuses a resource named like a service), `ConfigsAssumption` |
| `Readiness_proofs` | all safety properties of `readiness`; also where services do inherit the policy of their check | `ChecksAssumption` (names are nonempty), `PoliciesAssumption`, `ChangesAssumption` |
| `StreamClose_proofs` | all safety properties of `streaming` | the assumptions of `StreamClose` |
| `HttpPipeline_proofs` | all properties of `http`; also that the most specific mapping is taken | the assumptions of `HttpPipeline` |
| `Access_proofs` | all safety properties of `access` | `AccessAssumption` (shapes of configurations and plans) |
| `Settings_proofs` | all properties of `settings`, the refinement of `DynamicScopes` among them | `SettingsAssumption` (shapes of environments and overrides) |
| `Assembly_proofs` | all properties of `assembly`; also that no operation and no id has two routes, and that a published document never changes | `ApplicationsAssumption` (shapes of arguments; statuses as `TransportPolicy` accepts them), `ClassesAssumption` (mappers are for exception classes), `MethodsAssumption` |
| `SequenceLemmas` | that a nonempty set of positions has a first; what is in a concatenation and in a sequence flattened | nothing |

None of the properties is inductive as it stands. The arguments:

`ManagedLifespan`: that a rollback meets instances in order depends on how far the
loop of `start()` had come. `IInv` adds where each loop stands
(`StartedSoFar`: exactly the resources before the cursor are live;
`ClosedSoFar`: those past it are quiet and at most the one at it is closing),
that started resources are watched (`Watched`), when the runtime is open
(`RuntimeInv`), and what a propagating error implies about the past (`ErrorInv`,
`OriginInv`: the second pass of a failed startup finds nothing to close). One
lemma per action shows that `IInv` is kept.

`Readiness`: what the response says is settled in one step, so the proof is about
the merge. An outcome that passes has no failed service (`OutcomesAreSound`), so
a check that failed always leaves a failed service (`FailureIsShown`) and the
search after `HealthCheckError` finds it (`MergeFindsFailure`); names of one part
resolve to their own check (`ResolvesToCheck`) and never meet (`NamesDiffer`).
`SnapshotInv` adds that the registry is the snapshot as long as nothing changed.

`StreamClose`: `IInv` adds that only a closing task holds the lock, how a call and
its task stand to each other, that the flag goes up with the one invocation,
and, as long as nobody was cancelled twice, that an ended task left the lock
free and the resource dealt with (`ResourceInv`). `FailureInv` follows a failure
from the resource to the one task that called the close, and from there to what
its call raises or notes.

`HttpPipeline`: `FirstFound` shows that the search of the MRO finds the first
mapped class. `IInv` ties the response
under way to the access log's two locals (`LogInv`, `StatusInv`) and to who is
at work (`PhaseInv`). `RenderedIds` says which ids a renderer gives, so that a
header is the request's just where it is stamped or left to the default renderer.

`Access`: `LookupFinds` says that the dependency finds a client exactly where
`configure_service_runtime` finds a provider. `PhaseInv` and `ProviderInv` say
what is in `app.state` at each point of the lifespan, also while the provider is
stored and the runtime is not yet; `EnteredInv` what a request has shown to be
where it is. That no requirement is skipped, and no endpoint entered
without the provider having accepted the token for each, rests on there being a
first one whose user is missing.

`Settings`: caches are right because every write either empties or marks them.
For the refinement, `SeenIsEnvironment` shows that what is seen through the
layers is `os.environ`; `EnterBinds`, `LeaveUnbinds` and `WriteAssigns` that a
context entered, one left and a foreign write are the abstract steps;
`FailureUndone` that a context that fails half way is none.

`Assembly`: `RouteInv` says that the included routes are those of the routers
before the cursor, and what policy is noted of an operation: that of the owner
of a route with it, for every owner that declared one. `create_app` refuses
declarations that collide, so an operation has one route (`RouteIsUnique`) and
what is noted of it is its one owner's (`RoutePolicies`). With `PolicySays`, which
goes from the merged policy back to what application and module declared, the
dependencies, answers and statuses follow. A request that no route has cannot
find a policy under its method and path (`UnansweredIs`). The document is
adjusted each time it is asked for; adjusting once more changes nothing
(`AdjustedOnce`), so it is always the generated one adjusted once (`SchemaInv`).
Without that idempotence neither `DocumentFollowsDeclaration` nor
`DocumentSettles` is inductive. `MapperInv`: declared mappers are installed before
the application serves, and the stack is built no earlier.

`SequenceLemmas`: routers, mappers and dependencies are given as sequences of
sequences, flattened. What a flattening holds is shown by induction over sets of
numbers (`SetInduction`, from the well-foundedness of the naturals): a set of
numbers that has 0, and the next of each of its members, has them all. `FirstOf`
is the same fact for searches, in `Access`, `Assembly`, `HttpPipeline` and
`Settings`.

Two of the runs that show a disagreement with the documents have a theorem that
says where the documents are right. `CustomProviderStays`: the provider given to
`create_app` is replaced only with an assembled runtime with Keycloak.
`ServicesInherit`: with a steady registry, only a dotted name makes a service lose
the policy of its check.

Only model-checked: liveness (`ReleaseCompletes`, `AlwaysAnswers`,
`EveryCallEnds`, `OthersAnswered`), which is out of the prover's reach. Of
`ReleaseCompletes`, the part that is not about fairness is proved: every step of
the lifespan and every cancellation during release makes it shorter by the
measure `Ahead`, which is at most 4 N + 5 (`ReleaseIsBounded`), and no other step
touches it.

## 5. Not modelled

Logging is output; schemas are data. Liveness is a constant response.
`ResourceBinding.call` and the 503 of a missing resource are not in the model of
the registry, only what `require` would find. Of the settings, both caches, the
lists of services with the check between them and one number are there; the
other fields are validated one by one. The mapping of settings to a plan of
services is data. Masking of secrets, the layout of bodies and CORS are not in
`HttpPipeline`, which follows one request. `Assembly` leaves out the routes of the
auth router, whose provider is in `Access`, and the models behind the texts of a
document. `Access` takes the login's form as parsed, and has no cancellation of
requests: a client that leaves changes nothing the others see but the time a
thread is held. The pool of the threads that checks run in is not a state of
`Readiness`: a sync check that hangs keeps its thread, and nothing in the code
bounds how many do. What docmesh_py_core, Starlette and FastAPI do is seen
through the calls made to them.

## 6. Plan

Done: lifespan, readiness, streaming, HTTP, assembly, access, settings, and their
proofs. Left, in this order:

1. The composition of `Access` and `ManagedLifespan`: one lifespan that fails or is
   cancelled anywhere, and the requests of a mounted application during it.
2. The pool of worker threads shared by checks, sync factories and closes:
   repeated probes of a check that hangs, and what is still answered.
3. An abstract readiness answer, a function of the snapshot and its outcomes,
   implemented by `Readiness` while the registry is steady.
