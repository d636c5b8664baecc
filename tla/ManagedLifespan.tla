--------------------------- MODULE ManagedLifespan ---------------------------
(***************************************************************************)
(* The lifespan of one application, as build_lifespan, ResourceRegistry    *)
(* and configure_service_runtime run it: the runtime is assembled and      *)
(* connected, the managed resources are created in declaration order, the  *)
(* user's lifespan is entered, and everything is released in reverse       *)
(* order, whatever failed or was cancelled on the way.                     *)
(*                                                                         *)
(* The lifespan is one asyncio task.  `pc' names the await it is suspended *)
(* at, or the straight-line code it is about to run; another task acts     *)
(* only while this one is suspended (Suspended).  A sync callback runs in  *)
(* a worker thread, which outlives a cancellation of the task.             *)
(*                                                                         *)
(* Mut_X is X with a plausible bug; nothing uses it.  It is there to be put *)
(* in X's place, to see that a property notices.                           *)
(***************************************************************************)
EXTENDS Naturals

CONSTANTS
  N,            \* how many managed resources the application declares
  Checked,      \* the resources that declare a healthcheck
  Required,     \* the resources declared with required=True
  SyncFactory,  \* the resources whose factory is a plain function
  SyncClose,    \* the resources whose close callback is a plain function
  Services,     \* the readiness names of the runtime's services
  Keycloak,     \* the one of them that carries the Keycloak client
  UserNames,    \* the names application code registers checks under itself
  Configs,      \* the application configurations considered
  MaxRuns,      \* bound: lifespans of the one application
  MaxCancels    \* bound: cancellations of the lifespan task

Resources == 1 .. N
Runs == 1 .. MaxRuns
Names == Resources \cup Services \cup UserNames

None   == 0             \* no runtime, no provider, no instance
Given  == MaxRuns + 1   \* the runtime passed to create_app
Custom == MaxRuns + 2   \* the auth provider passed to create_app

\* create_app's arguments and the settings the lifespan reads
Config ==
  [explicit : BOOLEAN, startup_healthcheck : BOOLEAN, report : BOOLEAN,
   require_auth : BOOLEAN, custom_auth : BOOLEAN, services : SUBSET Services]

ASSUME NAssumption == N \in Nat /\ MaxRuns \in Nat /\ MaxCancels \in Nat
\* create_app refuses a resource named like a service
ASSUME NamesAssumption == Resources \cap Services = {}
ASSUME ConfigsAssumption == Configs \subseteq Config

VARIABLES
  config,           \* create_app's arguments, fixed
  pc,               \* where the lifespan task is
  run,              \* the lifespans begun so far; the number of the current one
  k,                \* the resource loops' cursor
  instances,        \* ResourceRegistry.instances: the run that made the value
  value,            \* close()'s local: the instance popped last
  specs,            \* ReadinessRegistry.specs
  runtime,          \* managed_lifespan's app_runtime
  service_runtime,  \* app.state.service_runtime
  auth_provider,    \* app.state.auth_provider
  error,            \* the exception propagating out of managed_lifespan
  pass,             \* which call of ResourceRegistry.close is running
  failed,           \* whether that call has collected a failure
  cancels,          \* cancellations delivered so far
  phase,            \* history: what became of each resource of this run
  origin,           \* history: what resources.start raised in this run
  released          \* history: whether app_runtime.close() was called in this run

vars == <<config, pc, run, k, instances, value, specs, runtime, service_runtime,
          auth_provider, error, pass, failed, cancels, phase, origin, released>>

\* A registered check belongs to a resource instance, a runtime or the user.
Spec0    == [owner |-> "none", run |-> None]
OfUser   == [owner |-> "user", run |-> None]
OfValue(v)   == [owner |-> "resource", run |-> v]
OfRuntime(r) == [owner |-> "runtime", run |-> r]

SpecType == [owner : {"none", "user", "resource", "runtime"}, run : 0 .. Given]
Phases   == {"absent", "making", "lost", "live", "closing", "detached", "failed", "closed"}
Errors   == {"none", "assemble", "configure", "check", "auth", "factory",
             "register", "cancelled", "body", "user", "group", "runtime"}
Points   == {"down", "assemble", "configure", "check_runtime", "auth", "start",
             "factory", "check_startup", "enter", "serving", "exit", "close",
             "closing", "close_runtime"}

\* The lifespan task is at an await (or has ended): other code may run.
Suspended == pc \notin {"configure", "auth", "start", "close"}

-----------------------------------------------------------------------------
Attempted == {"closing", "detached", "failed", "closed"}
HasKeycloak == Keycloak \in config.services

FlagsOK == failed \in BOOLEAN /\ released \in BOOLEAN
ControlOK ==
  /\ config \in Configs
  /\ pc \in Points
  /\ run \in 0 .. MaxRuns
  /\ k \in 0 .. N + 1
  /\ pass \in {"rollback", "shutdown"}
  /\ error \in Errors /\ origin \in Errors
  /\ cancels \in 0 .. MaxCancels
RegistryOK ==
  /\ instances \in [Resources -> 0 .. MaxRuns]
  /\ value \in 0 .. MaxRuns
  /\ phase \in [Resources -> Phases]
ChecksOK == specs \in [Names -> SpecType]
RuntimeOK ==
  /\ runtime \in 0 .. Given /\ service_runtime \in 0 .. Given
  /\ auth_provider \in 0 .. Custom

\* Every variable has its type.
TypeOK == FlagsOK /\ ControlOK /\ RegistryOK /\ ChecksOK /\ RuntimeOK

\* create_app's end: an explicit runtime is connected before any lifespan
\* runs, then an explicit provider replaces the runtime's.
Init ==
  /\ config \in Configs
  /\ config.require_auth => config.custom_auth \/ HasKeycloak
  /\ pc = "down" /\ run = 0 /\ k = 0
  /\ instances = [r \in Resources |-> None]
  /\ value = None
  /\ specs = [n \in Names |-> IF config.explicit /\ n \in config.services
                              THEN OfRuntime(Given) ELSE Spec0]
  /\ runtime = None
  /\ service_runtime = IF config.explicit THEN Given ELSE None
  /\ auth_provider = IF config.custom_auth THEN Custom
                     ELSE IF config.explicit /\ HasKeycloak THEN Given ELSE None
  /\ error = "none" /\ pass = "shutdown" /\ failed = FALSE
  /\ cancels = 0
  /\ phase = [r \in Resources |-> "absent"]
  /\ origin = "none" /\ released = FALSE

-----------------------------------------------------------------------------
(* Control transfers shared by the steps.                                  *)

Goto(p) == pc' = p /\ UNCHANGED <<k, error, pass, failed, origin>>

\* `finally': ResourceRegistry.close begins with e propagating.
Finally(e) ==
  /\ pc' = "close" /\ k' = N /\ pass' = "shutdown" /\ failed' = FALSE
  /\ error' = e
  /\ UNCHANGED origin

RollbackFrom == N

\* The handler of ResourceRegistry.start: roll back, with e to be re-raised.
Rollback(e) ==
  /\ pc' = "close" /\ k' = RollbackFrom /\ pass' = "rollback" /\ failed' = FALSE
  /\ error' = e /\ origin' = e

app == <<config, run, cancels>>
registry == <<instances, value, specs, phase>>
runtimes == <<runtime, service_runtime, auth_provider, released>>

-----------------------------------------------------------------------------
(* Startup.                                                                *)

\* The server starts a lifespan: managed_lifespan runs to its first await.
Begin ==
  /\ pc = "down" /\ run < MaxRuns
  /\ run' = run + 1
  /\ runtime' = IF config.explicit THEN Given ELSE None
  /\ pc' = IF ~config.explicit THEN "assemble"
           ELSE IF config.startup_healthcheck THEN "check_runtime" ELSE "auth"
  /\ phase' = [r \in Resources |-> "absent"]
  /\ error' = "none" /\ origin' = "none" /\ released' = FALSE
  /\ UNCHANGED <<config, k, instances, value, specs, service_runtime,
                 auth_provider, pass, failed, cancels>>

\* await assemble_runtime(runtime_plan)
AssembleRuntime ==
  /\ pc = "assemble"
  /\ \/ Goto("configure") /\ runtime' = run
     \/ Finally("assemble") /\ runtime' = None
  /\ UNCHANGED <<app, registry, service_runtime, auth_provider, released>>

\* configure_service_runtime looks for taken names before it registers any.
Collides == \E n \in config.services : specs[n].owner # "none"

\* The assembled runtime may lack a check for a selected service, and its
\* Keycloak client may not be a KeycloakAuthService.
ConfigureRuntime ==
  /\ pc = "configure"
  /\ \/ /\ config.services # {}
        /\ Finally("configure")
        /\ UNCHANGED <<specs, service_runtime, auth_provider>>
     \/ /\ ~Collides
        /\ specs' = [n \in Names |-> IF n \in config.services
                                     THEN OfRuntime(runtime) ELSE specs[n]]
        /\ service_runtime' = runtime
        /\ auth_provider' \in {auth_provider} \cup
                              (IF HasKeycloak THEN {runtime} ELSE {})
        /\ Goto("auth")
  /\ UNCHANGED <<app, instances, value, phase, runtime, released>>

\* _check_runtime_on_startup: in REPORT mode check_with_policy returns the
\* failing result, otherwise it raises.
CheckRuntime ==
  /\ pc = "check_runtime"
  /\ \/ Goto("auth")
     \/ ~config.report /\ Finally("check")
  /\ UNCHANGED <<app, registry, runtimes>>

RequireAuth ==
  /\ pc = "auth"
  /\ IF config.require_auth /\ auth_provider = None
     THEN Finally("auth")
     ELSE pc' = "start" /\ k' = 1 /\ UNCHANGED <<error, pass, failed, origin>>
  /\ UNCHANGED <<app, registry, runtimes>>

Mut_StartResource ==
  /\ pc = "start"
  /\ IF k < N THEN Goto("factory") ELSE Goto("enter")
  /\ UNCHANGED <<app, registry, runtimes>>
StartResource ==
  /\ pc = "start"
  /\ IF k <= N THEN Goto("factory")
     ELSE IF config.startup_healthcheck /\ Checked \cap Required # {}
          THEN Goto("check_startup") ELSE Goto("enter")
  /\ UNCHANGED <<app, registry, runtimes>>

\* The factory of resource k returned: keep the instance, register its check;
\* register raises when application code has taken the name.
FactoryReturns ==
  /\ pc = "factory"
  /\ instances' = [instances EXCEPT ![k] = run]
  /\ phase' = [phase EXCEPT ![k] = "live"]
  /\ IF k \in Checked /\ specs[k].owner # "none"
     THEN Rollback("register") /\ UNCHANGED specs
     ELSE /\ specs' = IF k \in Checked THEN [specs EXCEPT ![k] = OfValue(run)] ELSE specs
          /\ pc' = "start" /\ k' = k + 1
          /\ UNCHANGED <<error, pass, failed, origin>>
  /\ UNCHANGED <<app, value, runtimes>>

Mut_FactoryRaises ==
  /\ pc = "factory"
  /\ pc' = "start" /\ k' = k + 1
  /\ UNCHANGED <<error, pass, failed, origin, app, registry, runtimes>>
FactoryRaises ==
  /\ pc = "factory"
  /\ Rollback("factory")
  /\ UNCHANGED <<app, registry, runtimes>>

\* ResourceRegistry.check_startup, which looks at no failure mode.
CheckStartup ==
  /\ pc = "check_startup"
  /\ Goto("enter") \/ Finally("check")
  /\ UNCHANGED <<app, registry, runtimes>>

\* The user's lifespan is entered; without one it never raises.
EnterLifespan ==
  /\ pc = "enter"
  /\ Goto("serving") \/ Finally("user")
  /\ UNCHANGED <<app, registry, runtimes>>

-----------------------------------------------------------------------------
(* Shutdown.                                                               *)

\* The server leaves the lifespan, or throws into it.
StopServing ==
  /\ pc = "serving"
  /\ pc' = "exit"
  /\ error' \in {"none", "body"}
  /\ UNCHANGED <<k, pass, failed, origin, app, registry, runtimes>>

\* The user's lifespan is left: it may raise, or swallow what was thrown.
ExitLifespan ==
  /\ pc = "exit"
  /\ \E e \in {error, "none", "user"} : Finally(e)
  /\ UNCHANGED <<app, registry, runtimes>>

Mut_PopInstance == instances
PopInstance == [instances EXCEPT ![k] = None]

Mut_PreviousOf(r) == r
Mut_StepsOver(r) == r - 2
\* the loop of close() goes over reversed(self.resources)
PreviousOf(r) == r - 1

Mut_OwnsRuntime == runtime # None /\ service_runtime = runtime
OwnsRuntime == runtime # None

Mut_RollbackError == IF failed THEN "group" ELSE error
\* the rollback's failures are a note on the error that start() re-raises
RollbackError == error

\* close(): the next declared resource that has an instance is popped and its
\* close begun.  Past the last one, a rollback's failures become a note and
\* start() re-raises into `finally'; a shutdown's become the error.
CloseNext ==
  /\ pc = "close"
  /\ \/ /\ k > 0 /\ instances[k] # None
        /\ value' = instances[k]
        /\ instances' = PopInstance
        /\ phase' = [phase EXCEPT ![k] = "closing"]
        /\ Goto("closing")
     \/ /\ k > 0 /\ instances[k] = None
        /\ k' = PreviousOf(k)
        /\ UNCHANGED <<instances, value, phase, pc, error, pass, failed, origin>>
     \/ /\ k = 0 /\ pass = "rollback"
        /\ Finally(RollbackError)
        /\ UNCHANGED <<instances, value, phase>>
     \/ /\ k = 0 /\ pass = "shutdown"
        /\ error' = IF failed THEN "group" ELSE error
        /\ pc' = IF OwnsRuntime THEN "close_runtime" ELSE "down"
        /\ UNCHANGED <<instances, value, phase, k, pass, failed, origin>>
  /\ released' = (released \/ (k = 0 /\ pass = "shutdown" /\ OwnsRuntime))
  /\ UNCHANGED <<app, specs, runtime, service_runtime, auth_provider>>

Mut_Bound(s, v) == s = OfValue(v) /\ ~failed
Mut_BoundToAny(s, v) == s.owner # "none"
\* The check is partial(resource.healthcheck, value) for this very value.
Bound(s, v) == s = OfValue(v)

Mut_Collect(how) == how # "closed"
Collect(how) == failed \/ how # "closed"

\* close() after its await: collect the failure, unregister the check.
Closed(how) ==
  /\ phase' = [phase EXCEPT ![k] = how]
  /\ failed' = Collect(how)
  /\ specs' = IF Bound(specs[k], value) THEN [specs EXCEPT ![k] = Spec0] ELSE specs
  /\ pc' = "close" /\ k' = PreviousOf(k)
  /\ UNCHANGED <<instances, value, error, pass, origin>>

CloseReturns ==
  /\ pc = "closing"
  /\ Closed("closed") \/ Closed("failed")
  /\ UNCHANGED <<app, runtimes>>

\* await app_runtime.close(); ServiceCloseError is logged and re-raised
CloseRuntime ==
  /\ pc = "close_runtime"
  /\ pc' = "down"
  /\ error' \in {error, "runtime"}
  /\ UNCHANGED <<k, pass, failed, origin, app, registry, runtimes>>

-----------------------------------------------------------------------------
(* Cancellation of the lifespan task, worker threads, application code.    *)

\* CancelledError is raised at the await.  A sync factory's thread goes on
\* "making" a value nobody will hold, a sync close's goes on closing
\* ("detached").
Cancel ==
  /\ Suspended /\ pc # "down" /\ cancels < MaxCancels
  /\ cancels' = cancels + 1
  /\ \/ /\ pc \in {"assemble", "check_runtime", "check_startup", "enter", "exit"}
        /\ Finally("cancelled")
        /\ UNCHANGED registry
     \/ /\ pc = "serving"
        /\ pc' = "exit" /\ error' = "cancelled"
        /\ UNCHANGED <<registry, k, pass, failed, origin>>
     \/ /\ pc = "factory"
        /\ Rollback("cancelled")
        /\ phase' = IF k \in SyncFactory THEN [phase EXCEPT ![k] = "making"] ELSE phase
        /\ UNCHANGED <<instances, value, specs>>
     \/ pc = "closing" /\ Closed(IF k \in SyncClose THEN "detached" ELSE "failed")
     \/ /\ pc = "close_runtime"
        /\ pc' = "down" /\ error' = "cancelled"
        /\ UNCHANGED <<registry, k, pass, failed, origin>>
  /\ UNCHANGED <<config, run, runtimes>>

\* A thread nobody awaits any more comes to its end: the close is over, or
\* the factory has made a value that is dropped, or it has raised.
ThreadEnds(r) ==
  /\ Suspended
  /\ \/ phase[r] = "detached" /\ phase' = [phase EXCEPT ![r] = "failed"]
     \/ phase[r] = "making" /\ \E p \in {"lost", "absent"} : phase' = [phase EXCEPT ![r] = p]
  /\ UNCHANGED <<app, pc, k, error, pass, failed, origin,
                 instances, value, specs, runtimes>>

\* Application code uses the readiness registry under its own names.
UserRegisters(n) ==
  /\ Suspended /\ specs[n].owner = "none"
  /\ specs' = [specs EXCEPT ![n] = OfUser]
  /\ UNCHANGED <<app, pc, k, error, pass, failed, origin,
                 instances, value, phase, runtimes>>

UserUnregisters(n) ==
  /\ Suspended /\ specs[n].owner # "none"
  /\ specs' = [specs EXCEPT ![n] = Spec0]
  /\ UNCHANGED <<app, pc, k, error, pass, failed, origin,
                 instances, value, phase, runtimes>>

-----------------------------------------------------------------------------
\* What the event loop and the callbacks' return drive.
Lifespan ==
  \/ AssembleRuntime \/ ConfigureRuntime \/ CheckRuntime \/ RequireAuth
  \/ StartResource \/ FactoryReturns \/ FactoryRaises \/ CheckStartup
  \/ EnterLifespan \/ ExitLifespan
  \/ CloseNext \/ CloseReturns \/ CloseRuntime

User == \E n \in UserNames : UserRegisters(n) \/ UserUnregisters(n)

Next ==
  \/ Begin
  \/ Lifespan
  \/ StopServing
  \/ Cancel
  \/ \E r \in Resources : ThreadEnds(r)
  \/ User

\* Every callback and every await of the framework comes to an end; nothing
\* makes the server begin or leave a lifespan.
Fairness == WF_vars(Lifespan)
Spec == Init /\ [][Next]_vars /\ Fairness

-----------------------------------------------------------------------------
(* What the lifespan guarantees.                                           *)

\* ResourceKey.dependency and require() give an instance of this lifespan
\* whose close has not begun, or nothing: close() pops before it awaits.
RegistryHoldsTheLive ==
  \A r \in Resources : instances[r] = IF phase[r] = "live" THEN run ELSE None

\* A resource's close begins only when those declared after it are through
\* with theirs, over both passes of a failed startup (SRS-LIFE-004, -006).
ReverseOrder ==
  \A r, s \in Resources :
    r < s /\ phase[r] \in Attempted => phase[s] \notin {"live", "closing"}

\* Readiness never runs a healthcheck on an instance whose close is over,
\* nor on one of an earlier lifespan (SRS-RES-007).
NoCheckOfTheClosed ==
  \A n \in Names : specs[n].owner = "resource" =>
    /\ n \in Resources
    /\ specs[n].run = run
    /\ phase[n] \in {"live", "closing"}

\* While the application serves, startup has been complete: all resources are
\* there and those with a healthcheck are watched (unless application code
\* meddled with the name), the runtime it assembled is the one requests see,
\* still open, and the auth router has its provider.
ServesComplete ==
  pc = "serving" =>
    /\ \A r \in Resources : instances[r] = run
    /\ \A r \in (Resources \cap Checked) \ UserNames : specs[r] = OfValue(run)
    /\ ~config.explicit => service_runtime = runtime /\ ~released
    /\ config.require_auth => auth_provider # None

\* A lifespan that ends without an exception has created every resource and
\* closed every one without a failure: nothing was lost on the way.
NoSilentFailure ==
  pc = "down" /\ run > 0 /\ error = "none" => \A r \in Resources : phase[r] = "closed"

\* What resources.start raised is what the server sees, whatever the rollback
\* raised; only the runtime's close can take its place (SRS-LIFE-006, -008).
StartupErrorKept ==
  pc = "down" /\ origin # "none" => error \in {origin, "runtime", "cancelled"}

\* When a lifespan is over, however it went, the registry is empty and the
\* runtime it used has been closed, even one that was never connected.
AllReleased ==
  pc = "down" =>
    /\ \A r \in Resources : instances[r] = None /\ phase[r] \notin {"live", "closing"}
    /\ runtime # None => released

\* The framework never drops or replaces a check application code registered,
\* not even one under the name of a resource it rolls back.
ForeignChecksKept ==
  [][\A n \in Names : specs[n] = OfUser /\ specs'[n] # OfUser => User]_vars

\* No instance has its close called twice, though a failed startup runs
\* close() twice over the registry.
ClosedOnce ==
  [][\A r \in Resources : phase[r] \in Attempted /\ phase'[r] = "closing"
                             => phase[r] = "closing"]_vars

\* Once release has begun, it ends, with nothing left open.
ReleaseCompletes ==
  (pc = "close") ~> (pc = "down" /\ \A r \in Resources : phase[r] \notin {"live", "closing"})

-----------------------------------------------------------------------------
\* The lifespan implements a scope that owns the resources and the runtime.
Stage ==
  CASE pc = "down" -> "idle"
    [] pc \in {"serving", "exit"} -> "use"
    [] pc \in {"close", "closing", "close_runtime"} -> "release"
    [] OTHER -> "acquire"
Held == {r \in Resources : instances[r] # None}
HoldsRuntime == runtime # None /\ ~released

Scope == INSTANCE OwnedScope WITH stage <- Stage, held <- Held, runtime <- HoldsRuntime

\* Every lifespan of the application is one opening and closing of that scope,
\* through every failure and cancellation (SRS-LIFE-001, -004, -005, -006).
ImplementsScope == Scope!Spec

-----------------------------------------------------------------------------
(* What the documents say and the code does not do.                        *)

\* SRS-LIFE-003: in REPORT mode a failed startup check is kept as a result and
\* startup goes on.
ReportKeepsStarting == config.report => error # "check"

\* SRS-AUTH-004: the auth_provider argument is the application's provider.
ExplicitProviderKept == config.custom_auth => auth_provider = Custom
=============================================================================
