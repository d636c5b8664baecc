----------------------- MODULE ManagedLifespan_proofs -----------------------
(***************************************************************************)
(* That the lifespan's invariants hold for every number of resources, every *)
(* choice of declarations and configurations, and any number of lifespans   *)
(* and cancellations.                                                       *)
(***************************************************************************)
EXTENDS ManagedLifespan, TLAPS

-----------------------------------------------------------------------------
(* The inductive invariant, by what each part of the code relies on.        *)

Quiet(r) == phase[r] \notin {"live", "closing"}

\* The loop of start() has made exactly the resources before its cursor.
StartedSoFar ==
  /\ pc \in {"assemble", "configure", "check_runtime", "auth"} =>
       \A r \in Resources : phase[r] = "absent"
  /\ pc \in {"start", "factory"} =>
       /\ k >= 1
       /\ \A r \in Resources : phase[r] = IF r < k THEN "live" ELSE "absent"
  /\ pc = "factory" => k <= N
  /\ pc \in {"check_startup", "enter", "serving", "exit"} =>
       \A r \in Resources : phase[r] = "live"

\* The loop of close() has dealt with all the resources past its cursor, and
\* at most the one at the cursor is being closed.
ClosedSoFar ==
  /\ pc \in {"close", "closing"} => k <= N /\ \A r \in Resources : r > k => Quiet(r)
  /\ pc = "closing" => k >= 1 /\ value = run /\ phase[k] = "closing"
  /\ \A r \in Resources : phase[r] = "closing" => pc = "closing" /\ r = k
  /\ pc \in {"close_runtime", "down"} => \A r \in Resources : Quiet(r)

\* An instance that left the loop of start() is still watched.
Watched ==
  /\ pc \in {"start", "factory"} =>
       \A r \in (Resources \cap Checked) \ UserNames : r < k => specs[r] = OfValue(run)
  /\ pc \in {"check_startup", "enter", "serving", "exit"} =>
       \A r \in (Resources \cap Checked) \ UserNames : specs[r] = OfValue(run)

\* The local app_runtime is open until the last step, and connected.
RuntimeInv ==
  /\ pc \notin {"down", "close_runtime"} => ~released
  /\ pc \in {"down", "close_runtime"} /\ runtime # None => released
  /\ pc \in {"configure", "check_runtime"} => runtime # None
  /\ pc = "check_runtime" => config.explicit
  /\ pc = "assemble" => runtime = None
  /\ pc \in {"auth", "start", "factory", "check_startup", "enter", "serving", "exit"} =>
       /\ runtime # None
       /\ config.explicit \/ service_runtime = runtime
  /\ pc \in {"start", "factory", "check_startup", "enter", "serving", "exit"} =>
       (config.require_auth => auth_provider # None)

\* Once release has begun, "none" propagates only if nothing has failed.
ErrorInv ==
  /\ pc \in {"close", "closing"} /\ error = "none" =>
       \A r \in Resources :
         phase[r] \in {"live", "closing", "closed"} \cup
                      (IF failed THEN {"failed", "detached"} ELSE {})
  /\ pc \in {"close_runtime", "down"} /\ error = "none" /\ run > 0 =>
       \A r \in Resources : phase[r] = "closed"

\* What start() raised: it propagates through both passes, and the second
\* finds nothing to close.
OriginInv ==
  /\ pc \notin {"close", "closing", "close_runtime", "down"} => origin = "none"
  /\ pc \in {"close", "closing"} /\ pass = "rollback" => origin # "none" /\ error = origin
  /\ pc \in {"close", "closing"} /\ pass = "shutdown" /\ origin # "none" =>
       /\ error = origin /\ ~failed
       /\ \A r \in Resources : Quiet(r)
  /\ pc = "close_runtime" /\ origin # "none" => error = origin

Begun == pc # "down" => run > 0

IInv ==
  /\ TypeOK /\ Begun
  /\ RegistryHoldsTheLive /\ ReverseOrder /\ NoCheckOfTheClosed
  /\ StartedSoFar /\ ClosedSoFar /\ Watched /\ RuntimeInv
  /\ ErrorInv /\ OriginInv /\ StartupErrorKept

-----------------------------------------------------------------------------
(* What a registered check is.                                              *)

\* The four kinds of registry entry have the registry's type.
LEMMA CheckTypes ==
  /\ Spec0 \in SpecType /\ OfUser \in SpecType
  /\ \A v \in 0 .. MaxRuns : OfValue(v) \in SpecType
  /\ \A r \in 0 .. Given : OfRuntime(r) \in SpecType
BY NAssumption DEF Spec0, OfUser, OfValue, OfRuntime, SpecType, None, Given

\* An entry tells whose it is and, for a resource's, of which instance.
LEMMA CheckOwners ==
  /\ Spec0.owner = "none" /\ OfUser.owner = "user"
  /\ \A v : OfValue(v).owner = "resource" /\ OfValue(v).run = v
  /\ \A r : OfRuntime(r).owner = "runtime"
BY DEF Spec0, OfUser, OfValue, OfRuntime

\* A check of a resource is known by its instance.
LEMMA CheckOfValue ==
  ASSUME NEW s \in SpecType, s.owner = "resource"
  PROVE  s = OfValue(s.run)
BY DEF SpecType, OfValue

-----------------------------------------------------------------------------
(* The initial states, then one lemma per step.                             *)

\* The state create_app leaves behind satisfies the invariant.
LEMMA InitInv == Init => IInv
<1> SUFFICES ASSUME Init PROVE IInv
  OBVIOUS
<1> USE NAssumption, ConfigsAssumption DEF Init
<1>1. FlagsOK
  BY DEF FlagsOK
<1>2. ControlOK /\ RegistryOK /\ RuntimeOK
  BY DEF ControlOK, RegistryOK, RuntimeOK, Points, Errors, Phases, None, Given, Custom
<1>3. ChecksOK
  BY CheckTypes DEF ChecksOK, Given
<1>4. NoCheckOfTheClosed
  BY CheckOwners DEF NoCheckOfTheClosed
<1> QED
  BY <1>1, <1>2, <1>3, <1>4 DEF IInv, TypeOK, Begun, RegistryHoldsTheLive, ReverseOrder,
    StartedSoFar, ClosedSoFar, Watched, RuntimeInv, ErrorInv, OriginInv, StartupErrorKept,
    Quiet, Attempted

\* A new lifespan finds nothing of the previous one.
LEMMA BeginInv == IInv /\ Begin => IInv'
<1> SUFFICES ASSUME IInv, Begin PROVE IInv'
  OBVIOUS
<1> USE NAssumption DEF IInv, Begin, app, registry, runtimes
<1>1. FlagsOK'
  BY DEF TypeOK, FlagsOK
<1>2. ControlOK'
  BY DEF TypeOK, ControlOK, Points, Errors, StartedSoFar, ClosedSoFar
<1>3. (RegistryOK /\ ChecksOK /\ RuntimeOK)'
  BY DEF TypeOK, ControlOK, Begun, RegistryOK, ChecksOK, RuntimeOK, Phases, Given, None
<1>4. (Begun /\ RegistryHoldsTheLive /\ ReverseOrder /\ NoCheckOfTheClosed)'
  BY DEF TypeOK, ControlOK, Begun, RegistryHoldsTheLive, ReverseOrder, NoCheckOfTheClosed, ClosedSoFar, Quiet, Attempted
<1>5. (StartedSoFar /\ ClosedSoFar /\ Watched)'
  BY DEF TypeOK, ControlOK, StartedSoFar, ClosedSoFar, Watched, Quiet, Resources
<1>6. (RuntimeInv /\ ErrorInv /\ OriginInv /\ StartupErrorKept)'
  BY DEF TypeOK, ControlOK, Begun, RuntimeInv, ErrorInv, OriginInv, StartupErrorKept, StartedSoFar, ClosedSoFar, Quiet, None, Given
<1> QED BY <1>1, <1>2, <1>3, <1>4, <1>5, <1>6 DEF TypeOK

\* assemble_runtime preserves the invariant, whether it returns or raises.
LEMMA AssembleRuntimeInv == IInv /\ AssembleRuntime => IInv'
<1> SUFFICES ASSUME IInv, AssembleRuntime PROVE IInv'
  OBVIOUS
<1> USE NAssumption DEF IInv, AssembleRuntime, Goto, Finally, app, registry, runtimes
<1>1. FlagsOK'
  BY DEF TypeOK, FlagsOK
<1>2. ControlOK'
  BY DEF TypeOK, ControlOK, Points, Errors, StartedSoFar, ClosedSoFar
<1>3. (RegistryOK /\ ChecksOK /\ RuntimeOK)'
  BY DEF TypeOK, ControlOK, Begun, RegistryOK, ChecksOK, RuntimeOK, Phases, Given, None
<1>4. (Begun /\ RegistryHoldsTheLive /\ ReverseOrder /\ NoCheckOfTheClosed)'
  BY DEF TypeOK, ControlOK, Begun, RegistryHoldsTheLive, ReverseOrder, NoCheckOfTheClosed, ClosedSoFar, Quiet, Attempted
<1>5. (StartedSoFar /\ ClosedSoFar /\ Watched)'
  BY DEF TypeOK, ControlOK, StartedSoFar, ClosedSoFar, Watched, Quiet, Resources
<1>6. (RuntimeInv /\ ErrorInv /\ OriginInv /\ StartupErrorKept)'
  BY DEF TypeOK, ControlOK, Begun, RuntimeInv, ErrorInv, OriginInv, StartupErrorKept, StartedSoFar, ClosedSoFar, Quiet, None, Given
<1> QED BY <1>1, <1>2, <1>3, <1>4, <1>5, <1>6 DEF TypeOK

\* The startup check of an explicit runtime preserves the invariant.
LEMMA CheckRuntimeInv == IInv /\ CheckRuntime => IInv'
<1> SUFFICES ASSUME IInv, CheckRuntime PROVE IInv'
  OBVIOUS
<1> USE NAssumption DEF IInv, CheckRuntime, Goto, Finally, app, registry, runtimes
<1>1. FlagsOK'
  BY DEF TypeOK, FlagsOK
<1>2. ControlOK'
  BY DEF TypeOK, ControlOK, Points, Errors, StartedSoFar, ClosedSoFar
<1>3. (RegistryOK /\ ChecksOK /\ RuntimeOK)'
  BY DEF TypeOK, ControlOK, Begun, RegistryOK, ChecksOK, RuntimeOK, Phases, Given, None
<1>4. (Begun /\ RegistryHoldsTheLive /\ ReverseOrder /\ NoCheckOfTheClosed)'
  BY DEF TypeOK, ControlOK, Begun, RegistryHoldsTheLive, ReverseOrder, NoCheckOfTheClosed, ClosedSoFar, Quiet, Attempted
<1>5. (StartedSoFar /\ ClosedSoFar /\ Watched)'
  BY DEF TypeOK, ControlOK, StartedSoFar, ClosedSoFar, Watched, Quiet, Resources
<1>6. (RuntimeInv /\ ErrorInv /\ OriginInv /\ StartupErrorKept)'
  BY DEF TypeOK, ControlOK, Begun, RuntimeInv, ErrorInv, OriginInv, StartupErrorKept, StartedSoFar, ClosedSoFar, Quiet, None, Given
<1> QED BY <1>1, <1>2, <1>3, <1>4, <1>5, <1>6 DEF TypeOK

\* The check for an auth provider preserves the invariant.
LEMMA RequireAuthInv == IInv /\ RequireAuth => IInv'
<1> SUFFICES ASSUME IInv, RequireAuth PROVE IInv'
  OBVIOUS
<1> USE NAssumption DEF IInv, RequireAuth, Finally, app, registry, runtimes
<1>1. FlagsOK'
  BY DEF TypeOK, FlagsOK
<1>2. ControlOK'
  BY DEF TypeOK, ControlOK, Points, Errors, StartedSoFar, ClosedSoFar
<1>3. (RegistryOK /\ ChecksOK /\ RuntimeOK)'
  BY DEF TypeOK, ControlOK, Begun, RegistryOK, ChecksOK, RuntimeOK, Phases, Given, None
<1>4. (Begun /\ RegistryHoldsTheLive /\ ReverseOrder /\ NoCheckOfTheClosed)'
  BY DEF TypeOK, ControlOK, Begun, RegistryHoldsTheLive, ReverseOrder, NoCheckOfTheClosed, ClosedSoFar, Quiet, Attempted
<1>5. (StartedSoFar /\ ClosedSoFar /\ Watched)'
  BY DEF TypeOK, ControlOK, StartedSoFar, ClosedSoFar, Watched, Quiet, Resources
<1>6. (RuntimeInv /\ ErrorInv /\ OriginInv /\ StartupErrorKept)'
  BY DEF TypeOK, ControlOK, Begun, RuntimeInv, ErrorInv, OriginInv, StartupErrorKept, StartedSoFar, ClosedSoFar, Quiet, None, Given
<1> QED BY <1>1, <1>2, <1>3, <1>4, <1>5, <1>6 DEF TypeOK

\* The head of start()'s loop preserves the invariant.
LEMMA StartResourceInv == IInv /\ StartResource => IInv'
<1> SUFFICES ASSUME IInv, StartResource PROVE IInv'
  OBVIOUS
<1> USE NAssumption DEF IInv, StartResource, Goto, app, registry, runtimes
<1>1. FlagsOK'
  BY DEF TypeOK, FlagsOK
<1>2. ControlOK'
  BY DEF TypeOK, ControlOK, Points, Errors, StartedSoFar, ClosedSoFar
<1>3. (RegistryOK /\ ChecksOK /\ RuntimeOK)'
  BY DEF TypeOK, ControlOK, Begun, RegistryOK, ChecksOK, RuntimeOK, Phases, Given, None
<1>4. (Begun /\ RegistryHoldsTheLive /\ ReverseOrder /\ NoCheckOfTheClosed)'
  BY DEF TypeOK, ControlOK, Begun, RegistryHoldsTheLive, ReverseOrder, NoCheckOfTheClosed, ClosedSoFar, Quiet, Attempted
<1>5. (StartedSoFar /\ ClosedSoFar /\ Watched)'
  BY DEF TypeOK, ControlOK, StartedSoFar, ClosedSoFar, Watched, Quiet, Resources
<1>6. (RuntimeInv /\ ErrorInv /\ OriginInv /\ StartupErrorKept)'
  BY DEF TypeOK, ControlOK, Begun, RuntimeInv, ErrorInv, OriginInv, StartupErrorKept, StartedSoFar, ClosedSoFar, Quiet, None, Given
<1> QED BY <1>1, <1>2, <1>3, <1>4, <1>5, <1>6 DEF TypeOK

\* A failing factory preserves the invariant: rollback begins.
LEMMA FactoryRaisesInv == IInv /\ FactoryRaises => IInv'
<1> SUFFICES ASSUME IInv, FactoryRaises PROVE IInv'
  OBVIOUS
<1> USE NAssumption DEF IInv, FactoryRaises, Rollback, RollbackFrom, app, registry, runtimes
<1>1. FlagsOK'
  BY DEF TypeOK, FlagsOK
<1>2. ControlOK'
  BY DEF TypeOK, ControlOK, Points, Errors, StartedSoFar, ClosedSoFar
<1>3. (RegistryOK /\ ChecksOK /\ RuntimeOK)'
  BY DEF TypeOK, ControlOK, Begun, RegistryOK, ChecksOK, RuntimeOK, Phases, Given, None
<1>4. (Begun /\ RegistryHoldsTheLive /\ ReverseOrder /\ NoCheckOfTheClosed)'
  BY DEF TypeOK, ControlOK, Begun, RegistryHoldsTheLive, ReverseOrder, NoCheckOfTheClosed, ClosedSoFar, Quiet, Attempted
<1>5. (StartedSoFar /\ ClosedSoFar /\ Watched)'
  BY DEF TypeOK, ControlOK, StartedSoFar, ClosedSoFar, Watched, Quiet, Resources
<1>6. (RuntimeInv /\ ErrorInv /\ OriginInv /\ StartupErrorKept)'
  BY DEF TypeOK, ControlOK, Begun, RuntimeInv, ErrorInv, OriginInv, StartupErrorKept, StartedSoFar, ClosedSoFar, Quiet, None, Given
<1> QED BY <1>1, <1>2, <1>3, <1>4, <1>5, <1>6 DEF TypeOK

\* check_startup preserves the invariant.
LEMMA CheckStartupInv == IInv /\ CheckStartup => IInv'
<1> SUFFICES ASSUME IInv, CheckStartup PROVE IInv'
  OBVIOUS
<1> USE NAssumption DEF IInv, CheckStartup, Goto, Finally, app, registry, runtimes
<1>1. FlagsOK'
  BY DEF TypeOK, FlagsOK
<1>2. ControlOK'
  BY DEF TypeOK, ControlOK, Points, Errors, StartedSoFar, ClosedSoFar
<1>3. (RegistryOK /\ ChecksOK /\ RuntimeOK)'
  BY DEF TypeOK, ControlOK, Begun, RegistryOK, ChecksOK, RuntimeOK, Phases, Given, None
<1>4. (Begun /\ RegistryHoldsTheLive /\ ReverseOrder /\ NoCheckOfTheClosed)'
  BY DEF TypeOK, ControlOK, Begun, RegistryHoldsTheLive, ReverseOrder, NoCheckOfTheClosed, ClosedSoFar, Quiet, Attempted
<1>5. (StartedSoFar /\ ClosedSoFar /\ Watched)'
  BY DEF TypeOK, ControlOK, StartedSoFar, ClosedSoFar, Watched, Quiet, Resources
<1>6. (RuntimeInv /\ ErrorInv /\ OriginInv /\ StartupErrorKept)'
  BY DEF TypeOK, ControlOK, Begun, RuntimeInv, ErrorInv, OriginInv, StartupErrorKept, StartedSoFar, ClosedSoFar, Quiet, None, Given
<1> QED BY <1>1, <1>2, <1>3, <1>4, <1>5, <1>6 DEF TypeOK

\* Entering the user's lifespan preserves the invariant.
LEMMA EnterLifespanInv == IInv /\ EnterLifespan => IInv'
<1> SUFFICES ASSUME IInv, EnterLifespan PROVE IInv'
  OBVIOUS
<1> USE NAssumption DEF IInv, EnterLifespan, Goto, Finally, app, registry, runtimes
<1>1. FlagsOK'
  BY DEF TypeOK, FlagsOK
<1>2. ControlOK'
  BY DEF TypeOK, ControlOK, Points, Errors, StartedSoFar, ClosedSoFar
<1>3. (RegistryOK /\ ChecksOK /\ RuntimeOK)'
  BY DEF TypeOK, ControlOK, Begun, RegistryOK, ChecksOK, RuntimeOK, Phases, Given, None
<1>4. (Begun /\ RegistryHoldsTheLive /\ ReverseOrder /\ NoCheckOfTheClosed)'
  BY DEF TypeOK, ControlOK, Begun, RegistryHoldsTheLive, ReverseOrder, NoCheckOfTheClosed, ClosedSoFar, Quiet, Attempted
<1>5. (StartedSoFar /\ ClosedSoFar /\ Watched)'
  BY DEF TypeOK, ControlOK, StartedSoFar, ClosedSoFar, Watched, Quiet, Resources
<1>6. (RuntimeInv /\ ErrorInv /\ OriginInv /\ StartupErrorKept)'
  BY DEF TypeOK, ControlOK, Begun, RuntimeInv, ErrorInv, OriginInv, StartupErrorKept, StartedSoFar, ClosedSoFar, Quiet, None, Given
<1> QED BY <1>1, <1>2, <1>3, <1>4, <1>5, <1>6 DEF TypeOK

\* The end of serving preserves the invariant.
LEMMA StopServingInv == IInv /\ StopServing => IInv'
<1> SUFFICES ASSUME IInv, StopServing PROVE IInv'
  OBVIOUS
<1> USE NAssumption DEF IInv, StopServing, app, registry, runtimes
<1>1. FlagsOK'
  BY DEF TypeOK, FlagsOK
<1>2. ControlOK'
  BY DEF TypeOK, ControlOK, Points, Errors, StartedSoFar, ClosedSoFar
<1>3. (RegistryOK /\ ChecksOK /\ RuntimeOK)'
  BY DEF TypeOK, ControlOK, Begun, RegistryOK, ChecksOK, RuntimeOK, Phases, Given, None
<1>4. (Begun /\ RegistryHoldsTheLive /\ ReverseOrder /\ NoCheckOfTheClosed)'
  BY DEF TypeOK, ControlOK, Begun, RegistryHoldsTheLive, ReverseOrder, NoCheckOfTheClosed, ClosedSoFar, Quiet, Attempted
<1>5. (StartedSoFar /\ ClosedSoFar /\ Watched)'
  BY DEF TypeOK, ControlOK, StartedSoFar, ClosedSoFar, Watched, Quiet, Resources
<1>6. (RuntimeInv /\ ErrorInv /\ OriginInv /\ StartupErrorKept)'
  BY DEF TypeOK, ControlOK, Begun, RuntimeInv, ErrorInv, OriginInv, StartupErrorKept, StartedSoFar, ClosedSoFar, Quiet, None, Given
<1> QED BY <1>1, <1>2, <1>3, <1>4, <1>5, <1>6 DEF TypeOK

\* Leaving the user's lifespan preserves the invariant.
LEMMA ExitLifespanInv == IInv /\ ExitLifespan => IInv'
<1> SUFFICES ASSUME IInv, ExitLifespan PROVE IInv'
  OBVIOUS
<1> USE NAssumption DEF IInv, ExitLifespan, Finally, app, registry, runtimes
<1>1. FlagsOK'
  BY DEF TypeOK, FlagsOK
<1>2. ControlOK'
  BY DEF TypeOK, ControlOK, Points, Errors, StartedSoFar, ClosedSoFar
<1>3. (RegistryOK /\ ChecksOK /\ RuntimeOK)'
  BY DEF TypeOK, ControlOK, Begun, RegistryOK, ChecksOK, RuntimeOK, Phases, Given, None
<1>4. (Begun /\ RegistryHoldsTheLive /\ ReverseOrder /\ NoCheckOfTheClosed)'
  BY DEF TypeOK, ControlOK, Begun, RegistryHoldsTheLive, ReverseOrder, NoCheckOfTheClosed, ClosedSoFar, Quiet, Attempted
<1>5. (StartedSoFar /\ ClosedSoFar /\ Watched)'
  BY DEF TypeOK, ControlOK, StartedSoFar, ClosedSoFar, Watched, Quiet, Resources
<1>6. (RuntimeInv /\ ErrorInv /\ OriginInv /\ StartupErrorKept)'
  BY DEF TypeOK, ControlOK, Begun, RuntimeInv, ErrorInv, OriginInv, StartupErrorKept, StartedSoFar, ClosedSoFar, Quiet, None, Given
<1> QED BY <1>1, <1>2, <1>3, <1>4, <1>5, <1>6 DEF TypeOK

\* The runtime's close preserves the invariant.
LEMMA CloseRuntimeInv == IInv /\ CloseRuntime => IInv'
<1> SUFFICES ASSUME IInv, CloseRuntime PROVE IInv'
  OBVIOUS
<1> USE NAssumption DEF IInv, CloseRuntime, app, registry, runtimes
<1>1. FlagsOK'
  BY DEF TypeOK, FlagsOK
<1>2. ControlOK'
  BY DEF TypeOK, ControlOK, Points, Errors, StartedSoFar, ClosedSoFar
<1>3. (RegistryOK /\ ChecksOK /\ RuntimeOK)'
  BY DEF TypeOK, ControlOK, Begun, RegistryOK, ChecksOK, RuntimeOK, Phases, Given, None
<1>4. (Begun /\ RegistryHoldsTheLive /\ ReverseOrder /\ NoCheckOfTheClosed)'
  BY DEF TypeOK, ControlOK, Begun, RegistryHoldsTheLive, ReverseOrder, NoCheckOfTheClosed, ClosedSoFar, Quiet, Attempted
<1>5. (StartedSoFar /\ ClosedSoFar /\ Watched)'
  BY DEF TypeOK, ControlOK, StartedSoFar, ClosedSoFar, Watched, Quiet, Resources
<1>6. (RuntimeInv /\ ErrorInv /\ OriginInv /\ StartupErrorKept)'
  BY DEF TypeOK, ControlOK, Begun, RuntimeInv, ErrorInv, OriginInv, StartupErrorKept, StartedSoFar, ClosedSoFar, Quiet, None, Given
<1> QED BY <1>1, <1>2, <1>3, <1>4, <1>5, <1>6 DEF TypeOK

\* configure_service_runtime replaces no check of a resource.
LEMMA ConfigureRuntimeInv == IInv /\ ConfigureRuntime => IInv'
<1> SUFFICES ASSUME IInv, ConfigureRuntime PROVE IInv'
  OBVIOUS
<1> USE NAssumption DEF IInv, ConfigureRuntime, Goto, Finally, app
<1>1. FlagsOK'
  BY DEF TypeOK, FlagsOK
<1>2. ControlOK'
  BY DEF TypeOK, ControlOK, Points, Errors, StartedSoFar, ClosedSoFar
<1>3. (RegistryOK /\ RuntimeOK)'
  BY DEF TypeOK, RegistryOK, RuntimeOK, Given, Custom
<1>4. ChecksOK'
  BY CheckTypes DEF TypeOK, ChecksOK, RuntimeOK
<1>5. NoCheckOfTheClosed'
  BY CheckOwners DEF TypeOK, ControlOK, ChecksOK, NoCheckOfTheClosed
<1>6. (Begun /\ RegistryHoldsTheLive /\ ReverseOrder)'
  BY DEF TypeOK, ControlOK, Begun, RegistryHoldsTheLive, ReverseOrder, Attempted
<1>7. (StartedSoFar /\ ClosedSoFar /\ Watched)'
  BY DEF TypeOK, ControlOK, StartedSoFar, ClosedSoFar, Watched, Quiet, Resources
<1>8. (RuntimeInv /\ ErrorInv /\ OriginInv /\ StartupErrorKept)'
  BY DEF RuntimeInv, ErrorInv, OriginInv, StartupErrorKept, StartedSoFar
<1> QED BY <1>1, <1>2, <1>3, <1>4, <1>5, <1>6, <1>7, <1>8 DEF TypeOK

\* A factory's result extends the started prefix by one, watched if checked.
LEMMA FactoryReturnsInv == IInv /\ FactoryReturns => IInv'
<1> SUFFICES ASSUME IInv, FactoryReturns PROVE IInv'
  OBVIOUS
<1> USE NAssumption DEF IInv, FactoryReturns, Rollback, RollbackFrom, app, runtimes
<1>0. /\ k \in Resources /\ run \in 0 .. MaxRuns /\ run > 0
      /\ instances \in [Resources -> 0 .. MaxRuns] /\ phase \in [Resources -> Phases]
      /\ specs \in [Names -> SpecType] /\ k \in Names
  BY DEF TypeOK, ControlOK, RegistryOK, ChecksOK, Begun, StartedSoFar, Resources, Names
<1>1. FlagsOK'
  BY DEF TypeOK, FlagsOK
<1>2. ControlOK'
  BY DEF TypeOK, ControlOK, Points, Errors, StartedSoFar
<1>3. (RegistryOK /\ RuntimeOK)'
  BY <1>0 DEF TypeOK, RegistryOK, RuntimeOK, Phases
<1>4. ChecksOK'
  BY <1>0, CheckTypes DEF ChecksOK
<1>5. NoCheckOfTheClosed'
  <2> SUFFICES ASSUME NEW n \in Names, specs'[n].owner = "resource"
               PROVE  n \in Resources /\ specs'[n].run = run' /\ phase'[n] \in {"live", "closing"}
    BY DEF NoCheckOfTheClosed
  <2>1. specs'[n] = specs[n] \/ (n = k /\ specs'[n] = OfValue(run))
    BY <1>0
  <2> QED BY <1>0, <2>1, CheckOwners DEF NoCheckOfTheClosed
<1>6. (Begun /\ RegistryHoldsTheLive /\ ReverseOrder)'
  BY <1>0 DEF Begun, RegistryHoldsTheLive, ReverseOrder, StartedSoFar, Attempted
<1>7. (StartedSoFar /\ ClosedSoFar)'
  BY <1>0 DEF StartedSoFar, ClosedSoFar, Quiet, Resources
<1>8. Watched'
  <2>1. CASE pc' = "start"
    <3> SUFFICES ASSUME NEW r \in (Resources \cap Checked) \ UserNames, r < k + 1
                 PROVE  specs'[r] = OfValue(run)
      BY <2>1 DEF Watched
    <3>1. CASE r = k
      BY <1>0, <2>1, <3>1
    <3>2. CASE r # k
      <4>1. r < k
        BY <1>0, <3>2 DEF Resources
      <4>2. specs[r] = OfValue(run)
        BY <4>1 DEF Watched
      <4>3. specs'[r] = specs[r]
        BY <1>0, <2>1, <3>2 DEF Names
      <4> QED BY <4>2, <4>3
    <3> QED BY <3>1, <3>2
  <2>2. CASE pc' # "start"
    BY <2>2 DEF Watched
  <2> QED BY <2>1, <2>2
<1>9. (RuntimeInv /\ ErrorInv /\ OriginInv /\ StartupErrorKept)'
  BY DEF RuntimeInv, ErrorInv, OriginInv, StartupErrorKept
<1> QED BY <1>1, <1>2, <1>3, <1>4, <1>5, <1>6, <1>7, <1>8, <1>9 DEF TypeOK

\* The head of close()'s loop, and what follows its end, for both passes.
LEMMA CloseNextInv == IInv /\ CloseNext => IInv'
<1> SUFFICES ASSUME IInv, CloseNext PROVE IInv'
  OBVIOUS
<1> USE NAssumption DEF IInv, app
<1>0. /\ pc = "close" /\ k \in 0 .. N /\ run > 0 /\ ~released
      /\ instances \in [Resources -> 0 .. MaxRuns] /\ phase \in [Resources -> Phases]
      /\ \A r \in Resources : phase[r] # "closing" /\ (r > k => phase[r] # "live")
      /\ UNCHANGED <<config, run, cancels, specs, runtime, service_runtime, auth_provider>>
  BY DEF CloseNext, TypeOK, ControlOK, RegistryOK, Begun, ClosedSoFar, Quiet, RuntimeInv
<1>1. CASE k > 0 /\ instances[k] # None
  <2>0. /\ k \in Resources /\ phase[k] = "live" /\ instances[k] = run
        /\ value' = run /\ instances' = [instances EXCEPT ![k] = None]
        /\ phase' = [phase EXCEPT ![k] = "closing"]
        /\ pc' = "closing" /\ UNCHANGED <<k, error, pass, failed, origin>>
    <3>1. k \in Resources
      BY <1>0, <1>1 DEF Resources
    <3>2. phase[k] = "live" /\ instances[k] = run
      BY <1>1, <3>1 DEF RegistryHoldsTheLive
    <3> QED BY <1>0, <1>1, <3>1, <3>2 DEF CloseNext, Goto, PopInstance
  <2>a. ~released' /\ released' \in BOOLEAN
    <3>1. k # 0
      BY <1>1
    <3> QED BY <1>0, <3>1 DEF CloseNext
  <2>1. FlagsOK' /\ ControlOK'
    <3>1. FlagsOK'
      BY <2>0, <2>a DEF TypeOK, FlagsOK
    <3>2. ControlOK'
      BY <1>0, <2>0 DEF TypeOK, ControlOK, Points
    <3> QED BY <3>1, <3>2
  <2>2. (RegistryOK /\ ChecksOK /\ RuntimeOK)'
    BY <1>0, <2>0 DEF TypeOK, ControlOK, RegistryOK, ChecksOK, RuntimeOK, Phases, None
  <2>3. (Begun /\ RegistryHoldsTheLive /\ ReverseOrder /\ NoCheckOfTheClosed)'
    BY <1>0, <2>0 DEF Begun, RegistryHoldsTheLive, ReverseOrder, NoCheckOfTheClosed, Attempted,
      Resources
  <2>4. (StartedSoFar /\ ClosedSoFar /\ Watched)'
    BY <1>0, <2>0 DEF StartedSoFar, ClosedSoFar, Watched, Quiet, Resources
  <2>5. (RuntimeInv /\ ErrorInv /\ OriginInv /\ StartupErrorKept)'
    BY <1>0, <2>0, <2>a DEF RuntimeInv, ErrorInv, OriginInv, StartupErrorKept, Quiet
  <2> QED BY <2>1, <2>2, <2>3, <2>4, <2>5 DEF TypeOK
<1>2. CASE k > 0 /\ instances[k] = None
  <2>0. /\ k \in Resources /\ phase[k] # "live" /\ k' = k - 1
        /\ UNCHANGED <<instances, value, phase, pc, error, pass, failed, origin>>
    <3>1. k \in Resources
      BY <1>0, <1>2 DEF Resources
    <3>2. phase[k] # "live"
      BY <1>0, <1>2, <3>1 DEF RegistryHoldsTheLive, None
    <3> QED BY <1>0, <1>2, <3>1, <3>2 DEF CloseNext, PreviousOf
  <2>a. ~released' /\ released' \in BOOLEAN
    <3>1. k # 0
      BY <1>2
    <3> QED BY <1>0, <3>1 DEF CloseNext
  <2>1. FlagsOK' /\ ControlOK'
    <3>1. FlagsOK'
      BY <2>0, <2>a DEF TypeOK, FlagsOK
    <3>2. ControlOK'
      BY <1>0, <2>0 DEF TypeOK, ControlOK, Resources
    <3> QED BY <3>1, <3>2
  <2>2. (RegistryOK /\ ChecksOK /\ RuntimeOK)'
    BY <1>0, <2>0 DEF TypeOK, RegistryOK, ChecksOK, RuntimeOK
  <2>3. (Begun /\ RegistryHoldsTheLive /\ ReverseOrder /\ NoCheckOfTheClosed)'
    BY <1>0, <2>0 DEF Begun, RegistryHoldsTheLive, ReverseOrder, NoCheckOfTheClosed
  <2>4. (StartedSoFar /\ ClosedSoFar /\ Watched)'
    BY <1>0, <2>0 DEF StartedSoFar, ClosedSoFar, Watched, Quiet, Resources
  <2>5. (RuntimeInv /\ ErrorInv /\ OriginInv /\ StartupErrorKept)'
    BY <1>0, <2>0, <2>a DEF RuntimeInv, ErrorInv, OriginInv, StartupErrorKept, Quiet
  <2> QED BY <2>1, <2>2, <2>3, <2>4, <2>5 DEF TypeOK
<1>3. CASE k = 0 /\ pass = "rollback"
  <2>0. /\ k' = N /\ pass' = "shutdown" /\ failed' = FALSE /\ pc' = "close"
        /\ UNCHANGED <<instances, value, phase, error, origin>>
    BY <1>0, <1>3 DEF CloseNext, Finally, RollbackError
  <2>a. ~released' /\ released' \in BOOLEAN
    BY <1>0, <1>3 DEF CloseNext
  <2>1. \A r \in Resources : Quiet(r)
    BY <1>0, <1>3 DEF Quiet, Resources
  <2>2. FlagsOK'
    BY <2>0, <2>a DEF TypeOK, FlagsOK
  <2>3. (ControlOK /\ RegistryOK /\ ChecksOK /\ RuntimeOK)'
    BY <1>0, <2>0 DEF TypeOK, ControlOK, RegistryOK, ChecksOK, RuntimeOK
  <2>4. (Begun /\ RegistryHoldsTheLive /\ ReverseOrder /\ NoCheckOfTheClosed)'
    BY <1>0, <2>0 DEF Begun, RegistryHoldsTheLive, ReverseOrder, NoCheckOfTheClosed
  <2>5. (StartedSoFar /\ ClosedSoFar /\ Watched)'
    BY <1>0, <2>0, <2>1 DEF StartedSoFar, ClosedSoFar, Watched, Quiet, Resources
  <2>6. (RuntimeInv /\ ErrorInv /\ OriginInv /\ StartupErrorKept)'
    BY <1>0, <1>3, <2>0, <2>1, <2>a DEF RuntimeInv, ErrorInv, OriginInv, StartupErrorKept, Quiet
  <2> QED BY <2>2, <2>3, <2>4, <2>5, <2>6 DEF TypeOK
<1>4. CASE k = 0 /\ pass = "shutdown"
  <2>0. /\ error' = IF failed THEN "group" ELSE error
        /\ pc' = IF runtime # None THEN "close_runtime" ELSE "down"
        /\ released' = (runtime # None)
        /\ UNCHANGED <<k, pass, failed, origin, instances, value, phase>>
    BY <1>0, <1>4 DEF CloseNext, OwnsRuntime
  <2>1. \A r \in Resources : Quiet(r)
    BY <1>0, <1>4 DEF Quiet, Resources
  <2>2. FlagsOK'
    BY <1>0, <2>0 DEF TypeOK, FlagsOK
  <2>3. (ControlOK /\ RegistryOK /\ ChecksOK /\ RuntimeOK)'
    BY <1>0, <2>0 DEF TypeOK, ControlOK, RegistryOK, ChecksOK, RuntimeOK, Points, Errors
  <2>4. (Begun /\ RegistryHoldsTheLive /\ ReverseOrder /\ NoCheckOfTheClosed)'
    BY <1>0, <2>0 DEF Begun, RegistryHoldsTheLive, ReverseOrder, NoCheckOfTheClosed
  <2>5. (StartedSoFar /\ ClosedSoFar /\ Watched)'
    BY <1>0, <2>0, <2>1 DEF StartedSoFar, ClosedSoFar, Watched, Quiet, Resources
  <2>6. RuntimeInv'
    BY <1>0, <2>0 DEF RuntimeInv
  <2>7. (ErrorInv /\ OriginInv /\ StartupErrorKept)'
    BY <1>0, <1>4, <2>0, <2>1 DEF ErrorInv, OriginInv, StartupErrorKept, Quiet
  <2> QED BY <2>2, <2>3, <2>4, <2>5, <2>6, <2>7 DEF TypeOK
<1> QED
  BY <1>0, <1>1, <1>2, <1>3, <1>4 DEF TypeOK, ControlOK

\* The end of an iteration of close(), whether its await returned, raised or
\* was cancelled.
LEMMA ClosedInv ==
  ASSUME IInv, pc = "closing", NEW how \in {"closed", "failed", "detached"}, Closed(how),
         UNCHANGED <<config, run, runtimes>>, cancels' \in 0 .. MaxCancels
  PROVE  IInv'
<1> USE NAssumption DEF IInv, runtimes
<1>0. /\ k \in Resources /\ k <= N /\ value = run /\ phase[k] = "closing" /\ k' = k - 1
      /\ pc' = "close" /\ UNCHANGED <<instances, value, error, pass, origin>>
      /\ failed' = (failed \/ how # "closed")
      /\ phase \in [Resources -> Phases] /\ phase' = [phase EXCEPT ![k] = how]
      /\ \A r \in Resources : r # k => phase[r] # "closing"
      /\ \A r \in Resources : r > k => phase[r] # "live"
      /\ instances[k] = None /\ k \in Names
      /\ specs \in [Names -> SpecType]
      /\ specs' = IF specs[k] = OfValue(run) THEN [specs EXCEPT ![k] = Spec0] ELSE specs
  BY DEF TypeOK, ControlOK, RegistryOK, ChecksOK, Closed, Collect, PreviousOf, Bound, ClosedSoFar,
    Quiet, RegistryHoldsTheLive, Resources, Names
<1>1. FlagsOK'
  BY <1>0 DEF TypeOK, FlagsOK
<1>2. (ControlOK /\ RegistryOK /\ RuntimeOK)'
  BY <1>0 DEF TypeOK, ControlOK, RegistryOK, RuntimeOK, Points, Phases, Resources
<1>3. ChecksOK'
  BY <1>0, CheckTypes DEF ChecksOK
<1>4. NoCheckOfTheClosed'
  <2> SUFFICES ASSUME NEW n \in Names, specs'[n].owner = "resource"
               PROVE  n \in Resources /\ specs'[n].run = run' /\ phase'[n] \in {"live", "closing"}
    BY DEF NoCheckOfTheClosed
  <2>1. specs'[n] = specs[n]
    BY <1>0, CheckOwners
  <2>2. n # k
    BY <1>0, <2>1, CheckOwners, CheckOfValue DEF NoCheckOfTheClosed
  <2> QED BY <1>0, <2>1, <2>2 DEF NoCheckOfTheClosed
<1>5. (Begun /\ RegistryHoldsTheLive /\ ReverseOrder)'
  BY <1>0 DEF Begun, RegistryHoldsTheLive, ReverseOrder, Attempted, Resources
<1>6. (StartedSoFar /\ ClosedSoFar /\ Watched)'
  BY <1>0 DEF StartedSoFar, ClosedSoFar, Watched, Quiet, Resources
<1>7. (RuntimeInv /\ StartupErrorKept)'
  BY <1>0 DEF RuntimeInv, StartupErrorKept
<1>8. ErrorInv'
  BY <1>0 DEF ErrorInv
<1>9. OriginInv'
  BY <1>0 DEF OriginInv, Quiet
<1> QED BY <1>1, <1>2, <1>3, <1>4, <1>5, <1>6, <1>7, <1>8, <1>9 DEF TypeOK

\* A close that returned or raised preserves the invariant.
LEMMA CloseReturnsInv == IInv /\ CloseReturns => IInv'
BY ClosedInv DEF CloseReturns, app, IInv, TypeOK, ControlOK

\* A cancellation preserves the invariant at every await.
LEMMA CancelInv == IInv /\ Cancel => IInv'
<1> SUFFICES ASSUME IInv, Cancel PROVE IInv'
  OBVIOUS
<1>0. cancels' \in 0 .. MaxCancels /\ UNCHANGED <<config, run, runtimes>>
  BY NAssumption DEF Cancel, IInv, TypeOK, ControlOK
<1>1. CASE pc = "closing"
  BY <1>0, <1>1, ClosedInv DEF Cancel
<1>2. CASE pc # "closing"
  <2> USE NAssumption, <1>0, <1>2 DEF IInv, Cancel, Suspended, Finally, Rollback, RollbackFrom,
        registry, runtimes
  <2>1. FlagsOK'
    BY DEF TypeOK, FlagsOK
  <2>2. ControlOK'
    BY DEF TypeOK, ControlOK, Points, Errors
  <2>3. (RegistryOK /\ ChecksOK /\ RuntimeOK)'
    BY DEF TypeOK, RegistryOK, ChecksOK, RuntimeOK, Phases
  <2>4. Begun' /\ RegistryHoldsTheLive'
    <3>1. Begun' /\ instances' = instances /\ run' = run
      BY DEF Begun
    <3>2. \A r \in Resources : phase'[r] = phase[r] \/ (phase[r] = "absent" /\ phase'[r] = "making")
      BY DEF TypeOK, ControlOK, RegistryOK, StartedSoFar, Resources
    <3> QED BY <3>1, <3>2 DEF RegistryHoldsTheLive
  <2>8. ReverseOrder'
    BY DEF TypeOK, RegistryOK, ReverseOrder, StartedSoFar, Attempted
  <2>7. NoCheckOfTheClosed'
    BY DEF TypeOK, ControlOK, RegistryOK, NoCheckOfTheClosed, StartedSoFar
  <2>5. (StartedSoFar /\ ClosedSoFar /\ Watched)'
    BY DEF TypeOK, ControlOK, RegistryOK, StartedSoFar, ClosedSoFar, Watched, Quiet, Resources
  <2>6. (RuntimeInv /\ ErrorInv /\ OriginInv /\ StartupErrorKept)'
    BY DEF RuntimeInv, ErrorInv, OriginInv, StartupErrorKept, StartedSoFar, ClosedSoFar
  <2> QED BY <2>1, <2>2, <2>3, <2>4, <2>5, <2>6, <2>7, <2>8 DEF TypeOK
<1> QED BY <1>1, <1>2

\* An abandoned thread's end changes nothing the task relies on.
LEMMA ThreadEndsInv == ASSUME IInv, NEW t \in Resources, ThreadEnds(t) PROVE IInv'
<1> USE DEF IInv, app, runtimes
<1>0. /\ phase \in [Resources -> Phases] /\ phase[t] \in {"detached", "making"}
      /\ \E p \in {"failed", "lost", "absent"} :
           phase' = [phase EXCEPT ![t] = p] /\ (phase[t] = "detached" <=> p = "failed")
      /\ UNCHANGED <<app, pc, k, error, pass, failed, origin, instances, value, specs, runtimes>>
  BY DEF TypeOK, RegistryOK, ThreadEnds
<1>1. (FlagsOK /\ ControlOK /\ RegistryOK /\ ChecksOK /\ RuntimeOK)'
  BY <1>0 DEF TypeOK, FlagsOK, ControlOK, RegistryOK, ChecksOK, RuntimeOK, Phases
<1>2. (Begun /\ RegistryHoldsTheLive /\ NoCheckOfTheClosed)'
  BY <1>0 DEF Begun, RegistryHoldsTheLive, NoCheckOfTheClosed
<1>7. ReverseOrder'
  <2>1. \A r \in Resources : r # t => phase'[r] = phase[r]
    BY <1>0
  <2>2. phase'[t] \in Attempted => phase[t] \in Attempted
    BY <1>0 DEF Attempted
  <2>3. phase'[t] \notin {"live", "closing"}
    BY <1>0
  <2> QED BY <2>1, <2>2, <2>3 DEF ReverseOrder
<1>3. StartedSoFar'
  BY <1>0 DEF StartedSoFar
<1>4. ClosedSoFar'
  <2>1. \A r \in Resources : r # t => phase'[r] = phase[r]
    BY <1>0
  <2>2. phase'[t] \notin {"live", "closing"}
    BY <1>0
  <2>3. pc = "closing" => k # t
    BY <1>0 DEF ClosedSoFar
  <2>4. pc = "closing" => k \in Resources
    BY DEF TypeOK, ControlOK, ClosedSoFar, Resources
  <2> QED BY <1>0, <2>1, <2>2, <2>3, <2>4 DEF ClosedSoFar, Quiet
<1>5. Watched'
  BY <1>0 DEF Watched
<1>6. (RuntimeInv /\ ErrorInv /\ OriginInv /\ StartupErrorKept)'
  BY <1>0 DEF RuntimeInv, ErrorInv, OriginInv, StartupErrorKept, Quiet
<1> QED BY <1>1, <1>2, <1>3, <1>4, <1>5, <1>6, <1>7 DEF TypeOK

\* Application code registering and unregistering preserves the invariant.
LEMMA UserInv == IInv /\ User => IInv'
<1> SUFFICES ASSUME IInv, NEW n \in UserNames, UserRegisters(n) \/ UserUnregisters(n) PROVE IInv'
  BY DEF User
<1> USE DEF IInv, app, runtimes, UserRegisters, UserUnregisters
<1>0. /\ \E s \in {Spec0, OfUser} : specs' = [specs EXCEPT ![n] = s]
      /\ UNCHANGED <<app, pc, k, error, pass, failed, origin, instances, value, phase, runtimes>>
      /\ specs \in [Names -> SpecType] /\ n \in Names
  BY DEF TypeOK, ChecksOK, Names
<1>1. (FlagsOK /\ ControlOK /\ RegistryOK /\ RuntimeOK)'
  BY <1>0 DEF TypeOK, FlagsOK, ControlOK, RegistryOK, RuntimeOK
<1>2. ChecksOK'
  BY <1>0, CheckTypes DEF ChecksOK
<1>3. NoCheckOfTheClosed'
  BY <1>0, CheckOwners DEF NoCheckOfTheClosed
<1>4. Watched'
  BY <1>0 DEF Watched, Names
<1>5. (Begun /\ RegistryHoldsTheLive /\ ReverseOrder /\ StartedSoFar /\ ClosedSoFar)'
  BY <1>0 DEF Begun, RegistryHoldsTheLive, ReverseOrder, StartedSoFar, ClosedSoFar, Quiet
<1>6. (RuntimeInv /\ ErrorInv /\ OriginInv /\ StartupErrorKept)'
  BY <1>0 DEF RuntimeInv, ErrorInv, OriginInv, StartupErrorKept, Quiet
<1> QED BY <1>1, <1>2, <1>3, <1>4, <1>5, <1>6 DEF TypeOK
-----------------------------------------------------------------------------
\* The invariant is inductive.
LEMMA NextInv == IInv /\ [Next]_vars => IInv'
<1> SUFFICES ASSUME IInv, [Next]_vars PROVE IInv'
  OBVIOUS
<1>1. CASE Begin
  BY <1>1, BeginInv
<1>2. CASE Lifespan
  BY <1>2, AssembleRuntimeInv, ConfigureRuntimeInv, CheckRuntimeInv, RequireAuthInv,
    StartResourceInv, FactoryReturnsInv, FactoryRaisesInv, CheckStartupInv, EnterLifespanInv,
    ExitLifespanInv, CloseNextInv, CloseReturnsInv, CloseRuntimeInv DEF Lifespan
<1>3. CASE StopServing
  BY <1>3, StopServingInv
<1>4. CASE Cancel
  BY <1>4, CancelInv
<1>5. CASE \E r \in Resources : ThreadEnds(r)
  BY <1>5, ThreadEndsInv
<1>6. CASE User
  BY <1>6, UserInv
<1>7. CASE UNCHANGED vars
  BY <1>7 DEF vars, IInv, TypeOK, FlagsOK, ControlOK, RegistryOK, ChecksOK, RuntimeOK, Begun,
    RegistryHoldsTheLive, ReverseOrder, NoCheckOfTheClosed, StartedSoFar, ClosedSoFar, Watched,
    RuntimeInv, ErrorInv, OriginInv, StartupErrorKept, Quiet
<1> QED BY <1>1, <1>2, <1>3, <1>4, <1>5, <1>6, <1>7 DEF Next

\* The inductive invariant holds of every behaviour of the lifespan.
THEOREM Invariance == Spec => []IInv
BY InitInv, NextInv, PTL DEF Spec

\* Every variable keeps its type.
THEOREM TypeCorrect == Spec => []TypeOK
<1>1. IInv => TypeOK
  BY DEF IInv
<1> QED BY <1>1, Invariance, PTL

\* What a dependency gets is an instance whose close has not begun.
THEOREM DependenciesAreLive == Spec => []RegistryHoldsTheLive
<1>1. IInv => RegistryHoldsTheLive
  BY DEF IInv
<1> QED BY <1>1, Invariance, PTL

\* Closes happen in reverse declaration order, over both passes.
THEOREM ClosesInReverse == Spec => []ReverseOrder
<1>1. IInv => ReverseOrder
  BY DEF IInv
<1> QED BY <1>1, Invariance, PTL

\* Readiness never checks an instance whose close is over.
THEOREM ChecksAreOfOpenInstances == Spec => []NoCheckOfTheClosed
<1>1. IInv => NoCheckOfTheClosed
  BY DEF IInv
<1> QED BY <1>1, Invariance, PTL

\* The application never serves after an incomplete startup.
THEOREM ServesOnlyComplete == Spec => []ServesComplete
<1>1. IInv => ServesComplete
  BY DEF IInv, ServesComplete, RegistryHoldsTheLive, StartedSoFar, Watched, RuntimeInv
<1> QED BY <1>1, Invariance, PTL

\* A lifespan that raises nothing has lost nothing.
THEOREM FailuresSurface == Spec => []NoSilentFailure
<1>1. IInv => NoSilentFailure
  BY DEF IInv, NoSilentFailure, ErrorInv
<1> QED BY <1>1, Invariance, PTL

\* A rollback never hides what made startup fail.
THEOREM RollbackKeepsError == Spec => []StartupErrorKept
<1>1. IInv => StartupErrorKept
  BY DEF IInv
<1> QED BY <1>1, Invariance, PTL

\* Nothing the lifespan acquired is left when it is over.
THEOREM NothingLeftOpen == Spec => []AllReleased
<1>1. IInv => AllReleased
  BY DEF IInv, AllReleased, RegistryHoldsTheLive, ClosedSoFar, RuntimeInv, Quiet
<1> QED BY <1>1, Invariance, PTL

-----------------------------------------------------------------------------
(* What no step does.                                                       *)

\* No step of the framework drops a check that application code registered.
THEOREM ForeignChecksStay == Spec => ForeignChecksKept
<1>1. ASSUME IInv, [Next]_vars, NEW n \in Names, specs[n] = OfUser, specs'[n] # OfUser
      PROVE  User
  <2>0. specs[n].owner = "user" /\ specs \in [Names -> SpecType]
    BY <1>1, CheckOwners DEF IInv, TypeOK, ChecksOK
  <2>1. CASE ConfigureRuntime
    BY <1>1, <2>0, <2>1 DEF ConfigureRuntime, Collides
  <2>2. CASE FactoryReturns
    BY <1>1, <2>0, <2>2 DEF FactoryReturns
  <2>3. CASE CloseReturns \/ Cancel
    <3>1. UNCHANGED specs \/ \E how : Closed(how)
      BY <2>3 DEF CloseReturns, Cancel, registry
    <3>2. CASE \E how : Closed(how)
      BY <1>1, <2>0, <3>2, CheckOwners DEF Closed, Bound
    <3> QED BY <1>1, <3>1, <3>2
  <2>4. CASE UNCHANGED specs
    BY <1>1, <2>4
  <2>5. \/ ConfigureRuntime \/ FactoryReturns \/ CloseReturns \/ Cancel
        \/ UNCHANGED specs \/ User
    BY <1>1 DEF Next, Lifespan, vars, registry, app, Begin, AssembleRuntime, CheckRuntime,
      RequireAuth, StartResource, FactoryRaises, CheckStartup, EnterLifespan, StopServing,
      ExitLifespan, CloseNext, CloseRuntime, ThreadEnds
  <2> QED BY <2>1, <2>2, <2>3, <2>4, <2>5
<1>2. IInv /\ [Next]_vars =>
        [\A n \in Names : specs[n] = OfUser /\ specs'[n] # OfUser => User]_vars
  BY <1>1
<1> QED BY <1>2, Invariance, PTL DEF Spec, ForeignChecksKept

\* No instance is closed a second time.
THEOREM ClosesOnce == Spec => ClosedOnce
<1>1. ASSUME IInv, [Next]_vars, NEW r \in Resources, phase[r] \in Attempted, phase'[r] = "closing"
      PROVE  phase[r] = "closing"
  <2>0. phase \in [Resources -> Phases]
    BY <1>1 DEF IInv, TypeOK, RegistryOK
  <2>1. CASE CloseNext
    BY <1>1, <2>0, <2>1 DEF CloseNext, IInv, RegistryHoldsTheLive, Attempted, None
  <2>2. CASE CloseReturns \/ Cancel
    BY <1>1, <2>0, <2>2 DEF CloseReturns, Cancel, Closed, registry
  <2>3. CASE \E t \in Resources : ThreadEnds(t)
    BY <1>1, <2>0, <2>3 DEF ThreadEnds
  <2>4. CASE Begin \/ FactoryReturns
    BY <1>1, <2>0, <2>4 DEF Begin, FactoryReturns
  <2>5. CASE UNCHANGED phase
    BY <1>1, <2>5
  <2>6. \/ CloseNext \/ CloseReturns \/ Cancel \/ \E t \in Resources : ThreadEnds(t)
        \/ Begin \/ FactoryReturns \/ UNCHANGED phase
    BY <1>1 DEF Next, Lifespan, vars, registry, app, AssembleRuntime, ConfigureRuntime, CheckRuntime,
      RequireAuth, StartResource, FactoryRaises, CheckStartup, EnterLifespan, StopServing,
      ExitLifespan, CloseRuntime, User, UserRegisters, UserUnregisters
  <2> QED BY <2>1, <2>2, <2>3, <2>4, <2>5, <2>6
<1>2. IInv /\ [Next]_vars =>
        [\A r \in Resources : phase[r] \in Attempted /\ phase'[r] = "closing"
                                => phase[r] = "closing"]_vars
  BY <1>1
<1> QED BY <1>2, Invariance, PTL DEF Spec, ClosedOnce

-----------------------------------------------------------------------------
(* How far release has come.                                                *)

Releasing == pc \in {"close", "closing", "close_runtime"}

\* The steps that may be left: two for each resource of a pass of close(), one
\* between the passes, and the runtime's.
Ahead ==
  CASE pc = "down" -> 0
    [] pc = "close_runtime" -> 1
    [] OTHER -> 2 * k + 2 - (IF pc = "closing" THEN 1 ELSE 0)
                + (IF pass = "rollback" THEN 2 * N + 3 ELSE 0)

\* Release never has more than a bounded number of steps ahead of it.
LEMMA AheadBounds ==
  ASSUME IInv, Releasing
  PROVE  Ahead \in 1 .. 4 * N + 5
<1>1. N \in Nat /\ k \in Nat /\ (pc \in {"close", "closing"} => k <= N)
  BY NAssumption DEF IInv, TypeOK, ControlOK, ClosedSoFar
<1>2. pc = "closing" => k >= 1
  BY DEF IInv, ClosedSoFar
<1> QED
  BY <1>1, <1>2 DEF Releasing, Ahead

\* A step of close() takes it on: to the next resource, to the second pass, or to
\* the end.
LEMMA AheadSteps ==
  ASSUME IInv, Releasing, CloseNext \/ CloseReturns \/ CloseRuntime \/ Cancel
  PROVE  (Releasing' \/ pc' = "down") /\ Ahead' < Ahead
<1>1. N \in Nat /\ k \in Nat /\ (pc = "closing" => k >= 1) /\ pass \in {"rollback", "shutdown"}
  BY NAssumption DEF IInv, TypeOK, ControlOK, ClosedSoFar
<1>2. CASE CloseNext
  <2>1. pc = "close"
    BY <1>2 DEF CloseNext
  <2>2. CASE k > 0 /\ instances[k] # None
    <3>1. pc' = "closing" /\ k' = k /\ pass' = pass
      BY <1>2, <2>2, <1>1 DEF CloseNext, Goto
    <3> QED
      BY <1>1, <2>1, <3>1 DEF Releasing, Ahead
  <2>3. CASE k > 0 /\ instances[k] = None
    <3>1. pc' = "close" /\ k' = k - 1 /\ pass' = pass
      BY <1>2, <2>3, <1>1 DEF CloseNext, PreviousOf
    <3> QED
      BY <1>1, <2>1, <2>3, <3>1 DEF Releasing, Ahead
  <2>4. CASE k = 0 /\ pass = "rollback"
    <3>1. pc' = "close" /\ k' = N /\ pass' = "shutdown"
      BY <1>2, <2>4, <1>1 DEF CloseNext, Finally
    <3>2. Ahead = 2 * N + 5 /\ Ahead' = 2 * N + 2
      BY <1>1, <2>1, <2>4, <3>1 DEF Ahead
    <3> QED
      BY <1>1, <3>1, <3>2 DEF Releasing
  <2>5. CASE k = 0 /\ pass = "shutdown"
    <3>1. pc' \in {"close_runtime", "down"}
      BY <1>2, <2>5, <1>1 DEF CloseNext
    <3>2. Ahead = 2 /\ Ahead' \in {0, 1}
      BY <1>1, <2>1, <2>5, <3>1 DEF Ahead
    <3> QED
      BY <3>1, <3>2 DEF Releasing
  <2> QED
    BY <1>1, <2>1, <2>2, <2>3, <2>4, <2>5, <1>2 DEF CloseNext
<1>3. CASE CloseReturns \/ CloseRuntime \/ Cancel
  <2>1. \/ pc = "closing" /\ pc' = "close" /\ k' = k - 1 /\ pass' = pass
        \/ pc = "close_runtime" /\ pc' = "down"
    BY <1>3 DEF CloseReturns, CloseRuntime, Cancel, Closed, PreviousOf, Releasing
  <2> QED
    BY <1>1, <2>1 DEF Releasing, Ahead
<1> QED
  BY <1>2, <1>3

\* A step of the lifespan or a cancellation leaves release fewer steps to go;
\* threads and application code do not touch it.
ReleaseAdvances ==
  [][Releasing => \/ (Releasing' \/ pc' = "down") /\ Ahead' < Ahead
                  \/ (\E r \in Resources : ThreadEnds(r)) \/ User]_vars

\* Whatever fails, is cancelled or is done by other code meanwhile, release goes
\* only forward, in at most 4 N + 5 steps of the lifespan: what is left of
\* ReleaseCompletes is that these steps are taken.
THEOREM ReleaseIsBounded == Spec => [](Releasing => Ahead \in 1 .. 4 * N + 5) /\ ReleaseAdvances
<1>1. IInv => (Releasing => Ahead \in 1 .. 4 * N + 5)
  BY AheadBounds
<1>2. ASSUME IInv, Next, Releasing
      PROVE  \/ (Releasing' \/ pc' = "down") /\ Ahead' < Ahead
             \/ (\E r \in Resources : ThreadEnds(r)) \/ User
  <2>1. CASE CloseNext \/ CloseReturns \/ CloseRuntime \/ Cancel
    BY <1>2, <2>1, AheadSteps
  <2>2. pc \in {"close", "closing", "close_runtime"}
    BY <1>2 DEF Releasing
  <2> QED
    BY <1>2, <2>1, <2>2
    DEF Next, Lifespan, Begin, StopServing, AssembleRuntime, ConfigureRuntime, CheckRuntime,
        RequireAuth, StartResource, FactoryReturns, FactoryRaises, CheckStartup, EnterLifespan,
        ExitLifespan
<1>3. IInv /\ [Next]_vars =>
        [Releasing => \/ (Releasing' \/ pc' = "down") /\ Ahead' < Ahead
                      \/ (\E r \in Resources : ThreadEnds(r)) \/ User]_vars
  BY <1>2
<1> QED
  BY <1>1, <1>3, Invariance, PTL DEF Spec, ReleaseAdvances

-----------------------------------------------------------------------------
(* Where what the documents say does hold.                                  *)

\* The custom provider is the application's for an explicit runtime, and for a
\* planned one without Keycloak.
ProviderInv ==
  /\ config.explicit => pc \notin {"assemble", "configure"}
  /\ config.custom_auth /\ (config.explicit \/ ~HasKeycloak) => auth_provider = Custom

\* SRS-AUTH-004 holds but for an assembled runtime with Keycloak.
THEOREM CustomProviderStays ==
  Spec => [](config.explicit \/ ~HasKeycloak => ExplicitProviderKept)
<1>1. Init => ProviderInv
  BY DEF Init, ProviderInv
<1>2. ASSUME ProviderInv, [Next]_vars PROVE ProviderInv'
  <2>1. CASE Begin \/ AssembleRuntime
    BY <1>2, <2>1 DEF ProviderInv, Begin, AssembleRuntime, Goto, Finally, app, HasKeycloak
  <2>2. CASE ConfigureRuntime
    BY <1>2, <2>2 DEF ProviderInv, ConfigureRuntime, Goto, Finally, app, HasKeycloak
  <2>3. CASE Cancel
    BY <1>2, <2>3 DEF ProviderInv, Cancel, Finally, Rollback, Closed, runtimes, HasKeycloak
  <2>4. CASE CloseNext
    BY <1>2, <2>4 DEF ProviderInv, CloseNext, Goto, Finally, app, HasKeycloak
  <2>5. CASE CheckRuntime \/ RequireAuth \/ StartResource \/ FactoryReturns \/ FactoryRaises
             \/ CheckStartup \/ EnterLifespan \/ ExitLifespan \/ CloseReturns \/ CloseRuntime
             \/ StopServing
    <3>1. UNCHANGED <<config, auth_provider>>
      BY <2>5 DEF CheckRuntime, RequireAuth, StartResource, FactoryReturns, FactoryRaises,
        CheckStartup, EnterLifespan, ExitLifespan, CloseReturns, CloseRuntime, StopServing,
        app, runtimes
    <3>2. pc' \notin {"assemble", "configure"}
      BY <2>5 DEF CheckRuntime, RequireAuth, StartResource, FactoryReturns, FactoryRaises,
        CheckStartup, EnterLifespan, ExitLifespan, CloseReturns, CloseRuntime, StopServing,
        Goto, Finally, Rollback, Closed
    <3> QED
      BY <1>2, <3>1, <3>2 DEF ProviderInv, HasKeycloak
  <2>6. CASE UNCHANGED <<config, pc, auth_provider>>
    BY <1>2, <2>6 DEF ProviderInv, HasKeycloak
  <2>7. (\E r \in Resources : ThreadEnds(r)) \/ User => UNCHANGED <<config, pc, auth_provider>>
    BY DEF ThreadEnds, User, UserRegisters, UserUnregisters, app, runtimes
  <2> QED
    BY <1>2, <2>1, <2>2, <2>3, <2>4, <2>5, <2>6, <2>7 DEF Next, Lifespan, vars
<1>3. ProviderInv => (config.explicit \/ ~HasKeycloak => ExplicitProviderKept)
  BY DEF ProviderInv, ExplicitProviderKept
<1> QED
  BY <1>1, <1>2, <1>3, PTL DEF Spec

-----------------------------------------------------------------------------
(* The lifespan implements OwnedScope.                                      *)

\* A step that leaves the stage and what is held alone stutters.
LEMMA StutterStep ==
  ASSUME Stage' = Stage, UNCHANGED <<instances, runtime, released>>
  PROVE  UNCHANGED Scope!vars
BY DEF Scope!vars, Held, HoldsRuntime

\* A step into close() with nothing else changed leaves the scope.
LEMMA LeaveStep ==
  ASSUME Stage \in {"acquire", "use"}, pc' = "close", UNCHANGED <<instances, runtime, released>>
  PROVE  Scope!Leave
BY DEF Scope!Leave, Stage, Held, HoldsRuntime

\* Startup acquires, in order, and serves with everything held.
LEMMA StartupRefines ==
  ASSUME IInv,
         \/ Begin \/ AssembleRuntime \/ ConfigureRuntime \/ CheckRuntime \/ RequireAuth
         \/ StartResource \/ FactoryReturns \/ FactoryRaises \/ CheckStartup \/ EnterLifespan
  PROVE  [Scope!Next]_Scope!vars
<1>1. CASE Begin
  <2>1. Stage = "idle" /\ Stage' = "acquire" /\ Held' = Held
    BY <1>1 DEF Begin, Stage, Held
  <2>2. HoldsRuntime' \in BOOLEAN
    BY DEF HoldsRuntime
  <2> QED BY <2>1, <2>2 DEF Scope!Next, Scope!Open
<1>2. CASE AssembleRuntime
  <2>1. /\ pc = "assemble" /\ runtime = None /\ ~released /\ UNCHANGED <<instances, released>>
        /\ Stage = "acquire" /\ run > 0 /\ run \in Nat
    BY <1>2, NAssumption DEF AssembleRuntime, registry, IInv, RuntimeInv, Begun, Stage, TypeOK, ControlOK
  <2>2. CASE pc' = "configure" /\ runtime' = run
    <3>1. Held = {}
      BY <2>1 DEF Held, IInv, StartedSoFar, RegistryHoldsTheLive, None
    <3>2. ~HoldsRuntime /\ HoldsRuntime'
      BY <2>1, <2>2 DEF HoldsRuntime, None
    <3>3. Stage' = "acquire" /\ Held' = Held
      BY <2>1, <2>2 DEF Stage, Held
    <3>4. HoldsRuntime' = TRUE
      BY <3>2 DEF HoldsRuntime
    <3> QED BY <2>1, <3>1, <3>2, <3>3, <3>4 DEF Scope!Next, Scope!AcquireRuntime
  <2>3. CASE pc' = "close" /\ runtime' = None
    BY <2>1, <2>3, LeaveStep DEF Scope!Next
  <2> QED BY <1>2, <2>2, <2>3 DEF AssembleRuntime, Goto, Finally
<1>3. CASE ConfigureRuntime \/ CheckRuntime \/ RequireAuth \/ StartResource \/ FactoryRaises \/ CheckStartup
  <2>1. UNCHANGED <<instances, runtime, released>> /\ Stage = "acquire"
    BY <1>3 DEF ConfigureRuntime, CheckRuntime, RequireAuth, StartResource, FactoryRaises, CheckStartup,
      registry, runtimes, Stage
  <2>2. pc' = "close" \/ Stage' = "acquire"
    BY <1>3 DEF ConfigureRuntime, CheckRuntime, RequireAuth, StartResource, FactoryRaises, CheckStartup,
      Goto, Finally, Rollback, Stage
  <2> QED BY <2>1, <2>2, LeaveStep, StutterStep DEF Scope!Next
<1>4. CASE FactoryReturns
  <2>1. /\ k \in Resources /\ instances \in [Resources -> 0 .. MaxRuns] /\ run > 0 /\ run \in Nat
        /\ \A r \in Resources : instances[r] = IF r < k THEN run ELSE None
        /\ runtime # None /\ ~released /\ pc = "factory"
    <3>1. k \in Resources
      BY <1>4, NAssumption DEF FactoryReturns, IInv, TypeOK, ControlOK, StartedSoFar, Resources
    <3>2. \A r \in Resources : instances[r] = IF r < k THEN run ELSE None
      BY <1>4 DEF FactoryReturns, IInv, StartedSoFar, RegistryHoldsTheLive
    <3> QED BY <1>4, <3>1, <3>2, NAssumption DEF FactoryReturns, IInv, TypeOK, ControlOK, RegistryOK, Begun,
          RuntimeInv
  <2>2. /\ instances' = [instances EXCEPT ![k] = run] /\ UNCHANGED <<runtime, released>>
        /\ pc' \in {"start", "close"}
    BY <1>4 DEF FactoryReturns, Rollback, runtimes
  <2>3. k \notin Held /\ Held' = Held \cup {k}
    <3>1. k \notin Held
      BY <2>1 DEF Held, None, Resources
    <3>2. \A r \in Resources : r # k => instances'[r] = instances[r]
      BY <2>1, <2>2
    <3>3. instances'[k] # None
      BY <2>1, <2>2 DEF None
    <3> QED BY <2>1, <3>1, <3>2, <3>3 DEF Held
  <2>4. \A s \in 1 .. N : s < k => s \in Held
    BY <2>1 DEF Held, None, Resources
  <2>5. Stage = "acquire" /\ Stage' \in {"acquire", "release"}
    BY <2>1, <2>2 DEF Stage
  <2>6. HoldsRuntime /\ HoldsRuntime' = HoldsRuntime
    BY <2>1, <2>2 DEF HoldsRuntime
  <2>7. k \in 1 .. N
    BY <2>1 DEF Resources
  <2> QED BY <2>3, <2>4, <2>5, <2>6, <2>7 DEF Scope!Next, Scope!Acquire, Scope!LeaveWith
<1>5. CASE EnterLifespan
  <2>1. UNCHANGED <<instances, runtime, released>> /\ Stage = "acquire"
    BY <1>5 DEF EnterLifespan, registry, runtimes, Stage
  <2>2. CASE pc' = "close"
    BY <2>1, <2>2, LeaveStep DEF Scope!Next
  <2>3. CASE pc' = "serving"
    <3>1. Held = 1 .. N
      BY <1>5, NAssumption DEF EnterLifespan, Held, Resources, IInv, TypeOK, ControlOK, Begun, StartedSoFar,
        RegistryHoldsTheLive, None
    <3>2. HoldsRuntime
      BY <1>5 DEF EnterLifespan, HoldsRuntime, IInv, RuntimeInv
    <3>3. Stage' = "use" /\ Held' = Held /\ HoldsRuntime' = HoldsRuntime
      BY <2>1, <2>3 DEF Stage, Held, HoldsRuntime
    <3> QED BY <2>1, <3>1, <3>2, <3>3 DEF Scope!Next, Scope!Use
  <2> QED BY <1>5, <2>2, <2>3 DEF EnterLifespan, Goto, Finally
<1> QED BY <1>1, <1>2, <1>3, <1>4, <1>5

\* Shutdown releases from the last resource to the first, then the runtime.
LEMMA ShutdownRefines ==
  ASSUME IInv,
         \/ StopServing \/ ExitLifespan \/ CloseNext \/ CloseReturns \/ CloseRuntime \/ Cancel
  PROVE  [Scope!Next]_Scope!vars
<1>0. ASSUME pc = "close_runtime", pc' = "down", UNCHANGED <<instances, runtime, released>>
      PROVE  Scope!Close
  <2>1. Stage = "release" /\ Stage' = "idle"
    BY <1>0 DEF Stage
  <2>2. Held = {}
    BY <1>0 DEF Held, IInv, ClosedSoFar, Quiet, RegistryHoldsTheLive
  <2>3. ~HoldsRuntime /\ HoldsRuntime' = HoldsRuntime /\ Held' = Held
    BY <1>0 DEF HoldsRuntime, Held, IInv, RuntimeInv
  <2> QED BY <2>1, <2>2, <2>3 DEF Scope!Close
<1>1. CASE CloseNext
  <2>0. /\ pc = "close" /\ k \in 0 .. N /\ ~released /\ run > 0
        /\ instances \in [Resources -> 0 .. MaxRuns] /\ UNCHANGED runtime
        /\ \A r \in Resources : r > k => instances[r] = None
    BY <1>1, NAssumption DEF CloseNext, IInv, TypeOK, ControlOK, RegistryOK, Begun, ClosedSoFar, Quiet,
      RegistryHoldsTheLive, RuntimeInv
  <2>1. Stage = "release"
    BY <2>0 DEF Stage
  <2>2. CASE k > 0 /\ instances[k] # None
    <3>1. /\ instances' = [instances EXCEPT ![k] = None] /\ pc' = "closing" /\ k \in 1 .. N
          /\ \A s \in Held : s <= k
      BY <1>1, <2>0, <2>2, NAssumption DEF CloseNext, Goto, PopInstance, Held, Resources
    <3>2. k # 0
      BY <2>2
    <3>3. HoldsRuntime' = HoldsRuntime
      BY <1>1, <2>0, <3>2 DEF CloseNext, HoldsRuntime
    <3>4. k \in Held /\ Held' = Held \ {k} /\ Stage' = "release"
      BY <2>0, <2>2, <3>1 DEF Held, Stage, Resources
    <3> QED BY <2>1, <3>1, <3>3, <3>4 DEF Scope!Next, Scope!Release
  <2>3. CASE (k > 0 /\ instances[k] = None) \/ (k = 0 /\ pass = "rollback")
    <3>1. pc' = "close" /\ UNCHANGED instances
      BY <1>1, <2>0, <2>3 DEF CloseNext, Finally
    <3>2. ~(k = 0 /\ pass = "shutdown")
      BY <2>0, <2>3
    <3>3. HoldsRuntime' = HoldsRuntime
      BY <1>1, <2>0, <3>2 DEF CloseNext, HoldsRuntime
    <3> QED BY <2>0, <3>1, <3>3 DEF Scope!vars, Stage, Held
  <2>4. CASE k = 0 /\ pass = "shutdown"
    <3>1. UNCHANGED instances /\ pc' = IF runtime = None THEN "down" ELSE "close_runtime"
      BY <1>1, <2>0, <2>4 DEF CloseNext, OwnsRuntime
    <3>2. Held = {} /\ Held' = Held
      BY <2>0, <2>4, <3>1 DEF Held, Resources
    <3>3. CASE runtime = None
      <4>1. ~HoldsRuntime /\ HoldsRuntime' = HoldsRuntime /\ Stage' = "idle"
        BY <2>0, <3>1, <3>3 DEF HoldsRuntime, Stage
      <4> QED BY <2>1, <3>2, <4>1 DEF Scope!Next, Scope!Close
    <3>4. CASE runtime # None
      <4>1. HoldsRuntime /\ HoldsRuntime' = FALSE
        BY <1>1, <2>0, <2>4, <3>4 DEF CloseNext, OwnsRuntime, HoldsRuntime
      <4>2. Stage' = "release"
        BY <3>1, <3>4 DEF Stage
      <4> QED BY <2>1, <3>2, <4>1, <4>2 DEF Scope!Next, Scope!ReleaseRuntime
    <3> QED BY <3>3, <3>4
  <2> QED BY <2>0, <2>2, <2>3, <2>4 DEF IInv, TypeOK, ControlOK
<1>2. CASE CloseReturns
  <2>1. Stage' = Stage /\ UNCHANGED <<instances, runtime, released>>
    BY <1>2 DEF CloseReturns, Closed, Stage, runtimes
  <2> QED BY <2>1, StutterStep
<1>3. CASE CloseRuntime
  BY <1>0, <1>3 DEF CloseRuntime, registry, runtimes, Scope!Next
<1>4. CASE StopServing
  <2>1. Stage' = Stage /\ UNCHANGED <<instances, runtime, released>>
    BY <1>4 DEF StopServing, Stage, registry, runtimes
  <2> QED BY <2>1, StutterStep
<1>5. CASE ExitLifespan
  <2>1. Stage = "use" /\ pc' = "close" /\ UNCHANGED <<instances, runtime, released>>
    BY <1>5 DEF ExitLifespan, Finally, Stage, registry, runtimes
  <2> QED BY <2>1, LeaveStep DEF Scope!Next
<1>6. CASE Cancel
  <2>1. UNCHANGED <<instances, runtime, released>>
    BY <1>6 DEF Cancel, registry, runtimes, Closed
  <2>2. CASE pc = "close_runtime"
    <3>1. pc' = "down"
      BY <1>6, <2>2 DEF Cancel
    <3> QED BY <1>0, <2>1, <2>2, <3>1 DEF Scope!Next
  <2>3. CASE pc \in {"serving", "closing"}
    <3>1. Stage' = Stage
      BY <1>6, <2>3 DEF Cancel, Closed, Stage
    <3> QED BY <2>1, <3>1, StutterStep
  <2>4. CASE pc \notin {"close_runtime", "serving", "closing"}
    <3>1. Stage \in {"acquire", "use"} /\ pc' = "close"
      BY <1>6, <2>4 DEF Cancel, Finally, Rollback, Stage
    <3> QED BY <2>1, <3>1, LeaveStep DEF Scope!Next
  <2> QED BY <2>2, <2>3, <2>4
<1> QED BY <1>1, <1>2, <1>3, <1>4, <1>5, <1>6

\* Every behaviour of the lifespan is one of the scope it promises to be.
THEOREM LifespanImplementsScope == Spec => ImplementsScope
<1>1. Init => Scope!Init
  BY DEF Init, Scope!Init, Stage, Held, HoldsRuntime, None
<1>2. IInv /\ [Next]_vars => [Scope!Next]_Scope!vars
  <2> SUFFICES ASSUME IInv, [Next]_vars PROVE [Scope!Next]_Scope!vars
    OBVIOUS
  <2>1. CASE (\E r \in Resources : ThreadEnds(r)) \/ User \/ UNCHANGED vars
    <3>1. Stage' = Stage /\ UNCHANGED <<instances, runtime, released>>
      BY <2>1 DEF ThreadEnds, User, UserRegisters, UserUnregisters, vars, runtimes, Stage
    <3> QED BY <3>1, StutterStep
  <2> QED BY <2>1, StartupRefines, ShutdownRefines DEF Next, Lifespan
<1> QED BY <1>1, <1>2, Invariance, PTL DEF Spec, ImplementsScope, Scope!Spec
=============================================================================
