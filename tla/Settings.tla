------------------------------ MODULE Settings ------------------------------
(***************************************************************************)
(* Where settings come from: the environment of the process, read by       *)
(* load_app_config and load_docmesh_settings, which each keep their last   *)
(* result, and test_environment, whose contexts change the environment and *)
(* empty both caches when they are entered and when they are left.         *)
(*                                                                         *)
(* A context saves what it overrides and writes into the environment       *)
(* itself.  What it promises is DynamicScopes.                             *)
(*                                                                         *)
(* What may raise is the set of its results, of which there is one, or     *)
(* none when it raises.  Mut_X is X with a plausible bug; nothing uses it. *)
(***************************************************************************)
EXTENDS Naturals, Sequences

CONSTANTS
  Texts,        \* the values of variables, "" among them
  Entries,      \* of each text, the entries between its commas
  Positive,     \* the texts that are positive numbers
  Environments, \* those a process is started in
  Overrides,    \* the arguments of test_environment considered
  Selections,   \* those of load_docmesh_settings, "all" or a set of services
  ServiceOf,    \* for each service, the variable that configures it
  MaxDepth,     \* bound: contexts in each other
  MaxWrites     \* bound: writes past test_environment

Services == DOMAIN ServiceOf
Unset == "not set"
Values == Texts \cup {Unset}
Variables ==
  {"DOCMESH_SERVICES", "READINESS_REQUIRED_SERVICES", "READINESS_TIMEOUT_SECONDS"}
  \cup {ServiceOf[s] : s \in Services}
Partial == UNION {[S -> Values] : S \in SUBSET Variables}

ASSUME SettingsAssumption ==
  /\ Unset \notin Texts /\ "" \in Texts /\ Positive \subseteq Texts
  /\ \A t \in Texts : Entries[t] \subseteq STRING
  /\ Environments \subseteq [Variables -> Values] /\ Overrides \subseteq Partial
  /\ Selections \subseteq {{"all"}} \cup SUBSET Services
  /\ "all" \notin Services
  /\ MaxDepth \in Nat /\ MaxWrites \in Nat

VARIABLES
  env,             \* os.environ
  frames,          \* what each open context has saved, the innermost last
  app_cache,       \* load_app_config's: {}, or the one config
  service_cache,   \* load_docmesh_settings's: {}, or the one result with its key
  dirty,           \* the caches under which the environment was written to
  writes

vars == <<env, frames, app_cache, service_cache, dirty, writes>>

-----------------------------------------------------------------------------
(* Reading.                                                                *)

\* A list of services: an empty text is the empty list, one of blanks is
\* refused.
Listed(text) ==
  CASE text \in {Unset, ""} -> {{}}
    [] text \in {" "} -> {}
    [] OTHER -> {Entries[text]}
Timeout(text) ==
  CASE text = Unset -> {"none"}
    [] text # Unset -> {text} \cap Positive

\* without the check of the model
Mut_AppConfig(e) ==
  [enabled : Listed(e["DOCMESH_SERVICES"]), required : Listed(e["READINESS_REQUIRED_SERVICES"]),
   timeout : Timeout(e["READINESS_TIMEOUT_SECONDS"])]
\* AppConfig(): required services must be enabled.
AppConfig(e) ==
  {c \in [enabled : Listed(e["DOCMESH_SERVICES"]),
          required : Listed(e["READINESS_REQUIRED_SERVICES"]),
          timeout : Timeout(e["READINESS_TIMEOUT_SECONDS"])] :
     c.required \subseteq c.enabled}

\* load_service_configs needs the variables of the services selected.
Selected(key) == IF key = {"all"} THEN Services ELSE key
ServiceConfigs(key, e) ==
  IF \E s \in Selected(key) : e[ServiceOf[s]] \in {Unset, ""} THEN {}
  ELSE {[s \in Selected(key) |-> e[ServiceOf[s]]]}

\* A result is kept; an exception is not.
LoadAppConfig ==
  /\ app_cache = {}
  /\ app_cache' = AppConfig(env) /\ dirty' = dirty \ {"app"}
  /\ UNCHANGED <<env, frames, service_cache, writes>>

\* another selection than the one kept
Misses(key) == \A kept \in service_cache : kept.key # key
\* One result is kept: the next selection takes its place.
LoadDocmeshSettings(key) ==
  /\ Misses(key)
  /\ LET results == ServiceConfigs(key, env)
     IN  IF results = {} THEN UNCHANGED <<service_cache, dirty>>
         ELSE /\ service_cache' = {[key |-> key, configs |-> c] : c \in results}
              /\ dirty' = dirty \ {"service"}
  /\ UNCHANGED <<env, frames, app_cache, writes>>

-----------------------------------------------------------------------------
(* Writing.                                                                *)

ClearCaches == app_cache' = {} /\ service_cache' = {} /\ dirty' = {}

\* only the variables that are set
Mut_Previous(overrides) == [n \in {m \in DOMAIN overrides : env[m] # Unset} |-> env[n]]
Previous(overrides) == [n \in DOMAIN overrides |-> env[n]]
Written(values, e) == [n \in Variables |-> IF n \in DOMAIN values THEN values[n] ELSE e[n]]

\* test_environment is entered.
Enter(overrides) ==
  /\ Len(frames) < MaxDepth
  /\ frames' = Append(frames, Previous(overrides))
  /\ env' = Written(overrides, env)
  /\ ClearCaches
  /\ UNCHANGED writes

\* A value the process refuses ends the writing half way, and `finally' undoes
\* what was written.
EnterFails(overrides) ==
  /\ Len(frames) < MaxDepth
  /\ \E refused \in DOMAIN overrides, done \in SUBSET DOMAIN overrides :
       /\ refused \notin done
       /\ env' = Written(Previous(overrides), [n \in Variables |->
                    IF n \in done THEN overrides[n] ELSE env[n]])
  /\ ClearCaches
  /\ UNCHANGED <<frames, writes>>

\* The innermost context is left, with an exception or without.
Mut_LeftCaches == UNCHANGED <<app_cache, service_cache, dirty>>
LeftCaches == ClearCaches
Leave ==
  /\ frames # <<>>
  /\ env' = Written(frames[Len(frames)], env)
  /\ frames' = SubSeq(frames, 1, Len(frames) - 1)
  /\ LeftCaches
  /\ UNCHANGED writes

\* Other code writes into os.environ, and the caches stay.
SetVariable(v, x) ==
  /\ writes < MaxWrites /\ writes' = writes + 1
  /\ env' = [env EXCEPT ![v] = x]
  /\ dirty' = dirty \cup (IF app_cache = {} THEN {} ELSE {"app"})
                    \cup (IF service_cache = {} THEN {} ELSE {"service"})
  /\ UNCHANGED <<frames, app_cache, service_cache>>

Init ==
  /\ env \in Environments
  /\ frames = <<>> /\ app_cache = {} /\ service_cache = {} /\ dirty = {} /\ writes = 0

Next ==
  \/ LoadAppConfig
  \/ \E key \in Selections : LoadDocmeshSettings(key)
  \/ \E o \in Overrides : Enter(o) \/ EnterFails(o)
  \/ Leave
  \/ \E v \in Variables, x \in Values : SetVariable(v, x)

Spec == Init /\ [][Next]_vars

-----------------------------------------------------------------------------
(* What is promised.                                                       *)

\* Every variable has its type: required services are enabled in every config
\* there is.
TypeOK ==
  /\ env \in [Variables -> Values]
  /\ Len(frames) <= MaxDepth /\ \A i \in DOMAIN frames : frames[i] \in Partial
  /\ \A c \in app_cache : c.required \subseteq c.enabled
  /\ \A c \in service_cache : c.key \in Selections
  /\ dirty \subseteq {"app", "service"} /\ writes \in 0 .. MaxWrites

\* What is cached is what reading anew would give, at every depth of contexts
\* and after one that failed or raised, unless other code has written to the
\* environment since (SRS-TEST-005, SRS-TEST-006).
CachedIsCurrent ==
  /\ "app" \notin dirty /\ app_cache # {} => app_cache = AppConfig(env)
  /\ "service" \notin dirty =>
       \A kept \in service_cache : kept.configs \in ServiceConfigs(kept.key, env)

\* The value of v at the depth of context i: what the next context that
\* overrides v has saved.
Later(v, i) == {j \in i + 1 .. Len(frames) : v \in DOMAIN frames[j]}
At(v, i) ==
  IF Later(v, i) = {} THEN env[v]
  ELSE frames[CHOOSE j \in Later(v, i) : \A k \in Later(v, i) : j <= k][v]

Scopes ==
  INSTANCE DynamicScopes WITH
    Bindings <- Overrides,
    base <- [v \in Variables |-> At(v, 0)],
    layers <- [i \in 1 .. Len(frames) |-> [v \in DOMAIN frames[i] |-> At(v, i)]]

\* Contexts in each other are scopes: whatever is written inside and outside of
\* them, each one left gives back the environment of its entry, where nobody
\* else has changed it (SRS-TEST-006).
ImplementsScopes == Scopes!Spec
=============================================================================
