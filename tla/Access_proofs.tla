---------------------------- MODULE Access_proofs ----------------------------
(***************************************************************************)
(* That access is safe for every set of requests, every user, plan and     *)
(* configuration and every number of workers.                              *)
(***************************************************************************)
EXTENDS Access, FiniteSetTheorems, SequenceLemmas, TLAPS

-----------------------------------------------------------------------------
(* The inductive invariant.                                                *)

\* The types, without the bound on the workers.
Places == {"idle", "queued", "reading", "looking", "storing", "resolved", "verifying",
           "authorizing", "entered", "posting", "fetching", "answered"}
Holding == {"reading", "looking", "storing", "fetching"}
Typed ==
  /\ IsConfig(config)
  /\ DOMAIN plan = Requests /\ \A r \in Requests : plan[r] \in Plans[r]
  /\ phase \in {"new", "refused", "created", "assembling", "configuring", "connected",
                "serving", "failed", "stopped"}
  /\ service_runtime \in {{}, {config.clients}}
  /\ auth_provider \in {"none", "custom", "runtime"}
  /\ pc \in [Requests -> Places]
  /\ DOMAIN users = Requests /\ DOMAIN answer = Requests
LoopInv ==
  /\ loop \in Requests \cup {NoOne}
  /\ \A r \in Requests : (pc[r] = "verifying") <=> (loop = r)
PoolInv == IsFiniteSet(InWorker) /\ Cardinality(InWorker) <= Workers

\* What a request is, by where it stands, and what it has shown to get there.
PlaceInv ==
  \A r \in Requests :
    /\ pc[r] \in {"reading", "storing", "resolved"} => plan[r].kind # "client"
    /\ pc[r] \in {"posting", "fetching"} => plan[r].kind = "token"
    /\ pc[r] \in {"verifying", "authorizing"} => plan[r].kind = "user" /\ plan[r].token # "none"
EnteredInv ==
  \A r \in Requests : pc[r] = "entered" =>
    \/ plan[r].kind = "client" /\ Lookup(plan[r].service, service_runtime) = Found
    \/ /\ plan[r].kind = "user" /\ plan[r].token # "none"
       /\ Unsolved(r) = {} /\ \A i \in 1 .. Len(plan[r].needs) : ~Missing(r, i)

\* Where the application stands: nobody is there before it is created, and the
\* runtime is there from its connection on.
PhaseInv ==
  /\ phase \in {"new", "refused"} => \A r \in Requests : pc[r] = "idle"
  /\ phase \in {"new", "refused"} => service_runtime = {} /\ auth_provider = "none"
  /\ phase = "assembling" => service_runtime = {} /\ auth_provider # "runtime"
  /\ phase = "configuring" => service_runtime = {}
  /\ phase = "created" /\ ~config.given => service_runtime = {} /\ auth_provider # "runtime"
  /\ phase = "created" /\ config.given => service_runtime = {config.clients}
  /\ phase \in {"connected", "serving", "stopped"} => service_runtime = {config.clients}
\* What the provider is, and that nobody asks the runtime for one where one was
\* given.
ProviderInv ==
  /\ auth_provider = "runtime" => ProviderOf(config.clients)
  /\ auth_provider = "custom" => config.custom
  /\ config.custom /\ phase \notin {"new", "refused"} => auth_provider # "none"
  /\ config.custom => \A r \in Requests : pc[r] \in {"looking", "storing"} => plan[r].kind = "client"
  /\ \A r \in Requests : pc[r] = "storing" => Lookup("keycloak", service_runtime) = Found
  /\ phase = "serving" /\ config.auth_router => auth_provider # "none"

IInv ==
  /\ Typed /\ LoopInv /\ PoolInv /\ PlaceInv /\ EnteredInv /\ PhaseInv /\ ProviderInv

-----------------------------------------------------------------------------
(* Lemmas about the operators.                                             *)

\* The dependency finds the client of a runtime exactly when
\* configure_service_runtime finds a provider in it.
LEMMA LookupFinds ==
  ASSUME NEW clients \in [Services -> Clients]
  PROVE  Lookup("keycloak", {clients}) = Found <=> ProviderOf(clients)
<1>1. (CHOOSE c \in {clients} : TRUE) = clients
  OBVIOUS
<1>2. clients["keycloak"] \in Clients /\ "keycloak" \in Services
  BY DEF Services
<1> DEFINE client == clients["keycloak"]
<1>3. client = Absent \/ client \in [wrapped : BOOLEAN, type : {"auth", "builder", "other"}]
  BY <1>2 DEF Clients
<1>4. CASE client = Absent
  BY <1>1, <1>4 DEF Lookup, Found, ProviderOf, Absent
<1>5. CASE client # Absent /\ ~client.wrapped
  BY <1>1, <1>5 DEF Lookup, Found, ProviderOf
<1>6. CASE client # Absent /\ client.wrapped
  BY <1>1, <1>6 DEF Lookup, Found, ProviderOf, Expected, Services
<1> QED
  BY <1>4, <1>5, <1>6

\* Without a runtime nothing is found.
LEMMA NothingFound == ASSUME NEW s PROVE Lookup(s, {}) # Found
BY DEF Lookup, Found

\* A worker that is given back leaves the pool within its limit.
LEMMA PoolShrinks ==
  ASSUME PoolInv, NEW S, S \subseteq InWorker
  PROVE  IsFiniteSet(S) /\ Cardinality(S) <= Workers
<1>1. IsFiniteSet(S) /\ Cardinality(S) <= Cardinality(InWorker)
  BY FS_Subset DEF PoolInv
<1>2. Cardinality(S) \in Nat /\ Cardinality(InWorker) \in Nat
  BY <1>1, FS_CardinalityType DEF PoolInv
<1> QED
  BY <1>1, <1>2, AccessAssumption DEF PoolInv

\* An application that is not created satisfies the invariant.
LEMMA InitInv == Init => IInv
<1> SUFFICES ASSUME Init PROVE IInv
  OBVIOUS
<1> USE DEF Init
<1>1. Typed
  <2>1. IsConfig(config)
    BY AccessAssumption
  <2>2. pc \in [Requests -> Places]
    BY DEF Places
  <2> QED
    BY <2>1, <2>2 DEF Typed
<1>2. LoopInv
  BY AccessAssumption DEF LoopInv
<1>3. PoolInv
  <2>1. InWorker = {}
    BY DEF InWorker
  <2> QED
    BY <2>1, FS_EmptySet, AccessAssumption DEF PoolInv
<1>4. PlaceInv /\ EnteredInv /\ PhaseInv /\ ProviderInv
  BY DEF PlaceInv, EnteredInv, PhaseInv, ProviderInv
<1> QED
  BY <1>1, <1>2, <1>3, <1>4 DEF IInv

-----------------------------------------------------------------------------
(* The steps of the application.                                           *)

\* Requests stay where they are, whatever the application does.
LEMMA RequestsStay ==
  ASSUME IInv, UNCHANGED <<plan, loop, pc, users, answer>>
  PROVE  /\ LoopInv' /\ PoolInv' /\ PlaceInv'
         /\ \A r \in Requests : Unsolved(r)' = Unsolved(r)
         /\ \A r \in Requests : \A i : Missing(r, i)' <=> Missing(r, i)
<1>1. LoopInv' /\ PlaceInv'
  BY DEF IInv, LoopInv, PlaceInv
<1>2. InWorker' = InWorker
  BY DEF InWorker
<1>3. PoolInv'
  BY <1>2 DEF IInv, PoolInv
<1>4. \A r \in Requests : Unsolved(r)' = Unsolved(r)
  BY DEF Unsolved, KeyOf
<1>5. \A r \in Requests : \A i : Missing(r, i)' <=> Missing(r, i)
  BY DEF Missing
<1> QED
  BY <1>1, <1>3, <1>4, <1>5

\* create_app leaves an application without requests, with the runtime it was given.
LEMMA CreateAppInv == IInv /\ CreateApp => IInv'
<1> SUFFICES ASSUME IInv, CreateApp PROVE IInv'
  OBVIOUS
<1> USE DEF IInv, CreateApp
<1>1. LoopInv' /\ PoolInv' /\ PlaceInv'
  BY RequestsStay
<1>2. \A r \in Requests : pc[r] = "idle" /\ pc'[r] = "idle"
  BY DEF PhaseInv
<1>3. Typed'
  BY DEF Typed, PhaseInv
<1>4. EnteredInv'
  BY <1>2 DEF EnteredInv
<1>5. PhaseInv'
  BY <1>2 DEF PhaseInv
<1>6. ProviderInv'
  BY <1>2 DEF ProviderInv, PhaseInv
<1> QED
  BY <1>1, <1>3, <1>4, <1>5, <1>6

\* The start of the lifespan only moves on.
LEMMA StartInv == IInv /\ Start => IInv'
<1> SUFFICES ASSUME IInv, Start PROVE IInv'
  OBVIOUS
<1> USE DEF IInv, Start
<1>1. LoopInv' /\ PoolInv' /\ PlaceInv'
  BY RequestsStay
<1>2. Typed'
  BY DEF Typed
<1>3. EnteredInv'
  BY RequestsStay DEF EnteredInv
<1>4. PhaseInv'
  BY DEF PhaseInv, Typed
<1>5. ProviderInv'
  BY DEF ProviderInv
<1> QED
  BY <1>1, <1>2, <1>3, <1>4, <1>5

\* An assembled runtime gives the provider before it is stored itself.
LEMMA AssembleInv == IInv /\ Assemble => IInv'
<1> SUFFICES ASSUME IInv, Assemble PROVE IInv'
  OBVIOUS
<1>1. LoopInv' /\ PoolInv' /\ PlaceInv'
  BY RequestsStay DEF Assemble
<1>2. service_runtime = {} /\ service_runtime' = {} /\ auth_provider # "runtime"
  BY DEF IInv, PhaseInv, Assemble
<1>3. EnteredInv'
  BY <1>2, RequestsStay DEF EnteredInv, IInv, Assemble
<1>4. \A r \in Requests : pc[r] # "storing"
  BY <1>2, NothingFound DEF IInv, ProviderInv
<1>5. CASE phase' = "failed" /\ UNCHANGED <<config, auth_provider>>
  <2>1. Typed' /\ PhaseInv'
    BY <1>5 DEF IInv, Assemble, Typed, PhaseInv
  <2>2. ProviderInv'
    BY <1>5, <1>2 DEF IInv, Assemble, ProviderInv
  <2> QED
    BY <1>1, <1>3, <2>1, <2>2 DEF IInv
<1>6. ASSUME NEW c \in Configs,
             config' = [config EXCEPT !.clients = c.clients],
             auth_provider' = IF ProviderOf(c.clients) THEN "runtime" ELSE auth_provider,
             phase' = "configuring"
      PROVE  IInv'
  <2>1. c.clients \in [Services -> Clients]
    BY AccessAssumption DEF IsConfig
  <2>2. /\ config'.clients = c.clients /\ config'.custom = config.custom
        /\ config'.auth_router = config.auth_router /\ IsConfig(config')
    BY <1>6, <2>1 DEF IInv, Typed, IsConfig
  <2>3. Typed'
    BY <1>2, <1>6, <2>2 DEF IInv, Assemble, Typed
  <2>4. PhaseInv'
    BY <1>2, <1>6 DEF PhaseInv
  <2>5. ProviderInv'
    <3>1. auth_provider' = "runtime" => ProviderOf(config'.clients)
      BY <1>2, <1>6, <2>2
    <3>2. auth_provider' # "none" \/ auth_provider' = auth_provider
      BY <1>6
    <3> QED
      BY <1>2, <1>4, <1>6, <2>2, <3>1, <3>2 DEF IInv, Assemble, ProviderInv
  <2> QED
    BY <1>1, <1>3, <2>3, <2>4, <2>5 DEF IInv
<1> QED
  BY <1>5, <1>6 DEF Assemble

\* A runtime that is stored is the one whose provider was taken.
LEMMA StoreRuntimeInv == IInv /\ StoreRuntime => IInv'
<1> SUFFICES ASSUME IInv, StoreRuntime PROVE IInv'
  OBVIOUS
<1> USE DEF IInv, StoreRuntime
<1>1. LoopInv' /\ PoolInv' /\ PlaceInv'
  BY RequestsStay
<1>2. service_runtime = {}
  BY DEF PhaseInv
<1>3. Typed' /\ PhaseInv'
  BY DEF Typed, PhaseInv
<1>4. EnteredInv'
  BY <1>2, NothingFound, RequestsStay DEF EnteredInv
<1>5. ProviderInv'
  BY <1>2, NothingFound DEF ProviderInv
<1> QED
  BY <1>1, <1>3, <1>4, <1>5

\* An application with the auth router serves only with a provider.
LEMMA RequireAuthInv == IInv /\ RequireAuth => IInv'
<1> SUFFICES ASSUME IInv, RequireAuth PROVE IInv'
  OBVIOUS
<1> USE DEF IInv, RequireAuth, Connected
<1>1. LoopInv' /\ PoolInv' /\ PlaceInv'
  BY RequestsStay
<1>2. Typed' /\ PhaseInv'
  BY DEF Typed, PhaseInv
<1>3. EnteredInv'
  BY RequestsStay DEF EnteredInv
<1>4. ProviderInv'
  BY DEF ProviderInv
<1> QED
  BY <1>1, <1>2, <1>3, <1>4

\* At the end nothing is taken out of the state.
LEMMA StopInv == IInv /\ Stop => IInv'
<1> SUFFICES ASSUME IInv, Stop PROVE IInv'
  OBVIOUS
<1> USE DEF IInv, Stop
<1>1. LoopInv' /\ PoolInv' /\ PlaceInv'
  BY RequestsStay
<1>2. Typed' /\ PhaseInv'
  BY DEF Typed, PhaseInv
<1>3. EnteredInv'
  BY RequestsStay DEF EnteredInv
<1>4. ProviderInv'
  BY DEF ProviderInv
<1> QED
  BY <1>1, <1>2, <1>3, <1>4

\* Nor does a step of something else disturb the invariant.
LEMMA StutterInv == IInv /\ UNCHANGED vars => IInv'
<1> SUFFICES ASSUME IInv, UNCHANGED vars PROVE IInv'
  OBVIOUS
<1> USE DEF IInv, vars
<1>1. LoopInv' /\ PoolInv' /\ PlaceInv'
  BY RequestsStay
<1>2. Typed' /\ PhaseInv' /\ ProviderInv'
  BY DEF Typed, PhaseInv, ProviderInv
<1>3. EnteredInv'
  BY RequestsStay DEF EnteredInv
<1> QED
  BY <1>1, <1>2, <1>3

-----------------------------------------------------------------------------
(* The steps of a request.                                                 *)

\* A request that moves and takes no worker, of an application that is created.
Moving(r, p) ==
  /\ p \in Places /\ (p \in Holding => pc[r] \in Holding)
  /\ Goto(r, p) /\ phase \notin {"new", "refused"}
  /\ UNCHANGED <<config, plan, phase, service_runtime>>
  /\ DOMAIN users' = Requests /\ DOMAIN answer' = Requests
  /\ auth_provider' \in {"none", "custom", "runtime"}

\* It leaves the others where they are.
LEMMA Moves ==
  ASSUME IInv, NEW r \in Requests, NEW p, Moving(r, p)
  PROVE  /\ Typed' /\ PoolInv'
         /\ pc'[r] = p /\ \A s \in Requests : s # r => pc'[s] = pc[s]
<1> USE DEF IInv, Typed, Goto, Moving
<1>1. pc' \in [Requests -> Places] /\ pc'[r] = p /\ \A s \in Requests : s # r => pc'[s] = pc[s]
  OBVIOUS
<1>2. Typed'
  BY <1>1
<1>3. InWorker' \subseteq InWorker
  BY <1>1 DEF InWorker, Holding
<1>4. PoolInv'
  BY <1>3, PoolShrinks DEF PoolInv
<1> QED
  BY <1>1, <1>2, <1>4

\* What a request has shown stays, as long as nobody takes a current user away.
LEMMA OthersStay ==
  ASSUME UNCHANGED plan, NEW s \in Requests, users'[s] = users[s]
  PROVE  Unsolved(s)' = Unsolved(s) /\ \A i : Missing(s, i)' <=> Missing(s, i)
BY DEF Unsolved, KeyOf, Missing

\* What a request has shown that goes to a place.
Allowed(r, p) ==
  /\ p \in {"reading", "storing", "resolved"} => plan[r].kind # "client"
  /\ p \in {"posting", "fetching"} => plan[r].kind = "token"
  /\ p \in {"verifying", "authorizing"} => plan[r].kind = "user" /\ plan[r].token # "none"
  /\ p = "entered" =>
       /\ users'[r] = users[r]
       /\ \/ plan[r].kind = "client" /\ Lookup(plan[r].service, service_runtime) = Found
          \/ /\ plan[r].kind = "user" /\ plan[r].token # "none"
             /\ Unsolved(r) = {} /\ \A i \in 1 .. Len(plan[r].needs) : ~Missing(r, i)
  /\ p \in {"looking", "storing"} /\ config.custom => plan[r].kind = "client"
  /\ p = "storing" => Lookup("keycloak", service_runtime) = Found

\* A request may go where it is allowed to, as long as the provider stays.
LEMMA MovesInv ==
  ASSUME IInv, NEW r \in Requests, NEW p, Moving(r, p), Allowed(r, p), UNCHANGED auth_provider,
         LoopInv', \A s \in Requests : s # r => users'[s] = users[s]
  PROVE  IInv'
<1>1. /\ Typed' /\ PoolInv'
      /\ pc'[r] = p /\ \A s \in Requests : s # r => pc'[s] = pc[s]
  BY Moves
<1>2. /\ phase \notin {"new", "refused"}
      /\ UNCHANGED <<config, plan, phase, service_runtime, auth_provider>>
  BY DEF Moving
<1>3. PlaceInv'
  BY <1>1, <1>2 DEF IInv, PlaceInv, Allowed
<1>4. EnteredInv'
  <2> SUFFICES ASSUME NEW s \in Requests, pc'[s] = "entered"
               PROVE  \/ plan[s].kind = "client" /\ Lookup(plan[s].service, service_runtime) = Found
                      \/ /\ plan[s].kind = "user" /\ plan[s].token # "none"
                         /\ Unsolved(s)' = {} /\ \A i \in 1 .. Len(plan[s].needs) : ~Missing(s, i)'
    BY <1>2 DEF EnteredInv
  <2>1. users'[s] = users[s]
    BY <1>1 DEF Allowed
  <2>2. Unsolved(s)' = Unsolved(s) /\ \A i : Missing(s, i)' <=> Missing(s, i)
    BY <1>2, <2>1, OthersStay
  <2>3. CASE s = r
    BY <1>1, <2>2, <2>3 DEF Allowed
  <2>4. CASE s # r
    BY <1>1, <2>2, <2>4 DEF IInv, EnteredInv
  <2> QED
    BY <2>3, <2>4
<1>5. PhaseInv'
  BY <1>2 DEF IInv, PhaseInv
<1>6. ProviderInv'
  BY <1>1, <1>2 DEF IInv, ProviderInv, Allowed
<1> QED
  BY <1>1, <1>3, <1>4, <1>5, <1>6 DEF IInv

\* Nobody takes the loop or gives it back.
LEMMA LoopStays ==
  ASSUME IInv, NEW r \in Requests, NEW p, Moving(r, p), UNCHANGED loop,
         p # "verifying", pc[r] # "verifying"
  PROVE  LoopInv'
BY Moves DEF IInv, LoopInv

\* Nobody is there before the application is created.
LEMMA Created ==
  ASSUME IInv, NEW r \in Requests, pc[r] # "idle"
  PROVE  phase \notin {"new", "refused"}
BY DEF IInv, PhaseInv

\* A request that arrives waits for a worker.
LEMMA ArriveInv == ASSUME IInv, NEW r \in Requests, Arrive(r) PROVE IInv'
<1>1. Moving(r, "queued")
  BY DEF Arrive, app, Moving, Places, Holding, IInv, Typed
<1>2. Allowed(r, "queued") /\ UNCHANGED <<auth_provider, loop, users>> /\ pc[r] # "verifying"
  BY DEF Allowed, Arrive, app
<1> QED
  BY <1>1, <1>2, LoopStays, MovesInv

\* A worker is taken only while there is one.
LEMMA DispatchInv == ASSUME IInv, NEW r \in Requests, Dispatch(r) PROVE IInv'
<1> USE DEF Dispatch, app, Goto
<1>0. phase \notin {"new", "refused"}
  BY Created
<1>1. /\ pc'[r] \in {"reading", "looking", "fetching"}
      /\ pc' \in [Requests -> Places]
      /\ \A s \in Requests : s # r => pc'[s] = pc[s]
      /\ pc'[r] = "reading" => plan[r].kind # "client"
      /\ pc'[r] = "looking" => plan[r].kind = "client"
      /\ pc'[r] = "fetching" => pc[r] = "posting"
  <2>1. CASE pc[r] = "posting"
    BY <2>1 DEF IInv, Typed, Places
  <2>2. CASE pc[r] = "queued" /\ plan[r].kind = "client"
    BY <2>2 DEF IInv, Typed, Places
  <2>3. CASE pc[r] = "queued" /\ plan[r].kind # "client"
    BY <2>3 DEF IInv, Typed, Places
  <2> QED
    BY <2>1, <2>2, <2>3
<1>2. Typed' /\ LoopInv'
  BY <1>1 DEF IInv, Typed, LoopInv
<1>3. PoolInv'
  <2>1. InWorker' = InWorker \cup {r} /\ r \notin InWorker
    BY <1>1 DEF InWorker
  <2>2. IsFiniteSet(InWorker') /\ Cardinality(InWorker') = Cardinality(InWorker) + 1
    BY <2>1, FS_AddElement DEF IInv, PoolInv
  <2>3. Cardinality(InWorker) \in Nat /\ Cardinality(InWorker) < Workers
    BY FS_CardinalityType DEF IInv, PoolInv, HasWorker
  <2> QED
    BY <2>2, <2>3, AccessAssumption DEF PoolInv
<1>4. PlaceInv'
  BY <1>1 DEF IInv, PlaceInv
<1>5. EnteredInv'
  BY <1>1, OthersStay DEF IInv, EnteredInv
<1>6. PhaseInv'
  BY <1>0 DEF IInv, PhaseInv
<1>7. ProviderInv'
  BY <1>1 DEF IInv, ProviderInv
<1> QED
  BY <1>2, <1>3, <1>4, <1>5, <1>6, <1>7 DEF IInv

\* A provider that is there is read, or the runtime is asked.
LEMMA ReadProviderInv == ASSUME IInv, NEW r \in Requests, ReadProvider(r) PROVE IInv'
<1> DEFINE p == IF auth_provider # "none" THEN "resolved" ELSE "looking"
<1>0. phase \notin {"new", "refused"}
  BY Created DEF ReadProvider
<1>1. Moving(r, p)
  BY <1>0 DEF ReadProvider, app, Moving, Places, Holding, IInv, Typed
<1>2. UNCHANGED <<auth_provider, loop, users>> /\ pc[r] = "reading"
  BY DEF ReadProvider, app
<1>3. Allowed(r, p)
  BY <1>0, <1>2 DEF Allowed, IInv, PlaceInv, ProviderInv
<1>4. p # "verifying"
  OBVIOUS
<1> HIDE DEF p
<1> QED
  BY <1>1, <1>2, <1>3, <1>4, LoopStays, MovesInv

\* A client of the service is found, or the request is answered.
LEMMA LookupClientInv == ASSUME IInv, NEW r \in Requests, LookupClient(r) PROVE IInv'
<1> DEFINE found == Lookup(IF plan[r].kind = "client" THEN plan[r].service ELSE "keycloak",
                           service_runtime)
           p == IF found # Found THEN "answered"
                ELSE IF plan[r].kind = "client" THEN "entered" ELSE "storing"
<1>0. phase \notin {"new", "refused"}
  BY Created DEF LookupClient
<1>1. Goto(r, p) /\ DOMAIN answer' = Requests
  BY DEF LookupClient, Answer, Goto, IInv, Typed
<1>2. UNCHANGED <<config, plan, phase, service_runtime, auth_provider, loop, users>> /\ pc[r] = "looking"
  BY DEF LookupClient, app
<1>3. Moving(r, p)
  <2>1. p \in Places /\ pc[r] \in Holding
    BY <1>2 DEF Places, Holding
  <2> HIDE DEF p
  <2> QED
    BY <1>0, <1>1, <1>2, <2>1 DEF Moving, IInv, Typed
<1>4. Allowed(r, p)
  BY <1>2 DEF Allowed, IInv, ProviderInv
<1>5. p # "verifying"
  OBVIOUS
<1> HIDE DEF p
<1> QED
  BY <1>2, <1>3, <1>4, <1>5, LoopStays, MovesInv

\* The provider found in the runtime is stored.
LEMMA StoreProviderInv == ASSUME IInv, NEW r \in Requests, StoreProvider(r) PROVE IInv'
<1>0. phase \notin {"new", "refused"}
  BY Created DEF StoreProvider
<1>1. /\ pc[r] = "storing" /\ auth_provider' = "runtime"
      /\ UNCHANGED <<config, plan, phase, service_runtime, loop, users>>
  BY DEF StoreProvider
<1>2. Moving(r, "resolved")
  BY <1>0 DEF StoreProvider, Moving, Places, Holding, IInv, Typed
<1>3. /\ Typed' /\ PoolInv'
      /\ pc'[r] = "resolved" /\ \A s \in Requests : s # r => pc'[s] = pc[s]
  BY <1>2, Moves
<1>4. LoopInv'
  BY <1>1, <1>2, LoopStays
<1>5. PlaceInv'
  BY <1>1, <1>3 DEF IInv, PlaceInv
<1>6. EnteredInv'
  BY <1>1, <1>3, OthersStay DEF IInv, EnteredInv
<1>7. Lookup("keycloak", service_runtime) = Found
  BY <1>1 DEF IInv, ProviderInv
<1>8. service_runtime = {config.clients} /\ service_runtime # {}
  BY <1>7, NothingFound DEF IInv, Typed
<1>9. PhaseInv'
  BY <1>0, <1>1, <1>8 DEF IInv, PhaseInv
<1>10. ProviderInv'
  <2>1. config.clients \in [Services -> Clients]
    BY DEF IInv, Typed, IsConfig
  <2>2. ProviderOf(config.clients)
    BY <1>7, <1>8, <2>1, LookupFinds
  <2> QED
    BY <1>1, <1>3, <2>2 DEF IInv, ProviderInv
<1> QED
  BY <1>3, <1>4, <1>5, <1>6, <1>9, <1>10 DEF IInv

\* The request whose token is verified takes the free loop.
LEMMA AuthenticateInv == ASSUME IInv, NEW r \in Requests, Authenticate(r) PROVE IInv'
<1> DEFINE p == IF plan[r].token = "none" THEN "answered" ELSE "verifying"
<1>0. phase \notin {"new", "refused"}
  BY Created DEF Authenticate
<1>1. Goto(r, p) /\ DOMAIN answer' = Requests
  BY DEF Authenticate, Answer, Goto, IInv, Typed
<1>2. /\ UNCHANGED <<config, plan, phase, service_runtime, auth_provider, users>>
      /\ plan[r].kind = "user" /\ pc[r] = "resolved"
  BY DEF Authenticate, app
<1>3. Moving(r, p)
  <2>1. p \in Places /\ p \notin Holding
    BY DEF Places, Holding
  <2> HIDE DEF p
  <2> QED
    BY <1>0, <1>1, <1>2, <2>1 DEF Moving, IInv, Typed
<1>4. Allowed(r, p)
  BY <1>2 DEF Allowed
<1>5. LoopInv'
  <2>1. CASE plan[r].token = "none"
    BY <1>2, <1>3, <2>1, LoopStays DEF Authenticate
  <2>2. CASE plan[r].token # "none"
    <3>1. loop = NoOne /\ loop' = r /\ NoOne \notin Requests
      BY <2>2, AccessAssumption DEF Authenticate, LoopFree
    <3>2. \A s \in Requests : pc[s] # "verifying"
      BY <3>1 DEF IInv, LoopInv
    <3>3. pc'[r] = "verifying" /\ \A s \in Requests : s # r => pc'[s] = pc[s]
      BY <1>3, <2>2, Moves
    <3> QED
      BY <3>1, <3>2, <3>3 DEF LoopInv
  <2> QED
    BY <2>1, <2>2
<1> HIDE DEF p
<1> QED
  BY <1>2, <1>3, <1>4, <1>5, MovesInv

\* The end of a verification gives the loop back.
LEMMA VerifyEndsInv == ASSUME IInv, NEW r \in Requests, VerifyEnds(r) PROVE IInv'
<1>0. phase \notin {"new", "refused"}
  BY Created DEF VerifyEnds
<1>1. PICK p \in {"authorizing", "answered"} :
        Goto(r, p) /\ DOMAIN answer' = Requests
  BY DEF VerifyEnds, Answer, Goto, IInv, Typed
<1>2. /\ DOMAIN users' = Requests
      /\ \A s \in Requests : s # r => users'[s] = users[s]
  BY DEF VerifyEnds, IInv, Typed
<1>3. /\ UNCHANGED <<config, plan, phase, service_runtime, auth_provider>>
      /\ pc[r] = "verifying" /\ loop' = NoOne
  BY DEF VerifyEnds, app
<1>4. Moving(r, p)
  BY <1>0, <1>1, <1>2, <1>3 DEF Moving, Places, Holding, IInv, Typed
<1>5. Allowed(r, p)
  BY <1>3 DEF Allowed, IInv, PlaceInv
<1>6. LoopInv'
  <2>1. pc'[r] = p /\ \A s \in Requests : s # r => pc'[s] = pc[s]
    BY <1>4, Moves
  <2> QED
    BY <1>3, <2>1, AccessAssumption DEF IInv, LoopInv
<1> QED
  BY <1>2, <1>3, <1>4, <1>5, <1>6, MovesInv

\* A request is let in when every requirement has its user and is met.
LEMMA AuthorizeInv == ASSUME IInv, NEW r \in Requests, Authorize(r) PROVE IInv'
<1> DEFINE all == Len(plan[r].needs) + 1
           i == IF Unsolved(r) = {} THEN all ELSE NextUnsolved(r)
           p == IF FailsBefore(r, i) THEN "answered" ELSE IF i = all THEN "entered" ELSE "resolved"
<1>1. phase \notin {"new", "refused"}
  BY Created DEF Authorize
<1>2. /\ UNCHANGED <<config, plan, phase, service_runtime, auth_provider, loop, users>>
      /\ pc[r] = "authorizing"
  BY DEF Authorize, app
<1>3. Goto(r, p) /\ DOMAIN answer' = Requests
  BY DEF Authorize, Answer, Goto, IInv, Typed
<1>4. Moving(r, p)
  <2>1. p \in Places /\ p \notin Holding
    BY DEF Places, Holding
  <2> HIDE DEF p
  <2> QED
    BY <1>1, <1>2, <1>3, <2>1 DEF Moving, IInv, Typed
<1>5. p = "entered" => Unsolved(r) = {} /\ \A j \in 1 .. Len(plan[r].needs) : ~Missing(r, j)
  <2> SUFFICES ASSUME p = "entered"
               PROVE  Unsolved(r) = {} /\ \A j \in 1 .. Len(plan[r].needs) : ~Missing(r, j)
    OBVIOUS
  <2>1. Len(plan[r].needs) \in Nat
    BY AccessAssumption DEF IInv, Typed, IsPlan
  <2>2. i = all /\ ~FailsBefore(r, all)
    OBVIOUS
  <2>3. Unsolved(r) = {}
    <3> SUFFICES ASSUME Unsolved(r) # {} PROVE FALSE
      OBVIOUS
    <3>1. Unsolved(r) \subseteq Nat /\ all \notin Unsolved(r)
      BY <2>1 DEF Unsolved
    <3>3. NextUnsolved(r) \in Unsolved(r)
      BY <3>1, FirstOf DEF NextUnsolved
    <3> QED
      BY <2>2, <3>1, <3>3
  <2>4. \A j \in 1 .. all - 1 : ~Missing(r, j)
    BY <2>2 DEF FailsBefore
  <2> QED
    BY <2>1, <2>3, <2>4
<1>6. plan[r].kind = "user" /\ plan[r].token # "none"
  BY <1>2 DEF IInv, PlaceInv
<1>7. p \in {"answered", "entered", "resolved"}
  OBVIOUS
<1> HIDE DEF p
<1>8. Allowed(r, p)
  BY <1>2, <1>5, <1>6, <1>7 DEF Allowed
<1> QED
  BY <1>2, <1>4, <1>7, <1>8, LoopStays, MovesInv

\* An endpoint that returns answers its request.
LEMMA ReturnInv == ASSUME IInv, NEW r \in Requests, Return(r) PROVE IInv'
<1>0. phase \notin {"new", "refused"}
  BY Created DEF Return
<1>1. Moving(r, "answered")
  BY <1>0 DEF Return, Answer, app, Moving, Places, Holding, IInv, Typed
<1>2. Allowed(r, "answered") /\ UNCHANGED <<auth_provider, loop, users>> /\ pc[r] # "verifying"
  BY DEF Allowed, Return, app
<1> QED
  BY <1>1, <1>2, LoopStays, MovesInv

\* A login leaves the loop free and waits for a worker.
LEMMA IssueTokenInv == ASSUME IInv, NEW r \in Requests, IssueToken(r) PROVE IInv'
<1>0. phase \notin {"new", "refused"}
  BY Created DEF IssueToken
<1>1. Moving(r, "posting")
  BY <1>0 DEF IssueToken, app, Moving, Places, Holding, IInv, Typed
<1>2. Allowed(r, "posting") /\ UNCHANGED <<auth_provider, loop, users>> /\ pc[r] # "verifying"
  BY DEF Allowed, IssueToken, LoopAfter, app
<1> QED
  BY <1>1, <1>2, LoopStays, MovesInv

\* The end of a fetch answers the login.
LEMMA FetchEndsInv == ASSUME IInv, NEW r \in Requests, FetchEnds(r) PROVE IInv'
<1>0. phase \notin {"new", "refused"}
  BY Created DEF FetchEnds
<1>1. Moving(r, "answered")
  BY <1>0 DEF FetchEnds, Answer, app, Moving, Places, Holding, IInv, Typed
<1>2. Allowed(r, "answered") /\ UNCHANGED <<auth_provider, loop, users>> /\ pc[r] # "verifying"
  BY DEF Allowed, FetchEnds, app
<1> QED
  BY <1>1, <1>2, LoopStays, MovesInv

-----------------------------------------------------------------------------
(* The theorems.                                                           *)

\* Every step keeps the invariant.
LEMMA NextInv == IInv /\ [Next]_vars => IInv'
<1> SUFFICES ASSUME IInv, [Next]_vars PROVE IInv'
  OBVIOUS
<1>1. CASE UNCHANGED vars
  BY <1>1, StutterInv
<1>2. CASE Finished
  BY <1>2, StutterInv DEF Finished
<1>3. CASE CreateApp
  BY <1>3, CreateAppInv
<1>4. CASE Start
  BY <1>4, StartInv
<1>5. CASE Assemble
  BY <1>5, AssembleInv
<1>6. CASE StoreRuntime
  BY <1>6, StoreRuntimeInv
<1>7. CASE RequireAuth
  BY <1>7, RequireAuthInv
<1>8. CASE Stop
  BY <1>8, StopInv
<1>9. ASSUME NEW r \in Requests, Arrive(r) \/ Step(r) \/ FetchEnds(r) PROVE IInv'
  BY <1>9, ArriveInv, FetchEndsInv, DispatchInv, ReadProviderInv, LookupClientInv, StoreProviderInv,
     AuthenticateInv, VerifyEndsInv, AuthorizeInv, ReturnInv, IssueTokenInv DEF Step
<1> QED
  BY <1>1, <1>2, <1>3, <1>4, <1>5, <1>6, <1>7, <1>8, <1>9 DEF Next

\* The inductive invariant holds in every behaviour.
THEOREM Invariance == Spec => []IInv
<1> QED
  BY InitInv, NextInv, PTL DEF Spec

\* Every variable keeps its type; the worker limit holds, and only the request
\* whose token is being verified has the loop.
THEOREM TypeCorrect == Spec => []TypeOK
<1>1. IInv => TypeOK
  BY DEF IInv, TypeOK, Typed, LoopInv, PoolInv, Places
<1> QED
  BY <1>1, Invariance, PTL

\* An endpoint is entered only with what it asks for: the client of a service,
\* or a token the provider has accepted for each of its requirements, with every
\* role, scope and permission.
THEOREM OnlyTheGrantedEnter == Spec => []OnlyGrantedEnter
<1>1. IInv => OnlyGrantedEnter
  <2> SUFFICES ASSUME IInv, NEW r \in Requests, pc[r] = "entered", plan[r].kind # "client"
               PROVE  LET user == Users[plan[r].token]
                          roles == user.realm_roles \cup UNION user.client_roles
                      IN  /\ plan[r].kind = "user"
                          /\ plan[r].token # "none"
                          /\ \A i \in 1 .. Len(plan[r].needs) :
                               LET need == plan[r].needs[i]
                               IN  /\ (IF need.by = "scopes" THEN need.names ELSE {}) \in users[r]
                                   /\ need.by = "roles" => need.names \subseteq roles
                                   /\ need.by = "scopes" => need.names \subseteq UNION user.scope
                                   /\ \A n \in need.names : n \in roles \/ n \in UNION user.scope
    BY DEF OnlyGrantedEnter, IInv, EnteredInv
  <2>1. /\ plan[r].kind = "user" /\ plan[r].token # "none" /\ Unsolved(r) = {}
        /\ \A i \in 1 .. Len(plan[r].needs) : ~Missing(r, i)
    BY DEF IInv, EnteredInv
  <2> SUFFICES ASSUME NEW i \in 1 .. Len(plan[r].needs)
               PROVE  LET user == Users[plan[r].token]
                          roles == user.realm_roles \cup UNION user.client_roles
                          need == plan[r].needs[i]
                      IN  /\ (IF need.by = "scopes" THEN need.names ELSE {}) \in users[r]
                          /\ need.by = "roles" => need.names \subseteq roles
                          /\ need.by = "scopes" => need.names \subseteq UNION user.scope
                          /\ \A n \in need.names : n \in roles \/ n \in UNION user.scope
    BY <2>1
  <2> DEFINE need == plan[r].needs[i]
             user == Users[plan[r].token]
  <2>2. need.by \in {"roles", "scopes", "permissions"}
    BY AccessAssumption DEF IInv, Typed, IsPlan
  <2>3. need.names \subseteq Granted(user, need.by)
    BY <2>1 DEF Missing
  <2>4. (IF need.by = "scopes" THEN need.names ELSE {}) \in users[r]
    BY <2>1 DEF Unsolved, KeyOf
  <2>5. CASE need.by = "roles"
    BY <2>3, <2>4, <2>5 DEF Granted, Roles
  <2>6. CASE need.by = "scopes"
    BY <2>3, <2>4, <2>6 DEF Granted, Scopes
  <2>7. CASE need.by = "permissions"
    BY <2>3, <2>4, <2>7 DEF Granted, Roles, Scopes
  <2> QED
    BY <2>2, <2>5, <2>6, <2>7
<1> QED
  BY <1>1, Invariance, PTL

\* With the auth router, no client of the router of a serving application is
\* told that there is no provider.
THEOREM ProviderIsThere == Spec => AuthRouterServes
<1>1. ASSUME IInv, [Next]_vars, NEW r \in Requests,
             config.auth_router, phase = "serving", plan[r].kind # "client", answer'[r] # answer[r]
      PROVE  answer'[r].why \notin {"runtime", "service", "wrapper", "type"}
  <2>1. PICK s \in Requests : Arrive(s) \/ Step(s) \/ FetchEnds(s)
    BY <1>1 DEF Next, vars, CreateApp, Start, Assemble, StoreRuntime, RequireAuth, Stop, Finished
  <2>2. DOMAIN answer = Requests
    BY <1>1 DEF IInv, Typed
  <2>3. s = r
    BY <1>1, <2>1, <2>2 DEF Arrive, Step, FetchEnds, Dispatch, ReadProvider, LookupClient,
       StoreProvider, Authenticate, VerifyEnds, Authorize, Return, IssueToken, Answer
  <2>4. ~LookupClient(r)
    <3> SUFFICES ASSUME LookupClient(r) PROVE FALSE
      OBVIOUS
    <3>1. auth_provider = "runtime"
      BY <1>1 DEF IInv, Typed, ProviderInv, LookupClient
    <3>2. service_runtime = {config.clients} /\ ProviderOf(config.clients)
      BY <1>1, <3>1 DEF IInv, PhaseInv, ProviderInv
    <3>3. config.clients \in [Services -> Clients]
      BY <1>1 DEF IInv, Typed, IsConfig
    <3>4. Lookup("keycloak", service_runtime) = Found
      BY <3>2, <3>3, LookupFinds
    <3> QED
      BY <1>1, <3>4 DEF LookupClient
  <2>5. \A status, why : Answer(r, status, why) => answer'[r].why = why
    BY <2>2 DEF Answer
  <2>6. CASE Authenticate(r)
    BY <1>1, <2>5, <2>6 DEF Authenticate
  <2>7. CASE VerifyEnds(r)
    <3>1. Answer(r, 401, "invalid token") \/ Answer(r, 500, "unexpected")
      BY <1>1, <2>7 DEF VerifyEnds
    <3>2. answer'[r].why \in {"invalid token", "unexpected"}
      BY <2>5, <3>1
    <3> QED
      BY <3>2
  <2>8. CASE Authorize(r) \/ Return(r)
    BY <1>1, <2>5, <2>8 DEF Authorize, Return
  <2>9. CASE FetchEnds(r)
    BY <2>5, <2>9 DEF FetchEnds
  <2>10. CASE Arrive(r) \/ Dispatch(r) \/ ReadProvider(r) \/ StoreProvider(r) \/ IssueToken(r)
    BY <1>1, <2>10 DEF Arrive, Dispatch, ReadProvider, StoreProvider, IssueToken
  <2> QED
    BY <2>1, <2>3, <2>4, <2>6, <2>7, <2>8, <2>9, <2>10 DEF Step
<1>2. IInv /\ [Next]_vars =>
        [\A r \in Requests :
           config.auth_router /\ phase = "serving" /\ plan[r].kind # "client"
           /\ answer'[r] # answer[r] =>
             answer'[r].why \notin {"runtime", "service", "wrapper", "type"}]_vars
  BY <1>1
<1> QED
  BY <1>2, Invariance, PTL DEF Spec, AuthRouterServes
=============================================================================
