--------------------------- MODULE Assembly_proofs ---------------------------
(***************************************************************************)
(* The properties of an assembled application, for any modules, routers,   *)
(* policies, mappers and URLs.                                             *)
(*                                                                         *)
(* RouteInv says what create_app has included and noted so far.  Since the *)
(* validation finds no two routes with one id or one operation, each       *)
(* operation belongs to one route, and what is noted for it is the policy  *)
(* of that route's owner: hence dependencies, answers and the document     *)
(* follow what was declared.  The document is adjusted at each request for *)
(* it; adjusting is idempotent, so that it is always the one generated,    *)
(* adjusted once (SchemaInv).                                              *)
(***************************************************************************)
EXTENDS Assembly, SequenceLemmas, FiniteSetTheorems, TLAPS

-----------------------------------------------------------------------------
(* Policies.                                                               *)

\* A function with defaults has both domains, and its own values first.
LEMMA DefaultsAre ==
  ASSUME NEW f, NEW g
  PROVE  /\ DOMAIN WithDefaults(f, g) = DOMAIN f \cup DOMAIN g
         /\ \A x \in DOMAIN f : WithDefaults(f, g)[x] = f[x]
         /\ \A x \in DOMAIN g \ DOMAIN f : WithDefaults(f, g)[x] = g[x]
BY DEF WithDefaults

\* What resolve makes of each field.
LEMMA ResolveIs ==
  ASSUME NEW base, NEW override
  PROVE  /\ DOMAIN Resolve(base, override) = DOMAIN Unset
         /\ Resolve(base, override).dependencies = base.dependencies \o override.dependencies
         /\ Resolve(base, override).responses = WithDefaults(override.responses, base.responses)
<1>1. {"dependencies", "responses"} \subseteq DOMAIN Unset
  BY DEF Unset
<1> QED
  BY <1>1, Zenon DEF Resolve

\* The other fields are the override's where it has a word on them.
LEMMA ResolveField ==
  ASSUME NEW base, NEW override, NEW field \in ContractFields \ {"responses"}
  PROVE  Resolve(base, override)[field] =
           IF override[field] # Unset[field] THEN override[field] ELSE base[field]
<1>1. field \in DOMAIN Unset /\ field \notin {"dependencies", "responses"}
  BY DEF ContractFields
<1> QED
  BY <1>1, Zenon DEF Resolve

\* A policy without a word is one.
LEMMA UnsetIsPolicy == IsPolicy(Unset)
<1>1. IsList(<<>>)
  BY EmptySeq DEF IsList
<1>2. DOMAIN (<<>>) = {} /\ Range(<<>>) = {}
  BY DEF Range
<1> QED
  BY <1>1, <1>2 DEF Unset, IsPolicy

\* resolve makes a policy of two.
LEMMA ResolveIsPolicy ==
  ASSUME NEW base, NEW override, IsPolicy(base), IsPolicy(override)
  PROVE  IsPolicy(Resolve(base, override))
<1> DEFINE p == Resolve(base, override)
<1>0. /\ DOMAIN p = DOMAIN Unset
      /\ p.dependencies = base.dependencies \o override.dependencies
      /\ p.responses = WithDefaults(override.responses, base.responses)
      /\ \A field \in ContractFields \ {"responses"} :
           p[field] = IF override[field] # Unset[field] THEN override[field] ELSE base[field]
  BY ResolveIs, ResolveField
<1> HIDE DEF p
<1>1. IsList(p.dependencies)
  BY <1>0, ToSetOfConcat DEF IsPolicy, IsList
<1>2. DOMAIN p.responses \subseteq Statuses
  <2>1. DOMAIN p.responses = DOMAIN override.responses \cup DOMAIN base.responses
    BY <1>0 DEF WithDefaults
  <2> QED
    BY <2>1 DEF IsPolicy
<1>3. {"validation_status", "common_error_statuses", "include_synthetic_422"}
      \subseteq ContractFields \ {"responses"}
  BY DEF ContractFields, Unset
<1>4. \A field \in {"validation_status", "common_error_statuses", "include_synthetic_422"} :
        p[field] \in {override[field], base[field]}
  BY <1>0, <1>3
<1>5. p.validation_status \in {0} \cup 400 .. 599 /\ p.include_synthetic_422 \in {"unset", "yes", "no"}
  BY <1>4 DEF IsPolicy
<1>6. Range(p.common_error_statuses) \subseteq 400 .. 599
  BY <1>4 DEF IsPolicy
<1>7. IsPolicy(p)
  BY <1>0, <1>1, <1>2, <1>5, <1>6 DEF IsPolicy
<1> QED
  BY <1>7 DEF p

\* The status for refused input is one of an error.
LEMMA StatusIsError ==
  ASSUME NEW p, IsPolicy(p)
  PROVE  EffectiveStatus(p) \in 400 .. 599
BY DEF IsPolicy, EffectiveStatus

-----------------------------------------------------------------------------
(* Declarations.                                                           *)

Owners == {"health", "direct"} \cup Modules

\* The modules of an application are modules, and what has no policy says nothing.
LEMMA OwnerIsModule ==
  ASSUME app \in Applications, NEW owner \in Modules
  PROVE  /\ owner \notin {"health", "direct", "nobody"} /\ IsModule(Of(owner))
         /\ Of(owner).name = owner
<1>1. PICK i \in DOMAIN app.modules : app.modules[i].name = owner
  BY DEF Modules
<1>2. app.modules[i] \in ToSet(app.modules)
  BY DEF ToSet
<1>3. Of(owner) \in ToSet(app.modules) /\ Of(owner).name = owner
  BY <1>1, <1>2 DEF Of
<1>4. \A m \in ToSet(app.modules) : IsModule(m)
  BY ApplicationsAssumption DEF ToSet
<1> QED
  BY <1>3, <1>4 DEF IsModule

\* An optional policy of the code is taken as one that may say nothing.
LEMMA OnlyIsPolicy ==
  ASSUME NEW policy, \A p \in policy : IsPolicy(p)
  PROVE  IsPolicy(Only(policy))
BY UnsetIsPolicy DEF Only

\* The application's policy, as given and as resolved, is one.
LEMMA AppPolicy == app \in Applications => IsPolicy(Only(app.policy)) /\ IsPolicy(BasePolicy)
<1>1. app \in Applications => IsPolicy(Only(app.policy))
  BY ApplicationsAssumption, OnlyIsPolicy
<1> QED
  BY <1>1, ResolveIsPolicy, UnsetIsPolicy DEF BasePolicy

\* So is a module's.
LEMMA ModulePolicy ==
  ASSUME app \in Applications, NEW owner \in Modules
  PROVE  IsPolicy(Only(Of(owner).policy))
BY OwnerIsModule, OnlyIsPolicy DEF IsModule

\* The policy of an owner is one.
LEMMA PolicyOfIsPolicy ==
  ASSUME app \in Applications, NEW owner \in Owners, owner # "health"
  PROVE  IsPolicy(PolicyOf(owner))
BY AppPolicy, ModulePolicy, ResolveIsPolicy DEF PolicyOf, Owners

\* The policy an owner's routes follow says, field by field, what was declared.
LEMMA PolicySays ==
  ASSUME app \in Applications, NEW owner \in Owners, owner # "health",
         NEW field \in ContractFields \ {"responses"}
  PROVE  PolicyOf(owner)[field] = Said(owner, field)
<1>1. BasePolicy[field] = Only(app.policy)[field]
  BY ResolveField DEF BasePolicy
<1>2. CASE owner = "direct"
  BY <1>1, <1>2, OwnerIsModule DEF PolicyOf, Said
<1>3. CASE owner \in Modules
  <2>1. PolicyOf(owner) = Resolve(BasePolicy, Only(Of(owner).policy))
    BY <1>3, OwnerIsModule DEF PolicyOf
  <2> DEFINE own == Only(Of(owner).policy)
  <2> HIDE DEF own
  <2>2. Resolve(BasePolicy, own)[field] =
          IF own[field] # Unset[field] THEN own[field] ELSE BasePolicy[field]
    BY ResolveField
  <2>3. owner # "health"
    OBVIOUS
  <2> QED
    BY <1>1, <1>3, <2>1, <2>2, <2>3 DEF Said, own
<1> QED
  BY <1>2, <1>3 DEF Owners

\* Without a declaration nothing is said.
LEMMA UndeclaredSaysNothing ==
  ASSUME app \in Applications, NEW owner \in Owners, ~Declared(owner), NEW field \in DOMAIN Unset
  PROVE  Said(owner, field) = Unset[field]
<1>1. CASE owner = "health"
  BY <1>1, OwnerIsModule DEF Said
<1>2. CASE owner = "direct"
  BY <1>2, OwnerIsModule DEF Said, Declared, Only
<1>3. CASE owner \in Modules
  BY <1>3, OwnerIsModule DEF Said, Declared, Only
<1> QED
  BY <1>1, <1>2, <1>3 DEF Owners

-----------------------------------------------------------------------------
(* The routers.                                                            *)

\* Routers with their owner.
LEMMA OwnedIs ==
  ASSUME NEW owner, NEW routers, IsList(routers)
  PROVE  /\ IsList(Owned(owner, routers))
         /\ ToSet(Owned(owner, routers)) = {[owner |-> owner, routes |-> rs] : rs \in ToSet(routers)}
<1>1. Len(routers) \in Nat /\ DOMAIN routers = 1 .. Len(routers)
  BY LenProperties DEF IsList
<1> DEFINE s == Owned(owner, routers)
<1>2. ToSet(s) = {[owner |-> owner, routes |-> rs] : rs \in ToSet(routers)}
  BY DEF Owned, ToSet
<1>3. \A i \in 1 .. Len(routers) : s[i] \in ToSet(s)
  BY <1>1 DEF Owned, ToSet
<1>4. s = [i \in 1 .. Len(routers) |-> s[i]]
  BY <1>1 DEF Owned
<1> HIDE DEF s
<1>5. s \in Seq(ToSet(s))
  BY <1>1, <1>3, <1>4
<1> QED
  BY <1>2, <1>5 DEF IsList, s

\* A router with its owner holds routes.
IsOwned(x) ==
  x.owner \in Owners /\ IsList(x.routes) /\ \A r \in ToSet(x.routes) : IsRoute(r)

\* Routers of routes, given an owner, are such.
LEMMA OwnedRouters ==
  ASSUME NEW owner \in Owners, NEW routers, AreRouters(routers)
  PROVE  IsList(Owned(owner, routers)) /\ \A x \in ToSet(Owned(owner, routers)) : IsOwned(x)
<1>1. IsList(routers)
  BY DEF AreRouters
<1>2. \A rs \in ToSet(routers) : IsList(rs) /\ \A r \in ToSet(rs) : IsRoute(r)
  BY DEF AreRouters, ToSet
<1>3. ASSUME NEW x \in ToSet(Owned(owner, routers)) PROVE IsOwned(x)
  <2>1. PICK rs \in ToSet(routers) : x = [owner |-> owner, routes |-> rs]
    BY <1>1, <1>3, OwnedIs
  <2> QED
    BY <1>2, <2>1 DEF IsOwned
<1> QED
  BY <1>1, <1>3, OwnedIs

\* The health router's two routes.
LEMMA HealthIsRouter == AreRouters(<<HealthRouter>>)
<1>1. DOMAIN HealthRouter = 1 .. 2 /\ Len(HealthRouter) = 2 /\ HealthRouter \in Seq(ToSet(HealthRouter))
  BY DEF HealthRouter, ToSet
<1>2. IsList(<<>>) /\ DOMAIN (<<>>) = {}
  BY EmptySeq DEF IsList
<1>3. ASSUME NEW i \in 1 .. 2 PROVE IsRoute(HealthRouter[i])
  BY <1>2, MethodsAssumption DEF HealthRouter, IsRoute
<1>4. IsList(HealthRouter) /\ \A i \in DOMAIN HealthRouter : IsRoute(HealthRouter[i])
  BY <1>1, <1>3 DEF IsList
<1> HIDE DEF HealthRouter
<1>5. IsList(<<HealthRouter>>)
  BY DEF IsList, ToSet
<1> QED
  BY <1>4, <1>5 DEF AreRouters

\* The routers of an application.
LEMMA RoutersAre ==
  ASSUME app \in Applications
  PROVE  /\ IsList(Routers) /\ Len(Routers) \in Nat \ {0} /\ DOMAIN Routers = 1 .. Len(Routers)
         /\ \A i \in DOMAIN Routers : IsOwned(Routers[i])
<1> DEFINE builtin == Owned("health", <<HealthRouter>>)
           direct == Owned("direct", app.routers)
           of == [i \in DOMAIN app.modules |-> Owned(app.modules[i].name, app.modules[i].routers)]
           n == Len(app.modules)
<1>1. IsList(builtin) /\ \A x \in ToSet(builtin) : IsOwned(x)
  BY HealthIsRouter, OwnedRouters DEF Owners
<1>2. IsList(direct) /\ \A x \in ToSet(direct) : IsOwned(x)
  BY ApplicationsAssumption, OwnedRouters DEF Owners
<1>3. n \in Nat /\ DOMAIN app.modules = 1 .. n
  BY ApplicationsAssumption, LenProperties DEF IsList
<1>4. ASSUME NEW i \in 1 .. n PROVE IsList(of[i]) /\ \A x \in ToSet(of[i]) : IsOwned(x)
  <2>1. AreRouters(app.modules[i].routers) /\ app.modules[i].name \in Owners
    BY <1>3, ApplicationsAssumption DEF IsModule, Owners, Modules
  <2>2. of[i] = Owned(app.modules[i].name, app.modules[i].routers)
    BY <1>3
  <2> QED
    BY <2>1, <2>2, OwnedRouters
<1>5. of = [i \in 1 .. n |-> of[i]] /\ Len(of) = n
  BY <1>3
<1>6. Routers = (builtin \o direct) \o FlattenSeq(of)
  BY DEF Routers
<1>7. Len(builtin) = 1
  BY DEF Owned
<1> HIDE DEF builtin, direct, of, n
<1>8. IsList(FlattenSeq(of)) /\ \A x \in ToSet(FlattenSeq(of)) : IsOwned(x)
  <2>1. /\ FlattenSeq(of) \in Seq(ToSet(FlattenSeq(of)))
        /\ ToSet(FlattenSeq(of)) = UNION {ToSet(of[i]) : i \in 1 .. n}
    BY <1>3, <1>4, <1>5, ToSetOfFlatten DEF IsList
  <2> QED
    BY <1>4, <2>1 DEF IsList
<1>9. IsList(builtin \o direct) /\ ToSet(builtin \o direct) = ToSet(builtin) \cup ToSet(direct)
  BY <1>1, <1>2, ToSetOfConcat DEF IsList
<1>10. IsList(Routers) /\ \A x \in ToSet(Routers) : IsOwned(x)
  <2>1. IsList(Routers) /\ ToSet(Routers) = ToSet(builtin \o direct) \cup ToSet(FlattenSeq(of))
    BY <1>6, <1>8, <1>9, ToSetOfConcat DEF IsList
  <2> QED
    BY <1>1, <1>2, <1>8, <1>9, <2>1
<1>11. Len(Routers) \in Nat /\ DOMAIN Routers = 1 .. Len(Routers)
  BY <1>10, LenProperties DEF IsList
<1>12. Len(Routers) # 0
  <2> DEFINE S == ToSet(builtin) \cup ToSet(direct) \cup ToSet(FlattenSeq(of))
  <2>1. builtin \in Seq(S) /\ direct \in Seq(S) /\ FlattenSeq(of) \in Seq(S)
    BY <1>1, <1>2, <1>8, SeqMonotonic DEF IsList
  <2> HIDE DEF S
  <2>2. builtin \o direct \in Seq(S) /\ Len(builtin \o direct) = 1 + Len(direct)
    BY <1>7, <2>1, ConcatProperties
  <2>3. Len(Routers) = (1 + Len(direct)) + Len(FlattenSeq(of))
    BY <1>6, <2>1, <2>2, ConcatProperties
  <2>4. Len(direct) \in Nat /\ Len(FlattenSeq(of)) \in Nat
    BY <2>1, LenProperties
  <2> QED
    BY <2>3, <2>4
<1> QED
  BY <1>10, <1>11, <1>12 DEF ToSet

-----------------------------------------------------------------------------
(* What is made of the arguments stays, as they do.                        *)

\* The routers, the application's policy and the collisions depend on app alone.
LEMMA RoutersStay ==
  ASSUME UNCHANGED app
  PROVE  Routers' = Routers /\ BasePolicy' = BasePolicy /\ (RoutesCollide' <=> RoutesCollide)
BY DEF Routers, BasePolicy, RoutesCollide

\* So does all that is declared for an owner.
LEMMA DeclarationsStay ==
  ASSUME UNCHANGED app, NEW owner
  PROVE  /\ (Declared(owner)' <=> Declared(owner)) /\ PolicyOf(owner)' = PolicyOf(owner)
         /\ DependenciesOf(owner)' = DependenciesOf(owner)
         /\ \A field : Said(owner, field)' = Said(owner, field)
<1>1. Of(owner)' = Of(owner) /\ Modules' = Modules
  BY DEF Of, Modules
<1>2. Declared(owner)' <=> Declared(owner)
  BY <1>1 DEF Declared
<1>3. PolicyOf(owner)' = PolicyOf(owner)
  BY <1>1, RoutersStay DEF PolicyOf
<1>4. DependenciesOf(owner)' = DependenciesOf(owner)
  BY <1>1, <1>2, <1>3 DEF DependenciesOf
<1>5. \A field : Said(owner, field)' = Said(owner, field)
  BY <1>1 DEF Said
<1> QED
  BY <1>2, <1>3, <1>4, <1>5

-----------------------------------------------------------------------------
(* Routes and policies noted.                                              *)

\* What including the i-th router adds.
Included(i) == {Include(r, Routers[i].owner) : r \in ToSet(Routers[i].routes)}

\* And what including a router adds.
LEMMA IncludedStay == ASSUME UNCHANGED app, NEW i PROVE Included(i)' = Included(i)
<1>1. \A r, owner : Include(r, owner)' = Include(r, owner)
  BY DeclarationsStay DEF Include
<1> QED
  BY <1>1, RoutersStay DEF Included

\* What is included are the routers before the cursor; an operation has a policy
\* noted exactly when its owner has a declaration, and it is that of the owner.
RecordedInv ==
  /\ \A op \in DOMAIN policies : \E r \in ToSet(routes) :
       op \in Operations(r) /\ Declared(r.owner) /\ policies[op] = PolicyOf(r.owner)
  /\ \A r \in ToSet(routes) : Declared(r.owner) => Operations(r) \subseteq DOMAIN policies

\* create_app includes only after it found no collision; the routes are those of
\* the routers before the cursor, and the policies are noted for them.
RouteInv ==
  /\ app \in Applications
  /\ pc \in {"modules", "routes", "names", "mappers", "install", "include", "serving", "refused"}
  /\ cursor \in 1 .. Len(Routers) + 1
  /\ pc = "include" => cursor <= Len(Routers)
  /\ pc \notin {"include", "serving"} => cursor = 1
  /\ pc \in {"names", "mappers", "install", "include", "serving"} => ~RoutesCollide
  /\ IsList(routes) /\ ToSet(routes) = UNION {Included(i) : i \in 1 .. cursor - 1}
  /\ RecordedInv

\* Nothing is included at first.
LEMMA InitRouteInv == Init => RouteInv
<1> SUFFICES ASSUME Init PROVE RouteInv
  OBVIOUS
<1> USE DEF Init
<1>1. IsList(routes) /\ ToSet(routes) = {} /\ DOMAIN policies = {}
  BY EmptySeq DEF IsList, ToSet
<1>2. UNION {Included(i) : i \in 1 .. cursor - 1} = {}
  OBVIOUS
<1>3. RecordedInv
  BY <1>1 DEF RecordedInv
<1>4. cursor \in 1 .. Len(Routers) + 1
  BY RoutersAre
<1> QED
  BY <1>1, <1>2, <1>3, <1>4 DEF RouteInv

\* As long as nothing is included, only where create_app stands can disturb it.
LEMMA RouteFrame ==
  ASSUME RouteInv, UNCHANGED <<app, cursor, routes, policies>>,
         pc' \in {"modules", "routes", "names", "mappers", "install", "include", "serving", "refused"},
         pc' = "include" => cursor <= Len(Routers),
         pc' \notin {"include", "serving"} => cursor = 1,
         pc' \in {"names", "mappers", "install", "include", "serving"} => ~RoutesCollide
  PROVE  RouteInv'
<1>1. Routers' = Routers /\ (RoutesCollide' <=> RoutesCollide)
  BY RoutersStay
<1>2. \A i : Included(i)' = Included(i)
  BY IncludedStay
<1>3. \A owner : (Declared(owner)' <=> Declared(owner)) /\ PolicyOf(owner)' = PolicyOf(owner)
  BY DeclarationsStay
<1>4. RecordedInv'
  BY <1>3 DEF RouteInv, RecordedInv, Operations
<1>5. UNION {Included(i)' : i \in 1 .. cursor' - 1} = UNION {Included(i) : i \in 1 .. cursor - 1}
  BY <1>2
<1> QED
  BY <1>1, <1>4, <1>5 DEF RouteInv

\* A router's routes come after those before, and the policy of their owner is
\* noted for them.
LEMMA IncludeRouterInv == ASSUME RouteInv, IncludeRouter PROVE RouteInv'
<1> DEFINE R == Routers[cursor]
           new == [i \in DOMAIN R.routes |-> Include(R.routes[i], R.owner)]
           noted == Constantly(UNION {Operations(s) : s \in ToSet(R.routes)}, Recorded(R.owner))
<1>1. /\ cursor \in DOMAIN Routers /\ cursor \in Nat /\ cursor <= Len(Routers)
      /\ Len(Routers) \in Nat /\ app \in Applications /\ ~RoutesCollide
  BY RoutersAre DEF RouteInv, IncludeRouter
<1>2. IsList(R.routes)
  BY <1>1, RoutersAre DEF IsOwned
<1>3. /\ UNCHANGED app /\ cursor' = cursor + 1 /\ routes' = routes \o new
      /\ policies' = IF Declared(R.owner) THEN WithDefaults(noted, policies) ELSE policies
      /\ pc' = IF cursor = Len(Routers) THEN "serving" ELSE "include"
  BY DEF IncludeRouter
<1>4. IsList(new) /\ ToSet(new) = Included(cursor)
  <2>1. Len(R.routes) \in Nat /\ DOMAIN R.routes = 1 .. Len(R.routes)
    BY <1>2, LenProperties DEF IsList
  <2>2. new = [i \in 1 .. Len(R.routes) |-> new[i]] /\ DOMAIN new = 1 .. Len(R.routes)
    BY <2>1
  <2>3. ToSet(new) = Included(cursor)
    BY DEF Included, ToSet
  <2> HIDE DEF new
  <2>4. new \in Seq(ToSet(new))
    BY <2>1, <2>2 DEF ToSet
  <2> QED
    BY <2>3, <2>4 DEF IsList
<1> HIDE DEF new
<1>5. IsList(routes') /\ ToSet(routes') = ToSet(routes) \cup Included(cursor)
  BY <1>3, <1>4, ToSetOfConcat DEF RouteInv, IsList
<1>6. ToSet(routes') = UNION {Included(i) : i \in 1 .. cursor' - 1}
  <2>1. 1 .. cursor' - 1 = (1 .. cursor - 1) \cup {cursor}
    BY <1>1, <1>3
  <2> QED
    BY <1>5, <2>1 DEF RouteInv
<1>7. \A s \in ToSet(R.routes) :
        Operations(Include(s, R.owner)) = Operations(s) /\ Include(s, R.owner).owner = R.owner
  BY DEF Include, Operations
<1>8. \A op \in DOMAIN policies' : \E r \in ToSet(routes') :
        op \in Operations(r) /\ Declared(r.owner) /\ policies'[op] = PolicyOf(r.owner)
  <2> SUFFICES ASSUME NEW op \in DOMAIN policies'
               PROVE  \E r \in ToSet(routes') : /\ op \in Operations(r) /\ Declared(r.owner)
                                                /\ policies'[op] = PolicyOf(r.owner)
    OBVIOUS
  <2>1. CASE Declared(R.owner) /\ op \in DOMAIN noted
    <3>1. PICK s \in ToSet(R.routes) : op \in Operations(s)
      BY <2>1 DEF Constantly
    <3>2. policies'[op] = PolicyOf(R.owner)
      BY <1>3, <2>1 DEF WithDefaults, Constantly, Recorded
    <3>3. Include(s, R.owner) \in Included(cursor)
      BY DEF Included
    <3> QED
      BY <1>5, <1>7, <2>1, <3>1, <3>2, <3>3
  <2>2. CASE ~(Declared(R.owner) /\ op \in DOMAIN noted)
    <3>1. op \in DOMAIN policies /\ policies'[op] = policies[op]
      BY <1>3, <2>2 DEF WithDefaults
    <3> QED
      BY <1>5, <3>1 DEF RouteInv, RecordedInv
  <2> QED
    BY <2>1, <2>2
<1>9. \A r \in ToSet(routes') : Declared(r.owner) => Operations(r) \subseteq DOMAIN policies'
  <2> SUFFICES ASSUME NEW r \in ToSet(routes'), Declared(r.owner), NEW op \in Operations(r)
               PROVE  op \in DOMAIN policies'
    OBVIOUS
  <2>1. DOMAIN policies \subseteq DOMAIN policies'
    BY <1>3 DEF WithDefaults
  <2>2. CASE r \in ToSet(routes)
    BY <2>1, <2>2 DEF RouteInv, RecordedInv
  <2>3. CASE r \in Included(cursor)
    <3>1. PICK s \in ToSet(R.routes) : r = Include(s, R.owner)
      BY <2>3 DEF Included
    <3>2. Declared(R.owner) /\ op \in Operations(s)
      BY <1>7, <3>1
    <3>3. op \in DOMAIN noted
      BY <3>2 DEF Constantly
    <3> QED
      BY <1>3, <3>2, <3>3 DEF WithDefaults
  <2> QED
    BY <1>5, <2>2, <2>3
<1> HIDE DEF noted, R
<1>10. \A owner : (Declared(owner)' <=> Declared(owner)) /\ PolicyOf(owner)' = PolicyOf(owner)
  BY <1>3, DeclarationsStay
<1>11. RecordedInv'
  BY <1>8, <1>9, <1>10 DEF RecordedInv, Operations
<1>12. Routers' = Routers /\ (RoutesCollide' <=> RoutesCollide) /\ \A i : Included(i)' = Included(i)
  BY <1>3, RoutersStay, IncludedStay
<1>13. UNION {Included(i)' : i \in 1 .. cursor' - 1} = UNION {Included(i) : i \in 1 .. cursor' - 1}
  BY <1>12
<1> QED
  BY <1>1, <1>3, <1>5, <1>6, <1>11, <1>12, <1>13 DEF RouteInv

\* The invariant holds in every behaviour.
THEOREM RouteInvariance == Spec => []RouteInv
<1>1. ASSUME RouteInv, [Next]_vars PROVE RouteInv'
  <2>1. CASE IncludeRouter
    BY <1>1, <2>1, IncludeRouterInv
  <2>2. CASE FlattenModules \/ ValidateRoutes \/ ValidateNames \/ ValidateMappers
    <3>1. UNCHANGED <<app, cursor, routes, policies>>
      BY <2>2 DEF FlattenModules, ValidateRoutes, ValidateNames, ValidateMappers, Validate
    <3>2. /\ pc \in {"modules", "routes", "names", "mappers"}
          /\ pc' \in {"routes", "names", "mappers", "install", "refused"}
          /\ pc \in {"names", "mappers"} \/ pc' \in {"routes", "refused"} \/ ~RoutesCollide
      BY <2>2 DEF FlattenModules, ValidateRoutes, ValidateNames, ValidateMappers, Validate
    <3> QED
      BY <1>1, <3>1, <3>2, RouteFrame DEF RouteInv
  <2>3. CASE InstallHandlers
    <3>1. UNCHANGED <<app, cursor, routes, policies>> /\ pc = "install" /\ pc' = "include"
      BY <2>3 DEF InstallHandlers
    <3>2. cursor = 1 /\ cursor <= Len(Routers) /\ ~RoutesCollide
      BY <1>1, <3>1, RoutersAre DEF RouteInv
    <3> QED
      BY <1>1, <3>1, <3>2, RouteFrame
  <2>4. CASE UNCHANGED <<app, pc, cursor, routes, policies>>
    BY <1>1, <2>4, RouteFrame DEF RouteInv
  <2> QED
    BY <1>1, <2>1, <2>2, <2>3, <2>4
    DEF Next, vars, OpenApi, StartServer, RegisterErrorMapper, Request, Unanswered, Refused
<1> QED
  BY <1>1, InitRouteInv, PTL DEF Spec

-----------------------------------------------------------------------------
(* Each operation and each id belong to one route.                         *)

\* A route is an included one of a router, and where there is one the
\* declarations have been found without a collision.
LEMMA RouteIsIncluded ==
  ASSUME RouteInv, NEW r \in ToSet(routes)
  PROVE  /\ app \in Applications /\ ~RoutesCollide
         /\ \E i \in DOMAIN Routers : \E k \in DOMAIN Routers[i].routes :
              r = Include(Routers[i].routes[k], Routers[i].owner)
<1>1. PICK i \in 1 .. cursor - 1 : r \in Included(i)
  BY DEF RouteInv
<1>2. PICK d \in ToSet(Routers[i].routes) : r = Include(d, Routers[i].owner)
  BY <1>1 DEF Included
<1>3. PICK k \in DOMAIN Routers[i].routes : d = Routers[i].routes[k]
  BY DEF ToSet
<1>4. app \in Applications /\ cursor \in 1 .. Len(Routers) + 1 /\ Len(Routers) \in Nat
  BY RoutersAre DEF RouteInv
<1>5. cursor # 1 /\ i \in DOMAIN Routers
  BY <1>4, RoutersAre
<1>6. ~RoutesCollide
  BY <1>5 DEF RouteInv
<1> QED
  BY <1>2, <1>3, <1>4, <1>5, <1>6

\* A route with the id or an operation of a declared one is that one, included.
LEMMA RouteIsUnique ==
  ASSUME RouteInv, NEW r \in ToSet(routes),
         NEW i \in DOMAIN Routers, NEW d \in ToSet(Routers[i].routes),
         r.id = d.id \/ Operations(r) \cap Operations(d) # {}
  PROVE  r = Include(d, Routers[i].owner)
<1>1. ~RoutesCollide
  BY RouteIsIncluded
<1>2. PICK j \in DOMAIN Routers : \E k \in DOMAIN Routers[j].routes :
              r = Include(Routers[j].routes[k], Routers[j].owner)
  BY RouteIsIncluded
<1>3. PICK k \in DOMAIN Routers[j].routes : r = Include(Routers[j].routes[k], Routers[j].owner)
  BY <1>2
<1>4. PICK l \in DOMAIN Routers[i].routes : d = Routers[i].routes[l]
  BY DEF ToSet
<1> DEFINE s == Routers[j].routes[k]
<1>5. r.id = s.id /\ r.path = s.path /\ r.methods = s.methods
  BY <1>3 DEF Include
<1>6. SameOperation(s, d)
  <2>1. CASE r.id = d.id
    BY <1>5, <2>1 DEF SameOperation
  <2>2. CASE Operations(r) \cap Operations(d) # {}
    <3>1. PICK op : op \in Operations(r) /\ op \in Operations(d)
      BY <2>2
    <3>2. /\ op[1] \in r.methods /\ op[2] = r.path /\ op[1] \in d.methods /\ op[2] = d.path
      BY <3>1 DEF Operations
    <3> QED
      BY <1>5, <3>2 DEF SameOperation
  <2> QED
    BY <2>1, <2>2
<1>7. i = j /\ k = l
  BY <1>1, <1>4, <1>6 DEF RoutesCollide
<1> QED
  BY <1>3, <1>4, <1>7

\* Two routes with an operation in common are one.
LEMMA SameRoute ==
  ASSUME RouteInv, NEW r \in ToSet(routes), NEW s \in ToSet(routes),
         Operations(r) \cap Operations(s) # {}
  PROVE  r = s
<1>1. PICK i \in DOMAIN Routers : \E k \in DOMAIN Routers[i].routes :
              s = Include(Routers[i].routes[k], Routers[i].owner)
  BY RouteIsIncluded
<1>2. PICK k \in DOMAIN Routers[i].routes : s = Include(Routers[i].routes[k], Routers[i].owner)
  BY <1>1
<1>3. /\ Operations(s) = Operations(Routers[i].routes[k])
      /\ Routers[i].routes[k] \in ToSet(Routers[i].routes)
  BY <1>2 DEF Include, Operations, ToSet
<1> QED
  BY <1>2, <1>3, RouteIsUnique

\* The owner of a route is one, and it comes from no one else.
LEMMA RouteOwner ==
  ASSUME RouteInv, NEW r \in ToSet(routes)
  PROVE  r.owner \in Owners /\ app \in Applications
<1>1. PICK i \in DOMAIN Routers : \E k \in DOMAIN Routers[i].routes :
              r = Include(Routers[i].routes[k], Routers[i].owner)
  BY RouteIsIncluded
<1>2. r.owner = Routers[i].owner
  BY <1>1 DEF Include
<1>3. IsOwned(Routers[i])
  BY <1>1, RouteIsIncluded, RoutersAre
<1> QED
  BY <1>2, <1>3, RouteIsIncluded DEF IsOwned

\* What is noted for a route's operation is its owner's policy, and of a route
\* without a declaration nothing is.
LEMMA RoutePolicies ==
  ASSUME RouteInv, NEW r \in ToSet(routes), NEW op \in Operations(r)
  PROVE  /\ op \in DOMAIN policies <=> Declared(r.owner)
         /\ op \in DOMAIN policies => policies[op] = PolicyOf(r.owner)
<1>1. Declared(r.owner) => op \in DOMAIN policies
  BY DEF RouteInv, RecordedInv
<1>2. ASSUME op \in DOMAIN policies
      PROVE  Declared(r.owner) /\ policies[op] = PolicyOf(r.owner)
  <2>1. PICK s \in ToSet(routes) :
          op \in Operations(s) /\ Declared(s.owner) /\ policies[op] = PolicyOf(s.owner)
    BY <1>2 DEF RouteInv, RecordedInv
  <2>2. s = r
    BY <2>1, SameRoute
  <2> QED
    BY <2>1, <2>2
<1> QED
  BY <1>1, <1>2

-----------------------------------------------------------------------------
(* Dependencies.                                                           *)

\* The dependencies a router is included with are those declared for its owner.
LEMMA DependenciesOfOwner ==
  ASSUME app \in Applications, NEW owner \in Owners
  PROVE  /\ IsList(DependenciesOf(owner))
         /\ ToSet(DependenciesOf(owner)) =
              (IF owner = "health" THEN {} ELSE ToSet(Only(app.policy).dependencies))
              \cup (IF owner \in Modules
                    THEN ToSet(Of(owner).dependencies) \cup ToSet(Only(Of(owner).policy).dependencies)
                    ELSE {})
<1>0. IsList(<<>>) /\ ToSet(<<>>) = {}
  BY EmptySeq DEF IsList, ToSet
<1>1. Unset.dependencies = <<>>
  BY DEF Unset
<1> DEFINE general == Only(app.policy).dependencies
<1>2. IsList(general) /\ IsList(BasePolicy.dependencies)
  BY AppPolicy DEF IsPolicy
<1>3. ToSet(BasePolicy.dependencies) = ToSet(general)
  <2>1. BasePolicy.dependencies = <<>> \o general
    BY <1>1, ResolveIs DEF BasePolicy
  <2> QED
    BY <1>0, <1>2, <2>1, ToSetOfConcat DEF IsList
<1>4. app.policy = {} => general = <<>>
  BY <1>1 DEF Only
<1> HIDE DEF general
<1>5. CASE owner = "health"
  <2>1. owner \notin Modules /\ DependenciesOf(owner) = <<>> \o <<>>
    BY <1>5, OwnerIsModule DEF DependenciesOf, Declared
  <2> QED
    BY <1>0, <1>5, <2>1, ToSetOfConcat DEF IsList
<1>6. CASE owner = "direct"
  <2>1. owner \notin Modules /\ owner # "health"
    BY <1>6, OwnerIsModule
  <2> DEFINE by == IF Declared(owner) THEN PolicyOf(owner).dependencies ELSE <<>>
  <2>2. DependenciesOf(owner) = <<>> \o by
    BY <1>6 DEF DependenciesOf
  <2>3. PolicyOf(owner) = BasePolicy /\ (Declared(owner) <=> app.policy # {})
    BY <1>6 DEF PolicyOf, Declared
  <2>4. IsList(by) /\ ToSet(by) = ToSet(general)
    BY <1>0, <1>2, <1>3, <1>4, <2>3
  <2> HIDE DEF by
  <2>5. IsList(<<>> \o by) /\ ToSet(<<>> \o by) = {} \cup ToSet(by)
    BY <1>0, <2>4, ToSetOfConcat DEF IsList
  <2> QED
    BY <2>1, <2>2, <2>4, <2>5 DEF general
<1>7. CASE owner \in Modules
  <2> DEFINE own == Only(Of(owner).policy).dependencies
             module == Of(owner).dependencies
             by == IF Declared(owner) THEN PolicyOf(owner).dependencies ELSE <<>>
  <2>1. owner \notin {"health", "direct"} /\ IsList(module) /\ IsList(own)
    BY <1>7, OwnerIsModule, ModulePolicy DEF IsModule, IsPolicy
  <2>2. DependenciesOf(owner) = module \o by
    BY <2>1 DEF DependenciesOf
  <2>3. /\ PolicyOf(owner).dependencies = BasePolicy.dependencies \o own
        /\ Declared(owner) <=> app.policy # {} \/ Of(owner).policy # {}
    BY <2>1, ResolveIs DEF PolicyOf, Declared
  <2>4. Of(owner).policy = {} => own = <<>>
    BY <1>1 DEF Only
  <2> HIDE DEF own, module
  <2>5. /\ IsList(BasePolicy.dependencies \o own)
        /\ ToSet(BasePolicy.dependencies \o own) = ToSet(general) \cup ToSet(own)
    BY <1>2, <1>3, <2>1, ToSetOfConcat DEF IsList
  <2>6. IsList(by) /\ ToSet(by) = ToSet(general) \cup ToSet(own)
    <3>1. CASE Declared(owner)
      BY <2>3, <2>5, <3>1
    <3>2. CASE ~Declared(owner)
      BY <1>0, <1>4, <2>3, <2>4, <3>2
    <3> QED
      BY <3>1, <3>2
  <2> HIDE DEF by
  <2>7. IsList(module \o by) /\ ToSet(module \o by) = ToSet(module) \cup ToSet(by)
    BY <2>1, <2>6, ToSetOfConcat DEF IsList
  <2> QED
    BY <1>7, <2>1, <2>2, <2>6, <2>7 DEF general, own, module
<1> QED
  BY <1>5, <1>6, <1>7 DEF Owners

\* A route guarded by what was declared for it, and by nothing else.
LEMMA DependenciesAre == RouteInv => DependenciesStay
<1> SUFFICES ASSUME RouteInv, NEW i \in DOMAIN Routers, NEW r \in ToSet(Routers[i].routes),
                    NEW s \in ToSet(routes), s.id = r.id
             PROVE  ToSet(s.dependencies) =
                      ToSet(r.dependencies)
                      \cup (IF Routers[i].owner = "health" THEN {}
                            ELSE ToSet(Only(app.policy).dependencies))
                      \cup (IF Routers[i].owner \in Modules
                            THEN ToSet(Of(Routers[i].owner).dependencies)
                                 \cup ToSet(Only(Of(Routers[i].owner).policy).dependencies)
                            ELSE {})
  BY Zenon DEF DependenciesStay
<1> DEFINE owner == Routers[i].owner
<1>1. s = Include(r, owner)
  BY RouteIsUnique
<1>2. app \in Applications /\ owner \in Owners /\ IsList(r.dependencies)
  BY RoutersAre DEF RouteInv, IsOwned, IsRoute
<1>3. s.dependencies = DependenciesOf(owner) \o r.dependencies
  BY <1>1 DEF Include
<1> HIDE DEF owner
<1>4. ToSet(s.dependencies) = ToSet(DependenciesOf(owner)) \cup ToSet(r.dependencies)
  BY <1>2, <1>3, DependenciesOfOwner, ToSetOfConcat DEF IsList
<1> QED
  BY <1>2, <1>4, DependenciesOfOwner DEF owner

\* A dependency of a module or of its policy guards that module's routes and no
\* others; one of the application's policy guards all but the built-in ones.
THEOREM DependenciesGuard == Spec => []DependenciesStay
BY RouteInvariance, DependenciesAre, PTL

-----------------------------------------------------------------------------
(* Answers.                                                                *)

\* Of some routes there is a first.
LEMMA FirstRoute ==
  ASSUME RouteInv, NEW S, S \subseteq DOMAIN routes, S # {}
  PROVE  \E i \in S : \A j \in 1 .. i - 1 : j \in DOMAIN routes \ S
<1>1. DOMAIN routes = 1 .. Len(routes) /\ Len(routes) \in Nat
  BY LenProperties DEF RouteInv, IsList
<1>2. PICK i \in S : \A j \in S : i <= j
  BY <1>1, FirstOf
<1>3. \A j \in 1 .. i - 1 : j \in DOMAIN routes /\ ~(i <= j)
  BY <1>1, <1>2
<1> QED
  BY <1>2, <1>3

\* Of those that match a request.
LEMMA FirstServes ==
  ASSUME RouteInv, NEW m, NEW u, \E r \in ToSet(routes) : MatchesAll(m, u, r)
  PROVE  \E i \in DOMAIN routes :
           MatchesAll(m, u, routes[i]) /\ \A j \in 1 .. i - 1 : ~MatchesAll(m, u, routes[j])
<1> DEFINE S == {i \in DOMAIN routes : MatchesAll(m, u, routes[i])}
<1>1. S \subseteq DOMAIN routes /\ S # {}
  BY DEF ToSet
<1> QED
  BY <1>1, FirstRoute

\* And of those that match a path.
LEMMA FirstReaches ==
  ASSUME RouteInv, NEW u, \E r \in ToSet(routes) : MatchesPath(u, r)
  PROVE  \E i \in DOMAIN routes :
           MatchesPath(u, routes[i]) /\ \A j \in 1 .. i - 1 : ~MatchesPath(u, routes[j])
<1> DEFINE S == {i \in DOMAIN routes : MatchesPath(u, routes[i])}
<1>1. S \subseteq DOMAIN routes /\ S # {}
  BY DEF ToSet
<1> QED
  BY <1>1, FirstRoute

\* The status of refused input under the policies noted for an operation.
RefusedStatus(policy) == IF policy # {} THEN EffectiveStatus(Only(policy)) ELSE 422

\* What a request is answered, by a route that has its operation.
LEMMA RequestIs ==
  ASSUME RouteInv, NEW m, NEW u, NEW k, Request(m, u, k)
  PROVE  \E r \in ToSet(routes) :
           /\ <<m, r.path>> \in Operations(r)
           /\ answer'.to = r.owner /\ answer'.kind = k
           /\ answer'.renderer = RendererBy(RoutePolicy(m, r.path))
           /\ \/ k = "invalid" /\ answer'.status = RefusedStatus(RoutePolicy(m, r.path))
              \/ k \in Classes /\ answer'.status \in {409, 500}
<1> DEFINE serves(r) == MatchesAll(m, u, r)
           route == routes[First(serves)]
           op == <<m, route.path>>
           policy == RoutePolicy(m, route.path)
           refusal == IF policy # {} THEN EffectiveStatus(Only(policy)) ELSE 422
           raised == IF k \in Handled(StackBuilt) THEN 409 ELSE 500
<1>1. \/ k = "invalid" /\ Answers(route.owner, op, k, refusal, policy)
      \/ k \in Classes /\ Answers(route.owner, op, k, raised, policy)
  BY DEF Request
<1>2. route \in ToSet(routes) /\ MatchesAll(m, u, route)
  <2>1. First(serves) \in DOMAIN routes /\ MatchesAll(m, u, routes[First(serves)])
    <3>1. \E i \in DOMAIN routes :
            MatchesAll(m, u, routes[i]) /\ \A j \in 1 .. i - 1 : ~MatchesAll(m, u, routes[j])
      BY FirstServes DEF Request
    <3> QED
      BY <3>1 DEF First
  <2> DEFINE i == First(serves)
  <2> HIDE DEF i
  <2>2. i \in DOMAIN routes /\ MatchesAll(m, u, routes[i])
    BY <2>1 DEF i
  <2>3. routes[i] \in ToSet(routes)
    BY <2>2 DEF ToSet
  <2> QED
    BY <2>2, <2>3, Zenon DEF i
<1>3. refusal = RefusedStatus(policy) /\ raised \in {409, 500}
  BY DEF RefusedStatus
<1>4. ASSUME NEW to, NEW o, NEW status, NEW p, Answers(to, o, k, status, p)
      PROVE  answer'.to = to /\ answer'.kind = k /\ answer'.status = status
             /\ answer'.renderer = RendererBy(p)
  BY <1>4 DEF Answers
<1> HIDE DEF route, refusal, raised
<1>5. <<m, route.path>> \in Operations(route)
  BY <1>2 DEF Operations, MatchesAll
<1>6. CASE k = "invalid" /\ Answers(route.owner, op, k, refusal, policy)
  <2>1. /\ answer'.to = route.owner /\ answer'.kind = k /\ answer'.status = refusal
        /\ answer'.renderer = RendererBy(policy)
    BY <1>4, <1>6
  <2> QED
    BY <1>2, <1>3, <1>5, <1>6, <2>1
<1>7. CASE k \in Classes /\ Answers(route.owner, op, k, raised, policy)
  <2>1. /\ answer'.to = route.owner /\ answer'.kind = k /\ answer'.status = raised
        /\ answer'.renderer = RendererBy(policy)
    BY <1>4, <1>7
  <2> QED
    BY <1>2, <1>3, <1>5, <1>7, <2>1
<1> QED
  BY <1>1, <1>6, <1>7

\* What a request no route has is answered: by no policy, since a policy under its
\* method and that path would come from a route that has both.
LEMMA UnansweredIs ==
  ASSUME RouteInv, NEW m, NEW u, Unanswered(m, u)
  PROVE  /\ answer'.to = "nobody" /\ answer'.renderer = "application"
         /\ answer'.status \in {404, 405} /\ answer'.kind \in {"method", "path"}
<1> DEFINE reaches(r) == MatchesPath(u, r)
           route == routes[First(reaches)]
<1>1. ASSUME NEW to, NEW o, NEW k, NEW status, NEW p, Answers(to, o, k, status, p)
      PROVE  answer'.to = to /\ answer'.kind = k /\ answer'.status = status
             /\ answer'.renderer = RendererBy(p)
  BY <1>1 DEF Answers
<1>2. RendererBy({}) = "application"
  BY DEF RendererBy
<1>3. CASE \E r \in ToSet(routes) : reaches(r)
  <2>1. Answers("nobody", <<>>, "method", 405, RoutePolicy(m, route.path))
    BY <1>3 DEF Unanswered
  <2>2. route \in ToSet(routes) /\ MatchesPath(u, route)
    <3>1. First(reaches) \in DOMAIN routes /\ MatchesPath(u, routes[First(reaches)])
      <4>1. \E i \in DOMAIN routes :
              MatchesPath(u, routes[i]) /\ \A j \in 1 .. i - 1 : ~MatchesPath(u, routes[j])
        BY <1>3, FirstReaches
      <4> QED
        BY <4>1 DEF First
    <3> DEFINE i == First(reaches)
    <3> HIDE DEF i
    <3>2. i \in DOMAIN routes /\ MatchesPath(u, routes[i])
      BY <3>1 DEF i
    <3>3. routes[i] \in ToSet(routes)
      BY <3>2 DEF ToSet
    <3> QED
      BY <3>2, <3>3, Zenon DEF i
  <2> HIDE DEF route
  <2>3. <<m, route.path>> \notin DOMAIN policies
    <3> SUFFICES ASSUME <<m, route.path>> \in DOMAIN policies PROVE FALSE
      OBVIOUS
    <3>1. PICK r \in ToSet(routes) : <<m, route.path>> \in Operations(r)
      BY DEF RouteInv, RecordedInv
    <3>2. m \in r.methods /\ r.path = route.path
      BY <3>1 DEF Operations
    <3>3. MatchesAll(m, u, r)
      BY <2>2, <3>2 DEF MatchesAll, MatchesPath
    <3> QED
      BY <3>3 DEF Unanswered
  <2>4. RoutePolicy(m, route.path) = {}
    BY <2>3 DEF RoutePolicy
  <2> QED
    BY <1>1, <1>2, <2>1, <2>4
<1>4. CASE ~\E r \in ToSet(routes) : reaches(r)
  <2>1. Answers("nobody", <<>>, "path", 404, {})
    BY <1>4 DEF Unanswered
  <2> QED
    BY <1>1, <1>2, <2>1
<1> QED
  BY <1>3, <1>4

\* What the status and the renderer of an owner's policy are.
LEMMA PolicyAnswers ==
  ASSUME app \in Applications, NEW owner \in Owners, owner # "health"
  PROVE  /\ PolicyOf(owner).error_renderer = Said(owner, "error_renderer")
         /\ EffectiveStatus(PolicyOf(owner)) =
              IF Status422(owner) THEN 422 ELSE Said(owner, "validation_status")
<1>1. {"error_renderer", "validation_status"} \subseteq ContractFields \ {"responses"}
  BY DEF ContractFields, Unset
<1> DEFINE p == PolicyOf(owner)
<1>2. /\ p.error_renderer = Said(owner, "error_renderer")
      /\ p.validation_status = Said(owner, "validation_status")
  BY <1>1, PolicySays
<1> HIDE DEF p
<1>3. EffectiveStatus(p) = IF Status422(owner) THEN 422 ELSE Said(owner, "validation_status")
  BY <1>2 DEF EffectiveStatus, Status422
<1> QED
  BY <1>2, <1>3 DEF p

\* What the errors of a route's operation follow is what its owner declared.
LEMMA RouteAnswers ==
  ASSUME RouteInv, NEW m, NEW r \in ToSet(routes), <<m, r.path>> \in Operations(r)
  PROVE  /\ RendererBy(RoutePolicy(m, r.path)) =
              IF Said(r.owner, "error_renderer") = "none" THEN "application"
              ELSE Said(r.owner, "error_renderer")
         /\ RefusedStatus(RoutePolicy(m, r.path)) =
              IF Status422(r.owner) THEN 422 ELSE Said(r.owner, "validation_status")
         /\ RefusedStatus(RoutePolicy(m, r.path)) \in 400 .. 599
<1> DEFINE owner == r.owner
<1>1. owner \in Owners /\ app \in Applications
  BY RouteOwner
<1>2. CASE Declared(owner)
  <2>1. owner # "health"
    BY <1>2 DEF Declared
  <2> DEFINE p == PolicyOf(owner)
  <2>2. RoutePolicy(m, r.path) = {p}
    BY <1>2, RoutePolicies DEF RoutePolicy
  <2>3. Only({p}) = p
    BY DEF Only
  <2>4. /\ IsPolicy(p) /\ p.error_renderer = Said(owner, "error_renderer")
        /\ EffectiveStatus(p) = IF Status422(owner) THEN 422 ELSE Said(owner, "validation_status")
    BY <1>1, <2>1, PolicyAnswers, PolicyOfIsPolicy
  <2> HIDE DEF p, owner
  <2>5. RefusedStatus({p}) = EffectiveStatus(p) /\ EffectiveStatus(p) \in 400 .. 599
    BY <2>3, <2>4, StatusIsError DEF RefusedStatus
  <2>6. RendererBy({p}) = IF p.error_renderer = "none" THEN "application" ELSE p.error_renderer
    BY <2>3 DEF RendererBy
  <2> QED
    BY <2>2, <2>4, <2>5, <2>6 DEF owner
<1>3. CASE ~Declared(owner)
  <2>1. RoutePolicy(m, r.path) = {}
    BY <1>3, RoutePolicies DEF RoutePolicy
  <2>2. Said(owner, "error_renderer") = "none" /\ Said(owner, "validation_status") = 0
    BY <1>1, <1>3, UndeclaredSaysNothing DEF Unset
  <2> HIDE DEF owner
  <2>3. RendererBy({}) = "application" /\ RefusedStatus({}) = 422 /\ Status422(owner)
    BY <2>2 DEF RendererBy, RefusedStatus, Status422
  <2> QED
    BY <2>1, <2>2, <2>3 DEF owner
<1> QED
  BY <1>2, <1>3

\* An answer stays what was declared: nobody changes the declarations.
LEMMA AnswerFrame ==
  ASSUME ErrorsFollowDeclaration, UNCHANGED <<app, answer>>
  PROVE  ErrorsFollowDeclaration'
<1>1. \A owner, field : Said(owner, field)' = Said(owner, field)
  BY DeclarationsStay
<1>2. \A owner : Status422(owner)' <=> Status422(owner)
  BY <1>1 DEF Status422
<1> QED
  BY <1>1, <1>2 DEF ErrorsFollowDeclaration

\* A request is answered as declared, and with a status of an error.
LEMMA RequestFollows ==
  ASSUME RouteInv, NEW m, NEW u, NEW k, Request(m, u, k)
  PROVE  ErrorsFollowDeclaration' /\ answer'.status \in 400 .. 599
<1>1. PICK r \in ToSet(routes) :
        /\ <<m, r.path>> \in Operations(r)
        /\ answer'.to = r.owner /\ answer'.kind = k
        /\ answer'.renderer = RendererBy(RoutePolicy(m, r.path))
        /\ \/ k = "invalid" /\ answer'.status = RefusedStatus(RoutePolicy(m, r.path))
           \/ k \in Classes /\ answer'.status \in {409, 500}
  BY RequestIs
<1>2. UNCHANGED app
  BY DEF Request
<1>3. \A owner, field : Said(owner, field)' = Said(owner, field)
  BY <1>2, DeclarationsStay
<1>4. \A owner : Status422(owner)' <=> Status422(owner)
  BY <1>3 DEF Status422
<1>5. r.owner # "nobody"
  BY RouteOwner, OwnerIsModule DEF Owners
<1>6. k = "invalid" => k \notin Classes
  BY ClassesAssumption
<1>7. answer'.status \in 400 .. 599
  BY <1>1, RouteAnswers
<1>8. answer'.renderer = IF Said(r.owner, "error_renderer") = "none" THEN "application"
                         ELSE Said(r.owner, "error_renderer")
  BY <1>1, RouteAnswers
<1>9. k = "invalid" => answer'.status = IF Status422(r.owner) THEN 422
                                        ELSE Said(r.owner, "validation_status")
  BY <1>1, <1>6, RouteAnswers
<1>10. ErrorsFollowDeclaration'
  BY <1>1, <1>3, <1>4, <1>5, <1>8, <1>9 DEF ErrorsFollowDeclaration
<1> QED
  BY <1>7, <1>10

\* The error a client gets of an operation follows what was declared for the
\* module its endpoint came with; an error of no operation the application.
THEOREM ErrorsFollow == Spec => []ErrorsFollowDeclaration
<1>1. Init => ErrorsFollowDeclaration
  BY DEF Init, ErrorsFollowDeclaration
<1>2. ASSUME RouteInv, ErrorsFollowDeclaration, [Next]_vars PROVE ErrorsFollowDeclaration'
  <2>1. CASE \E m \in Methods, u \in DOMAIN Matches, k \in Classes \cup {"invalid"} : Request(m, u, k)
    BY <1>2, <2>1, RequestFollows
  <2>2. CASE \E m \in Methods, u \in DOMAIN Matches : Unanswered(m, u)
    <3>1. answer'.to = "nobody" /\ answer'.renderer = "application"
      BY <1>2, <2>2, UnansweredIs
    <3> QED
      BY <3>1 DEF ErrorsFollowDeclaration
  <2>3. CASE UNCHANGED <<app, answer>>
    BY <1>2, <2>3, AnswerFrame
  <2>4. IncludeRouter => UNCHANGED <<app, answer>>
    BY DEF IncludeRouter
  <2>5. FlattenModules \/ ValidateRoutes \/ ValidateNames \/ ValidateMappers
        => UNCHANGED <<app, answer>>
    BY DEF FlattenModules, ValidateRoutes, ValidateNames, ValidateMappers, Validate
  <2>6. OpenApi => UNCHANGED <<app, answer>>
    BY DEF OpenApi
  <2> QED
    BY <1>2, <2>1, <2>2, <2>3, <2>4, <2>5, <2>6
    DEF Next, vars, InstallHandlers, StartServer, RegisterErrorMapper, Refused
<1> QED
  BY <1>1, <1>2, RouteInvariance, PTL DEF Spec

-----------------------------------------------------------------------------
(* The document.                                                           *)

\* Adjusting the responses of an operation keeps those it has, but for a 422 the
\* policy does without, and adds the policy's status for refused input.
IsAdjusted(y, x, p) ==
  /\ DOMAIN y = (DOMAIN x \cup {EffectiveStatus(p)}) \ (IF EffectiveInclude(p) THEN {} ELSE {422})
  /\ \A s \in DOMAIN y : y[s] = IF s \in DOMAIN x THEN x[s] ELSE "validation error"
  /\ y = [s \in DOMAIN y |-> y[s]]

\* That is what app_openapi makes of the responses of an operation.
LEMMA AdjustedIs ==
  ASSUME NEW x, NEW p
  PROVE  IsAdjusted(Adjusted(x, p), x, p)
<1> DEFINE y == Adjusted(x, p)
<1> DEFINE d == Constantly({EffectiveStatus(p)}, "validation error")
           all == WithDefaults(x, d)
<1>1. DOMAIN d = {EffectiveStatus(p)} /\ \A s \in DOMAIN d : d[s] = "validation error"
  BY DEF Constantly
<1> HIDE DEF d
<1>2. /\ all = [s \in DOMAIN all |-> all[s]] /\ DOMAIN all = DOMAIN x \cup {EffectiveStatus(p)}
      /\ \A s \in DOMAIN all : all[s] = IF s \in DOMAIN x THEN x[s] ELSE "validation error"
  BY <1>1 DEF WithDefaults
<1>3. y = IF EffectiveInclude(p) THEN all ELSE Restrict(all, DOMAIN all \ {422})
  BY DEF Adjusted, d
<1> HIDE DEF all, y
<1>4. Restrict(all, DOMAIN all \ {422}) = [s \in DOMAIN all \ {422} |-> all[s]]
  BY DEF Restrict
<1>5. /\ DOMAIN y = DOMAIN all \ (IF EffectiveInclude(p) THEN {} ELSE {422})
      /\ \A s \in DOMAIN y : y[s] = all[s]
      /\ y = [s \in DOMAIN y |-> y[s]]
  <2>1. CASE EffectiveInclude(p)
    <3>1. y = all
      BY <1>3, <2>1
    <3> QED
      BY <1>2, <2>1, <3>1
  <2>2. CASE ~EffectiveInclude(p)
    <3>1. y = [s \in DOMAIN all \ {422} |-> all[s]]
      BY <1>3, <1>4, <2>2
    <3> QED
      BY <2>2, <3>1
  <2> QED
    BY <2>1, <2>2
<1>6. DOMAIN y \subseteq DOMAIN all
  BY <1>5
<1>7. \A s \in DOMAIN y : y[s] = IF s \in DOMAIN x THEN x[s] ELSE "validation error"
  <2> SUFFICES ASSUME NEW s \in DOMAIN y
               PROVE  y[s] = IF s \in DOMAIN x THEN x[s] ELSE "validation error"
    OBVIOUS
  <2>1. y[s] = all[s] /\ s \in DOMAIN all
    BY <1>5, <1>6
  <2>2. all[s] = IF s \in DOMAIN x THEN x[s] ELSE "validation error"
    BY <1>2, <2>1
  <2> QED
    BY <2>1, <2>2
<1>8. DOMAIN y = (DOMAIN x \cup {EffectiveStatus(p)}) \ (IF EffectiveInclude(p) THEN {} ELSE {422})
  BY <1>2, <1>5
<1> QED
  BY <1>5, <1>7, <1>8 DEF IsAdjusted, y

\* Adjusting once more changes nothing.
LEMMA AdjustedOnce ==
  ASSUME NEW x, NEW p
  PROVE  Adjusted(Adjusted(x, p), p) = Adjusted(x, p)
<1> DEFINE y == Adjusted(x, p)
           z == Adjusted(y, p)
<1>1. IsAdjusted(y, x, p) /\ IsAdjusted(z, y, p)
  BY AdjustedIs
<1> HIDE DEF y, z
<1>2. DOMAIN z = DOMAIN y
  BY <1>1 DEF IsAdjusted
<1>3. \A s \in DOMAIN y : z[s] = y[s]
  BY <1>1, <1>2 DEF IsAdjusted
<1>4. z = [s \in DOMAIN y |-> y[s]]
  BY <1>1, <1>2, <1>3 DEF IsAdjusted
<1>5. y = [s \in DOMAIN y |-> y[s]]
  BY <1>1 DEF IsAdjusted
<1> QED
  BY <1>4, <1>5 DEF y, z

\* What app_openapi makes of a document.
Adjusting(document) ==
  [op \in DOMAIN document |->
     IF op \in DOMAIN policies THEN Adjusted(document[op], policies[op]) ELSE document[op]]

\* Doing it again changes nothing.
LEMMA AdjustingOnce ==
  ASSUME NEW document PROVE Adjusting(Adjusting(document)) = Adjusting(document)
<1> DEFINE d == Adjusting(document)
<1>1. /\ DOMAIN d = DOMAIN document
      /\ \A op \in DOMAIN d : d[op] = IF op \in DOMAIN policies
                                      THEN Adjusted(document[op], policies[op]) ELSE document[op]
      /\ d = [op \in DOMAIN d |-> d[op]]
  BY DEF Adjusting
<1> HIDE DEF d
<1>2. ASSUME NEW op \in DOMAIN d
      PROVE  (IF op \in DOMAIN policies THEN Adjusted(d[op], policies[op]) ELSE d[op]) = d[op]
  BY <1>1, AdjustedOnce
<1>3. Adjusting(d) = d
  BY <1>1, <1>2 DEF Adjusting
<1> QED
  BY <1>3 DEF d

\* The document is the one generated, adjusted once, however often it is asked for.
SchemaInv == schema = <<>> \/ (pc = "serving" /\ schema = Adjusting(Generated))

\* It is made of routes and policies, which stay once the application serves.
LEMMA DocumentStays ==
  ASSUME UNCHANGED <<routes, policies>>
  PROVE  Adjusting(Generated)' = Adjusting(Generated)
BY DEF Adjusting, Generated, Operations

\* Asking for the document leaves it what it is.
LEMMA OpenApiInv ==
  ASSUME SchemaInv, OpenApi
  PROVE  SchemaInv' /\ (schema # <<>> => schema' = schema)
<1>1. /\ pc' = "serving" /\ UNCHANGED <<routes, policies>>
      /\ schema' = Adjusting(IF schema = <<>> THEN Generated ELSE schema)
  BY DEF OpenApi, Adjusting
<1>2. schema' = Adjusting(Generated) /\ (schema # <<>> => schema' = schema)
  <2> DEFINE G == Generated
  <2> HIDE DEF G
  <2>1. Adjusting(Adjusting(G)) = Adjusting(G)
    BY AdjustingOnce
  <2>2. schema = <<>> \/ schema = Adjusting(G)
    BY DEF SchemaInv, G
  <2>3. schema' = Adjusting(IF schema = <<>> THEN G ELSE schema)
    BY <1>1 DEF G
  <2>4. schema' = Adjusting(G) /\ (schema # <<>> => schema' = schema)
    BY <2>1, <2>2, <2>3
  <2> QED
    BY <2>4 DEF G
<1> QED
  BY <1>1, <1>2, DocumentStays DEF SchemaInv

\* No other step touches the document or what it is made of once it is there.
LEMMA SchemaNext ==
  ASSUME SchemaInv, [Next]_vars
  PROVE  SchemaInv' /\ (schema # <<>> => schema' = schema)
<1>1. CASE OpenApi
  BY <1>1, OpenApiInv
<1>2. CASE UNCHANGED <<pc, routes, policies, schema>>
  BY <1>2, DocumentStays DEF SchemaInv
<1>3. CASE pc # "serving" /\ UNCHANGED schema
  BY <1>3 DEF SchemaInv
<1>4. IncludeRouter \/ InstallHandlers => pc # "serving" /\ UNCHANGED schema
  BY DEF IncludeRouter, InstallHandlers
<1>5. FlattenModules \/ ValidateRoutes \/ ValidateNames \/ ValidateMappers
      => pc # "serving" /\ UNCHANGED schema
  BY DEF FlattenModules, ValidateRoutes, ValidateNames, ValidateMappers, Validate
<1>6. ASSUME NEW m, NEW u, NEW k, Request(m, u, k) PROVE UNCHANGED <<pc, routes, policies, schema>>
  BY <1>6 DEF Request
<1>7. ASSUME NEW m, NEW u, Unanswered(m, u) PROVE UNCHANGED <<pc, routes, policies, schema>>
  BY <1>7 DEF Unanswered
<1> QED
  BY <1>1, <1>2, <1>3, <1>4, <1>5, <1>6, <1>7
  DEF Next, vars, StartServer, RegisterErrorMapper, Refused

\* The document is always the one generated, adjusted once.
THEOREM SchemaInvariance == Spec => []SchemaInv
<1>1. Init => SchemaInv
  BY DEF Init, SchemaInv
<1>2. SchemaInv /\ [Next]_vars => SchemaInv'
  BY SchemaNext
<1> QED
  BY <1>1, <1>2, PTL DEF Spec

\* The document once published is never changed, whatever is asked or registered
\* afterwards.
THEOREM DocumentSettles == Spec => [][schema # <<>> => schema' = schema]_vars
<1>1. SchemaInv /\ [Next]_vars => [schema # <<>> => schema' = schema]_vars
  BY SchemaNext
<1> QED
  BY <1>1, SchemaInvariance, PTL DEF Spec

-----------------------------------------------------------------------------
(* The document and the declarations.                                      *)

\* The routes that are documented, and what FastAPI documents of one.
Visible == {r \in ToSet(routes) : r.in_schema}
GeneratedFor(r) ==
  WithDefaults(WithDefaults(r.responses, Constantly({200}, "ok")),
               Constantly(IF r.params THEN {422} ELSE {}, "synthetic"))

\* It documents each operation from the one route that has it.
LEMMA GeneratedIs ==
  ASSUME RouteInv
  PROVE  /\ DOMAIN Generated = UNION {Operations(r) : r \in Visible}
         /\ \A r \in ToSet(routes) : \A op \in Operations(r) \cap DOMAIN Generated :
              Generated[op] = GeneratedFor(r)
<1>1. DOMAIN Generated = UNION {Operations(r) : r \in Visible}
  BY DEF Generated, Visible
<1>2. ASSUME NEW r \in ToSet(routes), NEW op \in Operations(r) \cap DOMAIN Generated
      PROVE  Generated[op] = GeneratedFor(r)
  <2> DEFINE v == CHOOSE s \in Visible : op \in Operations(s)
  <2>1. \E s \in Visible : op \in Operations(s)
    BY <1>1, <1>2
  <2>2. v \in Visible /\ op \in Operations(v)
    BY <2>1
  <2>3. Generated[op] = GeneratedFor(v)
    BY <1>1, <1>2, Zenon DEF Generated, GeneratedFor, Visible
  <2> HIDE DEF v
  <2>4. v = r
    BY <1>2, <2>2, SameRoute DEF Visible
  <2> QED
    BY <2>3, <2>4
<1> QED
  BY <1>1, <1>2

\* FastAPI documents what the route does, a success, and perhaps a 422.
IsGenerated(x, r) ==
  /\ DOMAIN x = DOMAIN r.responses \cup {200} \cup (IF r.params THEN {422} ELSE {})
  /\ \A s \in DOMAIN x \ {200, 422} : s \in DOMAIN r.responses /\ x[s] = r.responses[s]

\* That is what the generated responses of a route are.
LEMMA GeneratedForIs == ASSUME NEW r PROVE IsGenerated(GeneratedFor(r), r)
<1> DEFINE own == r.responses
           ok == Constantly({200}, "ok")
           no == Constantly(IF r.params THEN {422} ELSE {}, "synthetic")
           x == WithDefaults(WithDefaults(own, ok), no)
<1>1. DOMAIN ok = {200} /\ DOMAIN no = IF r.params THEN {422} ELSE {}
  BY DEF Constantly
<1> HIDE DEF own, ok, no
<1>2. /\ DOMAIN x = DOMAIN own \cup DOMAIN ok \cup DOMAIN no
      /\ \A s \in DOMAIN own : x[s] = own[s]
  BY DEF WithDefaults
<1>3. x = GeneratedFor(r)
  BY DEF GeneratedFor, own, ok, no
<1> HIDE DEF x
<1>4. DOMAIN x = DOMAIN own \cup {200} \cup (IF r.params THEN {422} ELSE {})
  BY <1>1, <1>2
<1>5. \A s \in DOMAIN x \ {200, 422} : s \in DOMAIN own /\ x[s] = own[s]
  BY <1>2, <1>4
<1> QED
  BY <1>3, <1>4, <1>5 DEF own, IsGenerated

\* What is published of a route's operation.
LEMMA PublishedIs ==
  ASSUME RouteInv, schema = Adjusting(Generated),
         NEW r \in ToSet(routes), NEW op \in Operations(r) \cap DOMAIN schema
  PROVE  /\ app \in Applications /\ r.owner \in Owners
         /\ Declared(r.owner) =>
              r.owner # "health" /\ IsAdjusted(schema[op], GeneratedFor(r), PolicyOf(r.owner))
         /\ ~Declared(r.owner) => schema[op] = GeneratedFor(r)
<1> DEFINE G == Generated
<1>1. op \in DOMAIN G /\ G[op] = GeneratedFor(r)
  BY GeneratedIs DEF Adjusting
<1> HIDE DEF G
<1>2. schema[op] = IF op \in DOMAIN policies THEN Adjusted(G[op], policies[op]) ELSE G[op]
  BY <1>1 DEF Adjusting, G
<1>3. /\ op \in DOMAIN policies <=> Declared(r.owner)
      /\ op \in DOMAIN policies => policies[op] = PolicyOf(r.owner)
  BY RoutePolicies
<1>4. ~Declared("health")
  BY DEF Declared
<1> QED
  BY <1>1, <1>2, <1>3, <1>4, AdjustedIs, RouteOwner

\* The policy of an owner takes the synthetic 422 as declared.
LEMMA PolicyIncludes ==
  ASSUME app \in Applications, NEW owner \in Owners, owner # "health"
  PROVE  EffectiveInclude(PolicyOf(owner)) <=> ~Refuses422(owner)
<1> DEFINE p == PolicyOf(owner)
<1>1. {"include_synthetic_422", "validation_status"} \subseteq ContractFields \ {"responses"}
  BY DEF ContractFields, Unset
<1>2. /\ p.include_synthetic_422 = Said(owner, "include_synthetic_422")
      /\ p.validation_status = Said(owner, "validation_status") /\ IsPolicy(p)
  BY <1>1, PolicySays, PolicyOfIsPolicy
<1> HIDE DEF p
<1>3. p.include_synthetic_422 \in {"unset", "yes", "no"}
  BY <1>2 DEF IsPolicy
<1>4. EffectiveStatus(p) = 422 <=> Status422(owner)
  BY <1>2 DEF EffectiveStatus, Status422
<1>5. EffectiveInclude(p) <=> ~Refuses422(owner)
  BY <1>2, <1>3, <1>4 DEF EffectiveInclude, Refuses422
<1> QED
  BY <1>5 DEF p

\* The statuses published are those declared.
LEMMA StatusesAre ==
  ASSUME RouteInv, schema = Adjusting(Generated)
  PROVE  StatusesFollow
<1> SUFFICES ASSUME NEW r \in ToSet(routes), NEW op \in Operations(r) \cap DOMAIN schema
             PROVE  LET status == IF Status422(r.owner) THEN 422
                                  ELSE Said(r.owner, "validation_status")
                    IN  IF Declared(r.owner)
                        THEN /\ (422 \in DOMAIN schema[op]) => ~Refuses422(r.owner)
                             /\ \/ status \in DOMAIN schema[op]
                                \/ (status = 422 /\ Refuses422(r.owner))
                        ELSE r.params => 422 \in DOMAIN schema[op]
  BY DEF StatusesFollow
<1> DEFINE owner == r.owner
           p == PolicyOf(owner)
           status == IF Status422(owner) THEN 422 ELSE Said(owner, "validation_status")
<1>1. CASE Declared(owner)
  <2>1. owner # "health" /\ owner \in Owners /\ IsAdjusted(schema[op], GeneratedFor(r), p)
    BY <1>1, PublishedIs
  <2>2. EffectiveStatus(p) = status /\ (EffectiveInclude(p) <=> ~Refuses422(owner))
    BY <2>1, PolicyAnswers, PolicyIncludes DEF RouteInv
  <2> HIDE DEF owner, p, status
  <2>3. DOMAIN schema[op] = (DOMAIN GeneratedFor(r) \cup {status})
                             \ (IF Refuses422(owner) THEN {422} ELSE {})
    BY <2>1, <2>2 DEF IsAdjusted
  <2>4. /\ (422 \in DOMAIN schema[op]) => ~Refuses422(owner)
        /\ status \in DOMAIN schema[op] \/ (status = 422 /\ Refuses422(owner))
    BY <2>3
  <2> QED
    BY <1>1, <2>4 DEF owner, status
<1>2. CASE ~Declared(owner)
  <2>1. r.params => 422 \in DOMAIN schema[op]
    <3>1. schema[op] = GeneratedFor(r)
      BY <1>2, PublishedIs
    <3>2. IsGenerated(schema[op], r)
      BY <3>1, GeneratedForIs
    <3> QED
      BY <3>2 DEF IsGenerated
  <2> QED
    BY <1>2, <2>1
<1> QED
  BY <1>1, <1>2

-----------------------------------------------------------------------------
(* Texts.                                                                  *)

\* What is documented with a policy: the policy's responses, the validation
\* response, the common errors, the fallback.
Common(p) == IF p.common_error_response_model = "none" THEN {} ELSE Range(EffectiveCommon(p))
Fallback(p) == IF p.fallback_response_model = "none" THEN {} ELSE {500}
IsDefinitions(d, p) ==
  /\ DOMAIN d = DOMAIN p.responses \cup ({EffectiveStatus(p)} \cup Common(p) \cup Fallback(p))
  /\ \A s \in DOMAIN d :
       d[s] = IF s \in DOMAIN p.responses THEN p.responses[s]
              ELSE IF s = EffectiveStatus(p) THEN ValidationText(p)
              ELSE IF s \in Common(p) THEN p.common_error_response_model
              ELSE p.fallback_response_model

\* That is what response_definitions makes of a policy.
LEMMA DefinitionsAre == ASSUME NEW p PROVE IsDefinitions(ResponseDefinitions(p), p)
<1> DEFINE own == p.responses
           status == EffectiveStatus(p)
           text == ValidationText(p)
           common == Common(p)
           fallback == Fallback(p)
           model == p.common_error_response_model
           other == p.fallback_response_model
           a == Constantly({status}, text)
           b == Constantly(common, model)
           c == Constantly(fallback, other)
           bc == WithDefaults(b, c)
           abc == WithDefaults(a, bc)
           d == WithDefaults(own, abc)
<1>1. d = ResponseDefinitions(p)
  BY DEF ResponseDefinitions, Common, Fallback
<1> HIDE DEF own, status, text, common, fallback, model, other
<1>2. /\ DOMAIN a = {status} /\ DOMAIN b = common /\ DOMAIN c = fallback
      /\ \A s \in DOMAIN a : a[s] = text
      /\ \A s \in DOMAIN b : b[s] = model
      /\ \A s \in DOMAIN c : c[s] = other
  BY DEF Constantly
<1> HIDE DEF a, b, c
<1>3. /\ DOMAIN bc = common \cup fallback
      /\ \A s \in DOMAIN bc : bc[s] = IF s \in common THEN model ELSE other
  BY <1>2 DEF WithDefaults
<1> HIDE DEF bc
<1>4. /\ DOMAIN abc = {status} \cup common \cup fallback
      /\ \A s \in DOMAIN abc :
           abc[s] = IF s = status THEN text ELSE IF s \in common THEN model ELSE other
  BY <1>2, <1>3 DEF WithDefaults
<1> HIDE DEF abc
<1>5. /\ DOMAIN d = DOMAIN own \cup ({status} \cup common \cup fallback)
      /\ \A s \in DOMAIN d :
           d[s] = IF s \in DOMAIN own THEN own[s]
                  ELSE IF s = status THEN text ELSE IF s \in common THEN model ELSE other
  BY <1>4 DEF WithDefaults
<1> HIDE DEF d
<1> QED
  BY <1>1, <1>5 DEF IsDefinitions, own, status, text, common, fallback, model, other

\* The word on a status of those who declare for an owner: of the module's policy,
\* the application's, the validation response, the common errors, the fallback.
ModuleWord(owner) == IF owner \in Modules THEN Only(Of(owner).policy).responses ELSE <<>>
DeclaredStatus(owner) == IF Status422(owner) THEN 422 ELSE Said(owner, "validation_status")
DeclaredCommon(owner) ==
  IF Said(owner, "common_error_statuses") = <<>> THEN DefaultStatuses
  ELSE Said(owner, "common_error_statuses")
DefaultWord(owner, s) ==
  IF s = DeclaredStatus(owner)
  THEN {Said(owner, "validation_response_model"), "validation error"} \ {"none"}
  ELSE IF s \in ToSet(DeclaredCommon(owner)) /\ Said(owner, "common_error_response_model") # "none"
  THEN {Said(owner, "common_error_response_model")}
  ELSE {Said(owner, "fallback_response_model")}
DeclaredWord(owner, s) ==
  IF s \in DOMAIN ModuleWord(owner) THEN {ModuleWord(owner)[s]}
  ELSE IF s \in DOMAIN Only(app.policy).responses THEN {Only(app.policy).responses[s]}
  ELSE DefaultWord(owner, s)

\* The responses of an owner's policy are the module's over the application's.
LEMMA PolicyResponses ==
  ASSUME app \in Applications, NEW owner \in Owners, owner # "health"
  PROVE  LET p == PolicyOf(owner)
         IN  /\ DOMAIN p.responses = DOMAIN ModuleWord(owner) \cup DOMAIN Only(app.policy).responses
             /\ \A s \in DOMAIN p.responses :
                  p.responses[s] = IF s \in DOMAIN ModuleWord(owner) THEN ModuleWord(owner)[s]
                                   ELSE Only(app.policy).responses[s]
<1> DEFINE general == Only(app.policy).responses
           base == BasePolicy.responses
           p == PolicyOf(owner)
<1>1. base = WithDefaults(general, <<>>) /\ DOMAIN (<<>>) = {}
  <2>1. Unset.responses = <<>>
    BY DEF Unset
  <2>2. BasePolicy.responses = WithDefaults(general, Unset.responses)
    BY ResolveIs DEF BasePolicy
  <2> QED
    BY <2>1, <2>2
<1> HIDE DEF general, base
<1>2. DOMAIN base = DOMAIN general /\ \A s \in DOMAIN general : base[s] = general[s]
  BY <1>1 DEF WithDefaults
<1>3. CASE owner = "direct"
  <2>1. owner \notin Modules /\ p = BasePolicy
    BY <1>3, OwnerIsModule DEF PolicyOf
  <2>2. p.responses = base /\ ModuleWord(owner) = <<>> /\ DOMAIN (<<>>) = {}
    BY <2>1 DEF base, ModuleWord
  <2> HIDE DEF p
  <2> QED
    BY <1>2, <2>2 DEF general, p
<1>4. CASE owner \in Modules
  <2> DEFINE own == Only(Of(owner).policy)
  <2>1. owner # "direct" /\ p = Resolve(BasePolicy, own)
    BY <1>4, OwnerIsModule DEF PolicyOf
  <2>2. ModuleWord(owner) = own.responses
    BY <1>4 DEF ModuleWord
  <2> HIDE DEF own, p
  <2>3. p.responses = WithDefaults(own.responses, base)
    BY <2>1, ResolveIs DEF base
  <2> DEFINE x == own.responses
             y == p.responses
  <2>4. y = WithDefaults(x, base)
    BY <2>3
  <2>5. ModuleWord(owner) = x
    BY <2>2
  <2> HIDE DEF x, y
  <2>6. /\ DOMAIN y = DOMAIN x \cup DOMAIN general
        /\ \A s \in DOMAIN y : y[s] = IF s \in DOMAIN x THEN x[s] ELSE general[s]
    BY <1>2, <2>4 DEF WithDefaults
  <2> QED
    BY <2>5, <2>6 DEF general, p, y
<1> QED
  BY <1>3, <1>4 DEF Owners

\* What is documented with an owner's policy is the declared word.
LEMMA DefinitionsFollow ==
  ASSUME app \in Applications, NEW owner \in Owners, owner # "health",
         NEW s \in DOMAIN ResponseDefinitions(PolicyOf(owner))
  PROVE  ResponseDefinitions(PolicyOf(owner))[s] \in DeclaredWord(owner, s)
<1> DEFINE p == PolicyOf(owner)
           d == ResponseDefinitions(p)
           own == p.responses
<1>1. /\ s \in DOMAIN own \cup ({EffectiveStatus(p)} \cup Common(p) \cup Fallback(p))
      /\ d[s] = IF s \in DOMAIN own THEN own[s]
                ELSE IF s = EffectiveStatus(p) THEN ValidationText(p)
                ELSE IF s \in Common(p) THEN p.common_error_response_model
                ELSE p.fallback_response_model
  <2>1. IsDefinitions(d, p) /\ s \in DOMAIN d
    BY DefinitionsAre
  <2> HIDE DEF p, d
  <2> QED
    BY <2>1 DEF IsDefinitions
<1>2. /\ DOMAIN own = DOMAIN ModuleWord(owner) \cup DOMAIN Only(app.policy).responses
      /\ s \in DOMAIN own =>
           own[s] = IF s \in DOMAIN ModuleWord(owner) THEN ModuleWord(owner)[s]
                    ELSE Only(app.policy).responses[s]
  BY PolicyResponses
<1>3. {"validation_response_model", "common_error_response_model", "fallback_response_model",
       "common_error_statuses"} \subseteq ContractFields \ {"responses"}
  BY DEF ContractFields, Unset
<1>4. /\ p.validation_response_model = Said(owner, "validation_response_model")
      /\ p.common_error_response_model = Said(owner, "common_error_response_model")
      /\ p.fallback_response_model = Said(owner, "fallback_response_model")
      /\ p.common_error_statuses = Said(owner, "common_error_statuses")
  BY <1>3, PolicySays
<1>5. EffectiveStatus(p) = DeclaredStatus(owner)
  BY PolicyAnswers DEF DeclaredStatus
<1> HIDE DEF p, d
<1>6. Range(EffectiveCommon(p)) = ToSet(DeclaredCommon(owner))
  <2>1. EffectiveCommon(p) = DeclaredCommon(owner)
    BY <1>4 DEF EffectiveCommon, DeclaredCommon
  <2> QED
    BY <2>1 DEF Range, ToSet
<1>7. ValidationText(p) \in {Said(owner, "validation_response_model"), "validation error"} \ {"none"}
  BY <1>4 DEF ValidationText
<1>8. CASE s \in DOMAIN own
  <2>1. d[s] = own[s]
    BY <1>1, <1>8
  <2> QED
    BY <1>2, <1>8, <2>1 DEF DeclaredWord, p, d
<1>9. CASE s \notin DOMAIN own
  <2>1. d[s] = IF s = EffectiveStatus(p) THEN ValidationText(p)
               ELSE IF s \in Common(p) THEN p.common_error_response_model
               ELSE p.fallback_response_model
    BY <1>1, <1>9
  <2>2. d[s] \in DefaultWord(owner, s)
    <3>1. CASE s = DeclaredStatus(owner)
      BY <1>5, <1>7, <2>1, <3>1 DEF DefaultWord
    <3>2. CASE s # DeclaredStatus(owner) /\ s \in Common(p)
      <4>1. /\ s \in ToSet(DeclaredCommon(owner)) /\ Said(owner, "common_error_response_model") # "none"
            /\ d[s] = Said(owner, "common_error_response_model")
        BY <1>4, <1>5, <1>6, <2>1, <3>2 DEF Common
      <4> QED
        BY <3>2, <4>1 DEF DefaultWord
    <3>3. CASE s # DeclaredStatus(owner) /\ s \notin Common(p)
      <4>1. /\ \/ s \notin ToSet(DeclaredCommon(owner))
               \/ Said(owner, "common_error_response_model") = "none"
            /\ d[s] = Said(owner, "fallback_response_model")
        BY <1>4, <1>5, <1>6, <2>1, <3>3 DEF Common
      <4> QED
        BY <3>3, <4>1 DEF DefaultWord
    <3> QED
      BY <3>1, <3>2, <3>3
  <2>3. s \notin DOMAIN ModuleWord(owner) /\ s \notin DOMAIN Only(app.policy).responses
    BY <1>2, <1>9
  <2> QED
    BY <2>2, <2>3 DEF DeclaredWord, p, d
<1> QED
  BY <1>8, <1>9

\* A documented text is the word of the first who has one: the route's own
\* responses, then the declarations.
LEMMA TextIs ==
  ASSUME RouteInv, schema = Adjusting(Generated),
         NEW i \in DOMAIN Routers, NEW r \in ToSet(Routers[i].routes),
         NEW op \in Operations(r) \cap DOMAIN schema, NEW s \in DOMAIN schema[op] \ {200, 422}
  PROVE  schema[op][s] \in IF s \in DOMAIN r.responses THEN {r.responses[s]}
                           ELSE DeclaredWord(Routers[i].owner, s)
<1> DEFINE owner == Routers[i].owner
           v == Include(r, owner)
           p == PolicyOf(owner)
<1>1. v \in ToSet(routes) /\ v.owner = owner /\ op \in Operations(v)
  <2>1. op \in DOMAIN Generated
    BY DEF Adjusting
  <2>2. PICK w \in ToSet(routes) : op \in Operations(w)
    BY <2>1, GeneratedIs DEF Visible
  <2>3. w = v
    BY <2>2, RouteIsUnique
  <2> QED
    BY <2>2, <2>3 DEF Include
<1>2. CASE Declared(owner)
  <2>1. /\ app \in Applications /\ owner \in Owners /\ owner # "health"
        /\ IsAdjusted(schema[op], GeneratedFor(v), p)
    BY <1>1, <1>2, PublishedIs
  <2>2. v.responses = WithDefaults(r.responses, ResponseDefinitions(p))
    BY <1>2 DEF Include
  <2> DEFINE x == v.responses
             g == GeneratedFor(v)
             d == ResponseDefinitions(p)
             own == r.responses
  <2>3. IsGenerated(g, v) /\ IsDefinitions(d, p)
    BY GeneratedForIs, DefinitionsAre
  <2>4. x = WithDefaults(own, d)
    BY <2>2
  <2>5. s \in DOMAIN d => d[s] \in DeclaredWord(owner, s)
    BY <2>1, DefinitionsFollow
  <2>6. IsAdjusted(schema[op], g, p)
    BY <2>1
  <2> HIDE DEF owner, v, p, g, d, own
  <2>7. /\ DOMAIN g \subseteq DOMAIN x \cup {200, 422} /\ DOMAIN x \subseteq DOMAIN g
        /\ \A t \in DOMAIN g \ {200, 422} : g[t] = x[t]
    BY <2>3 DEF IsGenerated
  <2> HIDE DEF x
  <2>8. DOMAIN x = DOMAIN own \cup DOMAIN d
    BY <2>4 DEF WithDefaults
  <2>9. s \in DOMAIN g /\ schema[op][s] = g[s]
    <3>1. s \in DOMAIN g \cup {EffectiveStatus(p)}
      BY <2>6 DEF IsAdjusted
    <3>2. EffectiveStatus(p) \in DOMAIN d
      BY <2>3 DEF IsDefinitions
    <3>3. s \in DOMAIN g
      BY <2>7, <2>8, <3>1, <3>2
    <3> QED
      BY <2>6, <3>3 DEF IsAdjusted
  <2>10. s \in DOMAIN x /\ schema[op][s] = x[s]
    BY <2>7, <2>9
  <2>11. x[s] = IF s \in DOMAIN own THEN own[s] ELSE d[s]
    BY <2>4, <2>10 DEF WithDefaults
  <2>12. schema[op][s] \in IF s \in DOMAIN own THEN {own[s]} ELSE DeclaredWord(owner, s)
    BY <2>5, <2>8, <2>10, <2>11
  <2> QED
    BY <2>12 DEF own, owner
<1>3. CASE ~Declared(owner)
  <2>1. schema[op] = GeneratedFor(v)
    BY <1>1, <1>3, PublishedIs
  <2>2. v.responses = r.responses
    BY <1>3 DEF Include
  <2>3. IsGenerated(schema[op], v)
    BY <2>1, GeneratedForIs
  <2> HIDE DEF v, owner
  <2>4. s \in DOMAIN v.responses /\ schema[op][s] = v.responses[s]
    BY <2>3 DEF IsGenerated
  <2>5. s \in DOMAIN r.responses /\ schema[op][s] = r.responses[s]
    BY <2>2, <2>4
  <2> QED
    BY <2>5 DEF owner
<1> QED
  BY <1>2, <1>3

\* So are all of them.
LEMMA TextsAre ==
  ASSUME RouteInv, schema = Adjusting(Generated)
  PROVE  TextsFollow
<1>1. \A i \in DOMAIN Routers : \A r \in ToSet(Routers[i].routes) :
        \A op \in Operations(r) \cap DOMAIN schema : \A s \in DOMAIN schema[op] \ {200, 422} :
          schema[op][s] \in IF s \in DOMAIN r.responses THEN {r.responses[s]}
                            ELSE DeclaredWord(Routers[i].owner, s)
  BY TextIs
<1> QED
  BY <1>1, Zenon
  DEF TextsFollow, DeclaredWord, DefaultWord, DeclaredStatus, DeclaredCommon, ModuleWord

\* What a client gets for refused input is what the document says, and each text
\* of the document is the word of the one to say it, however often it is adjusted.
THEOREM DocumentFollows == Spec => []DocumentFollowsDeclaration
<1>1. RouteInv /\ SchemaInv => DocumentFollowsDeclaration
  <2>1. ASSUME schema = <<>> PROVE DocumentFollowsDeclaration
    <3>1. DOMAIN schema = {}
      BY <2>1
    <3> QED
      BY <3>1, Zenon DEF DocumentFollowsDeclaration, StatusesFollow, TextsFollow
  <2> QED
    BY <2>1, StatusesAre, TextsAre DEF SchemaInv, DocumentFollowsDeclaration
<1> QED
  BY <1>1, RouteInvariance, SchemaInvariance, PTL

-----------------------------------------------------------------------------
(* Mappers.                                                                *)

\* What the application was declared with is installed before it serves, and the
\* middleware stack is built no earlier.
DeclaredInv == ToSet(Mappers) \subseteq Classes
InstalledInv ==
  /\ pc \in {"include", "serving"} => ToSet(Mappers) \subseteq mappers
  /\ pc # "serving" => stack = {}
  /\ \A built \in stack : ToSet(Mappers) \subseteq built
MapperInv == DeclaredInv /\ InstalledInv /\ DeclaredMapperAnswers

\* No class of a mapper is the kind of an error without an exception.
LEMMA KindsDiffer ==
  ASSUME DeclaredInv, NEW kind \in {"none", "invalid", "method", "path"}
  PROVE  kind \notin ToSet(Mappers)
BY ClassesAssumption DEF DeclaredInv

\* create_app starts with nothing installed and nothing answered.
LEMMA InitMapperInv == Init => MapperInv
<1> SUFFICES ASSUME Init PROVE MapperInv
  OBVIOUS
<1>1. DeclaredInv
  BY ClassesAssumption DEF Init, DeclaredInv, Mappers
<1>2. InstalledInv
  BY DEF Init, InstalledInv
<1>3. DeclaredMapperAnswers
  BY <1>1, KindsDiffer DEF Init, DeclaredMapperAnswers
<1> QED
  BY <1>1, <1>2, <1>3 DEF MapperInv

\* The stack that answers has the declared mappers, whether it is built already
\* or by this call.
LEMMA StackHasThem ==
  ASSUME MapperInv, pc = "serving"
  PROVE  /\ \A built \in StackBuilt : ToSet(Mappers) \subseteq built
         /\ ToSet(Mappers) \subseteq Handled(StackBuilt)
<1>1. \A built \in StackBuilt : ToSet(Mappers) \subseteq built
  BY DEF MapperInv, InstalledInv, StackBuilt
<1>2. StackBuilt # {}
  BY DEF StackBuilt
<1> QED
  BY <1>1, <1>2 DEF Handled

\* The steps of create_app answer nothing, and build no stack.
LEMMA CreateInv ==
  ASSUME MapperInv, FlattenModules \/ ValidateRoutes \/ ValidateNames \/ ValidateMappers
               \/ InstallHandlers \/ IncludeRouter
  PROVE  MapperInv'
<1>1. /\ pc # "serving" /\ UNCHANGED <<app, stack, answer>>
      /\ pc' \in {"include", "serving"} => ToSet(Mappers) \subseteq mappers'
  <2>1. CASE FlattenModules \/ ValidateRoutes \/ ValidateNames \/ ValidateMappers
    BY <2>1 DEF FlattenModules, ValidateRoutes, ValidateNames, ValidateMappers, Validate
  <2>2. CASE InstallHandlers
    BY <2>2 DEF InstallHandlers, Installed
  <2>3. CASE IncludeRouter
    <3>1. pc = "include" /\ UNCHANGED <<app, mappers, stack, answer>>
      BY <2>3 DEF IncludeRouter
    <3> QED
      BY <3>1 DEF MapperInv, InstalledInv
  <2> QED
    BY <2>1, <2>2, <2>3
<1>2. Mappers' = Mappers
  BY <1>1 DEF Mappers
<1>3. stack = {}
  BY <1>1 DEF MapperInv, InstalledInv
<1>4. DeclaredInv' /\ DeclaredMapperAnswers'
  BY <1>1, <1>2 DEF MapperInv, DeclaredInv, DeclaredMapperAnswers
<1>5. InstalledInv'
  BY <1>1, <1>2, <1>3 DEF InstalledInv
<1> QED
  BY <1>4, <1>5 DEF MapperInv

\* What serves keeps the declared mappers in the stack.
LEMMA ServeInv ==
  ASSUME MapperInv, pc = "serving", UNCHANGED <<app, pc>>, mappers \subseteq mappers',
         stack' \in {stack, StackBuilt}, DeclaredMapperAnswers'
  PROVE  MapperInv'
<1>1. Mappers' = Mappers
  BY DEF Mappers
<1>2. DeclaredInv'
  BY <1>1 DEF MapperInv, DeclaredInv
<1>3. \A built \in stack' : ToSet(Mappers) \subseteq built
  BY StackHasThem DEF MapperInv, InstalledInv
<1>4. InstalledInv'
  BY <1>1, <1>3 DEF MapperInv, InstalledInv
<1> QED
  BY <1>2, <1>4 DEF MapperInv

\* A request is answered by the stack's mappers.
LEMMA RequestInv ==
  ASSUME MapperInv, NEW m \in Methods, NEW u \in DOMAIN Matches, NEW k \in Classes \cup {"invalid"},
         Request(m, u, k)
  PROVE  MapperInv'
<1>1. pc = "serving" /\ stack' = StackBuilt /\ UNCHANGED <<app, pc, mappers>>
  BY DEF Request
<1>2. \/ k = "invalid" /\ answer'.kind = k
      \/ answer'.kind = k /\ (k \in Handled(StackBuilt) => answer'.status = 409)
  <2> DEFINE serves(r) == MatchesAll(m, u, r)
             route == routes[First(serves)]
             op == <<m, route.path>>
             policy == RoutePolicy(m, route.path)
             refusal == IF policy # {} THEN EffectiveStatus(Only(policy)) ELSE 422
             raised == IF k \in Handled(StackBuilt) THEN 409 ELSE 500
  <2>1. \/ k = "invalid" /\ Answers(route.owner, op, k, refusal, policy)
        \/ Answers(route.owner, op, k, raised, policy)
    BY DEF Request
  <2>2. ASSUME NEW to, NEW o, NEW status, NEW p, Answers(to, o, k, status, p)
        PROVE  answer'.kind = k /\ answer'.status = status
    BY <2>2 DEF Answers
  <2> HIDE DEF route, op, policy, refusal
  <2>3. CASE k = "invalid" /\ Answers(route.owner, op, k, refusal, policy)
    BY <2>2, <2>3
  <2>4. CASE Answers(route.owner, op, k, raised, policy)
    BY <2>2, <2>4
  <2> QED
    BY <2>1, <2>3, <2>4
<1>3. Mappers' = Mappers
  BY <1>1 DEF Mappers
<1>4. answer'.kind \in ToSet(Mappers) => answer'.status = 409
  BY <1>1, <1>2, KindsDiffer, StackHasThem DEF MapperInv
<1>5. DeclaredMapperAnswers'
  BY <1>3, <1>4 DEF DeclaredMapperAnswers
<1> QED
  BY <1>1, <1>5, ServeInv

\* A request no route answers is answered without a mapper.
LEMMA UnansweredInv ==
  ASSUME MapperInv, NEW m \in Methods, NEW u \in DOMAIN Matches, Unanswered(m, u)
  PROVE  MapperInv'
<1>1. pc = "serving" /\ stack' = StackBuilt /\ UNCHANGED <<app, pc, mappers>>
  BY DEF Unanswered
<1>2. answer'.kind \in {"method", "path"}
  BY DEF Unanswered, Answers
<1>3. Mappers' = Mappers
  BY <1>1 DEF Mappers
<1>4. DeclaredMapperAnswers'
  BY <1>2, <1>3, KindsDiffer DEF MapperInv, DeclaredMapperAnswers
<1> QED
  BY <1>1, <1>4, ServeInv

\* The other steps of a serving application answer nothing.
LEMMA OtherInv ==
  ASSUME MapperInv, OpenApi \/ StartServer \/ \E e \in Classes : RegisterErrorMapper(e)
  PROVE  MapperInv'
<1>1. /\ pc = "serving" /\ UNCHANGED <<app, pc, answer>> /\ mappers \subseteq mappers'
      /\ stack' \in {stack, StackBuilt}
  BY DEF OpenApi, StartServer, RegisterErrorMapper
<1>2. DeclaredMapperAnswers'
  BY <1>1 DEF MapperInv, DeclaredMapperAnswers, Mappers
<1> QED
  BY <1>1, <1>2, ServeInv

\* They stay in the stack.
LEMMA MapperInvariance == Spec => []MapperInv
<1>1. MapperInv /\ [Next]_vars => MapperInv'
  <2>1. MapperInv /\ UNCHANGED vars => MapperInv'
    BY DEF vars, MapperInv, DeclaredInv, InstalledInv, DeclaredMapperAnswers, Mappers
  <2> QED
    BY <2>1, CreateInv, RequestInv, UnansweredInv, OtherInv DEF Next, Refused
<1> QED
  BY <1>1, InitMapperInv, PTL DEF Spec

\* The mappers an application and its modules declare answer the exceptions they
\* are for, from the first request on, however many are registered later.
THEOREM DeclaredAnswer == Spec => []DeclaredMapperAnswers
<1>1. MapperInv => DeclaredMapperAnswers
  BY DEF MapperInv
<1> QED
  BY <1>1, MapperInvariance, PTL

-----------------------------------------------------------------------------
(* Types.                                                                  *)

\* The stack is built once, from classes that are registered and stay so.
StackInv ==
  /\ mappers \subseteq Classes
  /\ stack = {} \/ \E built : built \subseteq mappers /\ stack = {built}

\* Installing and registering add to the registered classes only.
LEMMA StackNext == ASSUME MapperInv, StackInv, [Next]_vars PROVE StackInv'
<1>1. CASE UNCHANGED <<mappers, stack>>
  BY <1>1 DEF StackInv
<1>2. CASE UNCHANGED mappers /\ stack' = StackBuilt
  BY <1>2 DEF StackInv, StackBuilt
<1>3. CASE InstallHandlers
  <2>1. stack = {} /\ UNCHANGED stack /\ mappers' \subseteq Classes
    BY <1>3 DEF InstallHandlers, Installed, MapperInv, InstalledInv, DeclaredInv
  <2> QED
    BY <2>1 DEF StackInv
<1>4. ASSUME NEW e \in Classes, RegisterErrorMapper(e) PROVE StackInv'
  <2>1. UNCHANGED stack /\ mappers' = mappers \cup {e}
    BY <1>4 DEF RegisterErrorMapper
  <2> QED
    BY <2>1 DEF StackInv
<1>5. ASSUME NEW m, NEW u, NEW k, Request(m, u, k) PROVE UNCHANGED mappers /\ stack' = StackBuilt
  BY <1>5 DEF Request
<1>6. ASSUME NEW m, NEW u, Unanswered(m, u) PROVE UNCHANGED mappers /\ stack' = StackBuilt
  BY <1>6 DEF Unanswered
<1>7. FlattenModules \/ ValidateRoutes \/ ValidateNames \/ ValidateMappers \/ IncludeRouter \/ OpenApi
      => UNCHANGED <<mappers, stack>>
  BY DEF FlattenModules, ValidateRoutes, ValidateNames, ValidateMappers, Validate,
         IncludeRouter, OpenApi
<1> QED
  BY <1>1, <1>2, <1>3, <1>4, <1>5, <1>6, <1>7 DEF Next, vars, StartServer, Refused

\* An answer has the status of an error.
StatusInv == answer.status \in {0} \cup 400 .. 599

\* Requests and requests no route has are the steps that answer.
LEMMA StatusNext == ASSUME RouteInv, StatusInv, [Next]_vars PROVE StatusInv'
<1>1. CASE UNCHANGED answer
  BY <1>1 DEF StatusInv
<1>2. ASSUME NEW m, NEW u, NEW k, Request(m, u, k) PROVE StatusInv'
  BY <1>2, RequestFollows DEF StatusInv
<1>3. ASSUME NEW m, NEW u, Unanswered(m, u) PROVE StatusInv'
  BY <1>3, UnansweredIs DEF StatusInv
<1>4. FlattenModules \/ ValidateRoutes \/ ValidateNames \/ ValidateMappers \/ InstallHandlers
      \/ IncludeRouter \/ OpenApi => UNCHANGED answer
  BY DEF FlattenModules, ValidateRoutes, ValidateNames, ValidateMappers, Validate, InstallHandlers,
         IncludeRouter, OpenApi
<1> QED
  BY <1>1, <1>2, <1>3, <1>4 DEF Next, vars, StartServer, RegisterErrorMapper, Refused

\* The routes included have HTTP methods and document statuses.
LEMMA RouteTypes ==
  ASSUME RouteInv, NEW r \in ToSet(routes)
  PROVE  r.methods \subseteq Methods /\ DOMAIN r.responses \subseteq Statuses
<1>1. PICK i \in DOMAIN Routers : \E k \in DOMAIN Routers[i].routes :
              r = Include(Routers[i].routes[k], Routers[i].owner)
  BY RouteIsIncluded
<1>2. PICK d \in ToSet(Routers[i].routes) : r = Include(d, Routers[i].owner)
  BY <1>1 DEF ToSet
<1> DEFINE owner == Routers[i].owner
           p == PolicyOf(owner)
<1>3. IsRoute(d) /\ owner \in Owners /\ app \in Applications
  BY RouteIsIncluded, RoutersAre DEF IsOwned
<1>4. r.methods = d.methods
  BY <1>2 DEF Include
<1>5. CASE ~Declared(owner)
  BY <1>2, <1>3, <1>4, <1>5 DEF Include, IsRoute
<1>6. CASE Declared(owner)
  <2>1. IsPolicy(p)
    BY <1>3, <1>6, PolicyOfIsPolicy DEF Declared
  <2>2. IsDefinitions(ResponseDefinitions(p), p)
    BY DefinitionsAre
  <2>3. r.responses = WithDefaults(d.responses, ResponseDefinitions(p))
    BY <1>2, <1>6 DEF Include
  <2> DEFINE x == ResponseDefinitions(p)
  <2> HIDE DEF p, x
  <2>4. Range(EffectiveCommon(p)) \subseteq 400 .. 599
    <3>1. Range(DefaultStatuses) \subseteq 400 .. 599
      BY DEF Range, DefaultStatuses
    <3> QED
      BY <2>1, <3>1 DEF EffectiveCommon, IsPolicy
  <2>5. DOMAIN p.responses \subseteq Statuses /\ EffectiveStatus(p) \in 400 .. 599
    BY <2>1, StatusIsError DEF IsPolicy
  <2>6. DOMAIN x = DOMAIN p.responses \cup ({EffectiveStatus(p)} \cup Common(p) \cup Fallback(p))
    BY <2>2 DEF IsDefinitions, x
  <2>7. Common(p) \subseteq 400 .. 599 /\ Fallback(p) \subseteq {500}
    BY <2>4 DEF Common, Fallback
  <2>8. DOMAIN x \subseteq Statuses
    BY <2>5, <2>6, <2>7 DEF Statuses
  <2>9. DOMAIN r.responses = DOMAIN d.responses \cup DOMAIN x
    BY <2>3 DEF WithDefaults, x
  <2> QED
    BY <1>3, <1>4, <2>8, <2>9 DEF IsRoute
<1> QED
  BY <1>5, <1>6

\* The document has statuses only.
LEMMA SchemaTypes ==
  ASSUME RouteInv, SchemaInv, NEW op \in DOMAIN schema
  PROVE  DOMAIN schema[op] \subseteq Statuses
<1>1. schema = Adjusting(Generated)
  BY DEF SchemaInv
<1>2. op \in DOMAIN Generated
  BY <1>1 DEF Adjusting
<1>3. PICK r \in ToSet(routes) : op \in Operations(r)
  BY <1>2, GeneratedIs DEF Visible
<1> DEFINE g == GeneratedFor(r)
           p == PolicyOf(r.owner)
<1>4. DOMAIN g \subseteq Statuses
  <2>1. IsGenerated(g, r) /\ DOMAIN r.responses \subseteq Statuses
    BY GeneratedForIs, RouteTypes
  <2> HIDE DEF g
  <2> QED
    BY <2>1 DEF IsGenerated, Statuses
<1>5. CASE ~Declared(r.owner)
  BY <1>1, <1>3, <1>4, <1>5, PublishedIs
<1>6. CASE Declared(r.owner)
  <2>1. IsAdjusted(schema[op], g, p) /\ IsPolicy(p)
    BY <1>1, <1>3, <1>6, PublishedIs, PolicyOfIsPolicy
  <2> HIDE DEF g, p
  <2>2. EffectiveStatus(p) \in Statuses
    BY <2>1, StatusIsError DEF Statuses
  <2> QED
    BY <1>4, <2>1, <2>2 DEF IsAdjusted
<1> QED
  BY <1>5, <1>6

\* What is noted of an operation is a policy.
LEMMA PolicyTypes ==
  ASSUME RouteInv, NEW op \in DOMAIN policies
  PROVE  op[1] \in Methods /\ IsPolicy(policies[op])
<1>1. PICK r \in ToSet(routes) :
        op \in Operations(r) /\ Declared(r.owner) /\ policies[op] = PolicyOf(r.owner)
  BY DEF RouteInv, RecordedInv
<1>2. op[1] \in Methods
  BY <1>1, RouteTypes DEF Operations
<1>3. r.owner # "health"
  BY <1>1 DEF Declared
<1> QED
  BY <1>1, <1>2, <1>3, RouteOwner, PolicyOfIsPolicy

\* Every variable has its type.
THEOREM TypeCorrect == Spec => []TypeOK
<1>1. Init => StackInv /\ StatusInv
  BY DEF Init, StackInv, StatusInv
<1>2. RouteInv /\ SchemaInv /\ StackInv /\ StatusInv => TypeOK
  <2> SUFFICES ASSUME RouteInv, SchemaInv, StackInv, StatusInv PROVE TypeOK
    OBVIOUS
  <2>1. \A i \in DOMAIN routes : routes[i].methods \subseteq Methods
    BY RouteTypes DEF ToSet
  <2>2. \A op \in DOMAIN policies : op[1] \in Methods /\ IsPolicy(policies[op])
    BY PolicyTypes
  <2>3. Cardinality(stack) <= 1
    <3>1. CASE stack = {}
      BY <3>1, FS_EmptySet
    <3>2. ASSUME NEW built, stack = {built} PROVE Cardinality(stack) <= 1
      <4>1. Cardinality({built}) = 1
        BY FS_Singleton
      <4> QED
        BY <3>2, <4>1
    <3> QED
      BY <3>1, <3>2 DEF StackInv
  <2>4. mappers \subseteq Classes /\ Handled(stack) \subseteq mappers
    BY DEF StackInv, Handled
  <2>5. \A op \in DOMAIN schema : DOMAIN schema[op] \subseteq Statuses
    BY SchemaTypes
  <2> QED
    BY <2>1, <2>2, <2>3, <2>4, <2>5 DEF TypeOK, RouteInv, StatusInv
<1>3. MapperInv /\ StackInv /\ [Next]_vars => StackInv'
  BY StackNext
<1>4. RouteInv /\ StatusInv /\ [Next]_vars => StatusInv'
  BY StatusNext
<1> QED
  BY <1>1, <1>2, <1>3, <1>4, RouteInvariance, SchemaInvariance, MapperInvariance, PTL DEF Spec

\* No operation, and no id, of the application has two routes: whatever the
\* modules, a request and the policy noted for it belong to one declaration.
OneRouteEach ==
  \A r, s \in ToSet(routes) : r.id = s.id \/ Operations(r) \cap Operations(s) # {} => r = s

\* It holds since the declarations are refused otherwise.
THEOREM OneRoute == Spec => []OneRouteEach
<1>1. RouteInv => OneRouteEach
  <2> SUFFICES ASSUME RouteInv, NEW r \in ToSet(routes), NEW s \in ToSet(routes),
                      r.id = s.id \/ Operations(r) \cap Operations(s) # {}
               PROVE  r = s
    BY DEF OneRouteEach
  <2>1. PICK i \in DOMAIN Routers : \E k \in DOMAIN Routers[i].routes :
                s = Include(Routers[i].routes[k], Routers[i].owner)
    BY RouteIsIncluded
  <2>2. PICK d \in ToSet(Routers[i].routes) : s = Include(d, Routers[i].owner)
    BY <2>1 DEF ToSet
  <2>3. s.id = d.id /\ Operations(s) = Operations(d)
    BY <2>2 DEF Include, Operations
  <2> QED
    BY <2>2, <2>3, RouteIsUnique
<1> QED
  BY <1>1, RouteInvariance, PTL
=============================================================================
