--------------------------- MODULE Settings_proofs ---------------------------
(***************************************************************************)
(* That cached settings are current and that contexts in each other are    *)
(* scopes, for every environment, every override and every depth.          *)
(***************************************************************************)
EXTENDS Settings, SequenceTheorems, SequenceLemmas, TLAPS

-----------------------------------------------------------------------------
(* Types and caches.                                                       *)

\* TypeOK, with the frames a sequence: which SubSeq and Append need.
Typed ==
  /\ env \in [Variables -> Values]
  /\ frames \in Seq(Partial) /\ Len(frames) <= MaxDepth
  /\ \A c \in app_cache : c.required \subseteq c.enabled
  /\ \A c \in service_cache : c.key \in Selections
  /\ dirty \subseteq {"app", "service"} /\ writes \in 0 .. MaxWrites
IInv == Typed /\ CachedIsCurrent

\* What a context saves is a part of an environment, and so is what it writes.
LEMMA OverridesArePartial ==
  ASSUME env \in [Variables -> Values], NEW o \in Overrides
  PROVE  o \in Partial /\ DOMAIN o \subseteq Variables /\ Previous(o) \in Partial
<1>1. o \in Partial
  BY SettingsAssumption
<1>2. PICK S \in SUBSET Variables : o \in [S -> Values]
  BY <1>1 DEF Partial
<1>3. Previous(o) \in [S -> Values]
  BY <1>2 DEF Previous
<1> QED
  BY <1>1, <1>2, <1>3 DEF Partial

\* Writing a part of an environment into one makes one.
LEMMA WrittenIsEnvironment ==
  ASSUME NEW e \in [Variables -> Values], NEW values \in Partial
  PROVE  Written(values, e) \in [Variables -> Values]
<1>1. PICK S \in SUBSET Variables : values \in [S -> Values]
  BY DEF Partial
<1> QED
  BY <1>1 DEF Written

\* What `finally' undoes after a context that failed is all that was written.
LEMMA FailureUndone ==
  ASSUME env \in [Variables -> Values], NEW o \in Overrides, EnterFails(o)
  PROVE  UNCHANGED <<env, frames>>
<1>1. PICK done \in SUBSET DOMAIN o :
        env' = Written(Previous(o), [n \in Variables |-> IF n \in done THEN o[n] ELSE env[n]])
  BY DEF EnterFails
<1>2. \A n \in Variables : env'[n] = env[n]
  BY <1>1 DEF Written, Previous
<1>3. env' = [n \in Variables |-> env'[n]] /\ env = [n \in Variables |-> env[n]]
  BY <1>1 DEF Written
<1> QED
  BY <1>2, <1>3 DEF EnterFails

\* A process starts without contexts and with empty caches.
LEMMA InitInv == Init => IInv
<1> SUFFICES ASSUME Init PROVE IInv
  OBVIOUS
<1> USE DEF Init
<1>1. env \in [Variables -> Values]
  BY SettingsAssumption
<1>2. frames \in Seq(Partial) /\ Len(frames) = 0
  BY EmptySeq
<1>3. MaxDepth \in Nat /\ MaxWrites \in Nat
  BY SettingsAssumption
<1>4. Typed
  BY <1>1, <1>2, <1>3 DEF Typed
<1> QED
  BY <1>4 DEF IInv, CachedIsCurrent

\* Nothing that is done to the environment leaves a cache stale and unmarked.
LEMMA NextInv == IInv /\ [Next]_vars => IInv'
<1> SUFFICES ASSUME IInv, [Next]_vars PROVE IInv'
  OBVIOUS
<1> USE DEF IInv
<1>0. MaxDepth \in Nat /\ MaxWrites \in Nat
  BY SettingsAssumption
<1>1. CASE LoadAppConfig
  <2>1. Typed'
    BY <1>1 DEF LoadAppConfig, Typed, AppConfig
  <2>2. CachedIsCurrent'
    BY <1>1 DEF LoadAppConfig, CachedIsCurrent
  <2> QED
    BY <2>1, <2>2
<1>2. ASSUME NEW key \in Selections, LoadDocmeshSettings(key) PROVE IInv'
  <2>1. CASE ServiceConfigs(key, env) = {}
    <3>1. UNCHANGED vars
      BY <1>2, <2>1 DEF LoadDocmeshSettings, vars
    <3> QED
      BY <3>1 DEF vars, Typed, CachedIsCurrent
  <2>2. CASE ServiceConfigs(key, env) # {}
    <3>1. /\ service_cache' = {[key |-> key, configs |-> c] : c \in ServiceConfigs(key, env)}
          /\ dirty' = dirty \ {"service"}
      BY <1>2, <2>2 DEF LoadDocmeshSettings
    <3>2. \A kept \in service_cache' : kept.key = key /\ kept.configs \in ServiceConfigs(key, env)
      BY <3>1
    <3>3. Typed'
      BY <1>2, <3>1, <3>2 DEF LoadDocmeshSettings, Typed
    <3>4. CachedIsCurrent'
      BY <1>2, <3>1, <3>2 DEF LoadDocmeshSettings, CachedIsCurrent
    <3> QED
      BY <3>3, <3>4
  <2> QED
    BY <2>1, <2>2
<1>3. ASSUME NEW o \in Overrides, Enter(o) PROVE IInv'
  <2>1. Previous(o) \in Partial /\ o \in Partial
    BY OverridesArePartial DEF Typed
  <2>2. env' \in [Variables -> Values]
    BY <1>3, <2>1, WrittenIsEnvironment DEF Enter, Typed
  <2>3. frames' \in Seq(Partial) /\ Len(frames') <= MaxDepth
    <3>1. frames' \in Seq(Partial) /\ Len(frames') = Len(frames) + 1
      BY <1>3, <2>1 DEF Enter, Typed
    <3> QED
      BY <1>0, <1>3, <3>1, LenProperties DEF Enter, Typed
  <2> QED
    BY <1>3, <2>2, <2>3 DEF Enter, ClearCaches, Typed, CachedIsCurrent
<1>4. ASSUME NEW o \in Overrides, EnterFails(o) PROVE IInv'
  <2>1. UNCHANGED <<env, frames, writes>>
    BY <1>4, FailureUndone DEF Typed, EnterFails
  <2> QED
    BY <1>4, <2>1 DEF EnterFails, ClearCaches, Typed, CachedIsCurrent
<1>5. CASE Leave
  <2>1. Len(frames) \in Nat \ {0}
    BY <1>5, EmptySeq DEF Leave, Typed
  <2>2. frames[Len(frames)] \in Partial
    BY <2>1, ElementOfSeq DEF Typed
  <2>3. env' \in [Variables -> Values]
    BY <1>5, <2>2, WrittenIsEnvironment DEF Leave, Typed
  <2>4. frames' \in Seq(Partial) /\ Len(frames') <= MaxDepth
    <3>1. \A i \in 1 .. Len(frames) - 1 : frames[i] \in Partial
      BY <2>1, ElementOfSeq DEF Typed
    <3>2. /\ frames' \in Seq(Partial)
          /\ Len(frames') = IF 1 <= Len(frames) - 1 THEN Len(frames) - 1 - 1 + 1 ELSE 0
      BY <1>5, <2>1, <3>1, SubSeqProperties DEF Leave
    <3> QED
      BY <1>0, <2>1, <3>2 DEF Typed
  <2>5. Typed'
    BY <1>5, <2>3, <2>4 DEF Leave, LeftCaches, ClearCaches, Typed
  <2>6. CachedIsCurrent'
    BY <1>5 DEF Leave, LeftCaches, ClearCaches, CachedIsCurrent
  <2> QED
    BY <2>5, <2>6
<1>6. ASSUME NEW v \in Variables, NEW x \in Values, SetVariable(v, x) PROVE IInv'
  <2>1. Typed'
    BY <1>0, <1>6 DEF SetVariable, Typed
  <2>2. CachedIsCurrent'
    BY <1>6 DEF SetVariable, CachedIsCurrent
  <2> QED
    BY <2>1, <2>2
<1>7. CASE UNCHANGED vars
  BY <1>7 DEF vars, Typed, CachedIsCurrent
<1> QED
  BY <1>1, <1>2, <1>3, <1>4, <1>5, <1>6, <1>7 DEF Next

\* The invariant holds of every process.
THEOREM Invariance == Spec => []IInv
<1> QED
  BY InitInv, NextInv, PTL DEF Spec

\* Every variable has its type, at every depth of contexts.
THEOREM TypeCorrect == Spec => []TypeOK
<1>1. IInv => TypeOK
  <2> SUFFICES ASSUME IInv PROVE TypeOK
    OBVIOUS
  <2>1. \A i \in DOMAIN frames : frames[i] \in Partial
    BY ElementOfSeq, LenProperties DEF IInv, Typed
  <2> QED
    BY <2>1 DEF IInv, Typed, TypeOK
<1> QED
  BY <1>1, Invariance, PTL

\* What is cached is what reading anew would give, unless other code has written
\* to the environment since.
THEOREM CachesAreCurrent == Spec => []CachedIsCurrent
<1>1. IInv => CachedIsCurrent
  BY DEF IInv
<1> QED
  BY <1>1, Invariance, PTL

-----------------------------------------------------------------------------
(* Contexts in each other are scopes.                                      *)

\* The mapping of Settings to DynamicScopes, of any frames and environment.
LaterIn(v, i, fs) == {j \in i + 1 .. Len(fs) : v \in DOMAIN fs[j]}
AtIn(v, i, fs, e) ==
  IF LaterIn(v, i, fs) = {} THEN e[v]
  ELSE fs[CHOOSE j \in LaterIn(v, i, fs) : \A k \in LaterIn(v, i, fs) : j <= k][v]
Base(fs, e) == [v \in Variables |-> AtIn(v, 0, fs, e)]
Layers(fs, e) == [i \in 1 .. Len(fs) |-> [v \in DOMAIN fs[i] |-> AtIn(v, i, fs, e)]]

\* There is a last one of some bounded positions.
LEMMA LastOf ==
  ASSUME NEW n \in Nat, NEW S, S \subseteq 0 .. n, S # {}
  PROVE  \E k \in S : \A l \in S : l <= k
<1> DEFINE T == {t \in 0 .. n : n - t \in S}
<1>0. \A k \in S : n - k \in T
  <2>1. \A k \in S : n - k \in 0 .. n /\ n - (n - k) = k
    OBVIOUS
  <2> QED
    BY <2>1
<1>1. T \subseteq Nat /\ T # {}
  <2>1. T \subseteq Nat
    OBVIOUS
  <2>2. PICK k \in S : TRUE
    OBVIOUS
  <2>3. n - k \in T
    BY <1>0
  <2> QED
    BY <2>1, <2>3
<1>2. PICK m \in T : \A t \in T : m <= t
  <2> HIDE DEF T
  <2> QED
    BY <1>1, FirstOf
<1>3. \A l \in S : l \in Nat /\ m \in Nat /\ m <= n - l
  BY <1>0, <1>2
<1>4. n - m \in S /\ \A l \in S : l <= n - m
  BY <1>2, <1>3
<1> QED
  BY <1>4

\* The value at a depth is what the first later context has saved.
LEMMA AtFirst ==
  ASSUME NEW fs \in Seq(Partial), NEW e, NEW v, NEW i \in Nat,
         NEW k \in LaterIn(v, i, fs), \A j \in LaterIn(v, i, fs) : k <= j
  PROVE  AtIn(v, i, fs, e) = fs[k][v]
<1>1. LaterIn(v, i, fs) \subseteq Nat
  BY LenProperties DEF LaterIn
<1>2. (CHOOSE j \in LaterIn(v, i, fs) : \A l \in LaterIn(v, i, fs) : j <= l) = k
  BY <1>1
<1> QED
  BY <1>2 DEF AtIn

\* The layers of a sequence of contexts.
LEMMA LayersType ==
  ASSUME NEW fs \in Seq(Partial), NEW e
  PROVE  /\ Len(Layers(fs, e)) = Len(fs) /\ Len(fs) \in Nat
         /\ Layers(fs, e) \in Seq({Layers(fs, e)[i] : i \in 1 .. Len(fs)})
         /\ \A i \in 1 .. Len(fs) : /\ DOMAIN Layers(fs, e)[i] = DOMAIN fs[i]
                                    /\ \A v \in DOMAIN fs[i] : Layers(fs, e)[i][v] = AtIn(v, i, fs, e)
<1> DEFINE ls == Layers(fs, e)
<1>1. Len(fs) \in Nat
  BY LenProperties
<1>2. /\ ls = [i \in 1 .. Len(fs) |-> ls[i]]
      /\ \A i \in 1 .. Len(fs) : ls[i] = [v \in DOMAIN fs[i] |-> AtIn(v, i, fs, e)]
  BY DEF Layers
<1>3. \A i \in 1 .. Len(fs) : DOMAIN ls[i] = DOMAIN fs[i]
                              /\ \A v \in DOMAIN fs[i] : ls[i][v] = AtIn(v, i, fs, e)
  BY <1>2
<1> HIDE DEF ls
<1>4. ls \in [1 .. Len(fs) -> {ls[i] : i \in 1 .. Len(fs)}]
  BY <1>2
<1>5. ls \in Seq({ls[i] : i \in 1 .. Len(fs)})
  BY <1>1, <1>4, SeqDef
<1>6. Len(ls) = Len(fs)
  <2>1. Len(ls) \in Nat /\ DOMAIN ls = 1 .. Len(ls)
    BY <1>5, LenProperties
  <2>2. DOMAIN ls = 1 .. Len(fs)
    BY <1>4
  <2> QED
    BY <1>1, <2>1, <2>2
<1> QED
  BY <1>1, <1>3, <1>5, <1>6 DEF ls

\* Layers are a sequence of whatever each of them is.
LEMMA LayersIn ==
  ASSUME NEW fs \in Seq(Partial), NEW e, NEW T, \A i \in 1 .. Len(fs) : Layers(fs, e)[i] \in T
  PROVE  Layers(fs, e) \in Seq(T) /\ Len(Layers(fs, e)) = Len(fs)
<1> DEFINE R == {Layers(fs, e)[i] : i \in 1 .. Len(fs)}
<1>1. R \subseteq T
  OBVIOUS
<1>2. Layers(fs, e) \in Seq(R) /\ Len(Layers(fs, e)) = Len(fs)
  BY LayersType
<1> HIDE DEF R
<1> QED
  BY <1>1, <1>2, SeqMonotonic

\* The last context that binds v, or 0, is the binder.
LEMMA BinderIs ==
  ASSUME NEW ls, Len(ls) \in Nat, NEW v, NEW b \in 0 .. Len(ls), b > 0 => v \in DOMAIN ls[b],
         \A j \in b + 1 .. Len(ls) : v \notin DOMAIN ls[j]
  PROVE  Scopes!Binder(v, ls) = b
<1>1. ASSUME NEW i \in 0 .. Len(ls), i > 0 => v \in DOMAIN ls[i],
             \A j \in i + 1 .. Len(ls) : v \notin DOMAIN ls[j]
      PROVE  i = b
  <2>1. ~(i < b)
    BY <1>1
  <2>2. ~(b < i)
    BY <1>1
  <2> QED
    BY <2>1, <2>2
<1> QED
  BY <1>1 DEF Scopes!Binder

\* There is a binder, and nothing after it binds v.
LEMMA BinderExists ==
  ASSUME NEW fs \in Seq(Partial), NEW e, NEW v
  PROVE  \E b \in 0 .. Len(fs) :
           /\ Scopes!Binder(v, Layers(fs, e)) = b
           /\ b > 0 => v \in DOMAIN fs[b]
           /\ LaterIn(v, b, fs) = {}
<1> DEFINE S == {0} \cup {i \in 1 .. Len(fs) : v \in DOMAIN fs[i]}
<1>1. Len(fs) \in Nat
  BY LenProperties
<1>2. S \subseteq 0 .. Len(fs) /\ S # {}
  BY <1>1
<1>3. PICK b \in S : \A l \in S : l <= b
  <2> HIDE DEF S
  <2> QED
    BY <1>1, <1>2, LastOf
<1>4. b \in 0 .. Len(fs) /\ (b > 0 => v \in DOMAIN fs[b])
  BY <1>1
<1>5. \A j \in b + 1 .. Len(fs) : v \notin DOMAIN fs[j]
  BY <1>1, <1>3
<1>6. Scopes!Binder(v, Layers(fs, e)) = b
  <2> DEFINE ls == Layers(fs, e)
  <2>1. Len(ls) = Len(fs) /\ \A i \in 1 .. Len(fs) : DOMAIN ls[i] = DOMAIN fs[i]
    BY LayersType
  <2> HIDE DEF ls
  <2>2. b \in 0 .. Len(ls) /\ (b > 0 => v \in DOMAIN ls[b])
    BY <1>1, <1>4, <2>1
  <2>3. \A j \in b + 1 .. Len(ls) : v \notin DOMAIN ls[j]
    BY <1>1, <1>4, <1>5, <2>1
  <2>4. Scopes!Binder(v, ls) = b
    BY <1>1, <2>1, <2>2, <2>3, BinderIs
  <2> QED
    BY <2>4 DEF ls
<1> QED
  BY <1>4, <1>5, <1>6 DEF LaterIn

\* What is seen through the layers is the environment.
LEMMA SeenIsEnvironment ==
  ASSUME NEW fs \in Seq(Partial), NEW e \in [Variables -> Values]
  PROVE  Scopes!Seen(Base(fs, e), Layers(fs, e)) = e
<1> DEFINE s == Scopes!Seen(Base(fs, e), Layers(fs, e))
<1>1. ASSUME NEW v \in Variables PROVE s[v] = e[v]
  <2>1. PICK b \in 0 .. Len(fs) : /\ Scopes!Binder(v, Layers(fs, e)) = b
                                  /\ b > 0 => v \in DOMAIN fs[b]
                                  /\ LaterIn(v, b, fs) = {}
    BY BinderExists
  <2>2. AtIn(v, b, fs, e) = e[v]
    BY <2>1 DEF AtIn
  <2>3. s[v] = IF b = 0 THEN Base(fs, e)[v] ELSE Layers(fs, e)[b][v]
    BY <2>1 DEF Scopes!Seen
  <2>4. CASE b = 0
    BY <2>2, <2>3, <2>4 DEF Base
  <2>5. CASE b # 0
    <3>1. b \in 1 .. Len(fs) /\ v \in DOMAIN fs[b]
      BY <2>1, <2>5, LenProperties
    <3> QED
      BY <2>2, <2>3, <2>5, <3>1, LayersType
  <2> QED
    BY <2>4, <2>5
<1>2. s = [v \in Variables |-> s[v]]
  BY DEF Scopes!Seen
<1>3. e = [v \in Variables |-> e[v]]
  OBVIOUS
<1> HIDE DEF s
<1>4. s = e
  BY <1>1, <1>2, <1>3
<1> QED
  BY <1>4 DEF s
\* Entering a context binds what it overrides, and what was seen before stays
\* where it was.
LEMMA EnterBinds ==
  ASSUME NEW fs \in Seq(Partial), NEW e \in [Variables -> Values], NEW o \in Partial,
         NEW saved \in Partial, DOMAIN saved = DOMAIN o, \A v \in DOMAIN o : saved[v] = e[v]
  PROVE  /\ Base(Append(fs, saved), Written(o, e)) = Base(fs, e)
         /\ Layers(Append(fs, saved), Written(o, e)) = Append(Layers(fs, e), o)
<1> DEFINE gs == Append(fs, saved)
           f == Written(o, e)
           n == Len(fs)
<1>0. PICK S \in SUBSET Variables : o \in [S -> Values]
  BY DEF Partial
<1>1. /\ n \in Nat /\ Len(gs) = n + 1 /\ gs \in Seq(Partial)
      /\ \A i \in 1 .. n : gs[i] = fs[i]
      /\ gs[n + 1] = saved
  BY AppendProperties, LenProperties
<1>2. \A v \in Variables : f[v] = IF v \in DOMAIN o THEN o[v] ELSE e[v]
  BY DEF Written
<1> HIDE DEF gs, f, n
<1>3. ASSUME NEW v \in Variables, NEW i \in 0 .. n PROVE AtIn(v, i, gs, f) = AtIn(v, i, fs, e)
  <2>1. LaterIn(v, i, gs) = IF v \in DOMAIN o THEN LaterIn(v, i, fs) \cup {n + 1} ELSE LaterIn(v, i, fs)
    BY <1>1 DEF LaterIn, n
  <2>2. LaterIn(v, i, fs) \subseteq 1 .. n
    BY <1>1 DEF LaterIn, n
  <2>3. CASE LaterIn(v, i, fs) # {}
    <3>1. PICK k \in LaterIn(v, i, fs) : \A l \in LaterIn(v, i, fs) : k <= l
      BY <2>2, <2>3, FirstOf
    <3>2. k \in LaterIn(v, i, gs) /\ \A l \in LaterIn(v, i, gs) : k <= l
      BY <1>1, <2>1, <2>2, <3>1
    <3>3. AtIn(v, i, fs, e) = fs[k][v]
      BY <3>1, AtFirst
    <3>4. AtIn(v, i, gs, f) = gs[k][v]
      BY <1>1, <3>2, AtFirst
    <3>5. gs[k] = fs[k]
      BY <1>1, <2>2, <3>1
    <3> QED
      BY <3>3, <3>4, <3>5
  <2>4. CASE LaterIn(v, i, fs) = {} /\ v \in DOMAIN o
    <3>1. LaterIn(v, i, gs) = {n + 1} /\ n + 1 \in Nat
      BY <1>1, <2>1, <2>4
    <3>2. AtIn(v, i, gs, f) = gs[n + 1][v]
      BY <1>1, <3>1, AtFirst
    <3> QED
      BY <1>1, <2>4, <3>2 DEF AtIn
  <2>5. CASE LaterIn(v, i, fs) = {} /\ v \notin DOMAIN o
    BY <1>2, <2>1, <2>5 DEF AtIn
  <2> QED
    BY <2>3, <2>4, <2>5
<1>4. Base(gs, f) = Base(fs, e)
  BY <1>1, <1>3 DEF Base
<1>5. Layers(gs, f) = Append(Layers(fs, e), o)
  <2> DEFINE T == {Layers(fs, e)[i] : i \in 1 .. n} \cup {Layers(gs, f)[i] : i \in 1 .. n + 1} \cup {o}
             ls == Layers(fs, e)
             ms == Layers(gs, f)
  <2>1. ls \in Seq(T) /\ Len(ls) = n
    <3>1. \A i \in 1 .. Len(fs) : Layers(fs, e)[i] \in T
      BY DEF n
    <3> HIDE DEF T
    <3> QED
      BY <3>1, LayersIn DEF n
  <2>2. ms \in Seq(T) /\ Len(ms) = n + 1
    <3>1. \A i \in 1 .. Len(gs) : Layers(gs, f)[i] \in T
      BY <1>1
    <3> HIDE DEF T
    <3> QED
      BY <1>1, <3>1, LayersIn
  <2>3. ASSUME NEW i \in 1 .. n PROVE ms[i] = ls[i]
    <3>1. ms[i] = [v \in DOMAIN gs[i] |-> AtIn(v, i, gs, f)]
      BY <1>1 DEF Layers
    <3>2. ls[i] = [v \in DOMAIN fs[i] |-> AtIn(v, i, fs, e)]
      BY DEF Layers, n
    <3>3. gs[i] = fs[i] /\ DOMAIN fs[i] \subseteq Variables
      BY <1>1, ElementOfSeq DEF Partial, n
    <3> QED
      BY <1>1, <1>3, <3>1, <3>2, <3>3
  <2>4. ms[n + 1] = o
    <3>1. ms[n + 1] = [v \in DOMAIN saved |-> AtIn(v, n + 1, gs, f)]
      BY <1>1 DEF Layers
    <3>2. \A v : LaterIn(v, n + 1, gs) = {}
      BY <1>1 DEF LaterIn
    <3>3. \A v \in DOMAIN o : AtIn(v, n + 1, gs, f) = o[v]
      BY <1>0, <1>2, <3>2 DEF AtIn
    <3> QED
      BY <1>0, <3>1, <3>3
  <2> HIDE DEF T, ls, ms
  <2>5. o \in T
    BY DEF T
  <2>6. /\ Append(ls, o) \in Seq(T) /\ Len(Append(ls, o)) = n + 1
        /\ \A i \in 1 .. n : Append(ls, o)[i] = ls[i]
        /\ Append(ls, o)[n + 1] = o
    BY <2>1, <2>5, AppendProperties
  <2>7. \A i \in 1 .. n + 1 : ms[i] = Append(ls, o)[i]
    BY <1>1, <2>3, <2>4, <2>6
  <2>8. ms = Append(ls, o)
    BY <2>2, <2>6, <2>7, SeqEqual
  <2> QED
    BY <2>8 DEF ms, ls
<1> QED
  BY <1>4, <1>5 DEF gs, f

\* Leaving the innermost context takes its bindings away and no other.
LEMMA LeaveUnbinds ==
  ASSUME NEW fs \in Seq(Partial), NEW e \in [Variables -> Values], fs # <<>>
  PROVE  LET n == Len(fs)
             gs == SubSeq(fs, 1, n - 1)
             f == Written(fs[n], e)
         IN  /\ Base(gs, f) = Base(fs, e)
             /\ Layers(gs, f) = SubSeq(Layers(fs, e), 1, n - 1)
             /\ Layers(fs, e) # <<>>
<1> DEFINE n == Len(fs)
           gs == SubSeq(fs, 1, n - 1)
           f == Written(fs[n], e)
<1>1. n \in Nat \ {0} /\ n - 1 \in Nat
  BY EmptySeq, LenProperties
<1>2. \A i \in 1 .. n : fs[i] \in Partial /\ DOMAIN fs[i] \subseteq Variables
  BY ElementOfSeq DEF Partial
<1>3. gs \in Seq(Partial) /\ Len(gs) = n - 1 /\ \A i \in 1 .. n - 1 : gs[i] = fs[i]
  <2>1. \A i \in 1 .. n - 1 : fs[i] \in Partial
    BY <1>1, <1>2
  <2> HIDE DEF n
  <2> QED
    BY <1>1, <2>1, SubSeqProperties
<1>4. \A v \in Variables : f[v] = IF v \in DOMAIN fs[n] THEN fs[n][v] ELSE e[v]
  BY DEF Written
<1> HIDE DEF gs, f, n
<1>5. ASSUME NEW v \in Variables, NEW i \in 0 .. n - 1 PROVE AtIn(v, i, gs, f) = AtIn(v, i, fs, e)
  <2>1. LaterIn(v, i, fs) = IF v \in DOMAIN fs[n] THEN LaterIn(v, i, gs) \cup {n} ELSE LaterIn(v, i, gs)
    BY <1>1, <1>3 DEF LaterIn, n
  <2>2. LaterIn(v, i, gs) \subseteq 1 .. n - 1
    BY <1>1, <1>3 DEF LaterIn
  <2>3. CASE LaterIn(v, i, gs) # {}
    <3>1. PICK k \in LaterIn(v, i, gs) : \A l \in LaterIn(v, i, gs) : k <= l
      BY <2>2, <2>3, FirstOf
    <3>2. k \in LaterIn(v, i, fs) /\ \A l \in LaterIn(v, i, fs) : k <= l
      BY <1>1, <2>1, <2>2, <3>1
    <3>3. AtIn(v, i, gs, f) = gs[k][v]
      BY <1>1, <1>3, <3>1, AtFirst
    <3>4. AtIn(v, i, fs, e) = fs[k][v]
      BY <1>1, <3>2, AtFirst
    <3>5. gs[k] = fs[k]
      BY <1>3, <2>2, <3>1
    <3> QED
      BY <3>3, <3>4, <3>5
  <2>4. CASE LaterIn(v, i, gs) = {} /\ v \in DOMAIN fs[n]
    <3>1. LaterIn(v, i, fs) = {n} /\ n \in Nat
      BY <1>1, <2>1, <2>4
    <3>2. AtIn(v, i, fs, e) = fs[n][v]
      BY <1>1, <3>1, AtFirst
    <3> QED
      BY <1>4, <2>4, <3>2 DEF AtIn
  <2>5. CASE LaterIn(v, i, gs) = {} /\ v \notin DOMAIN fs[n]
    BY <1>4, <2>1, <2>5 DEF AtIn
  <2> QED
    BY <2>3, <2>4, <2>5
<1>6. Base(gs, f) = Base(fs, e)
  BY <1>1, <1>5 DEF Base
<1> DEFINE ls == Layers(fs, e)
           ms == Layers(gs, f)
           T == {ls[i] : i \in 1 .. n} \cup {ms[i] : i \in 1 .. n - 1}
<1>7. ls \in Seq(T) /\ Len(ls) = n
  <2>1. \A i \in 1 .. Len(fs) : Layers(fs, e)[i] \in T
    BY DEF n
  <2> HIDE DEF T
  <2> QED
    BY <2>1, LayersIn DEF n
<1>8. ms \in Seq(T) /\ Len(ms) = n - 1
  <2>1. \A i \in 1 .. Len(gs) : Layers(gs, f)[i] \in T
    BY <1>3
  <2> HIDE DEF T
  <2> QED
    BY <1>3, <2>1, LayersIn
<1>9. ASSUME NEW i \in 1 .. n - 1 PROVE ms[i] = ls[i]
  <2>1. ms[i] = [v \in DOMAIN gs[i] |-> AtIn(v, i, gs, f)]
    BY <1>3 DEF Layers
  <2>2. i \in 1 .. n
    BY <1>1
  <2>3. ls[i] = [v \in DOMAIN fs[i] |-> AtIn(v, i, fs, e)]
    BY <2>2 DEF Layers, n
  <2>4. gs[i] = fs[i] /\ DOMAIN fs[i] \subseteq Variables /\ i \in 0 .. n - 1
    BY <1>1, <1>2, <1>3, <2>2 DEF n
  <2> QED
    BY <1>5, <2>1, <2>3, <2>4
<1> HIDE DEF ls, ms, T
<1>10. \A i \in 1 .. n - 1 : ls[i] \in T
  BY <1>1, <1>7, ElementOfSeq
<1>11. /\ SubSeq(ls, 1, n - 1) \in Seq(T) /\ Len(SubSeq(ls, 1, n - 1)) = n - 1
       /\ \A i \in 1 .. n - 1 : SubSeq(ls, 1, n - 1)[i] = ls[i]
  BY <1>1, <1>10, SubSeqProperties
<1>12. ms = SubSeq(ls, 1, n - 1)
  BY <1>8, <1>9, <1>11, SeqEqual
<1>13. ls # <<>>
  BY <1>1, <1>7, EmptySeq
<1> QED
  BY <1>6, <1>12, <1>13 DEF ls, ms, gs, f, n
\* The frames gs and the environment f are fs and e with x assigned to v.
Assigned(fs, e, gs, f, v, x) ==
  LET ls == Layers(fs, e)
      b == Scopes!Binder(v, ls)
  IN  IF b = 0
      THEN Base(gs, f) = [Base(fs, e) EXCEPT ![v] = x] /\ Layers(gs, f) = ls
      ELSE Layers(gs, f) = [ls EXCEPT ![b] = [@ EXCEPT ![v] = x]] /\ Base(gs, f) = Base(fs, e)

\* Writing a variable assigns to its innermost binding.
LEMMA WriteAssigns ==
  ASSUME NEW fs \in Seq(Partial), NEW e \in [Variables -> Values],
         NEW v \in Variables, NEW x \in Values
  PROVE  Assigned(fs, e, fs, [e EXCEPT ![v] = x], v, x)
<1> DEFINE f == [e EXCEPT ![v] = x]
           ls == Layers(fs, e)
           n == Len(fs)
<1>1. n \in Nat
  BY LenProperties
<1>2. \A u \in Variables : f[u] = IF u = v THEN x ELSE e[u]
  OBVIOUS
<1>3. PICK b \in 0 .. n : /\ Scopes!Binder(v, ls) = b
                          /\ b > 0 => v \in DOMAIN fs[b]
                          /\ LaterIn(v, b, fs) = {}
  BY BinderExists
<1>4. \A i \in 1 .. n : DOMAIN fs[i] \subseteq Variables
  BY ElementOfSeq DEF Partial
<1> HIDE DEF f
<1>5. \A u \in Variables : \A i : u # v => AtIn(u, i, fs, f) = AtIn(u, i, fs, e)
  BY <1>2 DEF AtIn
<1>6. \A i : LaterIn(v, i, fs) # {} => AtIn(v, i, fs, f) = AtIn(v, i, fs, e)
  BY DEF AtIn
<1>7. AtIn(v, b, fs, f) = x
  BY <1>2, <1>3 DEF AtIn
<1>8. ASSUME NEW i \in 0 .. n, i < b PROVE LaterIn(v, i, fs) # {}
  <2>1. b \in i + 1 .. n /\ v \in DOMAIN fs[b]
    BY <1>1, <1>3, <1>8
  <2> QED
    BY <2>1 DEF LaterIn
<1>9. ASSUME NEW i \in 1 .. n, v \in DOMAIN fs[i] PROVE ~(i > b)
  <2> SUFFICES ASSUME i > b PROVE FALSE
    OBVIOUS
  <2>1. i \in b + 1 .. n
    BY <1>1
  <2> QED
    BY <1>3, <1>9, <2>1 DEF LaterIn
\* Layers of i differ only where i is b.
<1>10. ASSUME NEW i \in 1 .. n, i # b PROVE Layers(fs, f)[i] = ls[i]
  <2>1. \A u \in DOMAIN fs[i] : AtIn(u, i, fs, f) = AtIn(u, i, fs, e)
    <3>1. CASE v \in DOMAIN fs[i]
      <4>1. i < b /\ i \in 0 .. n
        BY <1>1, <1>9, <1>10, <3>1
      <4> QED
        BY <1>4, <1>5, <1>6, <1>8, <4>1
    <3>2. CASE v \notin DOMAIN fs[i]
      BY <1>4, <1>5, <3>2
    <3> QED
      BY <3>1, <3>2
  <2> QED
    BY <2>1 DEF Layers
<1>11. /\ Layers(fs, f) = [i \in 1 .. n |-> Layers(fs, f)[i]]
       /\ ls = [i \in 1 .. n |-> ls[i]]
  BY DEF Layers
<1>12. CASE b = 0
  <2>1. \A i \in 1 .. n : Layers(fs, f)[i] = ls[i]
    BY <1>10, <1>12
  <2> HIDE DEF ls
  <2>2. Layers(fs, f) = ls
    BY <1>11, <2>1
  <2>3. \A u \in Variables : AtIn(u, 0, fs, f) = IF u = v THEN x ELSE AtIn(u, 0, fs, e)
    BY <1>5, <1>7, <1>12
  <2>4. Base(fs, f) = [Base(fs, e) EXCEPT ![v] = x]
    BY <2>3 DEF Base
  <2> QED
    BY <1>3, <1>12, <2>2, <2>4 DEF Assigned, f, ls
<1>13. CASE b # 0
  <2>1. b \in 1 .. n /\ 0 < b /\ 0 \in 0 .. n
    BY <1>1, <1>13
  <2>2. \A u \in Variables : AtIn(u, 0, fs, f) = AtIn(u, 0, fs, e)
    BY <1>5, <1>6, <1>8, <2>1
  <2>3. Base(fs, f) = Base(fs, e)
    BY <2>2 DEF Base
  <2>4. Layers(fs, f)[b] = [ls[b] EXCEPT ![v] = x]
    <3>1. \A u \in DOMAIN fs[b] : AtIn(u, b, fs, f) = IF u = v THEN x ELSE AtIn(u, b, fs, e)
      BY <1>4, <1>5, <1>7, <2>1
    <3>2. Layers(fs, f)[b] = [u \in DOMAIN fs[b] |-> AtIn(u, b, fs, f)]
      BY <2>1 DEF Layers
    <3>3. ls[b] = [u \in DOMAIN fs[b] |-> AtIn(u, b, fs, e)]
      BY <2>1 DEF Layers
    <3> HIDE DEF ls
    <3> QED
      BY <3>1, <3>2, <3>3
  <2> HIDE DEF ls, n
  <2>5. Layers(fs, f) = [ls EXCEPT ![b] = [@ EXCEPT ![v] = x]]
    BY <1>10, <1>11, <2>1, <2>4
  <2> QED
    BY <1>3, <1>13, <2>3, <2>5 DEF Assigned, f, ls
<1> QED
  BY <1>12, <1>13

\* The abstract variables, as the mapping of Settings gives them.
LEMMA MappedTo ==
  /\ [v \in Variables |-> At(v, 0)] = Base(frames, env)
  /\ [i \in 1 .. Len(frames) |-> [v \in DOMAIN frames[i] |-> At(v, i)]] = Layers(frames, env)
BY DEF At, Later, Base, Layers, AtIn, LaterIn

\* A context that is entered binds, one that is left unbinds, a write from
\* outside assigns, and whatever else happens is not seen (SRS-TEST-006).
THEOREM Implements == Spec => ImplementsScopes
<1>1. Init => Scopes!Init
  <2> SUFFICES ASSUME Init PROVE Scopes!Init
    OBVIOUS
  <2>1. env \in [Variables -> Values] /\ frames = <<>> /\ Len(frames) = 0
    BY SettingsAssumption, EmptySeq DEF Init
  <2>2. \A v : LaterIn(v, 0, frames) = {}
    BY <2>1 DEF LaterIn
  <2>3. Base(frames, env) = env
    BY <2>1, <2>2 DEF Base, AtIn
  <2>4. Layers(frames, env) = <<>>
    <3>1. Len(Layers(frames, env)) = 0 /\ Layers(frames, env) \in Seq({})
      <4>1. \A i \in 1 .. Len(frames) : Layers(frames, env)[i] \in {}
        BY <2>1
      <4>2. frames \in Seq(Partial)
        BY <2>1, EmptySeq
      <4> QED
        BY <2>1, <4>1, <4>2, LayersIn
    <3> QED
      BY <3>1, EmptySeq
  <2> QED
    BY <2>1, <2>3, <2>4, MappedTo DEF Scopes!Init
<1>2. IInv /\ [Next]_vars => [Scopes!Next]_Scopes!vars
  <2> SUFFICES ASSUME IInv, [Next]_vars PROVE [Scopes!Next]_Scopes!vars
    OBVIOUS
  <2> USE DEF IInv, Typed
  <2>0. /\ [v \in Variables |-> At(v, 0)]' = Base(frames', env')
        /\ [i \in 1 .. Len(frames) |-> [v \in DOMAIN frames[i] |-> At(v, i)]]' = Layers(frames', env')
    BY DEF At, Later, Base, Layers, AtIn, LaterIn
  <2>1. ASSUME NEW o \in Overrides, Enter(o) PROVE Scopes!Next
    <3>1. o \in Partial /\ Previous(o) \in Partial /\ DOMAIN o \subseteq Variables
      BY OverridesArePartial
    <3>2. DOMAIN Previous(o) = DOMAIN o /\ \A v \in DOMAIN o : Previous(o)[v] = env[v]
      BY DEF Previous
    <3>3. /\ Base(frames', env') = Base(frames, env)
          /\ Layers(frames', env') = Append(Layers(frames, env), o)
      BY <2>1, <3>1, <3>2, EnterBinds DEF Enter
    <3>4. frames' \in Seq(Partial) /\ env' \in [Variables -> Values]
      BY <2>1, <3>1, AppendProperties, WrittenIsEnvironment DEF Enter
    <3>5. Scopes!Seen(Base(frames', env'), Layers(frames', env')) = env'
      BY <3>4, SeenIsEnvironment
    <3>6. Scopes!Bind(o)
      BY <2>0, <3>3, <3>5, MappedTo DEF Scopes!Bind
    <3> QED
      BY <3>6 DEF Scopes!Next
  <2>2. CASE Leave
    <3>1. /\ Base(frames', env') = Base(frames, env)
          /\ Layers(frames', env') = SubSeq(Layers(frames, env), 1, Len(frames) - 1)
          /\ Layers(frames, env) # <<>> /\ Len(Layers(frames, env)) = Len(frames)
      BY <2>2, LeaveUnbinds, LayersType DEF Leave
    <3>2. frames' \in Seq(Partial) /\ env' \in [Variables -> Values]
      BY NextInv
    <3>3. Scopes!Seen(Base(frames', env'), Layers(frames', env')) = env'
      BY <3>2, SeenIsEnvironment
    <3>4. Scopes!Unbind
      BY <2>0, <3>1, <3>3, MappedTo DEF Scopes!Unbind
    <3> QED
      BY <3>4 DEF Scopes!Next
  <2>3. ASSUME NEW v \in Variables, NEW x \in Values, SetVariable(v, x) PROVE Scopes!Next
    <3>1. frames' = frames /\ env' = [env EXCEPT ![v] = x]
      BY <2>3 DEF SetVariable
    <3>2. env' \in [Variables -> Values]
      BY <3>1
    <3>3. Scopes!Seen(Base(frames', env'), Layers(frames', env')) = env'
      BY <3>1, <3>2, SeenIsEnvironment
    <3>4. Assigned(frames, env, frames', env', v, x)
      BY <3>1, WriteAssigns
    <3>5. Scopes!Assign(v, x)
      <4> HIDE DEF IInv, Typed
      <4>1. CASE Scopes!Binder(v, Layers(frames, env)) = 0
        BY <2>0, <3>3, <3>4, <4>1, MappedTo DEF Scopes!Assign, Assigned
      <4>2. CASE Scopes!Binder(v, Layers(frames, env)) # 0
        BY <2>0, <3>3, <3>4, <4>2, MappedTo DEF Scopes!Assign, Assigned
      <4> QED
        BY <4>1, <4>2
    <3> QED
      BY <3>5 DEF Scopes!Next
  <2>4. ASSUME UNCHANGED <<env, frames>> PROVE UNCHANGED Scopes!vars
    BY <2>0, <2>4, MappedTo DEF Scopes!vars
  <2>5. \A o \in Overrides : EnterFails(o) => UNCHANGED <<env, frames>>
    BY FailureUndone
  <2>6. LoadAppConfig \/ (\E key \in Selections : LoadDocmeshSettings(key)) => UNCHANGED <<env, frames>>
    BY DEF LoadAppConfig, LoadDocmeshSettings
  <2>7. UNCHANGED vars => UNCHANGED <<env, frames>>
    BY DEF vars
  <2> QED
    BY <2>1, <2>2, <2>3, <2>4, <2>5, <2>6, <2>7 DEF Next
<1> QED
  BY <1>1, <1>2, Invariance, PTL DEF Spec, ImplementsScopes, Scopes!Spec
=============================================================================
