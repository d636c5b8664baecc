-------------------------- MODULE Readiness_proofs --------------------------
(***************************************************************************)
(* That what the readiness endpoint says is true, for every registry,      *)
(* every policy, every structured result and every number of changes while *)
(* the checks run.                                                         *)
(***************************************************************************)
EXTENDS Readiness, SequenceTheorems, TLAPS

-----------------------------------------------------------------------------
(* The inductive invariant.                                                *)

\* Before the snapshot nothing is selected; as long as nothing has changed, the
\* registry is what was selected.
SnapshotInv ==
  /\ pc = "idle" => selected = Empty /\ changes = 0
  /\ pc # "idle" /\ changes = 0 => selected = specs
IInv ==
  /\ TypeOK /\ SnapshotInv
  /\ OkMeansAllPassed /\ RequiredFailureIs503 /\ ResultsPreserved /\ RedactedIsHidden
  /\ FailsOnlyUnresolved

-----------------------------------------------------------------------------
(* Names, dictionaries and outcomes.                                       *)

\* A check's name is a nonempty sequence, and a service's name another.
LEMMA Names ==
  ASSUME NEW n \in Checks
  PROVE  /\ n \in Seq(STRING \cup Parts) /\ Len(n) \in Nat \ {0}
         /\ \A c \in Parts : /\ Append(n, c) \in Seq(STRING \cup Parts)
                             /\ Len(Append(n, c)) = Len(n) + 1
                             /\ \A i \in 1 .. Len(n) : Append(n, c)[i] = n[i]
<1>1. n \in Seq(STRING) /\ n # <<>>
  BY ChecksAssumption
<1>2. n \in Seq(STRING \cup Parts) /\ Len(n) \in Nat \ {0}
  BY <1>1, SeqMonotonic, EmptySeq
<1> QED
  BY <1>2, AppendProperties

\* A name of one part is the top of itself and of the names of its services.
LEMMA TopIsCheck ==
  ASSUME NEW n \in Checks, Len(n) = 1
  PROVE  Top(n) = n /\ \A c \in Parts : Top(Append(n, c)) = n /\ Len(Append(n, c)) = 2
<1>0. n \in Seq(STRING \cup Parts) /\ Len(n) = 1
  BY Names
<1>1. n = <<n[1]>>
  <2>1. n[1] \in STRING \cup Parts
    BY Names, ElementOfSeq
  <2>2. <<n[1]>> \in Seq(STRING \cup Parts) /\ Len(<<n[1]>>) = 1
    BY <2>1
  <2> QED
    BY <2>2, Names, SeqEqual
<1>2. Head(n) = n[1]
  BY <1>0
<1>3. ASSUME NEW c \in Parts PROVE Head(Append(n, c)) = n[1]
  <2> DEFINE m == Append(n, c)
  <2>1. m \in Seq(STRING \cup Parts) /\ Len(m) = Len(n) + 1 /\ \A i \in 1 .. Len(n) : m[i] = n[i]
    BY Names, Zenon
  <2> HIDE DEF m
  <2>2. m[1] = n[1] /\ Len(m) = 2
    BY <1>0, <2>1
  <2>3. Head(m) = m[1]
    BY <2>1
  <2> QED
    BY <2>2, <2>3 DEF m
<1>4. ASSUME NEW c \in Parts PROVE Len(Append(n, c)) = 2
  <2>1. Len(Append(n, c)) = Len(n) + 1
    BY Names, Zenon
  <2> QED
    BY <1>0, <2>1
<1>5. Top(n) = n
  BY <1>1, <1>2, Zenon DEF Top
<1>6. \A c \in Parts : Top(Append(n, c)) = n
  BY <1>1, <1>3, Zenon DEF Top
<1> QED
  BY <1>4, <1>5, <1>6

\* Services of different checks of one part have different names.
LEMMA NamesDiffer ==
  ASSUME NEW n \in Checks, NEW m \in Checks, Len(n) = 1, Len(m) = 1,
         NEW name, name = n \/ \E c \in Parts : name = Append(n, c),
         name = m \/ \E c \in Parts : name = Append(m, c)
  PROVE  n = m
<1>1. Top(name) = n
  BY TopIsCheck
<1>2. Top(name) = m
  BY TopIsCheck
<1> QED
  BY <1>1, <1>2

\* A dictionary stays one with an entry more or less.
LEMMA DictChanges ==
  ASSUME NEW S, NEW T, NEW d \in Dict(S, T), NEW n \in S
  PROVE  /\ Without(d, n) \in Dict(S, T)
         /\ \A v \in T : With(d, n, v) \in Dict(S, T)
<1>1. PICK D \in SUBSET S : d \in [D -> T]
  BY DEF Dict
<1>2. Without(d, n) \in [D \ {n} -> T]
  BY <1>1 DEF Without
<1>3. \A v \in T : With(d, n, v) \in [D \cup {n} -> T]
  BY <1>1 DEF With
<1>4. D \ {n} \in SUBSET S /\ D \cup {n} \in SUBSET S
  OBVIOUS
<1> QED
  BY <1>2, <1>3, <1>4 DEF Dict

\* The empty dictionary is one.
LEMMA EmptyDict == \A S, T : Empty \in Dict(S, T) /\ DOMAIN Empty = {}
<1>1. \A T : Empty \in [{} -> T] /\ DOMAIN Empty = {}
  BY DEF Empty
<1> QED
  BY <1>1 DEF Dict

\* What is known of an outcome: passing means that every service has passed.
Sound(o) ==
  /\ o.ok \in BOOLEAN /\ o.error \in {"none", "text", "blank"}
  /\ DOMAIN o.kids \subseteq Parts /\ \A c \in DOMAIN o.kids : o.kids[c] \in BOOLEAN
  /\ o.ok => o.error = "none" /\ \A c \in DOMAIN o.kids : o.kids[c]
LEMMA OutcomesAreSound == \A o \in Outcomes : Sound(o)
<1>1. ASSUME NEW o \in Results PROVE Sound(o)
  <2>1. PICK good \in BOOLEAN, kids \in Dict(Parts, BOOLEAN) : o = Judged(good, kids)
    BY <1>1 DEF Results
  <2>2. DOMAIN kids \subseteq Parts /\ \A c \in DOMAIN kids : kids[c] \in BOOLEAN
    BY DEF Dict
  <2> DEFINE ok == good /\ \A c \in DOMAIN kids : kids[c]
  <2>3. o = [ok |-> ok, error |-> IF ok THEN "none" ELSE "text", kids |-> kids]
    BY <2>1 DEF Judged
  <2>4. ok \in BOOLEAN
    OBVIOUS
  <2>5. o.ok = ok /\ o.kids = kids /\ o.error = IF ok THEN "none" ELSE "text"
    BY <2>3
  <2> QED
    BY <2>2, <2>4, <2>5, Zenon DEF Sound
<1>2. ASSUME NEW o \in Failures PROVE Sound(o)
  <2>1. PICK text \in {"text", "blank"} : o = Raised(text)
    BY <1>2 DEF Failures
  <2>2. o.ok = FALSE /\ o.error = text /\ o.kids = Empty
    BY <2>1 DEF Raised
  <2>3. DOMAIN o.kids = {}
    BY <2>2, EmptyDict
  <2> QED
    BY <2>2, <2>3 DEF Sound
<1> QED
  BY <1>1, <1>2 DEF Outcomes

-----------------------------------------------------------------------------
(* The services of a check.                                                *)

\* What is known of a service: its name is of its check, and it fails only when
\* the check does.
LEMMA ServiceIs ==
  ASSUME NEW n, Sound(outcome[n]), NEW s \in ServicesOf(n)
  PROVE  /\ s.check = n /\ s.ok \in BOOLEAN /\ s.error \in {"none", "text", "blank"}
         /\ s.ok => s.error = "none"
         /\ ~s.ok => ~outcome[n].ok
         /\ s.name = n \/ \E c \in Parts : s.name = Append(n, c)
<1> DEFINE o == outcome[n]
<1>1. CASE Expands(o)
  <2>1. PICK c \in DOMAIN o.kids :
          s = [name |-> Append(n, c), check |-> n, ok |-> o.kids[c],
               error |-> IF o.kids[c] THEN "none" ELSE "text"]
    BY <1>1 DEF ServicesOf
  <2>2. /\ s.check = n /\ s.ok = o.kids[c] /\ s.name = Append(n, c)
        /\ s.error = IF o.kids[c] THEN "none" ELSE "text"
    BY <2>1
  <2>3. c \in Parts /\ o.kids[c] \in BOOLEAN /\ (~o.kids[c] => ~o.ok)
    BY DEF Sound
  <2> QED
    BY <2>2, <2>3
<1>2. CASE ~Expands(o)
  <2>1. s = [name |-> n, check |-> n, ok |-> o.ok, error |-> o.error]
    BY <1>2 DEF ServicesOf
  <2>2. s.check = n /\ s.ok = o.ok /\ s.name = n /\ s.error = o.error
    BY <2>1
  <2> QED
    BY <2>2 DEF Sound
<1> QED
  BY <1>1, <1>2

\* Every check has a service, and one that failed has one that failed.
LEMMA FailureIsShown ==
  ASSUME NEW n, Sound(outcome[n])
  PROVE  /\ ServicesOf(n) # {}
         /\ ~outcome[n].ok => \E s \in ServicesOf(n) : ~s.ok
<1> DEFINE o == outcome[n]
           of(c) == [name |-> Append(n, c), check |-> n, ok |-> o.kids[c],
                     error |-> IF o.kids[c] THEN "none" ELSE "text"]
           own == [name |-> n, check |-> n, ok |-> o.ok, error |-> o.error]
<1>1. CASE Expands(o)
  <2>1. \A c \in DOMAIN o.kids : of(c) \in ServicesOf(n) /\ of(c).ok = o.kids[c]
    BY <1>1 DEF ServicesOf
  <2>2. DOMAIN o.kids # {} /\ (~o.ok => \E c \in DOMAIN o.kids : ~o.kids[c])
    BY <1>1 DEF Expands
  <2> QED
    BY <2>1, <2>2
<1>2. CASE ~Expands(o)
  <2>1. own \in ServicesOf(n) /\ own.ok = o.ok
    BY <1>2 DEF ServicesOf
  <2> QED
    BY <2>1
<1> QED
  BY <1>1, <1>2

\* All outcomes of the checks selected are sound.
LEMMA SelectedSound ==
  ASSUME TypeOK
  PROVE  /\ \A n \in DOMAIN selected : n \in Checks /\ Sound(outcome[n])
         /\ \A s \in Services : s.check \in DOMAIN selected /\ s \in ServicesOf(s.check)
<1>1. \A n \in DOMAIN selected : n \in Checks
  BY DEF TypeOK, Dict
<1>2. \A n \in DOMAIN selected : Sound(outcome[n])
  BY <1>1, OutcomesAreSound DEF TypeOK
<1>3. ASSUME NEW s \in Services PROVE s.check \in DOMAIN selected /\ s \in ServicesOf(s.check)
  <2>1. PICK n \in DOMAIN selected : s \in ServicesOf(n)
    BY DEF Services
  <2>2. s.check = n
    BY <1>2, <2>1, ServiceIs
  <2> QED
    BY <2>1, <2>2
<1> QED
  BY <1>1, <1>2, <1>3

\* The merge never loses the failure that check() looks for.
LEMMA MergeFindsFailure == ASSUME TypeOK PROVE ~MergeRaises
<1> SUFFICES ASSUME MergeRaises PROVE FALSE
  OBVIOUS
<1>1. PICK n \in DOMAIN selected : ~outcome[n].ok /\ selected[n].required
  BY DEF MergeRaises, RequiredFailed, Failed
<1>2. PICK s \in ServicesOf(n) : ~s.ok
  BY <1>1, SelectedSound, FailureIsShown
<1>3. s.check = n /\ s \in Services
  BY SelectedSound, ServiceIs DEF Services
<1> QED
  BY <1>1, <1>2, <1>3 DEF MergeRaises

-----------------------------------------------------------------------------
(* The response.                                                           *)

\* With the registry of the snapshot and names of one part, each service is
\* resolved to the policy of its check.
LEMMA ResolvesToCheck ==
  ASSUME TypeOK, selected = specs, \A n \in DOMAIN selected : Len(n) = 1,
         NEW s \in Services
  PROVE  Resolvable(s.name) /\ ResolveSpec(s.name) = selected[s.check]
<1> DEFINE n == s.check
<1>1. n \in DOMAIN specs /\ n \in Checks /\ Len(n) = 1
  BY SelectedSound
<1>2. s.name = n \/ \E c \in Parts : s.name = Append(n, c)
  BY SelectedSound, ServiceIs
<1>3. CASE s.name = n
  BY <1>1, <1>3 DEF Resolvable, ResolveSpec
<1>4. CASE \E c \in Parts : s.name = Append(n, c)
  <2>1. Top(s.name) = n /\ Len(s.name) = 2
    BY <1>1, <1>4, TopIsCheck
  <2>2. s.name \notin DOMAIN specs
    BY <2>1
  <2> QED
    BY <1>1, <2>1, <2>2 DEF Resolvable, ResolveSpec
<1> QED
  BY <1>2, <1>3, <1>4

\* The services of checks that are still registered, under names of one part, can
\* be resolved, whoever registered those.
LEMMA RegisteredResolves ==
  ASSUME TypeOK, \A n \in DOMAIN selected : ~(Len(n) > 1) /\ n \in DOMAIN specs, NEW s \in Services
  PROVE  Resolvable(s.name)
<1> DEFINE n == s.check
<1>1. n \in DOMAIN specs /\ n \in Checks /\ ~(Len(n) > 1)
  BY SelectedSound
<1>2. Len(n) = 1
  <2> DEFINE l == Len(n)
  <2>1. l \in Nat \ {0} /\ ~(l > 1)
    BY <1>1, Names, Zenon
  <2> HIDE DEF l
  <2>2. l = 1
    BY <2>1
  <2> QED
    BY <2>2 DEF l
<1>3. s.name = n \/ \E c \in Parts : s.name = Append(n, c)
  BY SelectedSound, ServiceIs
<1>4. s.name = n \/ Top(s.name) = n
  BY <1>1, <1>2, <1>3, TopIsCheck
<1> QED
  BY <1>1, <1>4 DEF Resolvable

\* A detail is that of a service of its name.
LEMMA DetailIs ==
  ASSUME NEW d \in Details, NEW name \in DOMAIN d
  PROVE  \E s \in Services : s.name = name /\ d[name] = DetailOf(s)
BY DEF Details

\* A detail has its type where the name can be resolved, and shows a text only
\* where the policy it is resolved to does.
LEMMA DetailType ==
  ASSUME TypeOK, NEW s \in Services, Resolvable(s.name)
  PROVE  /\ s.name \in ServiceNames /\ DetailOf(s) \in Detail
         /\ ResolveSpec(s.name).redact => DetailOf(s).error # "text"
<1> DEFINE n == s.check
           spec == ResolveSpec(s.name)
<1>1. n \in Checks /\ Sound(outcome[n]) /\ s \in ServicesOf(n)
  BY SelectedSound
<1>2. /\ s.ok \in BOOLEAN /\ s.error \in {"none", "text", "blank"}
      /\ s.ok => s.error = "none"
      /\ s.name = n \/ \E c \in Parts : s.name = Append(n, c)
  BY <1>1, ServiceIs
<1>3. s.name \in ServiceNames
  BY <1>1, <1>2 DEF ServiceNames
<1>4. spec \in Policy
  <2>1. \A m \in DOMAIN specs : specs[m] \in Policy
    BY PoliciesAssumption DEF TypeOK, Dict
  <2> QED
    BY <2>1 DEF ResolveSpec, Resolvable
<1>5. ReadinessError(s) \in Shown /\ (spec.redact => ReadinessError(s) # "text")
  BY <1>2 DEF ReadinessError, Shown
<1>6. spec.required \in BOOLEAN
  BY <1>4 DEF Policy
<1>7. DetailOf(s) \in Detail
  BY <1>1, <1>2, <1>5, <1>6 DEF DetailOf, Detail
<1> QED
  BY <1>3, <1>5, <1>7 DEF DetailOf

\* What a response of details shows.
LEMMA CollectedShows ==
  ASSUME TypeOK, NEW d \in Details, \A s \in Services : Resolvable(s.name)
  PROVE  /\ StatusText = "ok" => Failed = {}
         /\ (\A n \in DOMAIN selected : Len(n) = 1) =>
              \A n \in DOMAIN selected : \E name \in DOMAIN d : d[name].check = n
         /\ DOMAIN d \subseteq ServiceNames /\ \A name \in DOMAIN d : d[name] \in Detail
<1>1. ASSUME StatusText = "ok" PROVE Failed = {}
  <2>1. \A s \in Services : s.ok
    BY <1>1 DEF StatusText
  <2>2. ASSUME NEW n \in DOMAIN selected, ~outcome[n].ok PROVE FALSE
    <3>1. PICK s \in ServicesOf(n) : ~s.ok
      BY <2>2, SelectedSound, FailureIsShown
    <3> QED
      BY <2>1, <3>1 DEF Services
  <2> QED
    BY <2>2 DEF Failed
<1>2. ASSUME \A n \in DOMAIN selected : Len(n) = 1, NEW n \in DOMAIN selected
      PROVE  \E name \in DOMAIN d : d[name].check = n
  <2>1. PICK s \in ServicesOf(n) : TRUE
    BY SelectedSound, FailureIsShown
  <2>2. s \in Services /\ s.check = n
    BY SelectedSound, ServiceIs DEF Services
  <2>3. s.name \in DOMAIN d
    BY <2>2 DEF Details
  <2>4. PICK t \in Services : t.name = s.name /\ d[s.name] = DetailOf(t)
    BY <2>3, DetailIs
  <2>5. /\ n \in Checks /\ t.check \in Checks /\ Len(n) = 1 /\ Len(t.check) = 1
        /\ s.name = n \/ \E c \in Parts : s.name = Append(n, c)
        /\ t.name = t.check \/ \E c \in Parts : t.name = Append(t.check, c)
    BY <1>2, <2>2, SelectedSound, ServiceIs
  <2>6. t.check = n
    BY <2>4, <2>5, NamesDiffer
  <2> QED
    BY <2>3, <2>4, <2>6 DEF DetailOf
<1>3. DOMAIN d \subseteq ServiceNames /\ \A name \in DOMAIN d : d[name] \in Detail
  BY DetailIs, DetailType
<1> QED
  BY <1>1, <1>2, <1>3

\* With the registry of the snapshot and names of one part, the status and the
\* details follow the policies of the checks.
LEMMA SteadyShows ==
  ASSUME TypeOK, NEW d \in Details, selected = specs, \A n \in DOMAIN selected : Len(n) = 1
  PROVE  /\ StatusText = "error" <=> RequiredFailed
         /\ StatusText = "degraded" <=> Failed # {} /\ ~RequiredFailed
         /\ \A name \in DOMAIN d : selected[d[name].check].redact => d[name].error # "text"
<1> DEFINE failing == {s \in Services : ~s.ok}
<1>1. (\E s \in failing : ResolveSpec(s.name).required) <=> RequiredFailed
  <2>1. ASSUME NEW s \in failing, ResolveSpec(s.name).required PROVE RequiredFailed
    <3>1. s.check \in DOMAIN selected /\ selected[s.check].required
      BY <2>1, ResolvesToCheck, SelectedSound
    <3>2. ~outcome[s.check].ok
      BY SelectedSound, ServiceIs
    <3> QED
      BY <3>1, <3>2 DEF RequiredFailed, Failed
  <2>2. ASSUME RequiredFailed PROVE \E s \in failing : ResolveSpec(s.name).required
    <3>1. PICK s \in Services : selected[s.check].required /\ ~s.ok
      BY <2>2, MergeFindsFailure DEF MergeRaises
    <3> QED
      BY <3>1, ResolvesToCheck
  <2> QED
    BY <2>1, <2>2
<1>2. failing # {} <=> Failed # {}
  <2>1. ASSUME NEW s \in failing PROVE Failed # {}
    BY SelectedSound, ServiceIs DEF Failed
  <2>2. ASSUME NEW n \in Failed PROVE failing # {}
    <3>1. PICK s \in ServicesOf(n) : ~s.ok
      BY SelectedSound, FailureIsShown DEF Failed
    <3> QED
      BY <3>1 DEF Services, Failed
  <2> QED
    BY <2>1, <2>2
<1>3. ASSUME NEW name \in DOMAIN d, selected[d[name].check].redact PROVE d[name].error # "text"
  <2>1. PICK s \in Services : s.name = name /\ d[name] = DetailOf(s)
    BY DetailIs
  <2>2. Resolvable(s.name) /\ ResolveSpec(s.name) = selected[s.check] /\ d[name].check = s.check
    BY <2>1, ResolvesToCheck DEF DetailOf
  <2> QED
    BY <1>3, <2>1, <2>2, DetailType
<1> HIDE DEF failing
<1>4. StatusText = IF \E s \in failing : ResolveSpec(s.name).required THEN "error"
                   ELSE IF failing # {} THEN "degraded" ELSE "ok"
  BY DEF StatusText, failing
<1> QED
  BY <1>1, <1>2, <1>3, <1>4

-----------------------------------------------------------------------------
(* The steps.                                                              *)

\* What the response promises, settled when it is given.
Promises ==
  /\ OkMeansAllPassed /\ RequiredFailureIs503 /\ ResultsPreserved /\ RedactedIsHidden
  /\ FailsOnlyUnresolved

\* Without an answer nothing is promised.
LEMMA NoPromise == pc' # "answered" => Promises'
BY DEF Promises, OkMeansAllPassed, RequiredFailureIs503, ResultsPreserved, RedactedIsHidden,
   FailsOnlyUnresolved, Answered, Collected

\* A name that accounts for a 500.
Unresolved(n) == Len(n) > 1 \/ n \notin DOMAIN specs

\* An answer without details promises only that it is not "ok" after a failure,
\* and that it is no 500 without a reason.
LEMMA EmptyPromise ==
  ASSUME answer'.details = Empty, answer'.status = "ok" => Failed' = {},
         answer'.code = 500 => \E n \in DOMAIN selected' : Unresolved(n)'
  PROVE  Promises'
BY EmptyDict DEF Promises, OkMeansAllPassed, RequiredFailureIs503, ResultsPreserved,
   RedactedIsHidden, FailsOnlyUnresolved, Unresolved, Answered, Collected

\* At the start nothing is selected and nothing is answered.
LEMMA InitInv == Init => IInv
<1> SUFFICES ASSUME Init PROVE IInv
  OBVIOUS
<1> USE DEF Init
<1>1. Raised("blank") \in Outcomes
  BY DEF Outcomes, Failures
<1>2. outcome \in [Checks -> Outcomes] /\ selected \in Dict(Checks, Policies)
  BY <1>1, EmptyDict
<1>3. changes \in 0 .. MaxChanges
  BY ChangesAssumption
<1>4. TypeOK
  BY <1>2, <1>3, EmptyDict DEF TypeOK, NoAnswer
<1> QED
  BY <1>4 DEF IInv, SnapshotInv, OkMeansAllPassed, RequiredFailureIs503, ResultsPreserved,
     RedactedIsHidden, FailsOnlyUnresolved, Answered, Collected

\* A request takes its snapshot, or is answered at once.
LEMMA RequestInv == IInv /\ Request => IInv'
<1> SUFFICES ASSUME IInv, Request PROVE IInv'
  OBVIOUS
<1>1. CASE DOMAIN specs = {}
  <2>1. answer' = [code |-> 200, status |-> "ok", details |-> Empty] /\ pc' = "answered"
    BY <1>1 DEF Request, Answer
  <2>2. selected = Empty /\ changes = 0 /\ selected' = Empty
    BY <1>1 DEF Request, IInv, SnapshotInv
  <2>3. specs = Empty
    <3>1. specs = [m \in {} |-> specs[m]]
      BY <1>1 DEF IInv, TypeOK, Dict
    <3> QED
      BY <3>1 DEF Empty
  <2>4. TypeOK'
    BY <2>1, <2>2, EmptyDict DEF Request, IInv, TypeOK
  <2>5. Failed' = {}
    BY <2>2, EmptyDict DEF Failed
  <2>6. Promises'
    BY <2>1, <2>5, EmptyPromise
  <2>7. SnapshotInv'
    BY <2>1, <2>2, <2>3 DEF SnapshotInv, Request
  <2> QED
    BY <2>4, <2>6, <2>7 DEF IInv, Promises
<1>2. CASE DOMAIN specs # {}
  <2>1. pc' = "checking" /\ selected' = specs /\ UNCHANGED <<config, specs, progress, outcome, answer, changes>>
    BY <1>2 DEF Request
  <2>2. TypeOK' /\ SnapshotInv'
    BY <2>1 DEF IInv, TypeOK, SnapshotInv
  <2> QED
    BY <2>1, <2>2, NoPromise DEF IInv, Promises
<1> QED
  BY <1>1, <1>2

\* A check that starts, runs or ends gives no answer.
LEMMA CheckInv ==
  ASSUME IInv, NEW n \in Checks, Check(n)
  PROVE  IInv'
<1>1. /\ pc = "checking" /\ UNCHANGED <<config, specs, pc, selected, answer, changes>>
  BY DEF Check, Start, CheckReturns, CheckRaises, AdapterEnds, CheckTimesOut, Finish
<1>2. \/ /\ progress' \in [Checks -> {"waiting", "running", "adapting", "done"}]
         /\ outcome' = outcome
      \/ \E o \in Outcomes : Finish(n, o)
  <2>1. CASE Start(n)
    BY <2>1 DEF Start, IInv, TypeOK
  <2>2. CASE CheckReturns(n)
    <3>1. CASE selected[n].adapter # "none"
      BY <2>2, <3>1 DEF CheckReturns, IInv, TypeOK
    <3>2. CASE selected[n].adapter = "none"
      BY <2>2, <3>2 DEF CheckReturns, Outcomes
    <3> QED
      BY <3>1, <3>2
  <2>3. CASE CheckRaises(n) \/ AdapterEnds(n) \/ CheckTimesOut(n)
    <3>1. Raised("blank") \in Outcomes
      BY DEF Outcomes, Failures
    <3> QED
      BY <2>3, <3>1 DEF CheckRaises, AdapterEnds, CheckTimesOut, Outcomes
  <2> QED
    BY <2>1, <2>2, <2>3 DEF Check
<1>3. /\ progress' \in [Checks -> {"waiting", "running", "adapting", "done"}]
      /\ outcome' \in [Checks -> Outcomes]
  BY <1>2 DEF Finish, IInv, TypeOK
<1>4. TypeOK' /\ SnapshotInv'
  BY <1>1, <1>3 DEF IInv, TypeOK, SnapshotInv
<1> QED
  BY <1>1, <1>4, NoPromise DEF IInv, Promises

\* The response promises what its services show.
LEMMA RespondInv == IInv /\ Respond => IInv'
<1> SUFFICES ASSUME IInv, Respond PROVE IInv'
  OBVIOUS
<1>0. /\ pc = "checking" /\ pc' = "answered" /\ TypeOK
      /\ UNCHANGED <<config, specs, selected, progress, outcome, changes>>
  BY DEF Respond, Answer, IInv
<1>1. SnapshotInv'
  BY <1>0 DEF IInv, SnapshotInv
<1>2. ~MergeRaises /\ (changes = 0 => selected = specs)
  BY <1>0, MergeFindsFailure DEF IInv, SnapshotInv
<1>3. Failed' = Failed /\ (RequiredFailed' <=> RequiredFailed) /\ (Steady' <=> Steady)
  BY <1>0 DEF Failed, RequiredFailed, Steady
<1>4. CASE \E s \in Services : ~Resolvable(s.name)
  <2>1. answer' = [code |-> 500, status |-> "none", details |-> Empty]
    BY <1>4 DEF Respond, Answer
  <2>2. \E n \in DOMAIN selected' : Unresolved(n)'
    BY <1>0, <1>4, RegisteredResolves DEF Unresolved
  <2>3. TypeOK'
    BY <1>0, <2>1, EmptyDict DEF TypeOK
  <2>4. Promises'
    BY <1>3, <2>1, <2>2, EmptyPromise
  <2> QED
    BY <1>1, <2>3, <2>4 DEF IInv, Promises
<1>5. CASE \A s \in Services : Resolvable(s.name)
  <2>1. PICK d \in Details :
          Answer(IF StatusText = "error" THEN 503 ELSE 200, StatusText, d)
    BY <1>2, <1>5 DEF Respond
  <2>2. answer'.status = StatusText /\ answer'.details = d
        /\ answer'.code = IF StatusText = "error" THEN 503 ELSE 200
    BY <2>1 DEF Answer
  <2>3. StatusText \in {"ok", "degraded", "error"}
    BY DEF StatusText
  <2>4. TypeOK'
    <3>1. DOMAIN d \subseteq ServiceNames /\ \A name \in DOMAIN d : d[name] \in Detail
      BY <1>0, <1>5, CollectedShows
    <3> QED
      BY <1>0, <2>2, <2>3, <3>1 DEF TypeOK
  <2>5. OkMeansAllPassed' /\ ResultsPreserved'
    <3>1. StatusText = "ok" => Failed = {}
      BY <1>0, <1>5, CollectedShows
    <3>2. (\A n \in DOMAIN selected : Len(n) = 1) =>
            \A n \in DOMAIN selected : \E name \in DOMAIN d : d[name].check = n
      BY <1>0, <1>5, CollectedShows
    <3> QED
      BY <1>0, <1>3, <2>2, <3>1, <3>2 DEF OkMeansAllPassed, ResultsPreserved
  <2>6. RequiredFailureIs503' /\ RedactedIsHidden'
    <3> SUFFICES ASSUME Steady PROVE RequiredFailureIs503' /\ RedactedIsHidden'
      BY <1>3 DEF RequiredFailureIs503, RedactedIsHidden
    <3>1. selected = specs /\ \A n \in DOMAIN selected : Len(n) = 1
      BY <1>2 DEF Steady
    <3>2. /\ StatusText = "error" <=> RequiredFailed
          /\ StatusText = "degraded" <=> Failed # {} /\ ~RequiredFailed
          /\ \A name \in DOMAIN d : selected[d[name].check].redact => d[name].error # "text"
      BY <1>0, <3>1, SteadyShows
    <3>3. answer'.code = 503 <=> StatusText = "error"
      BY <2>2
    <3> QED
      BY <1>0, <1>3, <2>2, <3>2, <3>3 DEF RequiredFailureIs503, RedactedIsHidden
  <2>7. FailsOnlyUnresolved'
    BY <2>2 DEF FailsOnlyUnresolved
  <2> QED
    BY <1>1, <2>4, <2>5, <2>6, <2>7 DEF IInv
<1> QED
  BY <1>4, <1>5

\* The overall timeout answers without details.
LEMMA OverallInv == IInv /\ OverallTimesOut => IInv'
<1> SUFFICES ASSUME IInv, OverallTimesOut PROVE IInv'
  OBVIOUS
<1>1. /\ answer' = [code |-> 503, status |-> "error", details |-> Empty]
      /\ pc = "checking" /\ pc' = "answered"
      /\ UNCHANGED <<config, specs, selected, progress, outcome, changes>>
  BY DEF OverallTimesOut, Answer
<1>2. TypeOK' /\ SnapshotInv'
  BY <1>1, EmptyDict DEF IInv, TypeOK, SnapshotInv
<1>3. Promises'
  BY <1>1, EmptyPromise
<1> QED
  BY <1>2, <1>3 DEF IInv, Promises

\* A change of the registry is counted, so that nothing is promised of it.
LEMMA ChangeInv ==
  ASSUME IInv, NEW n \in Checks, Unregister(n) \/ \E p \in Policies : Register(n, p)
  PROVE  IInv'
<1>1. /\ pc = "checking" /\ changes < MaxChanges /\ changes' = changes + 1
      /\ UNCHANGED <<config, pc, selected, progress, outcome, answer>>
  BY DEF Unregister, Register
<1>2. specs' \in Dict(Checks, Policies)
  <2>1. specs \in Dict(Checks, Policies)
    BY DEF IInv, TypeOK
  <2> QED
    BY <2>1, DictChanges DEF Unregister, Register
<1>3. changes' \in 0 .. MaxChanges /\ changes' # 0
  BY <1>1, ChangesAssumption DEF IInv, TypeOK
<1>4. TypeOK' /\ SnapshotInv'
  BY <1>1, <1>2, <1>3 DEF IInv, TypeOK, SnapshotInv
<1> QED
  BY <1>1, <1>4, NoPromise DEF IInv, Promises

\* Nothing changes when something else does.
LEMMA StutterInv == IInv /\ UNCHANGED vars => IInv'
BY DEF vars, IInv, TypeOK, SnapshotInv, OkMeansAllPassed, RequiredFailureIs503,
   ResultsPreserved, RedactedIsHidden, FailsOnlyUnresolved, Answered, Collected, Steady,
   Failed, RequiredFailed

\* The invariant holds of every request.
THEOREM Invariance == Spec => []IInv
<1>1. IInv /\ [Next]_vars => IInv'
  BY RequestInv, CheckInv, RespondInv, OverallInv, ChangeInv, StutterInv DEF Next
<1> QED
  BY <1>1, InitInv, PTL DEF Spec

-----------------------------------------------------------------------------
(* The theorems.                                                           *)

\* Every variable has its type, and no detail shows a blank error.
THEOREM TypeCorrect == Spec => []TypeOK
BY Invariance, PTL DEF IInv

\* The endpoint says "ok" only when every check of the snapshot has passed.
THEOREM OkIsTrue == Spec => []OkMeansAllPassed
BY Invariance, PTL DEF IInv

\* With a steady registry, a 503 means a failed required check or the overall
\* timeout, and nothing else (SRS-HEALTH-003).
THEOREM StatusFollowsPolicy == Spec => []RequiredFailureIs503
BY Invariance, PTL DEF IInv

\* Every check of the snapshot has a detail (SRS-READY-007).
THEOREM NothingIsLost == Spec => []ResultsPreserved
BY Invariance, PTL DEF IInv

\* Redaction reaches every level of a structured result (SRS-HEALTH-005).
THEOREM NothingLeaks == Spec => []RedactedIsHidden
BY Invariance, PTL DEF IInv

\* The endpoint answers 500 only for a check whose name has a dot, or that the
\* registry, as it is by then, does not have.
THEOREM MergeSucceeds == Spec => []FailsOnlyUnresolved
BY Invariance, PTL DEF IInv

-----------------------------------------------------------------------------
(* Where what the documents say does hold.                                  *)

\* With a steady registry, every detail shows the policy of the check it is of.
PolicyShown ==
  Steady /\ Collected =>
    \A name \in DOMAIN answer.details :
      answer.details[name].required = selected[answer.details[name].check].required

\* The services of a structured result inherit the policy of the check that
\* returned it, as SRS-READY-005 says, when no registered name has a dot: that is
\* the only case in which the resolution by the first part goes astray.
THEOREM ServicesInherit == Spec => [](Steady => ChildInheritsParent)
<1>1. Init => PolicyShown
  BY EmptyDict DEF Init, PolicyShown, Answered, Collected
<1>2. ASSUME IInv, PolicyShown, [Next]_vars PROVE PolicyShown'
  <2>1. CASE Respond
    <3>0. /\ TypeOK /\ (changes = 0 => selected = specs)
          /\ UNCHANGED <<selected, changes>> /\ pc' = "answered"
      BY <1>2, <2>1 DEF Respond, Answer, IInv, SnapshotInv
    <3>1. CASE MergeRaises \/ \E s \in Services : ~Resolvable(s.name)
      BY <2>1, <3>1, EmptyDict DEF Respond, Answer, PolicyShown, Collected
    <3>2. CASE ~(MergeRaises \/ \E s \in Services : ~Resolvable(s.name))
      <4>1. PICK d \in Details : answer'.details = d
        BY <2>1, <3>2 DEF Respond, Answer
      <4>2. ASSUME Steady, NEW name \in DOMAIN d
            PROVE  d[name].required = selected[d[name].check].required
        <5>1. PICK s \in Services : s.name = name /\ d[name] = DetailOf(s)
          BY DetailIs
        <5>2. ResolveSpec(s.name) = selected[s.check]
          BY <3>0, <4>2, ResolvesToCheck DEF Steady
        <5> QED
          BY <5>1, <5>2 DEF DetailOf
      <4> QED
        BY <3>0, <4>1, <4>2 DEF PolicyShown, Steady
    <3> QED
      BY <3>1, <3>2
  <2>2. CASE Request
    BY <2>2, EmptyDict, <1>2 DEF Request, Answer, PolicyShown, Collected, Answered
  <2>3. CASE OverallTimesOut
    BY <2>3, EmptyDict DEF OverallTimesOut, Answer, PolicyShown, Collected
  <2>4. ASSUME NEW n \in Checks, Check(n) PROVE PolicyShown'
    BY <2>4 DEF Check, Start, CheckReturns, CheckRaises, AdapterEnds, CheckTimesOut, Finish,
       PolicyShown, Collected, Answered
  <2>5. ASSUME NEW n \in Checks, Unregister(n) \/ \E p \in Policies : Register(n, p)
        PROVE  PolicyShown'
    BY <2>5 DEF Unregister, Register, PolicyShown, Collected, Answered
  <2>6. CASE UNCHANGED vars
    BY <1>2, <2>6 DEF vars, PolicyShown, Steady, Collected, Answered
  <2> QED
    BY <1>2, <2>1, <2>2, <2>3, <2>4, <2>5, <2>6 DEF Next
<1>3. PolicyShown => (Steady => ChildInheritsParent)
  BY DEF PolicyShown, ChildInheritsParent
<1> QED
  BY <1>1, <1>2, <1>3, Invariance, PTL DEF Spec
=============================================================================
