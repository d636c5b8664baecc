------------------------------ MODULE Readiness ------------------------------
(***************************************************************************)
(* One GET /health/readiness: ReadinessRegistry.check takes a snapshot of  *)
(* the registered checks, runs them, merges the structured results, and    *)
(* the health router turns the merged result into a status and an HTTP     *)
(* code, looking every policy up again in the registry as it is by then.   *)
(* While the checks run, other code registers and unregisters.             *)
(*                                                                         *)
(* A name is the sequence of its dotted parts: <<"db", "replica">>.  What  *)
(* a check answers is reduced to whether it passed, what its error says    *)
(* and the services of a structured result.  Concurrent requests share     *)
(* nothing but the registry, so one stands for each of them.               *)
(*                                                                         *)
(* Everything here runs on the event loop, except what a sync check does   *)
(* in its thread.  An adapter that is a plain function is called on the    *)
(* loop and has it until it returns.                                       *)
(*                                                                         *)
(* Mut_X is X with a plausible bug; nothing uses it.                       *)
(***************************************************************************)
EXTENDS Naturals, Sequences

CONSTANTS
  Checks,      \* the names checks are registered under
  Parts,       \* the names of the services in a structured result
  Policies,    \* the check specs considered
  Configs,     \* the readiness settings considered
  MaxChanges   \* bound: changes of the registry while the checks run

\* A ReadinessCheckSpec, without its name and callable.
Adapters == {"none", "sync", "async"}
Policy == [required : BOOLEAN, redact : BOOLEAN, timeout : BOOLEAN, adapter : Adapters]
Config == [parallel : BOOLEAN, default_timeout : BOOLEAN, overall_timeout : BOOLEAN]

ASSUME ChecksAssumption == Checks \subseteq Seq(STRING) \ {<<>>}
ASSUME PoliciesAssumption == Policies \subseteq Policy /\ Configs \subseteq Config
ASSUME ChangesAssumption == MaxChanges \in Nat

VARIABLES
  config,     \* the settings, fixed
  specs,      \* ReadinessRegistry.specs
  pc,         \* where the request is
  selected,   \* check's local: the specs it runs
  progress,   \* how far each check has come
  outcome,    \* what each finished check came to
  answer,     \* the response
  changes     \* changes of the registry since the snapshot

vars == <<config, specs, pc, selected, progress, outcome, answer, changes>>

-----------------------------------------------------------------------------
\* dict[str, _]: a function on the names it holds.
Dict(S, T) == UNION {[D -> T] : D \in SUBSET S}
With(d, n, v) == [m \in DOMAIN d \cup {n} |-> IF m = n THEN v ELSE d[m]]
Without(d, n) == [m \in DOMAIN d \ {n} |-> d[m]]
Empty == [m \in {} |-> m]

\* What run() makes of the value a check returned: no exception, or one with
\* a message; `kids' are the services of a structured result.
Judged(good, kids) ==
  LET ok == good /\ \A c \in DOMAIN kids : kids[c]
  IN  [ok |-> ok, error |-> IF ok THEN "none" ELSE "text", kids |-> kids]
Results == {Judged(good, kids) : good \in BOOLEAN, kids \in Dict(Parts, BOOLEAN)}

\* What run() is when it raises; TimeoutError has no message.
Raised(text) == [ok |-> FALSE, error |-> text, kids |-> Empty]
Failures == {Raised("text"), Raised("blank")}
Outcomes == Results \cup Failures

HasTimeout(spec) == spec.timeout \/ config.default_timeout

Shown == {"none", "text", "redacted", "timed out"}
Detail == [check : Checks, ok : BOOLEAN, error : Shown, required : BOOLEAN]
ServiceNames == Checks \cup {Append(n, c) : n \in Checks, c \in Parts}
NoAnswer == [code |-> 0, status |-> "none", details |-> Empty]

\* Every variable has its type; no detail shows a blank error.
TypeOK ==
  /\ config \in Configs
  /\ specs \in Dict(Checks, Policies) /\ selected \in Dict(Checks, Policies)
  /\ pc \in {"idle", "checking", "answered"}
  /\ progress \in [Checks -> {"waiting", "running", "adapting", "done"}]
  /\ outcome \in [Checks -> Outcomes]
  /\ changes \in 0 .. MaxChanges
  /\ answer.code \in {0, 200, 500, 503}
  /\ answer.status \in {"none", "ok", "degraded", "error"}
  /\ DOMAIN answer.details \subseteq ServiceNames
  /\ \A n \in DOMAIN answer.details : answer.details[n] \in Detail

Init ==
  /\ config \in Configs
  /\ specs \in Dict(Checks, Policies)
  /\ pc = "idle"
  /\ selected = Empty
  /\ progress = [n \in Checks |-> "waiting"]
  /\ outcome = [n \in Checks |-> Raised("blank")]
  /\ answer = NoAnswer
  /\ changes = 0

-----------------------------------------------------------------------------
(* ReadinessRegistry.check.                                                *)

Answer(code, status, details) ==
  /\ pc' = "answered"
  /\ answer' = [code |-> code, status |-> status, details |-> details]

\* The endpoint answers at once when nothing is registered.
Request ==
  /\ pc = "idle"
  /\ IF DOMAIN specs = {}
     THEN Answer(200, "ok", Empty) /\ UNCHANGED selected
     ELSE pc' = "checking" /\ selected' = specs /\ UNCHANGED answer
  /\ UNCHANGED <<config, specs, progress, outcome, changes>>

\* The checks whose sync adapter is at work: the loop runs nothing else.
Holding == {n \in DOMAIN selected : progress[n] = "adapting" /\ selected[n].adapter = "sync"}
LoopFree == Holding = {}

Busy == {n \in DOMAIN selected : progress[n] \in {"running", "adapting"}}

\* The aggregator starts the checks together, or one after the other.
Start(n) ==
  /\ pc = "checking" /\ LoopFree /\ n \in DOMAIN selected /\ progress[n] = "waiting"
  /\ config.parallel \/ Busy = {}
  /\ progress' = [progress EXCEPT ![n] = "running"]
  /\ UNCHANGED <<config, specs, pc, selected, outcome, answer, changes>>

Finish(n, o) ==
  /\ progress' = [progress EXCEPT ![n] = "done"]
  /\ outcome' = [outcome EXCEPT ![n] = o]
  /\ UNCHANGED <<config, specs, pc, selected, answer, changes>>

\* The check returned in time; an adapter, if there is one, is called on what
\* it returned, after the timeout's scope: on the loop, before anyone can tell
\* whether there is something to await.
CheckReturns(n) ==
  /\ pc = "checking" /\ LoopFree /\ progress[n] = "running"
  /\ IF selected[n].adapter # "none"
     THEN /\ progress' = [progress EXCEPT ![n] = "adapting"]
          /\ UNCHANGED <<config, specs, pc, selected, outcome, answer, changes>>
     ELSE \E o \in Results : Finish(n, o)

CheckRaises(n) ==
  /\ pc = "checking" /\ LoopFree /\ progress[n] = "running"
  /\ \E o \in Failures : Finish(n, o)

\* A sync adapter returns, or an async one, for which the loop must be free.
AdapterEnds(n) ==
  /\ pc = "checking" /\ Holding \subseteq {n} /\ progress[n] = "adapting"
  /\ \E o \in Outcomes : Finish(n, o)

Mut_TimesOut(n) == progress[n] = "running" /\ selected[n].timeout
\* the check's own timeout, or the registry's default
TimesOut(n) == progress[n] = "running" /\ HasTimeout(selected[n])

CheckTimesOut(n) ==
  /\ pc = "checking" /\ LoopFree /\ TimesOut(n)
  /\ Finish(n, Raised("blank"))

-----------------------------------------------------------------------------
(* The merge of structured results.                                        *)

Mut_Expands(o) == DOMAIN o.kids # {}
Mut_ExpandsEmpty(o) == ~(~o.ok /\ \A c \in DOMAIN o.kids : o.kids[c])
\* The services of a structured result take the check's place, unless there
\* are none or none of them accounts for the failure.
Expands(o) ==
  /\ DOMAIN o.kids # {}
  /\ ~(~o.ok /\ \A c \in DOMAIN o.kids : o.kids[c])

ServicesOf(n) ==
  LET o == outcome[n]
  IN  IF Expands(o)
      THEN {[name |-> Append(n, c), check |-> n, ok |-> o.kids[c],
             error |-> IF o.kids[c] THEN "none" ELSE "text"] : c \in DOMAIN o.kids}
      ELSE {[name |-> n, check |-> n, ok |-> o.ok, error |-> o.error]}
Services == UNION {ServicesOf(n) : n \in DOMAIN selected}

Failed == {n \in DOMAIN selected : ~outcome[n].ok}
RequiredFailed == \E n \in Failed : selected[n].required

\* After HealthCheckError, check() takes the first required failure of the
\* merged result; next() raises when the merge has left none.
MergeRaises ==
  RequiredFailed /\ ~ \E s \in Services : selected[s.check].required /\ ~s.ok

-----------------------------------------------------------------------------
(* The readiness endpoint, after its await.                                *)

Top(name) == <<Head(name)>>
Resolvable(name) == name \in DOMAIN specs \/ Top(name) \in DOMAIN specs

Mut_ResolveSpec(name) ==
  IF name \in DOMAIN specs THEN specs[name]
  ELSE [required |-> FALSE, redact |-> TRUE, timeout |-> FALSE, adapter |-> "none"]
\* the spec of that very name, or else the one of its first part
ResolveSpec(name) == IF name \in DOMAIN specs THEN specs[name] ELSE specs[Top(name)]

Mut_ReadinessError(s) ==
  IF s.ok THEN s.error
  ELSE IF ResolveSpec(s.name).redact THEN "redacted" ELSE s.error
Mut_TextFirst(s) ==
  IF s.ok \/ s.error = "text" THEN s.error
  ELSE IF ResolveSpec(s.name).redact THEN "redacted"
  ELSE IF HasTimeout(ResolveSpec(s.name)) THEN "timed out" ELSE "none"
ReadinessError(s) ==
  LET spec == ResolveSpec(s.name)
  IN  CASE s.ok -> s.error
        [] ~s.ok /\ spec.redact -> "redacted"
        [] ~s.ok /\ ~spec.redact /\ s.error = "text" -> "text"
        [] OTHER -> IF HasTimeout(spec) THEN "timed out" ELSE "none"

DetailOf(s) == [check |-> s.check, ok |-> s.ok, error |-> ReadinessError(s),
                required |-> ResolveSpec(s.name).required]

\* The response's details: of two services with one name, one is kept.
Details ==
  LET names == {s.name : s \in Services}
      of(name) == {DetailOf(s) : s \in {t \in Services : t.name = name}}
  IN  {d \in [names -> UNION {of(name) : name \in names}] :
         \A name \in names : d[name] \in of(name)}

StatusText ==
  LET failing == {s \in Services : ~s.ok}
  IN  IF \E s \in failing : ResolveSpec(s.name).required THEN "error"
      ELSE IF failing # {} THEN "degraded" ELSE "ok"

\* All checks are done: an unresolvable name is a KeyError, a 500.
Respond ==
  /\ pc = "checking" /\ LoopFree
  /\ \A n \in DOMAIN selected : progress[n] = "done"
  /\ IF MergeRaises \/ \E s \in Services : ~Resolvable(s.name)
     THEN Answer(500, "none", Empty)
     ELSE \E d \in Details :
            Answer(IF StatusText = "error" THEN 503 ELSE 200, StatusText, d)
  /\ UNCHANGED <<config, specs, selected, progress, outcome, changes>>

\* The aggregator's overall timeout discards every result.
OverallTimesOut ==
  /\ pc = "checking" /\ LoopFree /\ config.overall_timeout
  /\ Answer(503, "error", Empty)
  /\ UNCHANGED <<config, specs, selected, progress, outcome, changes>>

-----------------------------------------------------------------------------
(* Other code, while the checks run: other tasks, or a check or an adapter  *)
(* itself.                                                                  *)

Register(n, p) ==
  /\ pc = "checking" /\ changes < MaxChanges
  /\ n \notin DOMAIN specs
  /\ specs' = With(specs, n, p) /\ changes' = changes + 1
  /\ UNCHANGED <<config, pc, selected, progress, outcome, answer>>

Unregister(n) ==
  /\ pc = "checking" /\ changes < MaxChanges
  /\ n \in DOMAIN specs
  /\ specs' = Without(specs, n) /\ changes' = changes + 1
  /\ UNCHANGED <<config, pc, selected, progress, outcome, answer>>

Check(n) ==
  \/ Start(n)
  \/ CheckReturns(n)
  \/ CheckRaises(n)
  \/ AdapterEnds(n)
  \/ CheckTimesOut(n)

Next ==
  \/ Request
  \/ \E n \in Checks : Check(n)
  \/ Respond
  \/ OverallTimesOut
  \/ \E n \in Checks : Unregister(n) \/ \E p \in Policies : Register(n, p)

\* As long as it is free, the event loop runs what is ready and fires the
\* timers.  Nothing says that a check or an adapter ever returns.
Fairness ==
  /\ \A n \in Checks : WF_vars(Start(n)) /\ WF_vars(CheckTimesOut(n))
  /\ WF_vars(Respond)
  /\ WF_vars(OverallTimesOut)

Spec == Init /\ [][Next]_vars /\ Fairness

-----------------------------------------------------------------------------
(* What the endpoint guarantees.                                           *)

Answered == pc = "answered"
\* The results were collected: neither the timeout nor an error cut it short.
Collected == Answered /\ DOMAIN answer.details # {}
\* The registry is the one of the snapshot, and no name has a dot.
Steady == changes = 0 /\ \A n \in DOMAIN selected : Len(n) = 1

\* The endpoint says "ok" only when every check of the snapshot has passed,
\* whatever was registered or unregistered meanwhile and whatever the names.
OkMeansAllPassed == Answered /\ answer.status = "ok" => Failed = {}

\* A failed required check is a 503, and nothing but that or the overall
\* timeout is one: the table of SRS-HEALTH-003.
RequiredFailureIs503 ==
  Steady /\ Collected =>
    /\ (answer.code = 503) <=> RequiredFailed
    /\ (answer.status = "degraded") <=> (Failed # {} /\ ~RequiredFailed)

\* No result is lost: each check of the snapshot has a detail of its own or
\* of its services, after a required failure too (SRS-READY-007).
ResultsPreserved ==
  (\A n \in DOMAIN selected : Len(n) = 1) /\ Collected =>
    \A n \in DOMAIN selected :
      \E name \in DOMAIN answer.details : answer.details[name].check = n

\* The text of a failure whose check asks for redaction is not in the answer,
\* at no level of a structured result (SRS-HEALTH-005).
RedactedIsHidden ==
  Steady /\ Collected =>
    \A name \in DOMAIN answer.details :
      LET d == answer.details[name]
      IN  selected[d.check].redact => d.error # "text"

\* The endpoint fails only when a name has a dot or has gone from the registry
\* since the snapshot: the merge always leaves the failure it looks for.
FailsOnlyUnresolved ==
  Answered /\ answer.code = 500 =>
    \E n \in DOMAIN selected : Len(n) > 1 \/ n \notin DOMAIN specs

\* With the overall timeout, or with a timeout on every check and no async
\* adapter, a request is answered even if no check ever returns, unless a sync
\* adapter has the loop for ever: then no timer fires, the overall one neither.
AlwaysAnswers ==
  []<>LoopFree =>
    ((/\ pc = "checking"
      /\ \/ config.overall_timeout
         \/ \A n \in DOMAIN selected : HasTimeout(selected[n]) /\ selected[n].adapter # "async")
     ~> Answered)

-----------------------------------------------------------------------------
(* What the documents say and the code does not do.                        *)

\* SRS-READY-010: a check and its adapter are under the same timeout.
AdapterIsTimed ==
  (pc = "checking" /\ \A n \in DOMAIN selected : HasTimeout(selected[n])) ~> Answered

\* SRS-READY-005: the services of a structured result inherit the required
\* policy of the check that returned it.
ChildInheritsParent ==
  Collected /\ changes = 0 =>
    \A name \in DOMAIN answer.details \ DOMAIN specs :
      answer.details[name].required = selected[answer.details[name].check].required
=============================================================================
