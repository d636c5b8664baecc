------------------------------ MODULE OwnedScope ------------------------------
(***************************************************************************)
(* What an application's lifespan promises of everything it owns, said      *)
(* without how: resources are acquired in declaration order under a         *)
(* runtime, the application is in use only when all of them are held, and   *)
(* they are given back in the reverse order, the runtime after the last.    *)
(***************************************************************************)
EXTENDS Naturals

CONSTANT N   \* the owned resources are 1 .. N, in declaration order

VARIABLES
  stage,    \* "idle", "acquire", "use" or "release"
  held,     \* the resources held
  runtime   \* whether a runtime is held

vars == <<stage, held, runtime>>

Init == stage = "idle" /\ held = {} /\ runtime = FALSE

\* A scope is opened, on a runtime of the caller's or without one yet.
Open == stage = "idle" /\ stage' = "acquire" /\ held' = held /\ runtime' \in BOOLEAN

AcquireRuntime ==
  stage = "acquire" /\ ~runtime /\ held = {} /\ runtime' = TRUE /\ UNCHANGED <<stage, held>>

Acquire(r) ==
  /\ stage = "acquire" /\ runtime
  /\ r \notin held /\ \A s \in 1 .. N : s < r => s \in held
  /\ held' = held \cup {r} /\ UNCHANGED <<stage, runtime>>

Use == stage = "acquire" /\ runtime /\ held = 1 .. N /\ stage' = "use" /\ UNCHANGED <<held, runtime>>

\* Whether acquiring failed or using ended.
Leave == stage \in {"acquire", "use"} /\ stage' = "release" /\ UNCHANGED <<held, runtime>>

Release(r) ==
  /\ stage = "release"
  /\ r \in held /\ \A s \in held : s <= r
  /\ held' = held \ {r} /\ UNCHANGED <<stage, runtime>>

ReleaseRuntime ==
  stage = "release" /\ held = {} /\ runtime /\ runtime' = FALSE /\ UNCHANGED <<stage, held>>

Close ==
  stage = "release" /\ held = {} /\ ~runtime /\ stage' = "idle" /\ UNCHANGED <<held, runtime>>

\* A resource that could not be completed is held already when start fails.
LeaveWith(r) ==
  /\ stage = "acquire" /\ runtime
  /\ r \notin held /\ \A s \in 1 .. N : s < r => s \in held
  /\ held' = held \cup {r} /\ stage' = "release" /\ UNCHANGED runtime

Next ==
  \/ Open \/ AcquireRuntime \/ Use \/ Leave \/ ReleaseRuntime \/ Close
  \/ \E r \in 1 .. N : Acquire(r) \/ LeaveWith(r) \/ Release(r)

Spec == Init /\ [][Next]_vars
=============================================================================
