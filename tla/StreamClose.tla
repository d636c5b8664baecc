----------------------------- MODULE StreamClose -----------------------------
(***************************************************************************)
(* ManagedStreamingResponse: after the body has been sent, or sending has  *)
(* failed or was cancelled, a task of its own closes the producer          *)
(* resource while the response waits for it behind a shield.               *)
(*                                                                         *)
(* Calls are the calls of one response object; the lock and the flag are   *)
(* what they share.  `task[c]' is the close task of call c.  A sync close  *)
(* runs in a worker thread that no cancellation stops.                     *)
(*                                                                         *)
(* `pc[c]' is the await at which call c stands: of the shield, of the      *)
(* close task beyond it, or of one that is over, where a cancellation has  *)
(* still to be thrown ("leaving": at the shield, "cut": beyond it).        *)
(* Until it is thrown, further cancellations are one with it (asyncio).    *)
(*                                                                         *)
(* Mut_X is X with a plausible bug; nothing uses it.                       *)
(***************************************************************************)
EXTENDS Naturals

CONSTANTS
  Calls,      \* the calls of the response
  NoCall,     \* nobody holds the lock
  MaxCancels  \* bound: cancellations of the calls

ASSUME CallsAssumption == NoCall \notin Calls
ASSUME CancelsAssumption == MaxCancels \in Nat

VARIABLES
  close,     \* what _close_callable finds, fixed
  pc,        \* where each call is
  task,      \* where its close task is
  lock,      \* who holds _close_lock
  flag,      \* _closed
  resource,  \* what became of the resource
  invoked,   \* how often the close callable was called
  origin,    \* what StreamingResponse.__call__ raised
  result,    \* what the call raised
  note,      \* what was noted on the error it raised
  cancels,   \* cancellations delivered
  hits       \* history: those a call received after its stream had ended

vars == <<close, pc, task, lock, flag, resource, invoked, origin, result, note, cancels, hits>>

Origins == {"none", "producer", "disconnect", "cancelled"}

\* Every variable has its type; whoever holds the lock is closing.
TypeOK ==
  /\ close \in {"none", "async", "sync"}
  /\ pc \in [Calls -> {"streaming", "shielded", "awaiting", "leaving", "cut", "done"}]
  /\ task \in [Calls -> {"none", "ready", "waiting", "closing", "closed", "failed", "interrupted"}]
  /\ lock \in {NoCall} \cup {c \in Calls : task[c] = "closing"}
  /\ flag \in BOOLEAN
  /\ resource \in {"open", "closing", "closed", "failed", "interrupted"}
  /\ invoked \in Nat
  /\ origin \in [Calls -> Origins] /\ result \in [Calls -> Origins \cup {"close"}]
  /\ note \in [Calls -> {"none", "cancelled", "close"}]
  /\ cancels \in 0 .. MaxCancels /\ hits \in [Calls -> 0 .. MaxCancels]

\* A call exists once its streaming has begun; the flag is still down.
Init ==
  /\ close \in {"none", "async", "sync"}
  /\ pc = [c \in Calls |-> "streaming"]
  /\ task = [c \in Calls |-> "none"]
  /\ lock = NoCall /\ flag = FALSE
  /\ resource = "open" /\ invoked = 0
  /\ origin = [c \in Calls |-> "none"] /\ result = [c \in Calls |-> "none"]
  /\ note = [c \in Calls |-> "none"]
  /\ cancels = 0 /\ hits = [c \in Calls |-> 0]

Ended == {"closed", "failed", "interrupted"}

-----------------------------------------------------------------------------
\* The response's own work is over: create the close task and wait for it.
BeginsClose(c, e) ==
  /\ origin' = [origin EXCEPT ![c] = e]
  /\ pc' = [pc EXCEPT ![c] = "shielded"]
  /\ task' = [task EXCEPT ![c] = "ready"]

\* The body was sent, or the producer raised, or the client went away, which
\* ends the stream with an error or without one.
StreamEnds(c) ==
  /\ pc[c] = "streaming"
  /\ \E e \in {"none", "producer", "disconnect"} : BeginsClose(c, e)
  /\ UNCHANGED <<close, lock, flag, resource, invoked, result, note, cancels, hits>>

Mut_MarkedClosed == flag
MarkedClosed == TRUE

\* _close_once finds the lock taken.
WaitForLock(c) ==
  /\ task[c] = "ready" /\ lock # NoCall
  /\ task' = [task EXCEPT ![c] = "waiting"]
  /\ UNCHANGED <<close, pc, lock, flag, resource, invoked, origin, result, note, cancels, hits>>

\* Under the lock, the first to come calls the close callable.
CloseOnce(c) ==
  /\ task[c] \in {"ready", "waiting"} /\ lock = NoCall
  /\ IF flag \/ close = "none"
     THEN /\ task' = [task EXCEPT ![c] = "closed"]
          /\ UNCHANGED <<lock, resource, invoked>>
     ELSE /\ task' = [task EXCEPT ![c] = "closing"]
          /\ lock' = c
          /\ resource' = "closing" /\ invoked' = invoked + 1
  /\ flag' = MarkedClosed
  /\ UNCHANGED <<close, pc, origin, result, note, cancels, hits>>

\* The close callable returns or raises; `async with' releases the lock.
CloseEnds(c) ==
  /\ task[c] = "closing"
  /\ \E how \in {"closed", "failed"} :
       task' = [task EXCEPT ![c] = how] /\ resource' = how
  /\ lock' = NoCall
  /\ UNCHANGED <<close, pc, flag, invoked, origin, result, note, cancels, hits>>

\* A CancelledError has been or will be thrown into the call.
Hit(c) == pc[c] \in {"awaiting", "leaving", "cut"}

Mut_Raised(c) == IF task[c] = "failed" THEN "close" ELSE "none"
Mut_CancelledFirst(c) ==
  IF Hit(c) THEN "cancelled" ELSE IF task[c] = "failed" THEN "close" ELSE "none"
\* What _close_with_cancellation_protection raises: the task's error even
\* after a cancellation, unless one more was thrown beyond the shield when the
\* task was over; otherwise the cancellation.
Raised(c) ==
  IF task[c] = "failed" /\ pc[c] # "cut" THEN "close" ELSE IF Hit(c) THEN "cancelled" ELSE "none"

\* The close task has ended: the call raises the stream's own error, with what
\* _close_preserving_error notes on it, or what the close raised.
Resume(c) ==
  /\ pc[c] \in {"shielded", "awaiting", "leaving", "cut"} /\ task[c] \in Ended
  /\ pc' = [pc EXCEPT ![c] = "done"]
  /\ IF origin[c] = "none"
     THEN result' = [result EXCEPT ![c] = Raised(c)] /\ UNCHANGED note
     ELSE result' = [result EXCEPT ![c] = origin[c]] /\ note' = [note EXCEPT ![c] = Raised(c)]
  /\ UNCHANGED <<close, task, lock, flag, resource, invoked, origin, cancels, hits>>

Mut_ReachesTask(c) == pc[c] \in {"shielded", "awaiting"}
\* only the second await of the close task is not shielded
ReachesTask(c) == pc[c] = "awaiting"

Mut_LockAfter(c) == lock
LockAfter(c) == IF lock = c THEN NoCall ELSE lock

\* The cancellation passes through the await to the close task: one that waits
\* for the lock gives up, an async close is cut short, a sync one's thread
\* goes on alone.
Interrupts(c) ==
  /\ task' = [task EXCEPT ![c] = "interrupted"]
  /\ lock' = LockAfter(c)
  /\ resource' = IF task[c] = "closing" /\ close = "async" THEN "interrupted" ELSE resource

\* Where a call stands that is cancelled after its stream.
Stands(c) ==
  IF task[c] \notin Ended THEN "awaiting" ELSE IF pc[c] = "shielded" THEN "leaving" ELSE "cut"

\* The call is cancelled: where it streams, at the shield, or beyond it.  The
\* event loop has run a created task before a call cancelled at the shield
\* gets to its second await.
Cancel(c) ==
  /\ cancels < MaxCancels /\ cancels' = cancels + 1
  /\ \/ /\ pc[c] = "streaming"
        /\ BeginsClose(c, "cancelled")
        /\ UNCHANGED <<lock, resource, hits>>
     \/ /\ pc[c] \in {"shielded", "awaiting"}
        /\ pc[c] = "awaiting" => task[c] # "ready"
        /\ hits' = [hits EXCEPT ![c] = @ + 1]
        /\ pc' = [pc EXCEPT ![c] = Stands(c)]
        /\ IF ReachesTask(c) /\ task[c] \notin Ended
           THEN Interrupts(c) ELSE UNCHANGED <<task, lock, resource>>
        /\ UNCHANGED origin
  /\ UNCHANGED <<close, flag, invoked, result, note>>

\* The thread of a sync close whose task was interrupted comes to its end.
ThreadEnds ==
  /\ resource = "closing" /\ \A c \in Calls : task[c] # "closing"
  /\ resource' \in {"closed", "failed"}
  /\ UNCHANGED <<close, pc, task, lock, flag, invoked, origin, result, note, cancels, hits>>

Step(c) == WaitForLock(c) \/ CloseOnce(c) \/ CloseEnds(c) \/ Resume(c)

Next ==
  \/ \E c \in Calls : StreamEnds(c) \/ Step(c) \/ Cancel(c)
  \/ ThreadEnds

\* The event loop runs what is ready, and a close callable ends; a stream
\* need not.
Fairness == \A c \in Calls : WF_vars(CloseOnce(c)) /\ WF_vars(CloseEnds(c)) /\ WF_vars(Resume(c))
Spec == Init /\ [][Next]_vars /\ Fairness

-----------------------------------------------------------------------------
(* What the response guarantees.                                           *)

\* The close callable is called once at most, however many calls end at once
\* and however they are cancelled (SRS-HTTP-007).
CalledOnce == invoked <= 1

\* When a call is over, the resource has been closed, or its close has failed,
\* after any end of the stream and through one more cancellation.
ClosedBeforeReturn ==
  (close # "none" /\ \A c \in Calls : hits[c] <= 1) =>
    \A c \in Calls : pc[c] = "done" => resource \in {"closed", "failed"}

\* A call that returns was not cancelled after its stream, its stream raised
\* nothing, and the close it waited for did not fail.
NothingSwallowed ==
  \A c \in Calls : pc[c] = "done" /\ result[c] = "none" =>
    origin[c] = "none" /\ hits[c] = 0 /\ task[c] = "closed"

\* The caller of c learns that the close failed.
Reported(c) == "close" \in {result[c], note[c]}

\* When all calls are over, a close that failed has been reported by one of
\* them, as what it raised or as a note on the stream's error, and by one only:
\* whoever had the lock, whatever ended the streams, and through one
\* cancellation of each.  A close that did not fail is reported by none.
CloseFailureReported ==
  /\ \A c, d \in Calls : Reported(c) /\ Reported(d) => c = d
  /\ (\A c \in Calls : pc[c] = "done" /\ hits[c] <= 1) =>
       (resource = "failed" <=> \E c \in Calls : Reported(c))

\* Once its stream has ended, a call ends: no close task waits for a lock that
\* an interrupted one has kept.
EveryCallEnds == \A c \in Calls : (pc[c] = "shielded") ~> (pc[c] = "done")
=============================================================================
