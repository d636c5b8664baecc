-------------------------- MODULE StreamClose_proofs --------------------------
(***************************************************************************)
(* That the close protocol of a streaming response is safe for every number *)
(* of calls and of cancellations.                                           *)
(***************************************************************************)
EXTENDS StreamClose, TLAPS

-----------------------------------------------------------------------------
(* The inductive invariant.                                                 *)

\* The task that closes holds the lock, and a call has no more cancellations
\* than were delivered.
LockInv ==
  /\ \A c \in Calls : task[c] = "closing" => lock = c
  /\ \A c \in Calls : hits[c] <= cancels

\* A call and its close task go together.
CallInv ==
  \A c \in Calls :
    /\ pc[c] = "streaming" => task[c] = "none" /\ origin[c] = "none"
    /\ pc[c] # "streaming" => task[c] # "none"
    /\ pc[c] \in {"streaming", "shielded"} => hits[c] = 0 /\ task[c] # "interrupted"
    /\ Hit(c) => hits[c] >= 1
    /\ pc[c] = "cut" => hits[c] >= 2
    /\ pc[c] \in {"leaving", "cut", "done"} => task[c] \in Ended
    /\ pc[c] # "done" => result[c] = "none" /\ note[c] = "none"

\* The flag goes up with the one invocation.
FlagInv == invoked <= 1 /\ (~flag => invoked = 0)

\* No call has been cancelled twice beyond its stream.
Spared == close # "none" /\ \A c \in Calls : hits[c] <= 1

\* As long as that is so, no task is interrupted, and one that has ended leaves
\* the lock free and the resource dealt with.
ResourceInv ==
  Spared =>
    /\ \A c \in Calls : task[c] # "interrupted"
    /\ ~flag => lock = NoCall /\ \A c \in Calls : task[c] \notin Ended
    /\ flag /\ lock = NoCall => resource \in {"closed", "failed"}
    /\ \A c \in Calls : task[c] \in Ended => lock = NoCall

\* The failed close is the one that was called, and its call reports it when it
\* is over, unless it was cancelled twice; an interrupted close is nobody's.
FailureInv ==
  /\ \A c, d \in Calls : {task[c], task[d]} \subseteq {"closing", "failed"} => c = d
  /\ ~flag => resource = "open" /\ \A c \in Calls : task[c] \notin {"closing", "failed"}
  /\ \A c \in Calls : task[c] = "closing" => resource = "closing"
  /\ \A c \in Calls : task[c] = "failed" => resource = "failed"
  /\ (\A c \in Calls : hits[c] <= 1) =>
       /\ resource = "closing" => \E c \in Calls : task[c] = "closing"
       /\ resource = "failed" => \E c \in Calls : task[c] = "failed"
  /\ \A c \in Calls : Reported(c) => task[c] = "failed"
  /\ \A c \in Calls : pc[c] = "done" /\ task[c] = "failed" /\ hits[c] <= 1 => Reported(c)

IInv ==
  /\ TypeOK /\ LockInv /\ CallInv /\ FlagInv /\ ResourceInv
  /\ NothingSwallowed /\ FailureInv

-----------------------------------------------------------------------------
\* A response whose calls have begun to stream satisfies the invariant.
LEMMA InitInv == Init => IInv
<1> SUFFICES ASSUME Init PROVE IInv
  OBVIOUS
<1> USE CallsAssumption, CancelsAssumption DEF Init
<1>1. TypeOK
  <2>1. flag \in BOOLEAN
    OBVIOUS
  <2>2. pc \in [Calls -> {"streaming", "shielded", "awaiting", "leaving", "cut", "done"}]
    OBVIOUS
  <2>3. cancels \in 0 .. MaxCancels /\ hits \in [Calls -> 0 .. MaxCancels] /\ invoked \in Nat
    OBVIOUS
  <2>4. origin \in [Calls -> Origins] /\ result \in [Calls -> Origins \cup {"close"}]
       /\ note \in [Calls -> {"none", "cancelled", "close"}]
    BY DEF Origins
  <2> QED
    BY <2>1, <2>2, <2>3, <2>4 DEF TypeOK
<1>2. LockInv /\ CallInv /\ FlagInv
  BY DEF LockInv, CallInv, FlagInv, Hit
<1>3. ResourceInv
  BY DEF ResourceInv, Ended
<1>4. NothingSwallowed /\ FailureInv
  BY DEF NothingSwallowed, FailureInv, Reported
<1> QED
  BY <1>1, <1>2, <1>3, <1>4 DEF IInv

\* The end of a stream leaves a task that has done nothing yet.
LEMMA StreamEndsInv == ASSUME IInv, NEW c \in Calls, StreamEnds(c) PROVE IInv'
<1> USE CallsAssumption, CancelsAssumption DEF IInv, StreamEnds, BeginsClose
<1>1. TypeOK'
  BY DEF TypeOK, Origins, CallInv
<1>2. LockInv'
  BY DEF TypeOK, LockInv
<1>3. CallInv'
  BY DEF TypeOK, CallInv, Hit, Ended
<1>4. FlagInv'
  BY DEF FlagInv
<1>5. ResourceInv'
  BY DEF TypeOK, ResourceInv, Spared, Ended
<1>6. NothingSwallowed'
  BY DEF TypeOK, NothingSwallowed
<1>7. FailureInv'
  BY DEF TypeOK, CallInv, FailureInv, Reported
<1> QED
  BY <1>1, <1>2, <1>3, <1>4, <1>5, <1>6, <1>7

\* A task that waits for the lock changes nothing else.
LEMMA WaitForLockInv == ASSUME IInv, NEW c \in Calls, WaitForLock(c) PROVE IInv'
<1> USE CallsAssumption, CancelsAssumption DEF IInv, WaitForLock
<1>1. TypeOK'
  BY DEF TypeOK, LockInv
<1>2. LockInv' /\ CallInv' /\ FlagInv'
  BY DEF TypeOK, LockInv, CallInv, FlagInv, Hit, Ended
<1>3. ResourceInv'
  BY DEF TypeOK, ResourceInv, Spared, Ended
<1>4. NothingSwallowed' /\ FailureInv'
  BY DEF TypeOK, CallInv, NothingSwallowed, FailureInv, Reported, Ended
<1> QED
  BY <1>1, <1>2, <1>3, <1>4

\* The first task to get the lock calls the close; any other returns.
LEMMA CloseOnceInv == ASSUME IInv, NEW c \in Calls, CloseOnce(c) PROVE IInv'
<1> USE CallsAssumption, CancelsAssumption DEF IInv, CloseOnce, MarkedClosed
<1>1. TypeOK'
  BY DEF TypeOK
<1>2. LockInv' /\ CallInv'
  BY DEF TypeOK, LockInv, CallInv, Hit, Ended
<1>3. FlagInv'
  BY DEF TypeOK, FlagInv
<1>4. ResourceInv'
  BY DEF TypeOK, ResourceInv, Spared, Ended
<1>5. NothingSwallowed' /\ FailureInv'
  BY DEF TypeOK, CallInv, NothingSwallowed, FailureInv, Reported, Ended
<1> QED
  BY <1>1, <1>2, <1>3, <1>4, <1>5

\* The end of a close frees the lock.
LEMMA CloseEndsInv == ASSUME IInv, NEW c \in Calls, CloseEnds(c) PROVE IInv'
<1> USE CallsAssumption, CancelsAssumption DEF IInv, CloseEnds
<1>1. TypeOK'
  BY DEF TypeOK
<1>2. LockInv' /\ CallInv' /\ FlagInv'
  BY DEF TypeOK, LockInv, CallInv, FlagInv, Hit, Ended
<1>3. ResourceInv'
  BY DEF TypeOK, LockInv, ResourceInv, Spared, Ended
<1>4. NothingSwallowed' /\ FailureInv'
  BY DEF TypeOK, CallInv, NothingSwallowed, FailureInv, Reported, Ended
<1> QED
  BY <1>1, <1>2, <1>3, <1>4

\* A call that ends reports the stream's error, the close's, or its own
\* cancellation; with none of them its close has succeeded.
LEMMA ResumeInv == ASSUME IInv, NEW c \in Calls, Resume(c) PROVE IInv'
<1> USE CallsAssumption, CancelsAssumption DEF IInv, Resume
<1>1. Raised(c) \in {"none", "cancelled", "close"}
  BY DEF Raised
<1>2. result'[c] \in Origins \cup {"close"} /\ note'[c] \in {"none", "cancelled", "close"}
  BY <1>1 DEF TypeOK, Origins
<1>3. TypeOK'
  BY <1>1, <1>2 DEF TypeOK, Origins
<1>4. LockInv' /\ CallInv' /\ FlagInv'
  BY DEF TypeOK, LockInv, CallInv, FlagInv, Hit
<1>5. ResourceInv'
  BY DEF TypeOK, ResourceInv, Spared
<1>6. result'[c] = "none" => origin[c] = "none" /\ hits[c] = 0 /\ task[c] = "closed"
  BY DEF TypeOK, CallInv, Raised, Hit, Ended
<1>7. NothingSwallowed'
  BY <1>6 DEF TypeOK, NothingSwallowed
<1>8. FailureInv'
  <2>1. Reported(c)' <=> Raised(c) = "close"
    BY DEF TypeOK, CallInv, Reported, Origins
  <2>2. Raised(c) = "close" <=> task[c] = "failed" /\ pc[c] # "cut"
    BY DEF Raised
  <2>3. ASSUME NEW d \in Calls, d # c PROVE Reported(d)' = Reported(d) /\ pc'[d] = pc[d]
    BY <2>3 DEF TypeOK, Reported
  <2> QED
    BY <2>1, <2>2, <2>3 DEF TypeOK, CallInv, FailureInv
<1> QED
  BY <1>3, <1>4, <1>5, <1>7, <1>8

\* A cancellation ends the stream, is absorbed by the shield, or interrupts the
\* task, which then frees the lock.
LEMMA CancelInv == ASSUME IInv, NEW c \in Calls, Cancel(c) PROVE IInv'
<1> USE CallsAssumption, CancelsAssumption DEF IInv
<1>1. CASE pc[c] = "streaming"
  <2> USE <1>1 DEF Cancel, BeginsClose
  <2>1. TypeOK'
    BY DEF TypeOK, Origins, CallInv
  <2>2. LockInv' /\ CallInv' /\ FlagInv'
    BY DEF TypeOK, LockInv, CallInv, FlagInv, Hit, Ended
  <2>3. ResourceInv'
    BY DEF TypeOK, ResourceInv, Spared, Ended
  <2>4. NothingSwallowed'
    BY DEF TypeOK, NothingSwallowed
  <2>5. FailureInv'
    BY DEF TypeOK, CallInv, FailureInv, Reported
  <2> QED
    BY <2>1, <2>2, <2>3, <2>4, <2>5
<1>2. ASSUME pc[c] \in {"shielded", "awaiting"}, pc' = [pc EXCEPT ![c] = Stands(c)]
      PROVE  /\ pc' \in [Calls -> {"streaming", "shielded", "awaiting", "leaving", "cut", "done"}]
             /\ pc'[c] \in {"awaiting", "leaving", "cut"}
             /\ pc'[c] \in {"leaving", "cut"} <=> task[c] \in Ended
             /\ pc'[c] = "cut" => pc[c] = "awaiting"
             /\ \A d \in Calls : d # c => pc'[d] = pc[d]
  BY <1>2 DEF TypeOK, Stands
<1>3. CASE pc[c] # "streaming" /\ ReachesTask(c) /\ task[c] \notin Ended
  <2> USE <1>3 DEF Cancel, ReachesTask
  <2>0. /\ cancels < MaxCancels /\ cancels' = cancels + 1 /\ hits' = [hits EXCEPT ![c] = @ + 1]
        /\ pc' = [pc EXCEPT ![c] = Stands(c)] /\ Interrupts(c)
        /\ UNCHANGED <<close, flag, invoked, origin, result, note>>
    OBVIOUS
  <2>1. pc'[c] = "awaiting" /\ pc[c] = "awaiting" /\ task'[c] = "interrupted"
    BY <2>0 DEF TypeOK, Interrupts, Stands
  <2>2. hits[c] >= 1 /\ hits'[c] >= 2
    BY <2>0 DEF TypeOK, CallInv, LockInv, Hit
  <2> HIDE DEF Cancel
  <2>3. lock' \in {NoCall} \cup {d \in Calls : task'[d] = "closing"}
    BY <2>0 DEF Interrupts, LockAfter, TypeOK
  <2>4. hits' \in [Calls -> 0 .. MaxCancels] /\ cancels' \in 0 .. MaxCancels
    BY <2>0 DEF TypeOK, LockInv
  <2>5. TypeOK'
    BY <1>2, <2>0, <2>1, <2>3, <2>4 DEF Interrupts, TypeOK
  <2>6. LockInv'
    BY <2>0 DEF Interrupts, LockAfter, TypeOK, LockInv
  <2>7. CallInv'
    BY <1>2, <2>0, <2>1, <2>2 DEF Interrupts, TypeOK, CallInv, Hit, Ended
  <2>8. FlagInv'
    BY <2>0 DEF FlagInv
  <2>9. ~(\A d \in Calls : hits'[d] <= 1)
    BY <2>2, <2>4
  <2>10. ResourceInv'
    BY <2>9 DEF ResourceInv, Spared
  <2>11. NothingSwallowed'
    BY <2>0, <2>1, <1>2 DEF Interrupts, TypeOK, NothingSwallowed
  <2>12. FailureInv'
    BY <1>2, <2>0, <2>1, <2>9 DEF Interrupts, TypeOK, CallInv, FailureInv, Reported, Ended
  <2> QED
    BY <2>5, <2>6, <2>7, <2>8, <2>10, <2>11, <2>12
<1>4. CASE pc[c] # "streaming" /\ ~(ReachesTask(c) /\ task[c] \notin Ended)
  <2>0. /\ cancels < MaxCancels /\ cancels' = cancels + 1 /\ hits' = [hits EXCEPT ![c] = @ + 1]
        /\ pc[c] \in {"shielded", "awaiting"} /\ pc' = [pc EXCEPT ![c] = Stands(c)]
        /\ UNCHANGED <<close, task, lock, flag, resource, invoked, origin, result, note>>
    BY <1>4 DEF Cancel
  <2>1. hits' \in [Calls -> 0 .. MaxCancels] /\ cancels' \in 0 .. MaxCancels
    BY <2>0 DEF TypeOK, LockInv
  <2>2. TypeOK'
    BY <1>2, <2>0, <2>1 DEF TypeOK
  <2>3. LockInv'
    BY <2>0 DEF TypeOK, LockInv
  <2>4. hits'[c] = hits[c] + 1 /\ \A d \in Calls : d # c => hits'[d] = hits[d]
    BY <2>0 DEF TypeOK
  <2>5. hits[c] \in Nat /\ (pc[c] = "awaiting" => hits[c] >= 1)
    BY DEF TypeOK, CallInv, Hit
  <2>6. CallInv'
    BY <1>2, <2>0, <2>4, <2>5 DEF TypeOK, CallInv, Hit
  <2>7. FlagInv'
    BY <2>0 DEF FlagInv
  <2>8. \A d \in Calls : hits'[d] <= 1 => hits[d] <= 1
    BY <2>4, <2>5
  <2>9. ResourceInv'
    BY <2>0, <2>8 DEF ResourceInv, Spared
  <2>10. NothingSwallowed'
    BY <1>2, <2>0, <2>4 DEF TypeOK, NothingSwallowed
  <2>11. FailureInv'
    BY <1>2, <2>0, <2>4, <2>8 DEF TypeOK, CallInv, FailureInv, Reported
  <2> QED
    BY <2>2, <2>3, <2>6, <2>7, <2>9, <2>10, <2>11
<1> QED
  BY <1>1, <1>3, <1>4

\* A thread left alone belongs to an interrupted task.
LEMMA ThreadEndsInv == ASSUME IInv, ThreadEnds PROVE IInv'
<1> USE CallsAssumption, CancelsAssumption DEF IInv, ThreadEnds
<1>1. TypeOK' /\ LockInv' /\ CallInv' /\ FlagInv'
  BY DEF TypeOK, LockInv, CallInv, FlagInv, Hit
<1>2. ResourceInv'
  BY DEF TypeOK, ResourceInv, Spared
<1>3. NothingSwallowed' /\ FailureInv'
  BY DEF NothingSwallowed, FailureInv, Reported
<1> QED
  BY <1>1, <1>2, <1>3

\* Nothing changes.
LEMMA StutterInv == IInv /\ UNCHANGED vars => IInv'
BY DEF IInv, vars, TypeOK, LockInv, CallInv, FlagInv, ResourceInv, Spared, Ended,
       NothingSwallowed, FailureInv, Reported, Hit

\* Every behaviour of a streaming response keeps the invariant, for every set
\* of calls and every number of cancellations.
THEOREM Invariance == Spec => []IInv
<1>1. Init => IInv
  BY InitInv
<1>2. IInv /\ [Next]_vars => IInv'
  <2> SUFFICES ASSUME IInv, [Next]_vars PROVE IInv'
    OBVIOUS
  <2>1. ASSUME NEW c \in Calls, StreamEnds(c) PROVE IInv'
    BY <2>1, StreamEndsInv
  <2>2. ASSUME NEW c \in Calls, Step(c) PROVE IInv'
    BY <2>2, WaitForLockInv, CloseOnceInv, CloseEndsInv, ResumeInv DEF Step
  <2>3. ASSUME NEW c \in Calls, Cancel(c) PROVE IInv'
    BY <2>3, CancelInv
  <2>4. CASE ThreadEnds
    BY <2>4, ThreadEndsInv
  <2>5. CASE UNCHANGED vars
    BY <2>5, StutterInv
  <2> QED
    BY <2>1, <2>2, <2>3, <2>4, <2>5 DEF Next
<1> QED
  BY <1>1, <1>2, PTL DEF Spec

\* Every variable has its type, and whoever holds the lock is closing.
THEOREM TypeCorrect == Spec => []TypeOK
<1>1. IInv => TypeOK
  BY DEF IInv
<1> QED
  BY <1>1, Invariance, PTL

\* The close callable is called once at most (SRS-HTTP-007).
THEOREM AtMostOneCall == Spec => []CalledOnce
<1>1. IInv => CalledOnce
  BY DEF IInv, FlagInv, CalledOnce
<1> QED
  BY <1>1, Invariance, PTL

\* A call that survived its cancellations returns after the resource's close.
THEOREM ReturnsClosed == Spec => []ClosedBeforeReturn
<1>1. IInv => ClosedBeforeReturn
  BY DEF IInv, ResourceInv, CallInv, Spared, ClosedBeforeReturn
<1> QED
  BY <1>1, Invariance, PTL

\* A call that returns normally has lost no error and no cancellation.
THEOREM SwallowsNothing == Spec => []NothingSwallowed
<1>1. IInv => NothingSwallowed
  BY DEF IInv
<1> QED
  BY <1>1, Invariance, PTL

\* A failed close is reported once, a close that did not fail never.
THEOREM ReportsFailure == Spec => []CloseFailureReported
<1>1. IInv => CloseFailureReported
  <2> SUFFICES ASSUME IInv PROVE CloseFailureReported
    OBVIOUS
  <2>1. \A c, d \in Calls : Reported(c) /\ Reported(d) => c = d
    BY DEF IInv, FailureInv
  <2>2. ASSUME \A c \in Calls : pc[c] = "done" /\ hits[c] <= 1, resource = "failed"
        PROVE  \E c \in Calls : Reported(c)
    BY <2>2 DEF IInv, FailureInv
  <2>3. ASSUME NEW c \in Calls, Reported(c) PROVE resource = "failed"
    BY <2>3 DEF IInv, FailureInv
  <2> QED
    BY <2>1, <2>2, <2>3 DEF CloseFailureReported
<1> QED
  BY <1>1, Invariance, PTL
=============================================================================
