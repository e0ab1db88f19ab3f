-------------------------- MODULE SharedLock_proofs --------------------------
(***************************************************************************)
(* Proofs about SharedLock, for any sets of threads and workers.           *)
(*                                                                         *)
(* The inductive invariant OneInv is about the lock with a single thread   *)
(* that uses exclusive mode: it says who may be recorded in exclusiveLock  *)
(* for each place a thread can be at.  With two such threads G below fails *)
(* (both may wait in the inner loop), and with it everything else.         *)
(***************************************************************************)
EXTENDS SharedLock, TLAPS

\* Every step keeps the type invariant (SharedLock.py 27-114).
LEMMA TypeStep == ASSUME TypeOK, [Next]_vars PROVE TypeOK'
<1> USE SetsAssumption DEF TypeOK, Processes, ClientLabels, WorkerLabels, Goto
<1>1. ASSUME NEW t \in Threads, NEW mode \in {"shared", "exclusive"},
             Call(t, mode)
      PROVE  TypeOK'
  BY <1>1 DEF Call
<1>2. ASSUME NEW t \in Threads, CallAgain(t) PROVE TypeOK'
  BY <1>2 DEF CallAgain
<1>3. ASSUME NEW t \in Threads, Acquire(t) PROVE TypeOK'
  BY <1>3 DEF Acquire, WaitOuter, AcquireShared, RaiseRecursion, WaitInner,
              AcquireExclusive
<1>4. ASSUME NEW t \in Threads, Expire(t) PROVE TypeOK'
  BY <1>4 DEF Expire
<1>5. ASSUME NEW t \in Threads, HandOver(t) PROVE TypeOK'
  BY <1>5 DEF HandOver
<1>6. ASSUME NEW w \in Workers, Steal(w) PROVE TypeOK'
  BY <1>6 DEF Steal, TakeUp, StealTest, StealSet
<1>7. ASSUME NEW p \in Processes, Release(p) PROVE TypeOK'
  <2>1. CASE ReleaseExclusive(p)
    BY <2>1 DEF ReleaseExclusive, NotifyAll, Woken
  <2>2. CASE ReleaseShared(p)
    BY <2>2 DEF ReleaseShared, NotifyAll, Woken
  <2> QED BY <1>7, <2>1, <2>2 DEF Release
<1>8. CASE UNCHANGED vars
  BY <1>8 DEF vars
<1> QED
  BY <1>1, <1>2, <1>3, <1>4, <1>5, <1>6, <1>7, <1>8 DEF Next

\* The type invariant holds for any use of the lock (SharedLock.py 27-114).
THEOREM TypeCorrect == Spec => []TypeOK
<1>1. Init => TypeOK
  BY SetsAssumption DEF Init, TypeOK, Processes, ClientLabels, WorkerLabels
<1>2. TypeOK /\ [Next]_vars => TypeOK'
  BY TypeStep
<1> QED BY <1>1, <1>2, PTL DEF Spec

-----------------------------------------------------------------------------
\* What holds as long as nobody steals, however many threads use exclusive
\* mode: the owners recorded in the two fields exclude each other, and a
\* waiter's reason to wait is still there.
NoStealInv ==
    /\ TypeOK
    /\ NeverBothRecorded
    /\ NoLostWakeup

\* One step of the threads keeps NoStealInv when there is no worker.
LEMMA NoStealStep ==
    ASSUME Workers = {}, NoStealInv, [Next]_vars
    PROVE  NoStealInv'
<1>1. TypeOK'
  BY TypeStep DEF NoStealInv
<1>2. NeverBothRecorded' /\ NoLostWakeup'
  <2> USE SetsAssumption DEF NoStealInv, TypeOK, NeverBothRecorded,
          NoLostWakeup, Processes, Goto
  <2>1. ASSUME NEW t \in Threads, NEW mode \in {"shared", "exclusive"},
               Call(t, mode)
        PROVE  NeverBothRecorded' /\ NoLostWakeup'
    BY <2>1 DEF Call
  <2>2. ASSUME NEW t \in Threads, CallAgain(t)
        PROVE  NeverBothRecorded' /\ NoLostWakeup'
    BY <2>2 DEF CallAgain
  <2>3. ASSUME NEW t \in Threads, Acquire(t)
        PROVE  NeverBothRecorded' /\ NoLostWakeup'
    BY <2>3 DEF Acquire, WaitOuter, AcquireShared, RaiseRecursion, WaitInner,
                AcquireExclusive, AtInnerLoop
  <2>4. ASSUME NEW t \in Threads, Expire(t)
        PROVE  NeverBothRecorded' /\ NoLostWakeup'
    BY <2>4 DEF Expire
  <2>5. ASSUME NEW t \in Threads, HandOver(t)
        PROVE  NeverBothRecorded' /\ NoLostWakeup'
    BY <2>5 DEF HandOver
  <2>6. ASSUME NEW p \in Threads, Release(p)
        PROVE  NeverBothRecorded' /\ NoLostWakeup'
    BY <2>6 DEF Release, ReleaseExclusive, ReleaseShared, NotifyAll,
                Woken
  <2>7. CASE UNCHANGED vars
    BY <2>7 DEF vars
  <2> QED
    BY <2>1, <2>2, <2>3, <2>4, <2>5, <2>6, <2>7 DEF Next
<1> QED BY <1>1, <1>2 DEF NoStealInv

\* Without stealing, release() never trips over its assertion, however many
\* threads ask for exclusive mode (SharedLock.py line 111).
THEOREM AssertionHolds ==
    ASSUME Workers = {}
    PROVE  Spec => []NeverBothRecorded
<1>1. Init => NoStealInv
  BY SetsAssumption DEF Init, NoStealInv, TypeOK, NeverBothRecorded,
     NoLostWakeup, Processes, ClientLabels, WorkerLabels
<1>2. NoStealInv /\ [Next]_vars => NoStealInv'
  BY NoStealStep
<1>3. NoStealInv => NeverBothRecorded
  BY DEF NoStealInv
<1> QED BY <1>1, <1>2, <1>3, PTL DEF Spec

\* Without stealing, no thread sleeps through the event it waits for
\* (SharedLock.py lines 66-71, 83-88, 114).
THEOREM WakeupsArrive ==
    ASSUME Workers = {}
    PROVE  Spec => []NoLostWakeup
<1>1. Init => NoStealInv
  BY SetsAssumption DEF Init, NoStealInv, TypeOK, NeverBothRecorded,
     NoLostWakeup, Processes, ClientLabels, WorkerLabels
<1>2. NoStealInv /\ [Next]_vars => NoStealInv'
  BY NoStealStep
<1>3. NoStealInv => NoLostWakeup
  BY DEF NoStealInv
<1> QED BY <1>1, <1>2, <1>3, PTL DEF Spec

-----------------------------------------------------------------------------
(***************************************************************************)
(* One thread that uses exclusive mode, and any number of workers.         *)
(***************************************************************************)
OneExclusive == \A x, y \in Exclusive : x = y

\* Shared owners are recorded, and only they are.
Recorded ==
    /\ \A t \in Threads : InShared(t) => t \in lockersList
    /\ \A t \in lockersList : /\ want[t] = "shared"
                              /\ pc[t] \in {"held", "unwind", "outer", "outerWait"}

\* An exclusive hold is recorded under the name of who is responsible for it,
\* or, until the worker has stolen it, of the thread it comes from.
Owned ==
    /\ exclusiveLock \in Exclusive \cup Workers \cup {NoThread}
    /\ \A t \in Threads : InExclusive(t) => exclusiveLock = t
    /\ \A w \in Workers : pc[w] \in {"steal", "stealSet"} => exclusiveLock \in Exclusive
    /\ \A w \in Workers : pc[w] = "held" => exclusiveLock = w
    /\ queued > 0 => exclusiveLock \in Exclusive

\* There is one such hold at a time.
SingleHold ==
    /\ queued <= 1
    /\ queued = 1 => /\ \A t \in Threads : ~InExclusive(t)
                     /\ \A w \in Workers : ~Flushing(w)
    /\ \A t \in Threads, w \in Workers : InExclusive(t) => ~Flushing(w)
    /\ \A v, w \in Workers : Flushing(v) /\ Flushing(w) => v = w

\* Who waits in the inner loop waits for sharers only: the lock has no
\* exclusive owner (line 83).
InnerFree ==
    \A t \in Threads :
        /\ want[t] = "exclusive" => t \in Exclusive
        /\ pc[t] \in {"inner", "innerWait"} =>
              want[t] = "exclusive" /\ exclusiveLock = NoThread

NoFailure ==
    /\ \A p \in Processes : pc[p] # "failed"
    /\ \A t \in Threads : pc[t] = "unwind" => want[t] = "shared"
    /\ \A w \in Workers : pc[w] # "unwind"

OneInv ==
    /\ TypeOK
    /\ NeverBothRecorded
    /\ NoLostWakeup
    /\ Recorded
    /\ Owned
    /\ SingleHold
    /\ InnerFree
    /\ NoFailure

LEMMA OneInit == Init => OneInv
BY SetsAssumption
   DEF Init, OneInv, TypeOK, NeverBothRecorded, NoLostWakeup, Recorded, Owned,
       SingleHold, InnerFree, NoFailure, InShared, InExclusive, Flushing,
       Processes, ClientLabels, WorkerLabels

\* One step keeps the invariant: the part of it that is not the type.
LEMMA OneStep ==
    ASSUME OneExclusive, OneInv, [Next]_vars
    PROVE  OneInv'
<1>1. TypeOK'
  BY TypeStep DEF OneInv
<1> DEFINE Rest == /\ NeverBothRecorded
                   /\ NoLostWakeup
                   /\ Recorded
                   /\ Owned
                   /\ SingleHold
                   /\ InnerFree
                   /\ NoFailure
<1>2. Rest'
  <2> USE SetsAssumption
      DEF OneExclusive, OneInv, TypeOK, NeverBothRecorded, NoLostWakeup,
          Recorded, Owned, SingleHold, InnerFree, NoFailure, InShared,
          InExclusive, Flushing, Processes, Goto
  <2>1. ASSUME NEW t \in Threads, NEW mode \in {"shared", "exclusive"},
               Call(t, mode)
        PROVE  Rest'
    BY <2>1 DEF Call
  <2>2. ASSUME NEW t \in Threads, CallAgain(t)
        PROVE  Rest'
    BY <2>2 DEF CallAgain
  <2>3. ASSUME NEW t \in Threads, Acquire(t)
        PROVE  Rest'
    <3>1. CASE WaitOuter(t)
      BY <3>1 DEF WaitOuter
    <3>2. CASE AcquireShared(t)
      BY <3>2 DEF AcquireShared
    <3>3. CASE RaiseRecursion(t)
      BY <3>3 DEF RaiseRecursion
    <3>4. CASE WaitInner(t)
      BY <3>4 DEF WaitInner, AtInnerLoop
    <3>5. CASE AcquireExclusive(t)
      BY <3>5 DEF AcquireExclusive, AtInnerLoop
    <3> QED BY <2>3, <3>1, <3>2, <3>3, <3>4, <3>5 DEF Acquire
  <2>4. ASSUME NEW t \in Threads, Expire(t)
        PROVE  Rest'
    BY <2>4 DEF Expire
  <2>5. ASSUME NEW t \in Threads, HandOver(t)
        PROVE  Rest'
    BY <2>5 DEF HandOver
  <2>6. ASSUME NEW w \in Workers, Steal(w)
        PROVE  Rest'
    <3>1. CASE TakeUp(w)
      BY <3>1 DEF TakeUp
    <3>2. CASE StealTest(w)
      BY <3>2 DEF StealTest
    <3>3. CASE StealSet(w)
      BY <3>3 DEF StealSet
    <3> QED BY <2>6, <3>1, <3>2, <3>3 DEF Steal
  <2>7. ASSUME NEW p \in Processes, Release(p)
        PROVE  Rest'
    <3>1. CASE ReleaseExclusive(p)
      BY <3>1 DEF ReleaseExclusive, NotifyAll, Woken
    <3>2. CASE ReleaseShared(p)
      BY <3>2 DEF ReleaseShared, NotifyAll, Woken
    <3> QED BY <2>7, <3>1, <3>2 DEF Release
  <2>8. CASE UNCHANGED vars
    BY <2>8 DEF vars
  <2> QED
    BY <2>1, <2>2, <2>3, <2>4, <2>5, <2>6, <2>7, <2>8 DEF Next
<1> QED BY <1>1, <1>2 DEF OneInv

LEMMA OneInvariant ==
    ASSUME OneExclusive
    PROVE  Spec => []OneInv
<1>1. OneInv /\ [Next]_vars => OneInv'
  BY OneStep
<1> QED BY OneInit, <1>1, PTL DEF Spec

\* With one thread that uses exclusive mode, an exclusive hold, also while it
\* is on its way to a worker, excludes every other hold (class comment of
\* SharedLock.py, lines 28-31).
THEOREM ExclusionWithOne ==
    ASSUME OneExclusive
    PROVE  Spec => []ExclusiveAlone
<1>1. OneInv => ExclusiveAlone
  BY SetsAssumption
     DEF OneExclusive, OneInv, ExclusiveAlone, Recorded, Owned, SingleHold,
         NoFailure, NeverBothRecorded, InExclusive, InShared, Flushing,
         Processes, TypeOK
<1> QED BY <1>1, OneInvariant, PTL

\* ... and release() and the worker's steal() never raise (lines 98-113).
THEOREM ReleaseWithOne ==
    ASSUME OneExclusive
    PROVE  Spec => []ReleaseSucceeds
<1>1. OneInv => ReleaseSucceeds
  BY DEF OneInv, NoFailure, ReleaseSucceeds
<1> QED BY <1>1, OneInvariant, PTL

\* ... and the lock implements the promise of RWLock.
THEOREM RefinesRWLock ==
    ASSUME OneExclusive
    PROVE  Spec => ImplementsRWLock
<1> DEFINE AbsStep == [Abstract!RWNext]_(Abstract!rwVars)
<1>1. Init => Abstract!RWInit
  BY DEF Init, Abstract!RWInit
<1>2. OneInv /\ [Next]_vars => AbsStep
  <2> SUFFICES ASSUME OneInv, [Next]_vars PROVE AbsStep
    OBVIOUS
  <2> USE DEF Abstract!rwVars
  <2>1. ASSUME NEW t \in Threads, NEW mode \in {"shared", "exclusive"},
               Call(t, mode)
        PROVE  AbsStep
    BY <2>1 DEF Call
  <2>2. ASSUME NEW t \in Threads, CallAgain(t) PROVE AbsStep
    BY <2>2 DEF CallAgain
  <2>3. ASSUME NEW t \in Threads, Acquire(t) PROVE AbsStep
    <3>1. CASE WaitOuter(t) \/ RaiseRecursion(t) \/ WaitInner(t)
      BY <3>1 DEF WaitOuter, RaiseRecursion, WaitInner
    <3>2. CASE AcquireShared(t)
      <4>1. Abstract!Share(t)
        BY <3>2 DEF AcquireShared, Abstract!Share
      <4> QED BY <4>1 DEF Abstract!RWNext
    <3>3. CASE AcquireExclusive(t)
      <4>1. Abstract!Exclude(t)
        BY <3>3 DEF AcquireExclusive, AtInnerLoop, OneInv, InnerFree,
                    Abstract!Exclude
      <4> QED BY <4>1 DEF Abstract!RWNext
    <3> QED BY <2>3, <3>1, <3>2, <3>3 DEF Acquire
  <2>4. ASSUME NEW t \in Threads, Expire(t) PROVE AbsStep
    BY <2>4 DEF Expire
  <2>5. ASSUME NEW t \in Threads, HandOver(t) PROVE AbsStep
    BY <2>5 DEF HandOver
  <2>6. ASSUME NEW w \in Workers, Steal(w) PROVE AbsStep
    <3>1. CASE TakeUp(w) \/ StealTest(w)
      BY <3>1 DEF TakeUp, StealTest
    <3>2. CASE StealSet(w)
      <4>1. Abstract!PassOn(w)
        BY <3>2, SetsAssumption
           DEF StealSet, OneInv, Owned, Abstract!PassOn
      <4> QED BY <4>1 DEF Abstract!RWNext
    <3> QED BY <2>6, <3>1, <3>2 DEF Steal
  <2>7. ASSUME NEW p \in Processes, Release(p) PROVE AbsStep
    <3>1. CASE ReleaseExclusive(p)
      <4>1. Abstract!Unexclude
        BY <3>1, SetsAssumption
           DEF ReleaseExclusive, Processes, Abstract!Unexclude
      <4> QED BY <4>1 DEF Abstract!RWNext
    <3>2. CASE ReleaseShared(p) /\ p \in lockersList
      <4>1. p \in Threads /\ Abstract!Unshare(p)
        BY <3>2 DEF ReleaseShared, OneInv, TypeOK, Abstract!Unshare
      <4> QED BY <4>1 DEF Abstract!RWNext
    <3>3. CASE ReleaseShared(p) /\ p \notin lockersList
      BY <3>3 DEF ReleaseShared
    <3> QED BY <2>7, <3>1, <3>2, <3>3 DEF Release
  <2>8. CASE UNCHANGED vars
    BY <2>8 DEF vars
  <2> QED
    BY <2>1, <2>2, <2>3, <2>4, <2>5, <2>6, <2>7, <2>8 DEF Next
<1> QED
  BY <1>1, <1>2, OneInvariant, PTL DEF Spec, ImplementsRWLock, Abstract!RWSpec
=============================================================================
