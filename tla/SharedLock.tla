----------------------------- MODULE SharedLock -----------------------------
(***************************************************************************)
(* python/fuse/SharedLock.py: the lock a FileHandle keeps on the content   *)
(* of one cached file (writerLock).  write() takes it in shared mode,      *)
(* truncate() and flush() in exclusive mode; flush() does not release it   *)
(* but leaves it to the worker that runs flushNode(), which steal()s it.   *)
(*                                                                         *)
(* The lock is a monitor: acquire() and release() run under one RLock      *)
(* (self.lock) and wait on a condition of that RLock, so each action below *)
(* is one stretch of code between taking self.lock and giving it up, by    *)
(* returning, by raising or by waiting.  steal() does not take self.lock:  *)
(* its test and its assignment are two actions.                            *)
(***************************************************************************)
EXTENDS Naturals

CONSTANTS
    Threads,    \* client threads
    Workers,    \* flush workers: they only steal() and release()
    Exclusive,  \* the client threads that ever ask for exclusive mode
    Timed,      \* the client threads that pass a timeout to acquire()
    NoThread,   \* None
    MaxCalls    \* bound on the calls of acquire() one thread makes

ASSUME SetsAssumption ==
    /\ Threads \cap Workers = {}
    /\ Exclusive \subseteq Threads
    /\ Timed \subseteq Threads
    /\ NoThread \notin Threads \cup Workers

ASSUME MaxCallsAssumption == MaxCalls \in Nat

VARIABLES
    exclusiveLock,  \* the owner in exclusive mode, or NoThread
    lockersList,    \* the set of owners in shared mode
    pc,             \* where each thread is
    want,           \* the mode each client thread last asked for
    queued,         \* exclusive holds left for a worker that no worker took up
    calls           \* calls of acquire() made by each thread

vars == <<exclusiveLock, lockersList, pc, want, queued, calls>>

Processes == Threads \cup Workers

(***************************************************************************)
(* "out"         the thread is in none of the lock's methods               *)
(* "outer"       about to test the loop of lines 66-74 (self.lock wanted)  *)
(* "outerWait"   in condition.wait() of that loop                          *)
(* "inner"       about to test the loop of lines 83-92                     *)
(* "innerWait"   in condition.wait() of that loop                          *)
(* "held"        acquire() or steal() returned                             *)
(* "unwind"      an exception is on its way to the release of the caller   *)
(* "steal"       in steal(), before its test                               *)
(* "stealSet"    in steal(), between the test and the assignment           *)
(* "failed"      release() raised                                          *)
(***************************************************************************)
ClientLabels ==
    {"out", "outer", "outerWait", "inner", "innerWait", "held", "unwind",
     "failed"}
WorkerLabels == {"out", "steal", "stealSet", "held", "unwind", "failed"}

Init ==
    /\ exclusiveLock = NoThread
    /\ lockersList = {}
    /\ pc = [p \in Processes |-> "out"]
    /\ want = [t \in Threads |-> "shared"]
    /\ queued = 0
    /\ calls = [t \in Threads |-> 0]

Goto(p, label) == pc' = [pc EXCEPT ![p] = label]

\* condition.notify_all(): every waiter is to test its loop again.
Woken(label) ==
    IF label = "outerWait" THEN "outer"
    ELSE IF label = "innerWait" THEN "inner" ELSE label

NotifyAll(p, label) ==
    pc' = [q \in Processes |-> IF q = p THEN label ELSE Woken(pc[q])]

-----------------------------------------------------------------------------
(* acquire()                                                               *)

\* A thread that is out of the lock calls acquire().
Call(t, mode) ==
    /\ pc[t] = "out"
    /\ mode = "exclusive" => t \in Exclusive
    /\ calls[t] < MaxCalls
    /\ calls' = [calls EXCEPT ![t] = @ + 1]
    /\ want' = [want EXCEPT ![t] = mode]
    /\ Goto(t, "outer")
    /\ UNCHANGED <<exclusiveLock, lockersList, queued>>

\* A shared holder calls acquire(shared=True) again.
CallAgain(t) ==
    /\ pc[t] = "held"
    /\ want[t] = "shared"
    /\ calls[t] < MaxCalls
    /\ calls' = [calls EXCEPT ![t] = @ + 1]
    /\ Goto(t, "outer")
    /\ UNCHANGED <<exclusiveLock, lockersList, want, queued>>

\* Lines 66-71: somebody owns the lock exclusively.
WaitOuter(t) ==
    /\ pc[t] = "outer"
    /\ exclusiveLock # NoThread
    /\ Goto(t, "outerWait")
    /\ UNCHANGED <<exclusiveLock, lockersList, want, queued, calls>>

\* Mutant: the loop of lines 66-74 is left out for shared mode.
AcquireShared_NoWait(t) ==
    /\ pc[t] = "outer"
    /\ want[t] = "shared"
    /\ t \notin lockersList
    /\ lockersList' = lockersList \cup {t}
    /\ Goto(t, "held")
    /\ UNCHANGED <<exclusiveLock, want, queued, calls>>

\* Lines 78-81.
AcquireShared(t) ==
    /\ pc[t] = "outer"
    /\ exclusiveLock = NoThread
    /\ want[t] = "shared"
    /\ t \notin lockersList
    /\ lockersList' = lockersList \cup {t}
    /\ Goto(t, "held")
    /\ UNCHANGED <<exclusiveLock, want, queued, calls>>

\* Lines 79-80: RecursionError; the holder's own with statement releases.
RaiseRecursion(t) ==
    /\ pc[t] = "outer"
    /\ exclusiveLock = NoThread
    /\ want[t] = "shared"
    /\ t \in lockersList
    /\ Goto(t, "unwind")
    /\ UNCHANGED <<exclusiveLock, lockersList, want, queued, calls>>

\* A thread reaches the loop of lines 83-92 from the loop above it, without
\* giving self.lock up in between, or from a wait() in it.
AtInnerLoop(t) ==
    \/ pc[t] = "outer" /\ exclusiveLock = NoThread /\ want[t] = "exclusive"
    \/ pc[t] = "inner"

WaitInner(t) ==
    /\ AtInnerLoop(t)
    /\ lockersList # {}
    /\ Goto(t, "innerWait")
    /\ UNCHANGED <<exclusiveLock, lockersList, want, queued, calls>>

\* Mutant: the loop of lines 83-92 is left out.
AcquireExclusive_NoWait(t) ==
    /\ AtInnerLoop(t)
    /\ exclusiveLock' = t
    /\ Goto(t, "held")
    /\ UNCHANGED <<lockersList, want, queued, calls>>

\* Line 93: exclusiveLock is not tested again after the inner wait().
AcquireExclusive(t) ==
    /\ AtInnerLoop(t)
    /\ lockersList = {}
    /\ exclusiveLock' = t
    /\ Goto(t, "held")
    /\ UNCHANGED <<lockersList, want, queued, calls>>

\* Lines 73-74 and 90-92: the wait() of a thread with a timeout ran out
\* and what it waited for has not happened.
Expire(t) ==
    /\ t \in Timed
    /\ \/ pc[t] \in {"outer", "outerWait"} /\ exclusiveLock # NoThread
       \/ pc[t] \in {"inner", "innerWait"} /\ lockersList # {}
    /\ Goto(t, IF t \in lockersList THEN "unwind" ELSE "out")
    /\ UNCHANGED <<exclusiveLock, lockersList, want, queued, calls>>

-----------------------------------------------------------------------------
(* steal()                                                                 *)

\* flush() leaves its exclusive hold to the worker that takes the file off
\* the flush queue; without workers only truncate() uses exclusive mode.
HandOver(t) ==
    /\ Workers # {}
    /\ pc[t] = "held"
    /\ want[t] = "exclusive"
    /\ queued' = queued + 1
    /\ Goto(t, "out")
    /\ UNCHANGED <<exclusiveLock, lockersList, want, calls>>

\* Mutant: a worker takes up a file although none is queued.
TakeUp_Spurious(w) ==
    /\ pc[w] = "out"
    /\ queued' = queued - 1
    /\ Goto(w, "steal")
    /\ UNCHANGED <<exclusiveLock, lockersList, want, calls>>

TakeUp(w) ==
    /\ pc[w] = "out"
    /\ queued > 0
    /\ queued' = queued - 1
    /\ Goto(w, "steal")
    /\ UNCHANGED <<exclusiveLock, lockersList, want, calls>>

\* Line 98, and line 101 when nobody owns the lock.
StealTest(w) ==
    /\ pc[w] = "steal"
    /\ Goto(w, IF exclusiveLock # NoThread THEN "stealSet" ELSE "unwind")
    /\ UNCHANGED <<exclusiveLock, lockersList, want, queued, calls>>

\* Mutant: steal() forgets to record the new owner.
StealSet_Forgets(w) ==
    /\ pc[w] = "stealSet"
    /\ Goto(w, "held")
    /\ UNCHANGED <<exclusiveLock, lockersList, want, queued, calls>>

\* Line 99.
StealSet(w) ==
    /\ pc[w] = "stealSet"
    /\ exclusiveLock' = w
    /\ Goto(w, "held")
    /\ UNCHANGED <<lockersList, want, queued, calls>>

-----------------------------------------------------------------------------
(* release()                                                               *)

\* Mutant: release() of an exclusive hold notifies nobody.
ReleaseExclusive_Silent(p) ==
    /\ pc[p] \in {"held", "unwind"}
    /\ exclusiveLock = p
    /\ exclusiveLock' = NoThread
    /\ Goto(p, IF lockersList = {} THEN "out" ELSE "failed")
    /\ UNCHANGED <<lockersList, want, queued, calls>>

\* Lines 109-111 and 114; when the assertion fails nobody is notified.
ReleaseExclusive(p) ==
    /\ pc[p] \in {"held", "unwind"}
    /\ exclusiveLock = p
    /\ exclusiveLock' = NoThread
    /\ IF lockersList = {} THEN NotifyAll(p, "out") ELSE Goto(p, "failed")
    /\ UNCHANGED <<lockersList, want, queued, calls>>

\* Mutant: release() of a shared hold notifies nobody.
ReleaseShared_Silent(p) ==
    /\ pc[p] \in {"held", "unwind"}
    /\ exclusiveLock # p
    /\ p \in lockersList
    /\ lockersList' = lockersList \ {p}
    /\ Goto(p, "out")
    /\ UNCHANGED <<exclusiveLock, want, queued, calls>>

\* Lines 112-114; line 113 is a KeyError, and nobody is notified, when the
\* caller does not own the lock any more.
ReleaseShared(p) ==
    /\ pc[p] \in {"held", "unwind"}
    /\ exclusiveLock # p
    /\ lockersList' = lockersList \ {p}
    /\ IF p \in lockersList THEN NotifyAll(p, "out") ELSE Goto(p, "failed")
    /\ UNCHANGED <<exclusiveLock, want, queued, calls>>

-----------------------------------------------------------------------------
Acquire(t) ==
    \/ WaitOuter(t)
    \/ AcquireShared(t)
    \/ RaiseRecursion(t)
    \/ WaitInner(t)
    \/ AcquireExclusive(t)

Release(p) == ReleaseExclusive(p) \/ ReleaseShared(p)

Steal(w) == TakeUp(w) \/ StealTest(w) \/ StealSet(w)

Next ==
    \/ \E t \in Threads :
         \/ \E mode \in {"shared", "exclusive"} : Call(t, mode)
         \/ CallAgain(t)
         \/ Acquire(t)
         \/ Expire(t)
         \/ HandOver(t)
    \/ \E w \in Workers : Steal(w)
    \/ \E p \in Processes : Release(p)

Spec == Init /\ [][Next]_vars

(***************************************************************************)
(* Threads are scheduled, holders release (every caller uses with, or      *)
(* hands over to a worker) and queued files are flushed.  Calls, timeouts  *)
(* and hand-overs need not happen.                                         *)
(***************************************************************************)
Fairness ==
    /\ \A t \in Threads : WF_vars(Acquire(t))
    /\ \A w \in Workers : WF_vars(Steal(w))
    /\ \A p \in Processes : WF_vars(Release(p))

FairSpec == Spec /\ Fairness

-----------------------------------------------------------------------------
TypeOK ==
    /\ exclusiveLock \in Processes \cup {NoThread}
    /\ lockersList \subseteq Threads
    /\ pc \in [Processes -> ClientLabels \cup WorkerLabels]
    /\ \A t \in Threads : pc[t] \in ClientLabels
    /\ \A w \in Workers : pc[w] \in WorkerLabels
    /\ want \in [Threads -> {"shared", "exclusive"}]
    /\ queued \in Nat
    /\ calls \in [Threads -> Nat]

\* A client thread is between a successful acquire() and its release().
InShared(t) == t \in Threads /\ want[t] = "shared" /\ pc[t] \in {"held", "unwind"}
InExclusive(t) == t \in Threads /\ want[t] = "exclusive" /\ pc[t] = "held"

\* A worker is responsible for an exclusive hold.
Flushing(w) == w \in Workers /\ pc[w] \in {"steal", "stealSet", "held", "unwind"}

(***************************************************************************)
(* Only one thread has the lock in exclusive mode, a hold waiting in the   *)
(* flush queue counted, and nobody has it in shared mode at that time      *)
(* (class comment of SharedLock, lines 28-31).                             *)
(***************************************************************************)
ExclusiveAlone ==
    /\ \A p, q \in Processes :
         (InExclusive(p) \/ Flushing(p)) /\ (InExclusive(q) \/ Flushing(q))
            => p = q
    /\ (\E p \in Processes : InExclusive(p) \/ Flushing(p)) => queued = 0
    /\ queued <= 1
    /\ (\E p \in Processes : InExclusive(p) \/ Flushing(p)) \/ queued = 1
          => \A t \in Threads : ~InShared(t)

(***************************************************************************)
(* The assertion of release() (line 111) holds whenever an owner gets      *)
(* there: an exclusive owner and shared owners are never recorded together.*)
(***************************************************************************)
NeverBothRecorded == exclusiveLock # NoThread => lockersList = {}

(***************************************************************************)
(* No lost wake-up: a thread sits in condition.wait() only while what it   *)
(* waits for has not happened (lines 66-71, 83-88 and 114).                *)
(***************************************************************************)
NoLostWakeup ==
    \A t \in Threads :
        /\ pc[t] = "outerWait" => exclusiveLock # NoThread
        /\ pc[t] = "innerWait" => lockersList # {}

\* release() never raises: who calls it owns the lock (lines 109-113).
ReleaseSucceeds == \A p \in Processes : pc[p] # "failed"

(***************************************************************************)
(* When the callers stop calling, everybody gets through: no thread stays  *)
(* blocked in acquire() and the lock ends up free (callers of acquire(),   *)
(* CadcCache.py lines 888, 972, 1000, 1034 and 1195).                      *)
(***************************************************************************)
AllReturn ==
    <>[](/\ \A p \in Processes : pc[p] = "out"
         /\ exclusiveLock = NoThread
         /\ lockersList = {}
         /\ queued = 0)

(***************************************************************************)
(* The lock as it is implemented is the lock that is promised.             *)
(***************************************************************************)
Abstract == INSTANCE RWLock WITH readers <- lockersList, writer <- exclusiveLock

ImplementsRWLock == Abstract!RWSpec
=============================================================================
