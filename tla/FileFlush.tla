------------------------------ MODULE FileFlush ------------------------------
(***************************************************************************)
(* One FileHandle of python/fuse/CadcCache.py: how the changes made to a   *)
(* cached file get back to VOSpace.  FUSE threads write(), flush() and     *)
(* release() the file through wrappers (open requests that share the       *)
(* handle); flush() queues the handle for a worker of FlushNodeQueue, which*)
(* uploads the file in flushNode() and drops the reference the flush took. *)
(*                                                                         *)
(* The unit of a step is a stretch of code between two points where another*)
(* thread can get in the way: taking a lock, waiting on fileCondition, and *)
(* the two halves of an increment of refCount, which flush() does under    *)
(* fileLock and getFileHandle() under cacheLock.  fileLock is a variable   *)
(* because flush() blocks on writerLock while it holds it; where a stretch *)
(* of code takes a lock and gives it up again the lock is only a guard.    *)
(* The writer lock is the lock RWLock promises (SharedLock says when       *)
(* python/fuse/SharedLock.py keeps that promise).  File content is a       *)
(* version number: each write makes a new version.                         *)
(***************************************************************************)
EXTENDS Integers, FiniteSets

CONSTANTS
    Threads,       \* FUSE request threads
    Workers,       \* threads of FlushNodeQueue
    Wrappers,      \* HandleWrappers: open requests of the file
    FirstOpen,     \* the wrappers that are open at the start
    NoOne,         \* no owner, no wrapper
    Cached,        \* is the file fully cached at the start
    Slow,          \* can an operation outlast its timeout
    Failing,       \* can the backing store fail
    Unlinking,     \* can the file be unlinked or created anew
    FastWorker,    \* can a worker finish before the thread that queued the
                   \* file executes its next statement
    MaxContent,    \* bound on the number of writes
    MaxFlushes     \* bound on the number of calls of flush() by FUSE

ASSUME WrapperAssumption ==
    /\ IsFiniteSet(Wrappers)
    /\ FirstOpen \subseteq Wrappers
    /\ FirstOpen # {}
    /\ NoOne \notin Threads \cup Workers \cup Wrappers
    /\ Threads \cap Workers = {}

ASSUME SwitchAssumption ==
    /\ Cached \in BOOLEAN /\ Slow \in BOOLEAN /\ Failing \in BOOLEAN
    /\ Unlinking \in BOOLEAN /\ FastWorker \in BOOLEAN

ASSUME BoundAssumption == MaxContent \in Nat /\ MaxFlushes \in Nat

VARIABLES
    refCount, fileModified, fullyCached, obsolete, flushQueued,
    flushException,   \* is it set
    proxyException,   \* ioObject.exception is set
    readThread,       \* "none", "running" or "aborted"
    fdOpen,           \* cacheFileDescriptor is open
    inDict,           \* fileHandleDict holds this handle
    cacheLock,        \* who holds cacheLock between two steps
    fileLock,         \* who holds fileLock between two steps
    exclusive,        \* exclusive owner of writerLock
    sharers,          \* shared owners of writerLock
    queue,            \* how often the handle is in the flush queue
    content,          \* version of the cached content
    backing,          \* version VOSpace has
    wrapper,          \* state of each wrapper: "closed", "open", "closing"
    pc,               \* where each thread is
    job,              \* the wrapper each thread serves
    reg,              \* the value of refCount a thread is adding 1 to
    timed,            \* has the thread a deadline in fileCondition
    asked,            \* version each thread asked to be flushed
    upload,           \* version each worker is uploading
    flushes,          \* calls of flush() so far
    misled            \* auxiliary, read by no guard: has a release() skipped the
                      \* flush for references that no open request holds

handleVars == <<refCount, fileModified, fullyCached, obsolete, flushQueued,
                flushException, proxyException, readThread, fdOpen, inDict>>
lockVars == <<cacheLock, fileLock, exclusive, sharers>>
dataVars == <<content, backing>>
threadVars == <<pc, job, reg, timed, asked, upload, flushes, misled>>
vars == <<handleVars, lockVars, queue, dataVars, wrapper, threadVars>>

WrapperStates == {"closed", "open", "closing"}

(***************************************************************************)
(* FUSE threads.  write(): "w_lock" before line 1034, "w_cache" in         *)
(* makeCached(), "w_read" waiting for its own read thread, "w_other"       *)
(* waiting for somebody else's, "w_check" and "w_again" the same after a   *)
(* notify, "w_data" before line 1050.                                      *)
(* flush(): "f_lock" before line 850, "f_pre" in the wait of line 860,     *)
(* "f_go" before line 865, "f_inc" inside line 876, "f_excl" before line   *)
(* 888, "f_put" before line 894, "f_mark" before line 895, "f_wait" in the *)
(* wait of line 905, "f_check" before line 899 (after a notify).           *)
(* release(): "r_test" before line 920, "r_deref" before line 922.         *)
(* getFileHandle(): "o_inc" inside line 308.                               *)
(* Workers, flushNode(): "k_start" before line 961, "k_copy" before line   *)
(* 981, "k_up" in writeToBacking(), "k_fin" before line 998, "k_rel" before*)
(* line 1000, "k_deref" before line 1003, "k_notify" before line 1008,     *)
(* "dead" when line 936 raised an exception.                               *)
(***************************************************************************)
FlushLabels == {"f_lock", "f_pre", "f_go", "f_inc", "f_excl", "f_put",
                "f_mark", "f_wait", "f_check"}
WriteLabels == {"w_lock", "w_cache", "w_read", "w_other", "w_check", "w_again",
                "w_data"}
ThreadLabels == {"idle", "o_inc", "r_test", "r_deref"} \cup FlushLabels
                   \cup WriteLabels
WorkerLabels == {"idle", "k_start", "k_copy", "k_up", "k_fin", "k_rel",
                 "k_deref", "k_notify", "dead"}

Init ==
    /\ refCount = Cardinality(FirstOpen)
    /\ fileModified = FALSE
    /\ fullyCached = Cached
    /\ obsolete = FALSE
    /\ flushQueued = FALSE
    /\ flushException = FALSE
    /\ proxyException = FALSE
    /\ readThread = "none"
    /\ fdOpen = TRUE
    /\ inDict = TRUE
    /\ cacheLock = NoOne
    /\ fileLock = NoOne
    /\ exclusive = NoOne
    /\ sharers = {}
    /\ queue = 0
    /\ content = 0
    /\ backing = 0
    /\ wrapper = [h \in Wrappers |-> IF h \in FirstOpen THEN "open" ELSE "closed"]
    /\ pc = [p \in Threads \cup Workers |-> "idle"]
    /\ job = [t \in Threads |-> NoOne]
    /\ reg = [t \in Threads |-> 0]
    /\ timed = [t \in Threads |-> FALSE]
    /\ asked = [t \in Threads |-> 0]
    /\ upload = [w \in Workers |-> 0]
    /\ flushes = 0
    /\ misled = FALSE

Goto(p, label) == pc' = [pc EXCEPT ![p] = label]

\* fileCondition.notify_all(), done by p on its way to label.
NotifyAll(p, label) ==
    pc' = [q \in DOMAIN pc |->
             IF q = p THEN label
             ELSE IF pc[q] = "f_pre" THEN "f_go"
             ELSE IF pc[q] = "f_wait" THEN "f_check"
             ELSE IF pc[q] = "w_other" THEN "w_again"
             ELSE IF pc[q] = "w_read" THEN "w_check"
             ELSE pc[q]]

\* A thread starts to serve an open wrapper.
Begin(t, h, label) ==
    /\ pc[t] = "idle"
    /\ wrapper[h] = "open"
    /\ job' = [job EXCEPT ![t] = h]
    /\ Goto(t, label)

-----------------------------------------------------------------------------
(* write()                                                                 *)

\* Lines 1027-1030.
WriteCall(t, h) ==
    /\ content + Cardinality({u \in Threads : pc[u] \in WriteLabels}) < MaxContent
    /\ ~proxyException
    /\ Begin(t, h, "w_lock")
    /\ UNCHANGED <<handleVars, lockVars, queue, dataVars, wrapper, reg, timed,
                   asked, upload, flushes, misled>>

\* Line 1034.
WriteLock(t) ==
    /\ pc[t] = "w_lock"
    /\ exclusive = NoOne
    /\ sharers' = sharers \cup {t}
    /\ Goto(t, "w_cache")
    /\ UNCHANGED <<handleVars, cacheLock, fileLock, exclusive, queue, dataVars,
                   wrapper, job, reg, timed, asked, upload, flushes, misled>>

\* Lines 1048 and 1111: nothing has to be read.
WriteCached(t) ==
    /\ pc[t] = "w_cache"
    /\ fullyCached
    /\ Goto(t, "w_data")
    /\ UNCHANGED <<handleVars, lockVars, queue, dataVars, wrapper, job, reg,
                   timed, asked, upload, flushes, misled>>

\* Lines 1126-1174: somebody's read thread runs, or one is started.
WriteFetch(t) ==
    /\ \/ pc[t] = "w_cache" /\ ~fullyCached
       \/ pc[t] = "w_again"
    /\ fileLock = NoOne
    /\ \/ fullyCached /\ Goto(t, "w_data") /\ UNCHANGED readThread
       \/ ~fullyCached /\ readThread # "none" /\ Goto(t, "w_other")
            /\ UNCHANGED readThread
       \/ ~fullyCached /\ readThread = "none" /\ Goto(t, "w_read")
            /\ readThread' = "running"
    /\ UNCHANGED <<refCount, fileModified, fullyCached, obsolete, flushQueued,
                   flushException, proxyException, fdOpen, inDict, lockVars,
                   queue, dataVars, wrapper, job, reg, timed, asked, upload,
                   flushes, misled>>

\* Lines 1176-1178 after a notify: the wait ends with the data or with the
\* read thread.
WriteCheck(t) ==
    /\ pc[t] = "w_check"
    /\ fileLock = NoOne
    /\ Goto(t, IF fullyCached \/ readThread = "none" THEN "w_data" ELSE "w_read")
    /\ UNCHANGED <<handleVars, lockVars, queue, dataVars, wrapper, job, reg,
                   timed, asked, upload, flushes, misled>>

\* A wait of makeCached() past the deadline the thread has left from an
\* earlier call of flush(): write() itself sets none.
WriteTimeout(t) ==
    /\ Slow
    /\ timed[t]
    /\ pc[t] \in {"w_read", "w_other"}
    /\ fileLock = NoOne
    /\ ~fullyCached
    /\ readThread # "none"
    /\ timed' = [timed EXCEPT ![t] = FALSE]
    /\ sharers' = sharers \ {t}
    /\ Goto(t, "idle")
    /\ UNCHANGED <<handleVars, cacheLock, fileLock, exclusive, queue, dataVars,
                   wrapper, job, reg, asked, upload, flushes, misled>>

\* Lines 1050-1063; with the descriptor closed line 1053 raises.
WriteData(t) ==
    /\ pc[t] = "w_data"
    /\ IF fdOpen
         THEN content' = content + 1 /\ fileModified' = TRUE
         ELSE UNCHANGED <<content, fileModified>>
    /\ sharers' = sharers \ {t}
    /\ Goto(t, "idle")
    /\ UNCHANGED <<refCount, fullyCached, obsolete, flushQueued, flushException,
                   proxyException, readThread, fdOpen, inDict, cacheLock,
                   fileLock, exclusive, queue, backing, wrapper, job, reg,
                   timed, asked, upload, flushes, misled>>

\* CacheReadThread.execute(), lines 1285-1324, and a failure of
\* readFromBacking() (vofs.py 128-130), which stays in the proxy.
ReadThreadEnds ==
    /\ readThread # "none"
    /\ fileLock = NoOne
    /\ \/ /\ fullyCached' = (fullyCached \/ readThread = "running")
          /\ UNCHANGED proxyException
       \/ /\ Failing
          /\ proxyException' = TRUE
          /\ UNCHANGED fullyCached
    /\ readThread' = "none"
    /\ NotifyAll(NoOne, "")
    /\ UNCHANGED <<refCount, fileModified, obsolete, flushQueued,
                   flushException, fdOpen, inDict, lockVars, queue, dataVars,
                   wrapper, job, reg, timed, asked, upload, flushes, misled>>

-----------------------------------------------------------------------------
(* flush()                                                                 *)

\* VOFS.flush(); lines 840-848.
FlushCall(t, h) ==
    /\ flushes < MaxFlushes
    /\ ~proxyException
    /\ Begin(t, h, "f_lock")
    /\ flushes' = flushes + 1
    /\ timed' = [timed EXCEPT ![t] = TRUE]
    /\ asked' = [asked EXCEPT ![t] = content]
    /\ UNCHANGED <<handleVars, lockVars, queue, dataVars, wrapper, reg, upload,
                   misled>>

\* The thread leaves flush() with an exception: a release() it was part of
\* does not reach deref(), and the wrapper is never released again.
Raise(t) ==
    /\ Goto(t, "idle")
    /\ wrapper' = [wrapper EXCEPT ![job[t]] = IF @ = "closing" THEN "closed" ELSE @]

\* The thread leaves flush() with 0.
Return(t) ==
    /\ Goto(t, IF wrapper[job[t]] = "closing" THEN "r_deref" ELSE "idle")
    /\ UNCHANGED wrapper

\* Lines 850-852.
FlushBusy(t) ==
    /\ pc[t] = "f_lock"
    /\ fileLock = NoOne
    /\ refCount > 1
    /\ Raise(t)
    /\ UNCHANGED <<handleVars, lockVars, queue, dataVars, job, reg, timed,
                   asked, upload, flushes, misled>>

\* Lines 857-860: the wait is left by a notify or at the deadline, where a
\* CacheRetry is swallowed (line 861) and clears the thread's deadline.
FlushPreWait(t) ==
    /\ pc[t] \in {"f_lock", "f_go"}
    /\ pc[t] = "f_lock" => refCount <= 1
    /\ pc[t] = "f_go" => timed[t]
    /\ fileLock = NoOne
    /\ flushQueued
    /\ Goto(t, "f_pre")
    /\ UNCHANGED <<handleVars, lockVars, queue, dataVars, wrapper, job, reg,
                   timed, asked, upload, flushes, misled>>

FlushPreTimeout(t) ==
    /\ Slow
    /\ timed[t]
    /\ pc[t] = "f_pre"
    /\ fileLock = NoOne
    /\ timed' = [timed EXCEPT ![t] = ~flushQueued]
    /\ Goto(t, "f_go")
    /\ UNCHANGED <<handleVars, lockVars, queue, dataVars, wrapper, job, reg,
                   asked, upload, flushes, misled>>

\* The thread is past the loop of lines 857-860.
PastPreWait(t) ==
    /\ \/ pc[t] = "f_lock" /\ refCount <= 1 /\ ~flushQueued
       \/ pc[t] = "f_go" /\ (~flushQueued \/ ~timed[t])
    /\ fileLock = NoOne

\* Lines 870-871.
AbortRead == readThread' = IF readThread = "none" THEN "none" ELSE "aborted"

\* Mutant: only a fully cached file is uploaded.
MustQueue_Cached == ~flushQueued /\ fileModified /\ ~obsolete /\ fullyCached

MustQueue == ~flushQueued /\ fileModified /\ ~obsolete

\* Lines 875-876, up to the load of refCount.
FlushQueueing(t) ==
    /\ PastPreWait(t)
    /\ MustQueue
    /\ AbortRead
    /\ fileLock' = t
    /\ reg' = [reg EXCEPT ![t] = refCount]
    /\ Goto(t, "f_inc")
    /\ UNCHANGED <<refCount, fileModified, fullyCached, obsolete, flushQueued,
                   flushException, proxyException, fdOpen, inDict, cacheLock,
                   exclusive, sharers, queue, dataVars, wrapper, job, timed,
                   asked, upload, flushes, misled>>

\* Lines 899-912 without a flush of its own: wait, or be done.
FlushNotQueueing(t) ==
    /\ PastPreWait(t)
    /\ ~MustQueue
    /\ AbortRead
    /\ IF flushQueued \/ readThread # "none"
         THEN Goto(t, "f_wait") /\ UNCHANGED wrapper
         ELSE IF flushException THEN Raise(t) ELSE Return(t)
    /\ UNCHANGED <<refCount, fileModified, fullyCached, obsolete, flushQueued,
                   flushException, proxyException, fdOpen, inDict, lockVars,
                   queue, dataVars, job, reg, timed, asked, upload, flushes,
                   misled>>

\* Mutant: the queued upload takes no reference.
FlushRef_NoCount(t) ==
    /\ pc[t] = "f_inc"
    /\ refCount' = refCount
    /\ reg' = [reg EXCEPT ![t] = 0]
    /\ Goto(t, "f_excl")
    /\ UNCHANGED <<fileModified, fullyCached, obsolete, flushQueued,
                   flushException, proxyException, readThread, fdOpen, inDict,
                   lockVars, queue, dataVars, wrapper, job, timed, asked,
                   upload, flushes, misled>>

\* Line 876, the store.
FlushRef(t) ==
    /\ pc[t] = "f_inc"
    /\ refCount' = reg[t] + 1
    /\ reg' = [reg EXCEPT ![t] = 0]
    /\ Goto(t, "f_excl")
    /\ UNCHANGED <<fileModified, fullyCached, obsolete, flushQueued,
                   flushException, proxyException, readThread, fdOpen, inDict,
                   lockVars, queue, dataVars, wrapper, job, timed, asked,
                   upload, flushes, misled>>

\* Mutant: the shared owners are not waited for.
FlushExclude_NoWait(t) ==
    /\ pc[t] = "f_excl"
    /\ exclusive = NoOne
    /\ exclusive' = t
    /\ Goto(t, "f_put")
    /\ UNCHANGED <<handleVars, cacheLock, fileLock, sharers, queue, dataVars,
                   wrapper, job, reg, timed, asked, upload, flushes, misled>>

\* Line 888, with fileLock held.
FlushExclude(t) ==
    /\ pc[t] = "f_excl"
    /\ exclusive = NoOne
    /\ sharers = {}
    /\ exclusive' = t
    /\ Goto(t, "f_put")
    /\ UNCHANGED <<handleVars, cacheLock, fileLock, sharers, queue, dataVars,
                   wrapper, job, reg, timed, asked, upload, flushes, misled>>

\* Line 894.
FlushPut(t) ==
    /\ pc[t] = "f_put"
    /\ queue' = queue + 1
    /\ Goto(t, "f_mark")
    /\ UNCHANGED <<handleVars, lockVars, dataVars, wrapper, job, reg, timed,
                   asked, upload, flushes, misled>>

\* Lines 895-905; the wait gives fileLock up.
FlushMark(t) ==
    /\ pc[t] = "f_mark"
    /\ flushQueued' = TRUE
    /\ fileLock' = NoOne
    /\ Goto(t, "f_wait")
    /\ UNCHANGED <<refCount, fileModified, fullyCached, obsolete,
                   flushException, proxyException, readThread, fdOpen, inDict,
                   cacheLock, exclusive, sharers, queue, dataVars, wrapper,
                   job, reg, timed, asked, upload, flushes, misled>>

\* Lines 899-912 after a notify.
FlushCheck(t) ==
    /\ pc[t] = "f_check"
    /\ fileLock = NoOne
    /\ IF flushQueued \/ readThread # "none"
         THEN Goto(t, "f_wait") /\ UNCHANGED wrapper
         ELSE IF flushException THEN Raise(t) ELSE Return(t)
    /\ UNCHANGED <<handleVars, lockVars, queue, dataVars, job, reg, timed,
                   asked, upload, flushes, misled>>

\* Line 905: a wait that reaches its deadline looks at the condition once more
\* before it raises CacheRetry.
FlushTimeout(t) ==
    /\ Slow
    /\ timed[t]
    /\ pc[t] = "f_wait"
    /\ fileLock = NoOne
    /\ IF flushQueued \/ readThread # "none"
         THEN timed' = [timed EXCEPT ![t] = FALSE] /\ Raise(t)
         ELSE Goto(t, "f_check") /\ UNCHANGED <<timed, wrapper>>
    /\ UNCHANGED <<handleVars, lockVars, queue, dataVars, job, reg, asked,
                   upload, flushes, misled>>

-----------------------------------------------------------------------------
(* open and release of wrappers                                            *)

\* getFileHandle() of an existing handle, up to the load of refCount
\* (line 308); cacheLock is held in between.
OpenCall(t, h) ==
    /\ pc[t] = "idle"
    /\ wrapper[h] = "closed"
    /\ h \notin FirstOpen
    /\ inDict
    /\ cacheLock = NoOne
    /\ cacheLock' = t
    /\ reg' = [reg EXCEPT ![t] = refCount]
    /\ job' = [job EXCEPT ![t] = h]
    /\ Goto(t, "o_inc")
    /\ UNCHANGED <<handleVars, fileLock, exclusive, sharers, queue, dataVars,
                   wrapper, timed, asked, upload, flushes, misled>>

OpenRef(t) ==
    /\ pc[t] = "o_inc"
    /\ refCount' = reg[t] + 1
    /\ reg' = [reg EXCEPT ![t] = 0]
    /\ wrapper' = [wrapper EXCEPT ![job[t]] = "open"]
    /\ cacheLock' = NoOne
    /\ Goto(t, "idle")
    /\ UNCHANGED <<fileModified, fullyCached, obsolete, flushQueued,
                   flushException, proxyException, readThread, fdOpen, inDict,
                   fileLock, exclusive, sharers, queue, dataVars, job, timed,
                   asked, upload, flushes, misled>>

\* VOFS.release(): FUSE calls it once, when no request uses the wrapper.
ReleaseCall(t, h) ==
    /\ \A u \in Threads : pc[u] # "idle" => job[u] # h
    /\ Begin(t, h, "r_test")
    /\ wrapper' = [wrapper EXCEPT ![h] = "closing"]
    /\ UNCHANGED <<handleVars, lockVars, queue, dataVars, reg, timed, asked,
                   upload, flushes, misled>>

\* The references release() counts in line 920 beside its own are not those of an
\* open request, which would flush later: they belong to workers that have not
\* given theirs back, to other threads in release(), or to nobody.
Misleading ==
    refCount # 1 /\ \A h \in Wrappers : wrapper[h] # "open"

\* Mutant: the last release() does not flush.
ReleaseTest_NoFlush(t) ==
    /\ pc[t] = "r_test"
    /\ IF TRUE
         THEN Goto(t, "r_deref") /\ UNCHANGED <<wrapper, timed, asked>>
         ELSE IF proxyException
                THEN Raise(t) /\ UNCHANGED <<timed, asked>>
                ELSE /\ Goto(t, "f_lock")
                     /\ timed' = [timed EXCEPT ![t] = TRUE]
                     /\ asked' = [asked EXCEPT ![t] = content]
                     /\ UNCHANGED wrapper
    /\ misled' = (misled \/ Misleading)
    /\ UNCHANGED <<handleVars, lockVars, queue, dataVars, job, reg, upload,
                   flushes>>

\* Lines 920-921 and 840-848: refCount is read without a lock.
ReleaseTest(t) ==
    /\ pc[t] = "r_test"
    /\ IF refCount # 1
         THEN Goto(t, "r_deref") /\ UNCHANGED <<wrapper, timed, asked>>
         ELSE IF proxyException
                THEN Raise(t) /\ UNCHANGED <<timed, asked>>
                ELSE /\ Goto(t, "f_lock")
                     /\ timed' = [timed EXCEPT ![t] = TRUE]
                     /\ asked' = [asked EXCEPT ![t] = content]
                     /\ UNCHANGED wrapper
    /\ misled' = (misled \/ Misleading)
    /\ UNCHANGED <<handleVars, lockVars, queue, dataVars, job, reg, upload,
                   flushes>>

\* deref(), lines 925-944: both locks are held.
Deref ==
    /\ cacheLock = NoOne
    /\ fileLock = NoOne
    /\ refCount' = refCount - 1
    /\ fdOpen' = (fdOpen /\ refCount # 1)
    /\ inDict' = (inDict /\ (refCount # 1 \/ obsolete))

ReleaseDeref(t) ==
    /\ pc[t] = "r_deref"
    /\ Deref
    /\ wrapper' = [wrapper EXCEPT ![job[t]] = "closed"]
    /\ Goto(t, "idle")
    /\ UNCHANGED <<fileModified, fullyCached, obsolete, flushQueued,
                   flushException, proxyException, readThread, lockVars, queue,
                   dataVars, job, reg, timed, asked, upload, flushes, misled>>

\* unlinkFile(), lines 386-395, and a getFileHandle() that creates the file
\* anew (lines 288-300), which takes no fileLock.
Unlink ==
    /\ Unlinking
    /\ inDict
    /\ cacheLock = NoOne
    /\ obsolete' = TRUE
    /\ inDict' = FALSE
    /\ UNCHANGED <<refCount, fileModified, fullyCached, flushQueued,
                   flushException, proxyException, readThread, fdOpen,
                   lockVars, queue, dataVars, wrapper, threadVars>>

-----------------------------------------------------------------------------
(* flushNode()                                                             *)

\* Mutant: the worker does not wait for work.
WorkerGet_NoWait(w) ==
    /\ pc[w] = "idle"
    /\ queue' = queue - 1
    /\ Goto(w, "k_start")
    /\ UNCHANGED <<handleVars, lockVars, dataVars, wrapper, job, reg, timed,
                   asked, upload, flushes, misled>>

WorkerGet(w) ==
    /\ pc[w] = "idle"
    /\ queue > 0
    /\ queue' = queue - 1
    /\ Goto(w, "k_start")
    /\ UNCHANGED <<handleVars, lockVars, dataVars, wrapper, job, reg, timed,
                   asked, upload, flushes, misled>>

\* Mutant: the writer lock stays with the thread that queued the file.
WorkerStart_NoSteal(w) ==
    /\ pc[w] = "k_start"
    /\ \/ /\ proxyException \/ exclusive = NoOne
          /\ flushException' = TRUE
          /\ UNCHANGED exclusive
          /\ Goto(w, "k_fin")
       \/ /\ ~proxyException
          /\ exclusive # NoOne
          /\ flushException' = FALSE
          /\ UNCHANGED exclusive
          /\ Goto(w, "k_copy")
    /\ UNCHANGED <<refCount, fileModified, fullyCached, obsolete, flushQueued,
                   proxyException, readThread, fdOpen, inDict, cacheLock,
                   fileLock, sharers, queue, dataVars, wrapper, job, reg,
                   timed, asked, upload, flushes, misled>>

\* Lines 961-972: with an exception in the proxy, or with no exclusive owner
\* to steal from, the worker does not get to own the writer lock.
WorkerStart(w) ==
    /\ pc[w] = "k_start"
    /\ \/ /\ proxyException \/ exclusive = NoOne
          /\ flushException' = TRUE
          /\ UNCHANGED exclusive
          /\ Goto(w, "k_fin")
       \/ /\ ~proxyException
          /\ exclusive # NoOne
          /\ flushException' = FALSE
          /\ exclusive' = w
          /\ Goto(w, "k_copy")
    /\ UNCHANGED <<refCount, fileModified, fullyCached, obsolete, flushQueued,
                   proxyException, readThread, fdOpen, inDict, cacheLock,
                   fileLock, sharers, queue, dataVars, wrapper, job, reg,
                   timed, asked, upload, flushes, misled>>

\* Lines 975-980; with the descriptor closed line 951 raises.
WorkerCopy(w) ==
    /\ pc[w] = "k_copy"
    /\ upload' = [upload EXCEPT ![w] = content]
    /\ flushException' = ~fdOpen
    /\ Goto(w, IF fdOpen THEN "k_up" ELSE "k_fin")
    /\ UNCHANGED <<refCount, fileModified, fullyCached, obsolete, flushQueued,
                   proxyException, readThread, fdOpen, inDict, lockVars, queue,
                   dataVars, wrapper, job, reg, timed, asked, flushes, misled>>

\* Mutant: a failed upload clears fileModified too.
WorkerUpload_Clean(w) ==
    /\ pc[w] = "k_up"
    /\ FastWorker \/ \A t \in Threads : pc[t] # "f_mark"
    /\ \/ /\ backing' = upload[w]
          /\ fileModified' = FALSE
          /\ UNCHANGED flushException
       \/ /\ Failing
          /\ flushException' = TRUE
          /\ fileModified' = FALSE
          /\ UNCHANGED backing
    /\ upload' = [upload EXCEPT ![w] = 0]
    /\ Goto(w, "k_fin")
    /\ UNCHANGED <<refCount, fullyCached, obsolete, flushQueued, proxyException,
                   readThread, fdOpen, inDict, lockVars, queue, content,
                   wrapper, job, reg, timed, asked, flushes, misled>>

\* Lines 981-996.
WorkerUpload(w) ==
    /\ pc[w] = "k_up"
    /\ FastWorker \/ \A t \in Threads : pc[t] # "f_mark"
    /\ \/ /\ backing' = upload[w]
          /\ fileModified' = FALSE
          /\ UNCHANGED flushException
       \/ /\ Failing
          /\ flushException' = TRUE
          /\ UNCHANGED <<backing, fileModified>>
    /\ upload' = [upload EXCEPT ![w] = 0]
    /\ Goto(w, "k_fin")
    /\ UNCHANGED <<refCount, fullyCached, obsolete, flushQueued, proxyException,
                   readThread, fdOpen, inDict, lockVars, queue, content,
                   wrapper, job, reg, timed, asked, flushes, misled>>

\* Line 998.
WorkerUnqueue(w) ==
    /\ pc[w] = "k_fin"
    /\ flushQueued' = FALSE
    /\ Goto(w, "k_rel")
    /\ UNCHANGED <<refCount, fileModified, fullyCached, obsolete,
                   flushException, proxyException, readThread, fdOpen, inDict,
                   lockVars, queue, dataVars, wrapper, job, reg, timed, asked,
                   upload, flushes, misled>>

\* Lines 999-1002: a KeyError of a release without ownership is swallowed.
WorkerRelease(w) ==
    /\ pc[w] = "k_rel"
    /\ exclusive' = IF exclusive = w THEN NoOne ELSE exclusive
    /\ Goto(w, "k_deref")
    /\ UNCHANGED <<handleVars, cacheLock, fileLock, sharers, queue, dataVars,
                   wrapper, job, reg, timed, asked, upload, flushes, misled>>

\* Line 1003; closing a closed descriptor raises, and ends the worker.
WorkerDeref(w) ==
    /\ pc[w] = "k_deref"
    /\ Deref
    /\ Goto(w, IF refCount = 1 /\ ~fdOpen THEN "dead" ELSE "k_notify")
    /\ UNCHANGED <<fileModified, fullyCached, obsolete, flushQueued,
                   flushException, proxyException, readThread, lockVars, queue,
                   dataVars, wrapper, job, reg, timed, asked, upload, flushes,
                   misled>>

\* Mutant: the waiting threads are not woken.
WorkerNotify_Silent(w) ==
    /\ pc[w] = "k_notify"
    /\ fileLock = NoOne
    /\ Goto(w, "idle")
    /\ UNCHANGED <<handleVars, lockVars, queue, dataVars, wrapper, job, reg,
                   timed, asked, upload, flushes, misled>>

\* Lines 1008-1009.
WorkerNotify(w) ==
    /\ pc[w] = "k_notify"
    /\ fileLock = NoOne
    /\ NotifyAll(w, "idle")
    /\ UNCHANGED <<handleVars, lockVars, queue, dataVars, wrapper, job, reg,
                   timed, asked, upload, flushes, misled>>

-----------------------------------------------------------------------------
Write(t) ==
    \/ WriteLock(t)
    \/ WriteCached(t)
    \/ WriteFetch(t)
    \/ WriteCheck(t)
    \/ WriteData(t)

Flush(t) ==
    \/ FlushBusy(t)
    \/ FlushPreWait(t)
    \/ FlushQueueing(t)
    \/ FlushNotQueueing(t)
    \/ FlushRef(t)
    \/ FlushExclude(t)
    \/ FlushPut(t)
    \/ FlushMark(t)
    \/ FlushCheck(t)

Close(t) == ReleaseTest(t) \/ ReleaseDeref(t)

Work(w) ==
    \/ WorkerGet(w)
    \/ WorkerStart(w)
    \/ WorkerCopy(w)
    \/ WorkerUpload(w)
    \/ WorkerUnqueue(w)
    \/ WorkerRelease(w)
    \/ WorkerDeref(w)
    \/ WorkerNotify(w)

Next ==
    \/ \E t \in Threads :
         \/ \E h \in Wrappers : \/ WriteCall(t, h)
                                \/ FlushCall(t, h)
                                \/ OpenCall(t, h)
                                \/ ReleaseCall(t, h)
         \/ Write(t)
         \/ Flush(t)
         \/ OpenRef(t)
         \/ Close(t)
         \/ WriteTimeout(t)
         \/ FlushPreTimeout(t)
         \/ FlushTimeout(t)
    \/ \E w \in Workers : Work(w)
    \/ ReadThreadEnds
    \/ Unlink

Spec == Init /\ [][Next]_vars

(***************************************************************************)
(* Threads run, transfers end (the client library has no wait without an   *)
(* end), and locks are handed to waiting threads.  Requests, timeouts and  *)
(* unlinks need not happen.                                                *)
(***************************************************************************)
Fairness ==
    /\ \A t \in Threads :
         WF_vars(Write(t)) /\ WF_vars(Flush(t)) /\ WF_vars(OpenRef(t))
           /\ WF_vars(Close(t))
    /\ \A w \in Workers : WF_vars(Work(w))
    /\ WF_vars(ReadThreadEnds)

FairSpec == Spec /\ Fairness

-----------------------------------------------------------------------------
(***************************************************************************)
(* Properties.                                                             *)
(***************************************************************************)
\* Each thread is at a place of the requests of FUSE, each worker at one of
\* flushNode().
Places ==
    /\ pc \in [Threads \cup Workers -> ThreadLabels \cup WorkerLabels]
    /\ \A t \in Threads : pc[t] \in ThreadLabels
    /\ \A w \in Workers : pc[w] \in WorkerLabels

TypeOK ==
    /\ refCount \in Int
    /\ fileModified \in BOOLEAN /\ fullyCached \in BOOLEAN /\ obsolete \in BOOLEAN
    /\ flushQueued \in BOOLEAN /\ flushException \in BOOLEAN
    /\ proxyException \in BOOLEAN /\ fdOpen \in BOOLEAN /\ inDict \in BOOLEAN
    /\ readThread \in {"none", "running", "aborted"}
    /\ cacheLock \in Threads \cup {NoOne}
    /\ fileLock \in Threads \cup {NoOne}
    /\ exclusive \in Threads \cup Workers \cup {NoOne}
    /\ sharers \subseteq Threads
    /\ queue \in Nat
    /\ content \in Nat
    /\ backing \in Nat
    /\ wrapper \in [Wrappers -> WrapperStates]
    /\ Places
    /\ job \in [Threads -> Wrappers \cup {NoOne}]
    /\ reg \in [Threads -> Int]
    /\ timed \in [Threads -> BOOLEAN]
    /\ asked \in [Threads -> Nat]
    /\ upload \in [Workers -> Nat]
    /\ flushes \in 0 .. MaxFlushes
    /\ misled \in BOOLEAN

(***************************************************************************)
(* A worker uploads the file as it is: nothing is written to it from the   *)
(* moment the worker has read its size to the end of the upload            *)
(* (CadcCache.py 878-886: the writer lock "will prevent the file from being*)
(* modified while it is being flushed").                                   *)
(***************************************************************************)
StableUpload ==
    [][content' # content => \A w \in Workers : pc[w] # "k_up"]_vars

(***************************************************************************)
(* A handle that is not marked modified has nothing VOSpace lacks: this is *)
(* what lets flush(), deref() and a later open skip the upload (line 875). *)
(***************************************************************************)
CleanMeansSaved == ~fileModified => backing = content

(***************************************************************************)
(* A flush() that returns 0 for a file not unlinked meanwhile has the      *)
(* content it was called for in VOSpace, whether this thread queued the    *)
(* upload, found one queued, or overlapped with another thread's failed    *)
(* one (lines 857-912).                                                    *)
(***************************************************************************)
FlushSaves ==
    [][\A t \in Threads :
         /\ FlushNotQueueing(t) \/ FlushCheck(t)
         /\ pc'[t] # "f_wait"
         /\ ~flushException
         /\ ~obsolete
         => backing >= asked[t]]_vars

Busy == {"k_start", "k_copy", "k_up", "k_fin", "k_rel", "k_deref"}

\* Who has a right to find the descriptor open.
Users ==
    {h \in Wrappers : wrapper[h] # "closed"} \cup {w \in Workers : pc[w] \in Busy}

(***************************************************************************)
(* The cache file is open exactly as long as a request has it open, or it  *)
(* is queued for an upload or being uploaded: references are given up as   *)
(* often as they are taken, the one of flush() (line 876) included, and    *)
(* none of them too early (deref(), lines 925-944).                        *)
(***************************************************************************)
OpenIffUsed == fdOpen <=> (Users # {} \/ queue > 0)

(***************************************************************************)
(* When the last reference goes, nothing is left only in the cache, however*)
(* many requests, uploads and closes overlap. Excepted are files that were *)
(* unlinked, and closes that line 920 misled: a release() that finds the   *)
(* reference of an upload that has ended, or of another release(), does not*)
(* flush, and what was written since that upload is lost.                  *)
(***************************************************************************)
NothingLostAtClose ==
    [][(fdOpen /\ ~fdOpen' /\ ~obsolete /\ ~misled) => backing = content]_vars

(***************************************************************************)
(* Every flush() ends: the worker tells, and the reference and the locks   *)
(* it waits for are given back (lines 850-912).                            *)
(***************************************************************************)
FlushEnds ==
    \A t \in Threads : (pc[t] = "f_lock") ~> (pc[t] \notin FlushLabels)

(***************************************************************************)
(* Every write() ends, within its timeout as lines 1020-1021 say: also one *)
(* that meets a flush(), whose writer lock the worker has to give back     *)
(* (lines 884-886).                                                        *)
(***************************************************************************)
WriteEnds ==
    \A t \in Threads : (pc[t] = "w_lock") ~> (pc[t] \notin WriteLabels)

=============================================================================
