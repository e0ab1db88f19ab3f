--------------------------- MODULE FileFlush_proofs ---------------------------
(***************************************************************************)
(* Proofs about FileFlush: its types, that a clean handle is a saved one,  *)
(* that no upload is disturbed by a write, that a flush() that returns has *)
(* saved what it was called for, and when the descriptor is closed.  They  *)
(* hold for any number of threads, workers and open requests, with         *)
(* failures, timeouts and unlinks or without them.                         *)
(*                                                                         *)
(* The heart of the argument is that the exclusive hold of writerLock is   *)
(* one token: flush() takes it, the queue stands for it, the worker steals *)
(* it (CadcCache.py 878-886, 894, 961-972), and it is somewhere as long as *)
(* an upload is to come or under way.  So no thread writes meanwhile       *)
(* (Sharing), the version the worker reads is the version of the cache     *)
(* until the upload has ended (Single, Saved), and a thread that waited    *)
(* for it has its answer when flushQueued is cleared (Locking, Answered).  *)
(***************************************************************************)
EXTENDS FileFlush, FiniteSetTheorems, TLAPS

\* Threads woken by notify_all() go to places of their own kind.
LEMMA Notified ==
  ASSUME Places, NEW p, NEW label, NotifyAll(p, label),
         p \in Threads => label \in ThreadLabels, p \in Workers => label \in WorkerLabels
  PROVE  Places'
<1> USE DEF Places, NotifyAll
<1>1. \A t \in Threads : pc'[t] \in ThreadLabels
  BY DEF ThreadLabels, FlushLabels, WriteLabels
<1>2. \A w \in Workers : pc'[w] \in WorkerLabels
  BY DEF WorkerLabels
<1>3. DOMAIN pc' = Threads \cup Workers /\ pc' = [q \in Threads \cup Workers |-> pc'[q]]
  OBVIOUS
<1> QED BY <1>1, <1>2, <1>3

\* So does a thread that goes on by itself.
LEMMA Gone ==
  ASSUME Places, NEW p \in Threads \cup Workers, NEW label, Goto(p, label),
         p \in Threads => label \in ThreadLabels, p \in Workers => label \in WorkerLabels
  PROVE  Places'
BY WrapperAssumption DEF Places, Goto

\* A thread inside write() shares writerLock, and an exclusive owner is alone
\* (line 1034).
Sharing ==
  /\ \A t \in Threads : pc[t] \in WriteLabels \ {"w_lock"} => t \in sharers
  /\ exclusive # NoOne => sharers = {}

\* A thread that is queueing the file holds fileLock (lines 850-896).
Locking ==
  \A t \in Threads : pc[t] \in {"f_inc", "f_excl", "f_put", "f_mark"} => fileLock = t

\* Who has the exclusive hold of writerLock in hand for the upload: the thread
\* about to queue it, or the worker until it has released the lock.
Hold == {t \in Threads : pc[t] = "f_put"}
   \cup {w \in Workers : \/ pc[w] \in {"k_start", "k_copy", "k_up"}
                         \/ pc[w] \in {"k_fin", "k_rel"} /\ exclusive = w}
\* The hold is one token, in the queue or in one hand, and an exclusive owner
\* exists as long as it is; a worker that could not steal it (line 964) leaves
\* it with the thread, and no other upload follows.
Single ==
  /\ queue \in {0, 1}
  /\ queue = 1 => Hold = {}
  /\ \A p, q \in Hold : p = q
  /\ queue = 1 \/ Hold # {} => exclusive # NoOne
  /\ \A w \in Workers : pc[w] \in {"k_copy", "k_up"} => exclusive = w
  /\ \A w \in Workers : exclusive = w => pc[w] \in {"k_copy", "k_up", "k_fin", "k_rel"}
  /\ \A w \in Workers : pc[w] = "k_fin" /\ exclusive # w =>
        exclusive \in Threads /\ Hold = {} /\ queue = 0
\* What the flags promise about the versions: of a clean handle, of the worker
\* that uploads, and of one that has finished (lines 975-998).
Saved ==
  /\ ~fileModified => backing = content
  /\ backing <= content
  /\ \A w \in Workers : pc[w] = "k_up" => upload[w] = content
  /\ \A w \in Workers : pc[w] = "k_fin" => flushException \/ backing = content
  /\ \A t \in Threads : asked[t] <= content
\* An upload to come is announced by flushQueued, or by the thread that queues
\* it and still holds fileLock (lines 894-895); without one, a thread waiting in
\* line 905 has its content saved, an exception to raise, or an unlinked file.
Answered ==
  /\ queue = 1 \/ (\E w \in Workers : pc[w] \in {"k_start", "k_copy", "k_up"}) =>
       flushQueued \/ fileLock # NoOne
  /\ \/ flushQueued \/ fileLock # NoOne
     \/ \A t \in Threads : pc[t] \in {"f_wait", "f_check"} =>
          asked[t] <= backing \/ flushException \/ obsolete

\* A step of one thread leaves the others where they are.
LEMMA GoneTo ==
  ASSUME Places, NEW p \in Threads \cup Workers, NEW label, Goto(p, label)
  PROVE  pc'[p] = label /\ \A q \in Threads \cup Workers : q # p => pc'[q] = pc[q]
BY DEF Places, Goto

\* How notify_all() on fileCondition moves a waiting thread.
Wakes == {<<"f_pre", "f_go">>, <<"f_wait", "f_check">>, <<"w_other", "w_again">>,
<<"w_read", "w_check">>}

\* A notify moves waiting threads of FUSE, and no worker but the caller.
LEMMA NotifiedTo ==
  ASSUME Places, NEW p, NEW label, NotifyAll(p, label)
  PROVE  /\ \A q \in Threads \cup Workers :
              IF q = p THEN pc'[q] = label
              ELSE pc'[q] = pc[q] \/ (q \in Threads /\ <<pc[q], pc'[q]>> \in Wakes)
<1>1. ASSUME NEW w \in Workers, w # p PROVE pc'[w] = pc[w]
  BY <1>1 DEF Places, NotifyAll, WorkerLabels
<1>2. ASSUME NEW t \in Threads, t # p PROVE pc'[t] = pc[t] \/ <<pc[t], pc'[t]>> \in Wakes
  BY <1>2 DEF Places, NotifyAll, Wakes
<1>3. ASSUME NEW q \in Threads \cup Workers, q = p PROVE pc'[q] = label
  BY <1>3 DEF Places, NotifyAll
<1>4. ASSUME NEW q \in Threads \cup Workers, q # p
      PROVE  pc'[q] = pc[q] \/ (q \in Threads /\ <<pc[q], pc'[q]>> \in Wakes)
  <2>1. CASE q \in Threads
    BY <1>2, <1>4, <2>1
  <2>2. CASE q \in Workers
    BY <1>1, <1>4, <2>2
  <2> QED BY <2>1, <2>2
<1> QED BY <1>3, <1>4

\* A read thread that ends wakes waiting threads of FUSE, and moves nobody else.
LEMMA ReaderWakes ==
  ASSUME Places, ReadThreadEnds
  PROVE  \A q \in Threads \cup Workers :
           pc'[q] = pc[q] \/ (q \in Threads /\ <<pc[q], pc'[q]>> \in Wakes)
<1>1. NotifyAll(NoOne, "")
  BY DEF ReadThreadEnds
<1> QED BY <1>1, NotifiedTo, WrapperAssumption

\* Each step keeps every variable in its type.
LEMMA TypeStep == TypeOK /\ [Next]_vars => TypeOK'
<1> SUFFICES ASSUME TypeOK, [Next]_vars PROVE TypeOK'
  OBVIOUS
<1> USE WrapperAssumption DEF TypeOK, handleVars, lockVars, dataVars, threadVars,
     WrapperStates
<1>1. ASSUME NEW t \in Threads, NEW h \in Wrappers, WriteCall(t, h) PROVE TypeOK'
  BY <1>1, Gone DEF WriteCall, Begin, ThreadLabels, FlushLabels, WriteLabels
<1>2. ASSUME NEW t \in Threads, NEW h \in Wrappers, FlushCall(t, h) PROVE TypeOK'
  <2>1. Places'
    BY <1>2, Gone DEF FlushCall, Begin, ThreadLabels, FlushLabels, WriteLabels
  <2>2. flushes' \in 0 .. MaxFlushes /\ job' \in [Threads -> Wrappers \cup {NoOne}]
    BY <1>2, BoundAssumption DEF FlushCall, Begin
  <2>3. timed' \in [Threads -> BOOLEAN] /\ asked' \in [Threads -> Nat]
    BY <1>2 DEF FlushCall, Begin
  <2>4. UNCHANGED <<handleVars, lockVars, queue, dataVars, wrapper, reg, upload, misled>>
    BY <1>2 DEF FlushCall, Begin
  <2> QED BY <2>1, <2>2, <2>3, <2>4
<1>3. ASSUME NEW t \in Threads, NEW h \in Wrappers, OpenCall(t, h) PROVE TypeOK'
  BY <1>3, Gone DEF OpenCall, ThreadLabels, FlushLabels, WriteLabels
<1>4. ASSUME NEW t \in Threads, NEW h \in Wrappers, ReleaseCall(t, h) PROVE TypeOK'
  BY <1>4, Gone DEF ReleaseCall, Begin, ThreadLabels, FlushLabels, WriteLabels
<1>5. ASSUME NEW t \in Threads, WriteLock(t) PROVE TypeOK'
  BY <1>5, Gone DEF WriteLock, ThreadLabels, FlushLabels, WriteLabels
<1>6. ASSUME NEW t \in Threads, WriteCached(t) PROVE TypeOK'
  BY <1>6, Gone DEF WriteCached, ThreadLabels, FlushLabels, WriteLabels
<1>7. ASSUME NEW t \in Threads, WriteFetch(t) PROVE TypeOK'
  BY <1>7, Gone DEF WriteFetch, ThreadLabels, FlushLabels, WriteLabels
<1>8. ASSUME NEW t \in Threads, WriteCheck(t) PROVE TypeOK'
  BY <1>8, Gone DEF WriteCheck, ThreadLabels, FlushLabels, WriteLabels
<1>9. ASSUME NEW t \in Threads, WriteTimeout(t) PROVE TypeOK'
  BY <1>9, Gone DEF WriteTimeout, ThreadLabels, FlushLabels, WriteLabels
<1>10. ASSUME NEW t \in Threads, WriteData(t) PROVE TypeOK'
  <2>1. Places'
    BY <1>10, Gone DEF WriteData, ThreadLabels, FlushLabels, WriteLabels
  <2>2. content' \in Nat /\ fileModified' \in BOOLEAN
    <3>1. CASE fdOpen
      BY <1>10, <3>1 DEF WriteData
    <3>2. CASE ~fdOpen
      BY <1>10, <3>2 DEF WriteData
    <3> QED BY <3>1, <3>2
  <2>3. sharers' \subseteq Threads
    BY <1>10 DEF WriteData
  <2>4. UNCHANGED <<refCount, fullyCached, obsolete, flushQueued, flushException,
                   proxyException, readThread, fdOpen, inDict, cacheLock,
                   fileLock, exclusive, queue, backing, wrapper, job, reg,
                   timed, asked, upload, flushes, misled>>
    BY <1>10 DEF WriteData
  <2> QED BY <2>1, <2>2, <2>3, <2>4
<1>11. ASSUME NEW t \in Threads, FlushBusy(t) PROVE TypeOK'
  <2>1. Places'
    BY <1>11, Gone DEF FlushBusy, Raise, ThreadLabels, FlushLabels, WriteLabels
  <2>2. wrapper' \in [Wrappers -> WrapperStates]
    BY <1>11 DEF FlushBusy, Raise
  <2> QED BY <1>11, <2>1, <2>2 DEF FlushBusy, Raise
<1>12. ASSUME NEW t \in Threads, FlushPreWait(t) PROVE TypeOK'
  BY <1>12, Gone DEF FlushPreWait, ThreadLabels, FlushLabels, WriteLabels
<1>13. ASSUME NEW t \in Threads, FlushPreTimeout(t) PROVE TypeOK'
  BY <1>13, Gone DEF FlushPreTimeout, ThreadLabels, FlushLabels, WriteLabels
<1>14. ASSUME NEW t \in Threads, FlushQueueing(t) PROVE TypeOK'
  BY <1>14, Gone DEF FlushQueueing, AbortRead, ThreadLabels, FlushLabels, WriteLabels
<1>15. ASSUME NEW t \in Threads, FlushNotQueueing(t) PROVE TypeOK'
  BY <1>15, Gone DEF FlushNotQueueing, Raise, Return, AbortRead, ThreadLabels,
       FlushLabels, WriteLabels
<1>16. ASSUME NEW t \in Threads, FlushRef(t) PROVE TypeOK'
  BY <1>16, Gone DEF FlushRef, ThreadLabels, FlushLabels, WriteLabels
<1>17. ASSUME NEW t \in Threads, FlushExclude(t) PROVE TypeOK'
  BY <1>17, Gone DEF FlushExclude, ThreadLabels, FlushLabels, WriteLabels
<1>18. ASSUME NEW t \in Threads, FlushPut(t) PROVE TypeOK'
  BY <1>18, Gone DEF FlushPut, ThreadLabels, FlushLabels, WriteLabels
<1>19. ASSUME NEW t \in Threads, FlushMark(t) PROVE TypeOK'
  BY <1>19, Gone DEF FlushMark, ThreadLabels, FlushLabels, WriteLabels
<1>20. ASSUME NEW t \in Threads, FlushCheck(t) PROVE TypeOK'
  BY <1>20, Gone DEF FlushCheck, Raise, Return, ThreadLabels, FlushLabels, WriteLabels
<1>21. ASSUME NEW t \in Threads, FlushTimeout(t) PROVE TypeOK'
  <2>1. Places'
    BY <1>21, Gone DEF FlushTimeout, Raise, ThreadLabels, FlushLabels, WriteLabels
  <2>2. wrapper' \in [Wrappers -> WrapperStates]
    BY <1>21 DEF FlushTimeout, Raise
  <2>3. timed' \in [Threads -> BOOLEAN]
    BY <1>21 DEF FlushTimeout
  <2>4. UNCHANGED <<handleVars, lockVars, queue, dataVars, job, reg, asked, upload,
       flushes, misled>>
    BY <1>21 DEF FlushTimeout
  <2> QED BY <2>1, <2>2, <2>3, <2>4
<1>22. ASSUME NEW t \in Threads, OpenRef(t) PROVE TypeOK'
  <2>1. Places'
    BY <1>22, Gone DEF OpenRef, ThreadLabels, FlushLabels, WriteLabels
  <2>2. wrapper' \in [Wrappers -> WrapperStates]
    BY <1>22 DEF OpenRef
  <2> QED BY <1>22, <2>1, <2>2 DEF OpenRef
<1>23. ASSUME NEW t \in Threads, ReleaseTest(t) PROVE TypeOK'
  <2>1. Places'
    BY <1>23, Gone DEF ReleaseTest, Raise, ThreadLabels, FlushLabels, WriteLabels
  <2>2. wrapper' \in [Wrappers -> WrapperStates]
    BY <1>23 DEF ReleaseTest, Raise
  <2>3. timed' \in [Threads -> BOOLEAN] /\ asked' \in [Threads -> Nat]
    <3>1. \/ timed' = timed /\ asked' = asked
          \/ timed' = [timed EXCEPT ![t] = TRUE] /\ asked' = [asked EXCEPT ![t] = content]
      BY <1>23 DEF ReleaseTest
    <3>2. CASE timed' = timed /\ asked' = asked
      BY <3>2
    <3>3. CASE timed' = [timed EXCEPT ![t] = TRUE] /\ asked' = [asked EXCEPT ![t] = content]
      <4>1. timed' \in [Threads -> BOOLEAN]
        BY <3>3
      <4> QED BY <3>3, <4>1
    <3> QED BY <3>1, <3>2, <3>3
  <2>4. UNCHANGED <<handleVars, lockVars, queue, dataVars, job, reg, upload, flushes>>
    BY <1>23 DEF ReleaseTest
  <2>5. misled' \in BOOLEAN
    BY <1>23 DEF ReleaseTest, Misleading
  <2> QED BY <2>1, <2>2, <2>3, <2>4, <2>5
<1>24. ASSUME NEW t \in Threads, ReleaseDeref(t) PROVE TypeOK'
  <2>1. Places'
    BY <1>24, Gone DEF ReleaseDeref, Deref, ThreadLabels, FlushLabels, WriteLabels
  <2>2. wrapper' \in [Wrappers -> WrapperStates]
    BY <1>24 DEF ReleaseDeref, Deref
  <2> QED BY <1>24, <2>1, <2>2 DEF ReleaseDeref, Deref
<1>25. ASSUME NEW w \in Workers, WorkerGet(w) PROVE TypeOK'
  BY <1>25, Gone DEF WorkerGet, WorkerLabels
<1>26. ASSUME NEW w \in Workers, WorkerStart(w) PROVE TypeOK'
  <2>1. Places'
    BY <1>26, Gone DEF WorkerStart, WorkerLabels
  <2>2. flushException' \in BOOLEAN
    BY <1>26 DEF WorkerStart
  <2>3. exclusive' \in Threads \cup Workers \cup {NoOne}
    BY <1>26 DEF WorkerStart
  <2>4. UNCHANGED <<refCount, fileModified, fullyCached, obsolete, flushQueued,
                   proxyException, readThread, fdOpen, inDict, cacheLock,
                   fileLock, sharers, queue, dataVars, wrapper, job, reg,
                   timed, asked, upload, flushes, misled>>
    BY <1>26 DEF WorkerStart
  <2> QED BY <2>1, <2>2, <2>3, <2>4
<1>27. ASSUME NEW w \in Workers, WorkerCopy(w) PROVE TypeOK'
  BY <1>27, Gone DEF WorkerCopy, WorkerLabels
<1>28. ASSUME NEW w \in Workers, WorkerUpload(w) PROVE TypeOK'
  <2>1. Places'
    BY <1>28, Gone DEF WorkerUpload, WorkerLabels
  <2>2. fileModified' \in BOOLEAN /\ flushException' \in BOOLEAN
    BY <1>28 DEF WorkerUpload
  <2>3. backing' \in Nat /\ upload' \in [Workers -> Nat]
    BY <1>28 DEF WorkerUpload
  <2>4. UNCHANGED <<refCount, fullyCached, obsolete, flushQueued, proxyException,
                   readThread, fdOpen, inDict, lockVars, queue, content,
                   wrapper, job, reg, timed, asked, flushes, misled>>
    BY <1>28 DEF WorkerUpload
  <2> QED BY <2>1, <2>2, <2>3, <2>4
<1>29. ASSUME NEW w \in Workers, WorkerUnqueue(w) PROVE TypeOK'
  <2>1. Places'
    BY <1>29, Gone DEF WorkerUnqueue, WorkerLabels
  <2>2. flushQueued' \in BOOLEAN
    BY <1>29 DEF WorkerUnqueue
  <2>3. UNCHANGED <<refCount, fileModified, fullyCached, obsolete,
                   flushException, proxyException, readThread, fdOpen, inDict,
                   lockVars, queue, dataVars, wrapper, job, reg, timed, asked,
                   upload, flushes, misled>>
    BY <1>29 DEF WorkerUnqueue
  <2> QED BY <2>3, <2>2, <2>1
<1>30. ASSUME NEW w \in Workers, WorkerRelease(w) PROVE TypeOK'
  BY <1>30, Gone DEF WorkerRelease, WorkerLabels
<1>31. ASSUME NEW w \in Workers, WorkerDeref(w) PROVE TypeOK'
  BY <1>31, Gone DEF WorkerDeref, Deref, WorkerLabels
<1>32. ASSUME NEW w \in Workers, WorkerNotify(w) PROVE TypeOK'
  BY <1>32, Notified DEF WorkerNotify, WorkerLabels
<1>33. ASSUME ReadThreadEnds PROVE TypeOK'
  <2>1. Places'
    BY <1>33, Notified DEF ReadThreadEnds, ThreadLabels, FlushLabels, WriteLabels
  <2>2. readThread' = "none" /\ fullyCached' \in BOOLEAN /\ proxyException' \in BOOLEAN
    BY <1>33 DEF ReadThreadEnds
  <2>3. UNCHANGED <<refCount, fileModified, obsolete, flushQueued,
                   flushException, fdOpen, inDict, lockVars, queue, dataVars,
                   wrapper, job, reg, timed, asked, upload, flushes, misled>>
    BY <1>33 DEF ReadThreadEnds
  <2> QED BY <2>1, <2>2, <2>3
<1>34. ASSUME Unlink PROVE TypeOK'
  <2>1. Places'
    BY <1>34 DEF Unlink, Places
  <2>2. obsolete' \in BOOLEAN /\ inDict' \in BOOLEAN
    BY <1>34 DEF Unlink
  <2>3. UNCHANGED <<refCount, fileModified, fullyCached, flushQueued, flushException,
                   proxyException, readThread, fdOpen, lockVars, queue, dataVars,
                   wrapper, job, reg, timed, asked, upload, flushes, misled>>
    BY <1>34 DEF Unlink
  <2> QED BY <2>1, <2>2, <2>3
<1>a. CASE UNCHANGED vars
  BY <1>a DEF vars, Places
<1> QED
  BY <1>a, <1>1, <1>2, <1>3, <1>4, <1>5, <1>6, <1>7, <1>8, <1>9, <1>10, <1>11, <1>12,
       <1>13, <1>14, <1>15, <1>16, <1>17, <1>18, <1>19, <1>20, <1>21, <1>22, <1>23,
            <1>24, <1>25, <1>26, <1>27, <1>28, <1>29, <1>30, <1>31, <1>32, <1>33, <1>34
     DEF Next, Write, Flush, Close, Work

\* Each step keeps writers and the exclusive owner of writerLock apart.
LEMMA SharingStep == TypeOK /\ Sharing /\ [Next]_vars => Sharing'
<1> SUFFICES ASSUME TypeOK /\ Sharing, [Next]_vars PROVE Sharing'
  OBVIOUS
<1> USE WrapperAssumption DEF TypeOK, handleVars, lockVars, dataVars, threadVars,
     Sharing, WriteLabels, Wakes
<1>1. ASSUME NEW t \in Threads, NEW h \in Wrappers, WriteCall(t, h) PROVE Sharing'
  BY <1>1, GoneTo DEF WriteCall, Begin
<1>2. ASSUME NEW t \in Threads, NEW h \in Wrappers, FlushCall(t, h) PROVE Sharing'
  BY <1>2, GoneTo DEF FlushCall, Begin
<1>3. ASSUME NEW t \in Threads, NEW h \in Wrappers, OpenCall(t, h) PROVE Sharing'
  BY <1>3, GoneTo DEF OpenCall
<1>4. ASSUME NEW t \in Threads, NEW h \in Wrappers, ReleaseCall(t, h) PROVE Sharing'
  BY <1>4, GoneTo DEF ReleaseCall, Begin
<1>5. ASSUME NEW t \in Threads, WriteLock(t) PROVE Sharing'
  BY <1>5, GoneTo DEF WriteLock
<1>6. ASSUME NEW t \in Threads, WriteCached(t) PROVE Sharing'
  BY <1>6, GoneTo DEF WriteCached
<1>7. ASSUME NEW t \in Threads, WriteFetch(t) PROVE Sharing'
  BY <1>7, GoneTo DEF WriteFetch
<1>8. ASSUME NEW t \in Threads, WriteCheck(t) PROVE Sharing'
  BY <1>8, GoneTo DEF WriteCheck
<1>9. ASSUME NEW t \in Threads, WriteTimeout(t) PROVE Sharing'
  BY <1>9, GoneTo DEF WriteTimeout
<1>10. ASSUME NEW t \in Threads, WriteData(t) PROVE Sharing'
  BY <1>10, GoneTo DEF WriteData
<1>11. ASSUME NEW t \in Threads, FlushBusy(t) PROVE Sharing'
  BY <1>11, GoneTo DEF FlushBusy, Raise
<1>12. ASSUME NEW t \in Threads, FlushPreWait(t) PROVE Sharing'
  BY <1>12, GoneTo DEF FlushPreWait
<1>13. ASSUME NEW t \in Threads, FlushPreTimeout(t) PROVE Sharing'
  BY <1>13, GoneTo DEF FlushPreTimeout
<1>14. ASSUME NEW t \in Threads, FlushQueueing(t) PROVE Sharing'
  BY <1>14, GoneTo DEF FlushQueueing, PastPreWait, MustQueue, AbortRead
<1>15. ASSUME NEW t \in Threads, FlushNotQueueing(t) PROVE Sharing'
  BY <1>15, GoneTo DEF FlushNotQueueing, PastPreWait, MustQueue, Raise, Return, AbortRead
<1>16. ASSUME NEW t \in Threads, FlushRef(t) PROVE Sharing'
  BY <1>16, GoneTo DEF FlushRef
<1>17. ASSUME NEW t \in Threads, FlushExclude(t) PROVE Sharing'
  BY <1>17, GoneTo DEF FlushExclude
<1>18. ASSUME NEW t \in Threads, FlushPut(t) PROVE Sharing'
  BY <1>18, GoneTo DEF FlushPut
<1>19. ASSUME NEW t \in Threads, FlushMark(t) PROVE Sharing'
  BY <1>19, GoneTo DEF FlushMark
<1>20. ASSUME NEW t \in Threads, FlushCheck(t) PROVE Sharing'
  BY <1>20, GoneTo DEF FlushCheck, Raise, Return
<1>21. ASSUME NEW t \in Threads, FlushTimeout(t) PROVE Sharing'
  BY <1>21, GoneTo DEF FlushTimeout, Raise
<1>22. ASSUME NEW t \in Threads, OpenRef(t) PROVE Sharing'
  BY <1>22, GoneTo DEF OpenRef
<1>23. ASSUME NEW t \in Threads, ReleaseTest(t) PROVE Sharing'
  BY <1>23, GoneTo DEF ReleaseTest, Raise
<1>24. ASSUME NEW t \in Threads, ReleaseDeref(t) PROVE Sharing'
  BY <1>24, GoneTo DEF ReleaseDeref, Deref
<1>25. ASSUME NEW w \in Workers, WorkerGet(w) PROVE Sharing'
  BY <1>25, GoneTo DEF WorkerGet
<1>26. ASSUME NEW w \in Workers, WorkerStart(w) PROVE Sharing'
  BY <1>26, GoneTo DEF WorkerStart
<1>27. ASSUME NEW w \in Workers, WorkerCopy(w) PROVE Sharing'
  BY <1>27, GoneTo DEF WorkerCopy
<1>28. ASSUME NEW w \in Workers, WorkerUpload(w) PROVE Sharing'
  BY <1>28, GoneTo DEF WorkerUpload
<1>29. ASSUME NEW w \in Workers, WorkerUnqueue(w) PROVE Sharing'
  BY <1>29, GoneTo DEF WorkerUnqueue
<1>30. ASSUME NEW w \in Workers, WorkerRelease(w) PROVE Sharing'
  BY <1>30, GoneTo DEF WorkerRelease
<1>31. ASSUME NEW w \in Workers, WorkerDeref(w) PROVE Sharing'
  BY <1>31, GoneTo DEF WorkerDeref, Deref
<1>32. ASSUME NEW w \in Workers, WorkerNotify(w) PROVE Sharing'
  BY <1>32, NotifiedTo DEF WorkerNotify
<1>33. ASSUME ReadThreadEnds PROVE Sharing'
  BY <1>33, NotifiedTo DEF ReadThreadEnds
<1>34. ASSUME Unlink PROVE Sharing'
  BY <1>34 DEF Unlink
<1>35. CASE UNCHANGED vars
  BY <1>35 DEF vars
<1> QED
  BY <1>1, <1>2, <1>3, <1>4, <1>5, <1>6, <1>7, <1>8, <1>9, <1>10, <1>11, <1>12, <1>13,
       <1>14, <1>15, <1>16, <1>17, <1>18, <1>19, <1>20, <1>21, <1>22, <1>23, <1>24,
            <1>25, <1>26, <1>27, <1>28, <1>29, <1>30, <1>31, <1>32, <1>33, <1>34, <1>35
     DEF Next, Write, Flush, Close, Work

\* Each step leaves fileLock with the thread that queues the file.
LEMMA LockingStep == TypeOK /\ Locking /\ [Next]_vars => Locking'
<1> SUFFICES ASSUME TypeOK /\ Locking, [Next]_vars PROVE Locking'
  OBVIOUS
<1> USE WrapperAssumption DEF TypeOK, handleVars, lockVars, dataVars, threadVars,
     Locking, Wakes
<1>1. ASSUME NEW t \in Threads, NEW h \in Wrappers, WriteCall(t, h) PROVE Locking'
  BY <1>1, GoneTo DEF WriteCall, Begin
<1>2. ASSUME NEW t \in Threads, NEW h \in Wrappers, FlushCall(t, h) PROVE Locking'
  BY <1>2, GoneTo DEF FlushCall, Begin
<1>3. ASSUME NEW t \in Threads, NEW h \in Wrappers, OpenCall(t, h) PROVE Locking'
  BY <1>3, GoneTo DEF OpenCall
<1>4. ASSUME NEW t \in Threads, NEW h \in Wrappers, ReleaseCall(t, h) PROVE Locking'
  BY <1>4, GoneTo DEF ReleaseCall, Begin
<1>5. ASSUME NEW t \in Threads, WriteLock(t) PROVE Locking'
  BY <1>5, GoneTo DEF WriteLock
<1>6. ASSUME NEW t \in Threads, WriteCached(t) PROVE Locking'
  BY <1>6, GoneTo DEF WriteCached
<1>7. ASSUME NEW t \in Threads, WriteFetch(t) PROVE Locking'
  BY <1>7, GoneTo DEF WriteFetch
<1>8. ASSUME NEW t \in Threads, WriteCheck(t) PROVE Locking'
  BY <1>8, GoneTo DEF WriteCheck
<1>9. ASSUME NEW t \in Threads, WriteTimeout(t) PROVE Locking'
  BY <1>9, GoneTo DEF WriteTimeout
<1>10. ASSUME NEW t \in Threads, WriteData(t) PROVE Locking'
  BY <1>10, GoneTo DEF WriteData
<1>11. ASSUME NEW t \in Threads, FlushBusy(t) PROVE Locking'
  BY <1>11, GoneTo DEF FlushBusy, Raise
<1>12. ASSUME NEW t \in Threads, FlushPreWait(t) PROVE Locking'
  BY <1>12, GoneTo DEF FlushPreWait
<1>13. ASSUME NEW t \in Threads, FlushPreTimeout(t) PROVE Locking'
  BY <1>13, GoneTo DEF FlushPreTimeout
<1>14. ASSUME NEW t \in Threads, FlushQueueing(t) PROVE Locking'
  BY <1>14, GoneTo DEF FlushQueueing, PastPreWait, MustQueue, AbortRead
<1>15. ASSUME NEW t \in Threads, FlushNotQueueing(t) PROVE Locking'
  BY <1>15, GoneTo DEF FlushNotQueueing, PastPreWait, MustQueue, Raise, Return, AbortRead
<1>16. ASSUME NEW t \in Threads, FlushRef(t) PROVE Locking'
  BY <1>16, GoneTo DEF FlushRef
<1>17. ASSUME NEW t \in Threads, FlushExclude(t) PROVE Locking'
  BY <1>17, GoneTo DEF FlushExclude
<1>18. ASSUME NEW t \in Threads, FlushPut(t) PROVE Locking'
  BY <1>18, GoneTo DEF FlushPut
<1>19. ASSUME NEW t \in Threads, FlushMark(t) PROVE Locking'
  BY <1>19, GoneTo DEF FlushMark
<1>20. ASSUME NEW t \in Threads, FlushCheck(t) PROVE Locking'
  BY <1>20, GoneTo DEF FlushCheck, Raise, Return
<1>21. ASSUME NEW t \in Threads, FlushTimeout(t) PROVE Locking'
  BY <1>21, GoneTo DEF FlushTimeout, Raise
<1>22. ASSUME NEW t \in Threads, OpenRef(t) PROVE Locking'
  BY <1>22, GoneTo DEF OpenRef
<1>23. ASSUME NEW t \in Threads, ReleaseTest(t) PROVE Locking'
  BY <1>23, GoneTo DEF ReleaseTest, Raise
<1>24. ASSUME NEW t \in Threads, ReleaseDeref(t) PROVE Locking'
  BY <1>24, GoneTo DEF ReleaseDeref, Deref
<1>25. ASSUME NEW w \in Workers, WorkerGet(w) PROVE Locking'
  BY <1>25, GoneTo DEF WorkerGet
<1>26. ASSUME NEW w \in Workers, WorkerStart(w) PROVE Locking'
  BY <1>26, GoneTo DEF WorkerStart
<1>27. ASSUME NEW w \in Workers, WorkerCopy(w) PROVE Locking'
  BY <1>27, GoneTo DEF WorkerCopy
<1>28. ASSUME NEW w \in Workers, WorkerUpload(w) PROVE Locking'
  BY <1>28, GoneTo DEF WorkerUpload
<1>29. ASSUME NEW w \in Workers, WorkerUnqueue(w) PROVE Locking'
  BY <1>29, GoneTo DEF WorkerUnqueue
<1>30. ASSUME NEW w \in Workers, WorkerRelease(w) PROVE Locking'
  BY <1>30, GoneTo DEF WorkerRelease
<1>31. ASSUME NEW w \in Workers, WorkerDeref(w) PROVE Locking'
  BY <1>31, GoneTo DEF WorkerDeref, Deref
<1>32. ASSUME NEW w \in Workers, WorkerNotify(w) PROVE Locking'
  BY <1>32, NotifiedTo DEF WorkerNotify
<1>33. ASSUME ReadThreadEnds PROVE Locking'
  BY <1>33, NotifiedTo DEF ReadThreadEnds
<1>34. ASSUME Unlink PROVE Locking'
  BY <1>34 DEF Unlink
<1>35. CASE UNCHANGED vars
  BY <1>35 DEF vars
<1> QED
  BY <1>1, <1>2, <1>3, <1>4, <1>5, <1>6, <1>7, <1>8, <1>9, <1>10, <1>11, <1>12, <1>13,
       <1>14, <1>15, <1>16, <1>17, <1>18, <1>19, <1>20, <1>21, <1>22, <1>23, <1>24,
            <1>25, <1>26, <1>27, <1>28, <1>29, <1>30, <1>31, <1>32, <1>33, <1>34, <1>35
     DEF Next, Write, Flush, Close, Work

\* Each step hands the exclusive hold on, and never to two.
LEMMA SingleStep == TypeOK /\ Single /\ [Next]_vars => Single'
<1> SUFFICES ASSUME TypeOK /\ Single, [Next]_vars PROVE Single'
  OBVIOUS
<1> USE WrapperAssumption DEF TypeOK, handleVars, lockVars, dataVars, threadVars, Single,
     Hold, Wakes
<1>1. ASSUME NEW t \in Threads, NEW h \in Wrappers, WriteCall(t, h) PROVE Single'
  BY <1>1, GoneTo DEF WriteCall, Begin
<1>2. ASSUME NEW t \in Threads, NEW h \in Wrappers, FlushCall(t, h) PROVE Single'
  BY <1>2, GoneTo DEF FlushCall, Begin
<1>3. ASSUME NEW t \in Threads, NEW h \in Wrappers, OpenCall(t, h) PROVE Single'
  BY <1>3, GoneTo DEF OpenCall
<1>4. ASSUME NEW t \in Threads, NEW h \in Wrappers, ReleaseCall(t, h) PROVE Single'
  BY <1>4, GoneTo DEF ReleaseCall, Begin
<1>5. ASSUME NEW t \in Threads, WriteLock(t) PROVE Single'
  BY <1>5, GoneTo DEF WriteLock
<1>6. ASSUME NEW t \in Threads, WriteCached(t) PROVE Single'
  BY <1>6, GoneTo DEF WriteCached
<1>7. ASSUME NEW t \in Threads, WriteFetch(t) PROVE Single'
  BY <1>7, GoneTo DEF WriteFetch
<1>8. ASSUME NEW t \in Threads, WriteCheck(t) PROVE Single'
  BY <1>8, GoneTo DEF WriteCheck
<1>9. ASSUME NEW t \in Threads, WriteTimeout(t) PROVE Single'
  BY <1>9, GoneTo DEF WriteTimeout
<1>10. ASSUME NEW t \in Threads, WriteData(t) PROVE Single'
  BY <1>10, GoneTo DEF WriteData
<1>11. ASSUME NEW t \in Threads, FlushBusy(t) PROVE Single'
  BY <1>11, GoneTo DEF FlushBusy, Raise
<1>12. ASSUME NEW t \in Threads, FlushPreWait(t) PROVE Single'
  BY <1>12, GoneTo DEF FlushPreWait
<1>13. ASSUME NEW t \in Threads, FlushPreTimeout(t) PROVE Single'
  BY <1>13, GoneTo DEF FlushPreTimeout
<1>14. ASSUME NEW t \in Threads, FlushQueueing(t) PROVE Single'
  BY <1>14, GoneTo DEF FlushQueueing, PastPreWait, MustQueue, AbortRead
<1>15. ASSUME NEW t \in Threads, FlushNotQueueing(t) PROVE Single'
  BY <1>15, GoneTo DEF FlushNotQueueing, PastPreWait, MustQueue, Raise, Return, AbortRead
<1>16. ASSUME NEW t \in Threads, FlushRef(t) PROVE Single'
  BY <1>16, GoneTo DEF FlushRef
<1>17. ASSUME NEW t \in Threads, FlushExclude(t) PROVE Single'
  BY <1>17, GoneTo DEF FlushExclude
<1>18. ASSUME NEW t \in Threads, FlushPut(t) PROVE Single'
  BY <1>18, GoneTo DEF FlushPut
<1>19. ASSUME NEW t \in Threads, FlushMark(t) PROVE Single'
  BY <1>19, GoneTo DEF FlushMark
<1>20. ASSUME NEW t \in Threads, FlushCheck(t) PROVE Single'
  BY <1>20, GoneTo DEF FlushCheck, Raise, Return
<1>21. ASSUME NEW t \in Threads, FlushTimeout(t) PROVE Single'
  BY <1>21, GoneTo DEF FlushTimeout, Raise
<1>22. ASSUME NEW t \in Threads, OpenRef(t) PROVE Single'
  BY <1>22, GoneTo DEF OpenRef
<1>23. ASSUME NEW t \in Threads, ReleaseTest(t) PROVE Single'
  BY <1>23, GoneTo DEF ReleaseTest, Raise
<1>24. ASSUME NEW t \in Threads, ReleaseDeref(t) PROVE Single'
  BY <1>24, GoneTo DEF ReleaseDeref, Deref
<1>25. ASSUME NEW w \in Workers, WorkerGet(w) PROVE Single'
  BY <1>25, GoneTo DEF WorkerGet
<1>26. ASSUME NEW w \in Workers, WorkerStart(w) PROVE Single'
  BY <1>26, GoneTo DEF WorkerStart
<1>27. ASSUME NEW w \in Workers, WorkerCopy(w) PROVE Single'
  BY <1>27, GoneTo DEF WorkerCopy
<1>28. ASSUME NEW w \in Workers, WorkerUpload(w) PROVE Single'
  BY <1>28, GoneTo DEF WorkerUpload
<1>29. ASSUME NEW w \in Workers, WorkerUnqueue(w) PROVE Single'
  BY <1>29, GoneTo DEF WorkerUnqueue
<1>30. ASSUME NEW w \in Workers, WorkerRelease(w) PROVE Single'
  BY <1>30, GoneTo DEF WorkerRelease
<1>31. ASSUME NEW w \in Workers, WorkerDeref(w) PROVE Single'
  BY <1>31, GoneTo DEF WorkerDeref, Deref
<1>32. ASSUME NEW w \in Workers, WorkerNotify(w) PROVE Single'
  BY <1>32, NotifiedTo DEF WorkerNotify
<1>33. ASSUME ReadThreadEnds PROVE Single'
  <2>1. \A q \in Threads \cup Workers :
            pc'[q] = pc[q] \/ (q \in Threads /\ <<pc[q], pc'[q]>> \in Wakes)
    BY <1>33, ReaderWakes
  <2>2. /\ \A w \in Workers : pc'[w] = pc[w]
        /\ \A t \in Threads : pc'[t] = "f_put" <=> pc[t] = "f_put"
    BY <2>1
  <2>3. UNCHANGED <<exclusive, queue>>
    BY <1>33 DEF ReadThreadEnds
  <2>4. Hold' = Hold
    BY <2>2, <2>3
  <2> HIDE DEF Hold
  <2> QED BY <2>2, <2>3, <2>4
<1>34. ASSUME Unlink PROVE Single'
  BY <1>34 DEF Unlink
<1>35. CASE UNCHANGED vars
  BY <1>35 DEF vars
<1> QED
  BY <1>1, <1>2, <1>3, <1>4, <1>5, <1>6, <1>7, <1>8, <1>9, <1>10, <1>11, <1>12, <1>13,
       <1>14, <1>15, <1>16, <1>17, <1>18, <1>19, <1>20, <1>21, <1>22, <1>23, <1>24,
            <1>25, <1>26, <1>27, <1>28, <1>29, <1>30, <1>31, <1>32, <1>33, <1>34, <1>35
     DEF Next, Write, Flush, Close, Work

\* Each step keeps the promises of fileModified, of an upload and of its end;
\* a write, which would break them, needs the lock the worker holds.
LEMMA SavedStep == TypeOK /\ Sharing /\ Single /\ Saved /\ [Next]_vars => Saved'
<1> SUFFICES ASSUME TypeOK /\ Sharing /\ Single /\ Saved, [Next]_vars PROVE Saved'
  OBVIOUS
<1> USE WrapperAssumption DEF TypeOK, handleVars, lockVars, dataVars, threadVars, Saved,
     Wakes
<1>1. ASSUME NEW t \in Threads, NEW h \in Wrappers, WriteCall(t, h) PROVE Saved'
  BY <1>1, GoneTo DEF WriteCall, Begin
<1>2. ASSUME NEW t \in Threads, NEW h \in Wrappers, FlushCall(t, h) PROVE Saved'
  BY <1>2, GoneTo DEF FlushCall, Begin
<1>3. ASSUME NEW t \in Threads, NEW h \in Wrappers, OpenCall(t, h) PROVE Saved'
  BY <1>3, GoneTo DEF OpenCall
<1>4. ASSUME NEW t \in Threads, NEW h \in Wrappers, ReleaseCall(t, h) PROVE Saved'
  BY <1>4, GoneTo DEF ReleaseCall, Begin
<1>5. ASSUME NEW t \in Threads, WriteLock(t) PROVE Saved'
  BY <1>5, GoneTo DEF WriteLock
<1>6. ASSUME NEW t \in Threads, WriteCached(t) PROVE Saved'
  BY <1>6, GoneTo DEF WriteCached
<1>7. ASSUME NEW t \in Threads, WriteFetch(t) PROVE Saved'
  BY <1>7, GoneTo DEF WriteFetch
<1>8. ASSUME NEW t \in Threads, WriteCheck(t) PROVE Saved'
  BY <1>8, GoneTo DEF WriteCheck
<1>9. ASSUME NEW t \in Threads, WriteTimeout(t) PROVE Saved'
  BY <1>9, GoneTo DEF WriteTimeout
<1>10. ASSUME NEW t \in Threads, WriteData(t) PROVE Saved'
  <2>1. exclusive = NoOne
    BY <1>10 DEF WriteData, Sharing, WriteLabels
  <2>2. \A w \in Workers : pc[w] # "k_up" /\ pc[w] # "k_fin"
    BY <2>1 DEF Single
  <2> QED BY <1>10, <2>2, GoneTo DEF WriteData
<1>11. ASSUME NEW t \in Threads, FlushBusy(t) PROVE Saved'
  BY <1>11, GoneTo DEF FlushBusy, Raise
<1>12. ASSUME NEW t \in Threads, FlushPreWait(t) PROVE Saved'
  BY <1>12, GoneTo DEF FlushPreWait
<1>13. ASSUME NEW t \in Threads, FlushPreTimeout(t) PROVE Saved'
  BY <1>13, GoneTo DEF FlushPreTimeout
<1>14. ASSUME NEW t \in Threads, FlushQueueing(t) PROVE Saved'
  BY <1>14, GoneTo DEF FlushQueueing, PastPreWait, MustQueue, AbortRead
<1>15. ASSUME NEW t \in Threads, FlushNotQueueing(t) PROVE Saved'
  BY <1>15, GoneTo DEF FlushNotQueueing, PastPreWait, MustQueue, Raise, Return, AbortRead
<1>16. ASSUME NEW t \in Threads, FlushRef(t) PROVE Saved'
  BY <1>16, GoneTo DEF FlushRef
<1>17. ASSUME NEW t \in Threads, FlushExclude(t) PROVE Saved'
  BY <1>17, GoneTo DEF FlushExclude
<1>18. ASSUME NEW t \in Threads, FlushPut(t) PROVE Saved'
  BY <1>18, GoneTo DEF FlushPut
<1>19. ASSUME NEW t \in Threads, FlushMark(t) PROVE Saved'
  BY <1>19, GoneTo DEF FlushMark
<1>20. ASSUME NEW t \in Threads, FlushCheck(t) PROVE Saved'
  BY <1>20, GoneTo DEF FlushCheck, Raise, Return
<1>21. ASSUME NEW t \in Threads, FlushTimeout(t) PROVE Saved'
  BY <1>21, GoneTo DEF FlushTimeout, Raise
<1>22. ASSUME NEW t \in Threads, OpenRef(t) PROVE Saved'
  BY <1>22, GoneTo DEF OpenRef
<1>23. ASSUME NEW t \in Threads, ReleaseTest(t) PROVE Saved'
  BY <1>23, GoneTo DEF ReleaseTest, Raise
<1>24. ASSUME NEW t \in Threads, ReleaseDeref(t) PROVE Saved'
  BY <1>24, GoneTo DEF ReleaseDeref, Deref
<1>25. ASSUME NEW w \in Workers, WorkerGet(w) PROVE Saved'
  BY <1>25, GoneTo DEF WorkerGet
<1>26. ASSUME NEW w \in Workers, WorkerStart(w) PROVE Saved'
  <2>1. w \in Hold
    BY <1>26 DEF WorkerStart, Hold
  <2>2. \A v \in Workers : pc[v] # "k_fin"
    BY <1>26, <2>1 DEF WorkerStart, Single, Hold
  <2> QED BY <1>26, <2>2, GoneTo DEF WorkerStart
<1>27. ASSUME NEW w \in Workers, WorkerCopy(w) PROVE Saved'
  <2>1. w \in Hold
    BY <1>27 DEF WorkerCopy, Hold
  <2>2. \A v \in Workers : pc[v] # "k_fin"
    BY <1>27, <2>1 DEF WorkerCopy, Single, Hold
  <2> QED BY <1>27, <2>2, GoneTo DEF WorkerCopy
<1>28. ASSUME NEW w \in Workers, WorkerUpload(w) PROVE Saved'
  BY <1>28, GoneTo DEF WorkerUpload
<1>29. ASSUME NEW w \in Workers, WorkerUnqueue(w) PROVE Saved'
  BY <1>29, GoneTo DEF WorkerUnqueue
<1>30. ASSUME NEW w \in Workers, WorkerRelease(w) PROVE Saved'
  BY <1>30, GoneTo DEF WorkerRelease
<1>31. ASSUME NEW w \in Workers, WorkerDeref(w) PROVE Saved'
  BY <1>31, GoneTo DEF WorkerDeref, Deref
<1>32. ASSUME NEW w \in Workers, WorkerNotify(w) PROVE Saved'
  BY <1>32, NotifiedTo DEF WorkerNotify
<1>33. ASSUME ReadThreadEnds PROVE Saved'
  <2>1. \A q \in Threads \cup Workers :
            pc'[q] = pc[q] \/ (q \in Threads /\ <<pc[q], pc'[q]>> \in Wakes)
    BY <1>33, NotifiedTo DEF ReadThreadEnds
  <2>2. \A w \in Workers : pc'[w] = pc[w]
    BY <2>1
  <2>3. UNCHANGED <<fileModified, content, backing, upload, flushException, asked>>
    BY <1>33 DEF ReadThreadEnds
  <2> QED BY <2>2, <2>3
<1>34. ASSUME Unlink PROVE Saved'
  BY <1>34 DEF Unlink
<1>35. CASE UNCHANGED vars
  BY <1>35 DEF vars
<1> QED
  BY <1>1, <1>2, <1>3, <1>4, <1>5, <1>6, <1>7, <1>8, <1>9, <1>10, <1>11, <1>12, <1>13,
       <1>14, <1>15, <1>16, <1>17, <1>18, <1>19, <1>20, <1>21, <1>22, <1>23, <1>24,
            <1>25, <1>26, <1>27, <1>28, <1>29, <1>30, <1>31, <1>32, <1>33, <1>34, <1>35
     DEF Next, Write, Flush, Close, Work

\* Each step answers the waiting threads before it clears flushQueued.
LEMMA AnsweredStep ==
  TypeOK /\ Locking /\ Single /\ Saved /\ Answered /\ [Next]_vars => Answered'
<1> SUFFICES ASSUME TypeOK /\ Locking /\ Single /\ Saved /\ Answered,
     [Next]_vars PROVE Answered'
  OBVIOUS
<1> USE WrapperAssumption DEF TypeOK, handleVars, lockVars, dataVars, threadVars,
     Answered, Wakes
<1>1. ASSUME NEW t \in Threads, NEW h \in Wrappers, WriteCall(t, h) PROVE Answered'
  BY <1>1, GoneTo DEF WriteCall, Begin
<1>2. ASSUME NEW t \in Threads, NEW h \in Wrappers, FlushCall(t, h) PROVE Answered'
  BY <1>2, GoneTo DEF FlushCall, Begin
<1>3. ASSUME NEW t \in Threads, NEW h \in Wrappers, OpenCall(t, h) PROVE Answered'
  BY <1>3, GoneTo DEF OpenCall
<1>4. ASSUME NEW t \in Threads, NEW h \in Wrappers, ReleaseCall(t, h) PROVE Answered'
  BY <1>4, GoneTo DEF ReleaseCall, Begin
<1>5. ASSUME NEW t \in Threads, WriteLock(t) PROVE Answered'
  BY <1>5, GoneTo DEF WriteLock
<1>6. ASSUME NEW t \in Threads, WriteCached(t) PROVE Answered'
  BY <1>6, GoneTo DEF WriteCached
<1>7. ASSUME NEW t \in Threads, WriteFetch(t) PROVE Answered'
  BY <1>7, GoneTo DEF WriteFetch
<1>8. ASSUME NEW t \in Threads, WriteCheck(t) PROVE Answered'
  BY <1>8, GoneTo DEF WriteCheck
<1>9. ASSUME NEW t \in Threads, WriteTimeout(t) PROVE Answered'
  BY <1>9, GoneTo DEF WriteTimeout
<1>10. ASSUME NEW t \in Threads, WriteData(t) PROVE Answered'
  BY <1>10, GoneTo DEF WriteData
<1>11. ASSUME NEW t \in Threads, FlushBusy(t) PROVE Answered'
  BY <1>11, GoneTo DEF FlushBusy, Raise
<1>12. ASSUME NEW t \in Threads, FlushPreWait(t) PROVE Answered'
  BY <1>12, GoneTo DEF FlushPreWait
<1>13. ASSUME NEW t \in Threads, FlushPreTimeout(t) PROVE Answered'
  BY <1>13, GoneTo DEF FlushPreTimeout
<1>14. ASSUME NEW t \in Threads, FlushQueueing(t) PROVE Answered'
  BY <1>14, GoneTo DEF FlushQueueing, PastPreWait, MustQueue, AbortRead
<1>15. ASSUME NEW t \in Threads, FlushNotQueueing(t) PROVE Answered'
  <2>1. flushQueued \/ asked[t] <= backing \/ obsolete
    BY <1>15 DEF FlushNotQueueing, MustQueue, Saved
  <2>2. UNCHANGED <<flushQueued, fileLock, queue, asked, backing, flushException, obsolete>>
    BY <1>15 DEF FlushNotQueueing
  <2>3. \A q \in Threads \cup Workers : q # t => pc'[q] = pc[q]
    BY <1>15, GoneTo DEF FlushNotQueueing, Raise, Return
  <2> QED BY <2>1, <2>2, <2>3
<1>16. ASSUME NEW t \in Threads, FlushRef(t) PROVE Answered'
  BY <1>16, GoneTo DEF FlushRef
<1>17. ASSUME NEW t \in Threads, FlushExclude(t) PROVE Answered'
  BY <1>17, GoneTo DEF FlushExclude
<1>18. ASSUME NEW t \in Threads, FlushPut(t) PROVE Answered'
  BY <1>18, GoneTo DEF FlushPut, Locking
<1>19. ASSUME NEW t \in Threads, FlushMark(t) PROVE Answered'
  BY <1>19, GoneTo DEF FlushMark
<1>20. ASSUME NEW t \in Threads, FlushCheck(t) PROVE Answered'
  BY <1>20, GoneTo DEF FlushCheck, Raise, Return
<1>21. ASSUME NEW t \in Threads, FlushTimeout(t) PROVE Answered'
  BY <1>21, GoneTo DEF FlushTimeout, Raise
<1>22. ASSUME NEW t \in Threads, OpenRef(t) PROVE Answered'
  BY <1>22, GoneTo DEF OpenRef
<1>23. ASSUME NEW t \in Threads, ReleaseTest(t) PROVE Answered'
  BY <1>23, GoneTo DEF ReleaseTest, Raise
<1>24. ASSUME NEW t \in Threads, ReleaseDeref(t) PROVE Answered'
  BY <1>24, GoneTo DEF ReleaseDeref, Deref
<1>25. ASSUME NEW w \in Workers, WorkerGet(w) PROVE Answered'
  BY <1>25, GoneTo DEF WorkerGet, Single
<1>26. ASSUME NEW w \in Workers, WorkerStart(w) PROVE Answered'
  BY <1>26, GoneTo DEF WorkerStart
<1>27. ASSUME NEW w \in Workers, WorkerCopy(w) PROVE Answered'
  BY <1>27, GoneTo DEF WorkerCopy
<1>28. ASSUME NEW w \in Workers, WorkerUpload(w) PROVE Answered'
  BY <1>28, GoneTo DEF WorkerUpload
<1>29. ASSUME NEW w \in Workers, WorkerUnqueue(w) PROVE Answered'
  <2>1. \A v \in Workers : pc[v] \notin {"k_start", "k_copy", "k_up"}
    BY <1>29 DEF WorkerUnqueue, Single, Hold
  <2>2. queue # 1
    BY <1>29 DEF WorkerUnqueue, Single, Hold
  <2>3. \A u \in Threads : asked[u] <= backing \/ flushException
    BY <1>29 DEF WorkerUnqueue, Saved
  <2>4. /\ pc'[w] = "k_rel" /\ \A v \in Workers : v # w => pc'[v] = pc[v]
    BY <1>29, GoneTo DEF WorkerUnqueue
  <2>5. UNCHANGED <<queue, asked, backing, flushException>>
    BY <1>29 DEF WorkerUnqueue
  <2> QED BY <2>1, <2>2, <2>3, <2>4, <2>5
<1>30. ASSUME NEW w \in Workers, WorkerRelease(w) PROVE Answered'
  BY <1>30, GoneTo DEF WorkerRelease
<1>31. ASSUME NEW w \in Workers, WorkerDeref(w) PROVE Answered'
  BY <1>31, GoneTo DEF WorkerDeref, Deref
<1>32. ASSUME NEW w \in Workers, WorkerNotify(w) PROVE Answered'
  BY <1>32, NotifiedTo DEF WorkerNotify
<1>33. ASSUME ReadThreadEnds PROVE Answered'
  <2>1. \A q \in Threads \cup Workers :
            pc'[q] = pc[q] \/ (q \in Threads /\ <<pc[q], pc'[q]>> \in Wakes)
    BY <1>33, ReaderWakes
  <2>2. /\ \A w \in Workers : pc'[w] = pc[w]
        /\ \A t \in Threads :
             pc'[t] \in {"f_wait", "f_check"} => pc[t] \in {"f_wait", "f_check"}
    BY <2>1
  <2>3. UNCHANGED <<flushQueued, fileLock, queue, asked, backing, flushException, obsolete>>
    BY <1>33 DEF ReadThreadEnds
  <2> QED BY <2>2, <2>3
<1>34. ASSUME Unlink PROVE Answered'
  BY <1>34 DEF Unlink
<1>35. CASE UNCHANGED vars
  BY <1>35 DEF vars
<1> QED
  BY <1>1, <1>2, <1>3, <1>4, <1>5, <1>6, <1>7, <1>8, <1>9, <1>10, <1>11, <1>12, <1>13,
       <1>14, <1>15, <1>16, <1>17, <1>18, <1>19, <1>20, <1>21, <1>22, <1>23, <1>24,
            <1>25, <1>26, <1>27, <1>28, <1>29, <1>30, <1>31, <1>32, <1>33, <1>34, <1>35
     DEF Next, Write, Flush, Close, Work

-----------------------------------------------------------------------------
\* The inductive invariant.
IInv == TypeOK /\ Sharing /\ Locking /\ Single /\ Saved /\ Answered

\* The initial state satisfies it.
LEMMA InitIInv == Init => IInv
<1> SUFFICES ASSUME Init PROVE IInv
  OBVIOUS
<1> USE WrapperAssumption, BoundAssumption, SwitchAssumption DEF Init
<1>1. TypeOK
  <2>1. refCount \in Int
    BY FS_Subset, FS_CardinalityType
  <2>2. Places
    BY DEF Places, ThreadLabels, WorkerLabels
  <2>3. wrapper \in [Wrappers -> WrapperStates]
    BY DEF WrapperStates
  <2>4. /\ job \in [Threads -> Wrappers \cup {NoOne}]
        /\ reg \in [Threads -> Int]
        /\ timed \in [Threads -> BOOLEAN]
        /\ asked \in [Threads -> Nat]
        /\ upload \in [Workers -> Nat]
    OBVIOUS
  <2>5. /\ fileModified \in BOOLEAN /\ obsolete \in BOOLEAN
        /\ flushQueued \in BOOLEAN /\ flushException \in BOOLEAN
        /\ proxyException \in BOOLEAN /\ fdOpen \in BOOLEAN /\ inDict \in BOOLEAN
        /\ misled \in BOOLEAN
    OBVIOUS
  <2>6. fullyCached \in BOOLEAN
    BY Zenon
  <2>7. /\ readThread \in {"none", "running", "aborted"}
        /\ cacheLock \in Threads \cup {NoOne} /\ fileLock \in Threads \cup {NoOne}
        /\ exclusive \in Threads \cup Workers \cup {NoOne}
        /\ sharers \subseteq Threads
        /\ queue \in Nat /\ content \in Nat /\ backing \in Nat
        /\ flushes \in 0 .. MaxFlushes
    OBVIOUS
  <2> HIDE DEF Init
  <2> QED BY <2>1, <2>2, <2>3, <2>4, <2>5, <2>6, <2>7, Zenon DEF TypeOK
<1>2. Sharing /\ Locking
  BY DEF Sharing, Locking, WriteLabels
<1>3. Single
  BY DEF Single, Hold
<1>4. Saved /\ Answered
  BY DEF Saved, Answered
<1> QED BY <1>1, <1>2, <1>3, <1>4 DEF IInv

\* So does what a step makes of a state that satisfies it.
LEMMA IInvStep == IInv /\ [Next]_vars => IInv'
BY TypeStep, SharingStep, LockingStep, SingleStep, SavedStep, AnsweredStep DEF IInv

\* The inductive invariant holds in every state of the flush protocol.
THEOREM Invariance == Spec => []IInv
BY InitIInv, IInvStep, PTL DEF Spec

\* Every variable of a file handle keeps its type, refCount included: it is an
\* integer whatever the two halves of its increments do (lines 308, 876).
THEOREM TypeCorrect == Spec => []TypeOK
<1>1. IInv => TypeOK
  BY DEF IInv
<1> QED BY <1>1, Invariance, PTL

\* A handle whose fileModified is false has nothing that VOSpace lacks, so
\* flush() may skip the upload (line 875).
THEOREM CleanIsSaved == Spec => []CleanMeansSaved
<1>1. IInv => CleanMeansSaved
  BY DEF IInv, Saved, CleanMeansSaved
<1> QED BY <1>1, Invariance, PTL

\* Only write() changes the cached content (line 1054).
LEMMA OnlyWritesChange ==
  ASSUME [Next]_vars, content' # content
  PROVE  \E t \in Threads : WriteData(t)
<1> SUFFICES ASSUME \A t \in Threads : ~WriteData(t) PROVE FALSE
  OBVIOUS
<1> USE DEF dataVars
<1>1. ASSUME NEW t \in Threads, NEW h \in Wrappers,
             \/ WriteCall(t, h) \/ FlushCall(t, h)
             \/ OpenCall(t, h) \/ ReleaseCall(t, h)
      PROVE  FALSE
  BY <1>1 DEF WriteCall, FlushCall, OpenCall, ReleaseCall
<1>2. ASSUME NEW t \in Threads, Write(t) PROVE FALSE
  BY <1>2 DEF Write, WriteLock, WriteCached, WriteFetch, WriteCheck
<1>3. ASSUME NEW t \in Threads, Flush(t) PROVE FALSE
  <2>1. CASE FlushBusy(t) \/ FlushPreWait(t) \/ FlushQueueing(t) \/ FlushNotQueueing(t)
    BY <2>1 DEF FlushBusy, FlushPreWait, FlushQueueing, FlushNotQueueing
  <2>2. CASE FlushRef(t) \/ FlushExclude(t) \/ FlushPut(t) \/ FlushMark(t) \/ FlushCheck(t)
    BY <2>2 DEF FlushRef, FlushExclude, FlushPut, FlushMark, FlushCheck
  <2> QED BY <1>3, <2>1, <2>2 DEF Flush
<1>4. ASSUME NEW t \in Threads,
             \/ OpenRef(t) \/ Close(t) \/ WriteTimeout(t)
             \/ FlushPreTimeout(t) \/ FlushTimeout(t)
      PROVE  FALSE
  BY <1>4 DEF OpenRef, Close, ReleaseTest, ReleaseDeref, WriteTimeout, FlushPreTimeout,
     FlushTimeout
<1>5. ASSUME NEW w \in Workers, Work(w) PROVE FALSE
  <2>1. CASE WorkerGet(w) \/ WorkerStart(w) \/ WorkerCopy(w) \/ WorkerUpload(w)
    BY <2>1 DEF WorkerGet, WorkerStart, WorkerCopy, WorkerUpload
  <2>2. CASE WorkerUnqueue(w) \/ WorkerRelease(w) \/ WorkerDeref(w) \/ WorkerNotify(w)
    BY <2>2 DEF WorkerUnqueue, WorkerRelease, WorkerDeref, WorkerNotify
  <2> QED BY <1>5, <2>1, <2>2 DEF Work
<1>6. CASE ReadThreadEnds \/ Unlink
  BY <1>6 DEF ReadThreadEnds, Unlink
<1>7. CASE UNCHANGED vars
  BY <1>7 DEF vars
<1> QED BY <1>1, <1>2, <1>3, <1>4, <1>5, <1>6, <1>7 DEF Next

\* No thread writes to the file while a worker uploads it, because the worker
\* has the writer lock flush() took (lines 878-886, 961-996).
THEOREM UploadsAreStable == Spec => StableUpload
<1>1. IInv /\ [Next]_vars =>
        [content' # content => \A w \in Workers : pc[w] # "k_up"]_vars
  <2> SUFFICES ASSUME IInv, [Next]_vars, content' # content, NEW w \in Workers
               PROVE  pc[w] # "k_up"
    OBVIOUS
  <2>1. PICK t \in Threads : WriteData(t)
    BY OnlyWritesChange
  <2>2. exclusive = NoOne
    BY <2>1 DEF IInv, WriteData, Sharing, WriteLabels
  <2> QED BY <2>2, WrapperAssumption DEF IInv, Single
<1> QED BY <1>1, Invariance, PTL DEF Spec, StableUpload

\* A flush() that returns 0 for a file nobody unlinked has the content it was
\* called for in VOSpace, whoever queued the upload (lines 857-912).
THEOREM FlushesSave == Spec => FlushSaves
<1> DEFINE Step ==
      \A t \in Threads :
         /\ FlushNotQueueing(t) \/ FlushCheck(t)
         /\ pc'[t] # "f_wait"
         /\ ~flushException
         /\ ~obsolete
         => backing >= asked[t]
<1>1. IInv => Step
  <2> SUFFICES ASSUME IInv, NEW t \in Threads, pc'[t] # "f_wait", ~flushException,
       ~obsolete,
                      FlushNotQueueing(t) \/ FlushCheck(t)
               PROVE  backing >= asked[t]
    OBVIOUS
  <2>0. backing \in Nat /\ content \in Nat /\ asked[t] \in Nat /\ asked[t] <= content
    BY DEF IInv, TypeOK, Saved
  <2>1. CASE FlushNotQueueing(t)
    <3>1. ~flushQueued
      BY <2>1, GoneTo DEF FlushNotQueueing, IInv, TypeOK
    <3>2. ~fileModified
      BY <2>1, <3>1 DEF FlushNotQueueing, MustQueue
    <3> QED BY <3>2, <2>0 DEF IInv, Saved
  <2>2. CASE FlushCheck(t)
    <3>1. ~flushQueued /\ fileLock = NoOne /\ pc[t] = "f_check"
      BY <2>2, GoneTo DEF FlushCheck, IInv, TypeOK
    <3> QED BY <3>1, <2>0 DEF IInv, Answered
  <2> QED BY <2>1, <2>2
<1> HIDE DEF Step
<1>2. IInv /\ [Next]_vars => [Step]_vars
  BY <1>1
<1>3. Spec => [][Step]_vars
  BY <1>2, Invariance, PTL DEF Spec
<1> QED BY <1>3 DEF FlushSaves, Step

-----------------------------------------------------------------------------
(***************************************************************************)
(* The descriptor and its references. Nothing but refCount says when the   *)
(* descriptor is closed, so the argument counts: what is Owed are the      *)
(* requests that have not given theirs back, the uploads at work, in the   *)
(* queue, and in the hand of the flush() that has just counted (line 876). *)
(* Owed never exceeds refCount (Counted), since the two halves of a flush's*)
(* increment have fileLock between them (Loaded), and equals it where no   *)
(* release() raises. From the count a release() that sees one reference    *)
(* knows to be alone (LastFlush), so that nothing is written between its   *)
(* flush and its deref(), and unsaved content always has a keeper (NotLost)*)
(* until it is saved.                                                      *)
(***************************************************************************)
\* Nobody opens the file while it is open: its requests are there from the start.
NoNewOpen == FirstOpen = Wrappers

\* The requests that have not given up their reference.
Held == {h \in Wrappers : wrapper[h] # "closed"}
\* The workers that have an upload's reference.
AtWork == {w \in Workers : pc[w] \in Busy}
\* The reference of a flush() between lines 876 and 894.
InHand == IF \E t \in Threads : pc[t] \in {"f_excl", "f_put"} THEN 1 ELSE 0
\* How many references there should be.
Owed == Cardinality(Held) + Cardinality(AtWork) + queue + InHand

\* A thread inside a call serves a request that has its reference; release() is
\* the last call of its request, and the only one by then.
Serving ==
  /\ \A t \in Threads : pc[t] # "o_inc"
  /\ \A t \in Threads : pc[t] # "idle" => job[t] \in Held
  /\ \A t \in Threads : pc[t] \in {"r_test", "r_deref"} => wrapper[job[t]] = "closing"
  /\ \A t \in Threads : pc[t] \in WriteLabels => wrapper[job[t]] = "open"
  /\ \A t, u \in Threads :
       /\ pc[t] # "idle" /\ pc[u] # "idle"
       /\ job[t] = job[u] /\ wrapper[job[t]] = "closing"
       => t = u

\* Nobody but t is inside a call, and no request but its own is left.
Alone(t) ==
  /\ \A u \in Threads : u # t => pc[u] = "idle"
  /\ Held = {job[t]}
\* A release() that flushes is alone, and nothing is written meanwhile.
LastFlush ==
  \A t \in Threads : pc[t] \in FlushLabels /\ wrapper[job[t]] = "closing" =>
    /\ Alone(t)
    /\ asked[t] = content
    /\ pc[t] = "f_lock" => refCount = 1

\* A thread about to store refCount + 1 (line 876) has loaded what it still is.
Loaded == \A t \in Threads : pc[t] = "f_inc" => reg[t] = refCount

\* Where nothing fails nothing is raised.
Untroubled == ~Failing => ~proxyException /\ ~flushException

\* refCount is never below what is owed, so that the descriptor is closed by the
\* last user or not at all; it is above only after a release() has raised.
Counted ==
  /\ IsFiniteSet(AtWork)
  /\ Owed <= refCount
  /\ fdOpen <=> refCount > 0
  /\ ~Slow /\ ~Failing => Owed = refCount

\* A release() that has yet to flush.
WillFlush(t) ==
  wrapper[job[t]] = "closing" /\ (pc[t] = "r_test" \/ pc[t] \in FlushLabels)
\* What keeps unsaved content from being lost: a request that is open, or a
\* release() that flushes; or a reference nobody will give back.
NotLost ==
  \/ backing = content \/ obsolete \/ misled
  \/ Owed < refCount
  \/ \E h \in Wrappers : wrapper[h] = "open"
  \/ \E t \in Threads : WillFlush(t)

CloseInv ==
  IInv /\ Serving /\ LastFlush /\ Loaded /\ Untroubled /\ Counted /\ NotLost

\* What is owed is a number.
LEMMA OwedIsNat ==
  ASSUME TypeOK, IsFiniteSet(AtWork)
  PROVE  /\ IsFiniteSet(Held) /\ Cardinality(Held) \in Nat
         /\ Cardinality(AtWork) \in Nat /\ InHand \in {0, 1} /\ queue \in Nat
         /\ Owed \in Nat
<1>1. IsFiniteSet(Held)
  BY FS_Subset, WrapperAssumption DEF Held
<1>2. Cardinality(Held) \in Nat /\ Cardinality(AtWork) \in Nat
  BY <1>1, FS_CardinalityType
<1>3. InHand \in {0, 1} /\ queue \in Nat
  BY DEF InHand, TypeOK
<1> QED BY <1>1, <1>2, <1>3 DEF Owed

\* Every user is owed something.
LEMMA UsersAreOwed ==
  ASSUME TypeOK, IsFiniteSet(AtWork)
  PROVE  /\ Held # {} \/ AtWork # {} \/ queue > 0 \/ InHand = 1 => Owed > 0
         /\ Held = {} /\ AtWork = {} /\ queue = 0 /\ InHand = 0 => Owed = 0
         /\ \A h \in Held : Owed <= 1 =>
              Held = {h} /\ AtWork = {} /\ queue = 0 /\ InHand = 0
         /\ \A w \in AtWork : Owed <= 1 =>
              Held = {} /\ AtWork = {w} /\ queue = 0 /\ InHand = 0
<1>1. IsFiniteSet(Held) /\ IsFiniteSet(AtWork)
  BY OwedIsNat
<1>2. Cardinality(Held) \in Nat /\ Cardinality(AtWork) \in Nat
     /\ InHand \in {0, 1} /\ queue \in Nat
  BY OwedIsNat
<1>3. (Cardinality(Held) = 0 <=> Held = {}) /\ (Cardinality(AtWork) = 0 <=> AtWork = {})
  BY <1>1, FS_EmptySet
<1>4. ASSUME NEW S, IsFiniteSet(S), NEW x \in S, Cardinality(S) <= 1 PROVE S = {x}
  <2>1. IsFiniteSet(S \ {x}) /\ Cardinality(S \ {x}) = Cardinality(S) - 1
    BY <1>4, FS_RemoveElement
  <2>2. Cardinality(S \ {x}) = 0
    BY <1>4, <2>1, FS_CardinalityType
  <2>3. S \ {x} = {}
    BY <2>1, <2>2, FS_EmptySet
  <2> QED BY <2>3
<1>5. ASSUME NEW h \in Held, Owed <= 1
      PROVE  Held = {h} /\ AtWork = {} /\ queue = 0 /\ InHand = 0
  <2>1. Cardinality(Held) # 0
    BY <1>3, <1>5
  <2>2. Cardinality(Held) = 1 /\ Cardinality(AtWork) = 0 /\ queue = 0 /\ InHand = 0
    BY <1>2, <1>5, <2>1 DEF Owed
  <2> QED BY <1>1, <1>3, <1>4, <2>2
<1>6. ASSUME NEW w \in AtWork, Owed <= 1
      PROVE  Held = {} /\ AtWork = {w} /\ queue = 0 /\ InHand = 0
  <2>1. Cardinality(AtWork) # 0
    BY <1>3, <1>6
  <2>2. Cardinality(AtWork) = 1 /\ Cardinality(Held) = 0 /\ queue = 0 /\ InHand = 0
    BY <1>2, <1>6, <2>1 DEF Owed
  <2> QED BY <1>1, <1>3, <1>4, <2>2
<1>7. Held # {} \/ AtWork # {} \/ queue > 0 \/ InHand = 1 => Owed > 0
  BY <1>2, <1>3 DEF Owed
<1>8. Held = {} /\ AtWork = {} /\ queue = 0 /\ InHand = 0 => Owed = 0
  BY <1>2, <1>3 DEF Owed
<1> QED BY <1>5, <1>6, <1>7, <1>8

\* Nobody else counts while a flush() is between load and store: deref() waits
\* for fileLock (lines 925-926).
LEMMA LoadedStep ==
  ASSUME NoNewOpen, TypeOK, Locking, Serving, Loaded, [Next]_vars
  PROVE  Loaded'
<1> USE WrapperAssumption DEF TypeOK, handleVars, lockVars, dataVars, threadVars,
     Loaded, Locking, Serving, Wakes
<1>1. ASSUME NEW t \in Threads, NEW h \in Wrappers, WriteCall(t, h) PROVE Loaded'
  BY <1>1, GoneTo DEF WriteCall, Begin
<1>2. ASSUME NEW t \in Threads, NEW h \in Wrappers, FlushCall(t, h) PROVE Loaded'
  BY <1>2, GoneTo DEF FlushCall, Begin
<1>3. ASSUME NEW t \in Threads, NEW h \in Wrappers, OpenCall(t, h) PROVE Loaded'
  BY <1>3, GoneTo DEF OpenCall, NoNewOpen
<1>4. ASSUME NEW t \in Threads, NEW h \in Wrappers, ReleaseCall(t, h) PROVE Loaded'
  BY <1>4, GoneTo DEF ReleaseCall, Begin
<1>5. ASSUME NEW t \in Threads, WriteLock(t) PROVE Loaded'
  BY <1>5, GoneTo DEF WriteLock
<1>6. ASSUME NEW t \in Threads, WriteCached(t) PROVE Loaded'
  BY <1>6, GoneTo DEF WriteCached
<1>7. ASSUME NEW t \in Threads, WriteFetch(t) PROVE Loaded'
  BY <1>7, GoneTo DEF WriteFetch
<1>8. ASSUME NEW t \in Threads, WriteCheck(t) PROVE Loaded'
  BY <1>8, GoneTo DEF WriteCheck
<1>9. ASSUME NEW t \in Threads, WriteTimeout(t) PROVE Loaded'
  BY <1>9, GoneTo DEF WriteTimeout
<1>10. ASSUME NEW t \in Threads, WriteData(t) PROVE Loaded'
  BY <1>10, GoneTo DEF WriteData
<1>11. ASSUME NEW t \in Threads, FlushBusy(t) PROVE Loaded'
  BY <1>11, GoneTo DEF FlushBusy, Raise
<1>12. ASSUME NEW t \in Threads, FlushPreWait(t) PROVE Loaded'
  BY <1>12, GoneTo DEF FlushPreWait
<1>13. ASSUME NEW t \in Threads, FlushPreTimeout(t) PROVE Loaded'
  BY <1>13, GoneTo DEF FlushPreTimeout
<1>14. ASSUME NEW t \in Threads, FlushQueueing(t) PROVE Loaded'
  BY <1>14, GoneTo DEF FlushQueueing, PastPreWait, MustQueue, AbortRead
<1>15. ASSUME NEW t \in Threads, FlushNotQueueing(t) PROVE Loaded'
  BY <1>15, GoneTo DEF FlushNotQueueing, PastPreWait, MustQueue, Raise, Return, AbortRead
<1>16. ASSUME NEW t \in Threads, FlushRef(t) PROVE Loaded'
  BY <1>16, GoneTo DEF FlushRef
<1>17. ASSUME NEW t \in Threads, FlushExclude(t) PROVE Loaded'
  BY <1>17, GoneTo DEF FlushExclude
<1>18. ASSUME NEW t \in Threads, FlushPut(t) PROVE Loaded'
  BY <1>18, GoneTo DEF FlushPut
<1>19. ASSUME NEW t \in Threads, FlushMark(t) PROVE Loaded'
  BY <1>19, GoneTo DEF FlushMark
<1>20. ASSUME NEW t \in Threads, FlushCheck(t) PROVE Loaded'
  BY <1>20, GoneTo DEF FlushCheck, Raise, Return
<1>21. ASSUME NEW t \in Threads, FlushTimeout(t) PROVE Loaded'
  BY <1>21, GoneTo DEF FlushTimeout, Raise
<1>22. ASSUME NEW t \in Threads, OpenRef(t) PROVE Loaded'
  BY <1>22, GoneTo DEF OpenRef
<1>23. ASSUME NEW t \in Threads, ReleaseTest(t) PROVE Loaded'
  BY <1>23, GoneTo DEF ReleaseTest, Raise, Misleading
<1>24. ASSUME NEW t \in Threads, ReleaseDeref(t) PROVE Loaded'
  BY <1>24, GoneTo DEF ReleaseDeref, Deref
<1>25. ASSUME NEW w \in Workers, WorkerGet(w) PROVE Loaded'
  BY <1>25, GoneTo DEF WorkerGet
<1>26. ASSUME NEW w \in Workers, WorkerStart(w) PROVE Loaded'
  BY <1>26, GoneTo DEF WorkerStart
<1>27. ASSUME NEW w \in Workers, WorkerCopy(w) PROVE Loaded'
  BY <1>27, GoneTo DEF WorkerCopy
<1>28. ASSUME NEW w \in Workers, WorkerUpload(w) PROVE Loaded'
  BY <1>28, GoneTo DEF WorkerUpload
<1>29. ASSUME NEW w \in Workers, WorkerUnqueue(w) PROVE Loaded'
  BY <1>29, GoneTo DEF WorkerUnqueue
<1>30. ASSUME NEW w \in Workers, WorkerRelease(w) PROVE Loaded'
  BY <1>30, GoneTo DEF WorkerRelease
<1>31. ASSUME NEW w \in Workers, WorkerDeref(w) PROVE Loaded'
  BY <1>31, GoneTo DEF WorkerDeref, Deref
<1>32. ASSUME NEW w \in Workers, WorkerNotify(w) PROVE Loaded'
  BY <1>32, NotifiedTo DEF WorkerNotify
<1>33. ASSUME ReadThreadEnds PROVE Loaded'
  <2>1. \A q \in Threads \cup Workers :
            pc'[q] = pc[q] \/ (q \in Threads /\ <<pc[q], pc'[q]>> \in Wakes)
    BY <1>33, ReaderWakes
  <2>2. UNCHANGED <<reg, refCount>>
    BY <1>33 DEF ReadThreadEnds
  <2> QED BY <2>1, <2>2
<1>34. ASSUME Unlink PROVE Loaded'
  BY <1>34 DEF Unlink
<1>a. CASE UNCHANGED vars
  BY <1>a DEF vars
<1> QED
  BY <1>a, <1>1, <1>2, <1>3, <1>4, <1>5, <1>6, <1>7, <1>8, <1>9, <1>10, <1>11, <1>12,
      <1>13, <1>14, <1>15, <1>16, <1>17, <1>18, <1>19, <1>20, <1>21, <1>22, <1>23,
      <1>24, <1>25, <1>26, <1>27, <1>28, <1>29, <1>30, <1>31, <1>32, <1>33, <1>34
     DEF Next, Write, Flush, Close, Work

\* An upload fails only if the backing store does: its worker owns the writer lock,
\* and the descriptor is open.
LEMMA UntroubledStep ==
  ASSUME TypeOK, Single, Counted, Untroubled, [Next]_vars
  PROVE  Untroubled'
<1>0. (\E w \in Workers : pc[w] = "k_copy") => fdOpen
  <2> SUFFICES ASSUME NEW w \in Workers, pc[w] = "k_copy" PROVE fdOpen
    OBVIOUS
  <2>1. w \in AtWork
    BY DEF AtWork, Busy
  <2> QED BY <2>1, OwedIsNat, UsersAreOwed DEF Counted, TypeOK
<1> USE WrapperAssumption DEF TypeOK, handleVars, lockVars, dataVars, threadVars,
     Untroubled, Single, Hold
<1>1. ASSUME NEW t \in Threads, NEW h \in Wrappers, WriteCall(t, h) PROVE Untroubled'
  BY <1>1, GoneTo DEF WriteCall, Begin
<1>2. ASSUME NEW t \in Threads, NEW h \in Wrappers, FlushCall(t, h) PROVE Untroubled'
  BY <1>2, GoneTo DEF FlushCall, Begin
<1>3. ASSUME NEW t \in Threads, NEW h \in Wrappers, OpenCall(t, h) PROVE Untroubled'
  BY <1>3, GoneTo DEF OpenCall
<1>4. ASSUME NEW t \in Threads, NEW h \in Wrappers, ReleaseCall(t, h) PROVE Untroubled'
  BY <1>4, GoneTo DEF ReleaseCall, Begin
<1>5. ASSUME NEW t \in Threads, WriteLock(t) PROVE Untroubled'
  BY <1>5, GoneTo DEF WriteLock
<1>6. ASSUME NEW t \in Threads, WriteCached(t) PROVE Untroubled'
  BY <1>6, GoneTo DEF WriteCached
<1>7. ASSUME NEW t \in Threads, WriteFetch(t) PROVE Untroubled'
  BY <1>7, GoneTo DEF WriteFetch
<1>8. ASSUME NEW t \in Threads, WriteCheck(t) PROVE Untroubled'
  BY <1>8, GoneTo DEF WriteCheck
<1>9. ASSUME NEW t \in Threads, WriteTimeout(t) PROVE Untroubled'
  BY <1>9, GoneTo DEF WriteTimeout
<1>10. ASSUME NEW t \in Threads, WriteData(t) PROVE Untroubled'
  BY <1>10, GoneTo DEF WriteData
<1>11. ASSUME NEW t \in Threads, FlushBusy(t) PROVE Untroubled'
  BY <1>11, GoneTo DEF FlushBusy, Raise
<1>12. ASSUME NEW t \in Threads, FlushPreWait(t) PROVE Untroubled'
  BY <1>12, GoneTo DEF FlushPreWait
<1>13. ASSUME NEW t \in Threads, FlushPreTimeout(t) PROVE Untroubled'
  BY <1>13, GoneTo DEF FlushPreTimeout
<1>14. ASSUME NEW t \in Threads, FlushQueueing(t) PROVE Untroubled'
  BY <1>14, GoneTo DEF FlushQueueing, PastPreWait, MustQueue, AbortRead
<1>15. ASSUME NEW t \in Threads, FlushNotQueueing(t) PROVE Untroubled'
  BY <1>15, GoneTo DEF FlushNotQueueing, PastPreWait, MustQueue, Raise, Return, AbortRead
<1>16. ASSUME NEW t \in Threads, FlushRef(t) PROVE Untroubled'
  BY <1>16, GoneTo DEF FlushRef
<1>17. ASSUME NEW t \in Threads, FlushExclude(t) PROVE Untroubled'
  BY <1>17, GoneTo DEF FlushExclude
<1>18. ASSUME NEW t \in Threads, FlushPut(t) PROVE Untroubled'
  BY <1>18, GoneTo DEF FlushPut
<1>19. ASSUME NEW t \in Threads, FlushMark(t) PROVE Untroubled'
  BY <1>19, GoneTo DEF FlushMark
<1>20. ASSUME NEW t \in Threads, FlushCheck(t) PROVE Untroubled'
  BY <1>20, GoneTo DEF FlushCheck, Raise, Return
<1>21. ASSUME NEW t \in Threads, FlushTimeout(t) PROVE Untroubled'
  BY <1>21, GoneTo DEF FlushTimeout, Raise
<1>22. ASSUME NEW t \in Threads, OpenRef(t) PROVE Untroubled'
  BY <1>22, GoneTo DEF OpenRef
<1>23. ASSUME NEW t \in Threads, ReleaseTest(t) PROVE Untroubled'
  BY <1>23, GoneTo DEF ReleaseTest, Raise, Misleading
<1>24. ASSUME NEW t \in Threads, ReleaseDeref(t) PROVE Untroubled'
  BY <1>24, GoneTo DEF ReleaseDeref, Deref
<1>25. ASSUME NEW w \in Workers, WorkerGet(w) PROVE Untroubled'
  BY <1>25, GoneTo DEF WorkerGet
<1>26. ASSUME NEW w \in Workers, WorkerStart(w) PROVE Untroubled'
  BY <1>26, GoneTo DEF WorkerStart
<1>27. ASSUME NEW w \in Workers, WorkerCopy(w) PROVE Untroubled'
  BY <1>0, <1>27 DEF WorkerCopy
<1>28. ASSUME NEW w \in Workers, WorkerUpload(w) PROVE Untroubled'
  BY <1>28, GoneTo DEF WorkerUpload
<1>29. ASSUME NEW w \in Workers, WorkerUnqueue(w) PROVE Untroubled'
  BY <1>29, GoneTo DEF WorkerUnqueue
<1>30. ASSUME NEW w \in Workers, WorkerRelease(w) PROVE Untroubled'
  BY <1>30, GoneTo DEF WorkerRelease
<1>31. ASSUME NEW w \in Workers, WorkerDeref(w) PROVE Untroubled'
  BY <1>31, GoneTo DEF WorkerDeref, Deref
<1>32. ASSUME NEW w \in Workers, WorkerNotify(w) PROVE Untroubled'
  BY <1>32, NotifiedTo DEF WorkerNotify
<1>33. ASSUME ReadThreadEnds PROVE Untroubled'
  BY <1>33 DEF ReadThreadEnds
<1>34. ASSUME Unlink PROVE Untroubled'
  BY <1>34 DEF Unlink
<1>a. CASE UNCHANGED vars
  BY <1>a DEF vars
<1> QED
  BY <1>a, <1>1, <1>2, <1>3, <1>4, <1>5, <1>6, <1>7, <1>8, <1>9, <1>10, <1>11, <1>12,
      <1>13, <1>14, <1>15, <1>16, <1>17, <1>18, <1>19, <1>20, <1>21, <1>22, <1>23,
      <1>24, <1>25, <1>26, <1>27, <1>28, <1>29, <1>30, <1>31, <1>32, <1>33, <1>34
     DEF Next, Write, Flush, Close, Work

\* Each call of FUSE begins for an open request, and ends before its release.
LEMMA ServingStep ==
  ASSUME NoNewOpen, TypeOK, Serving, [Next]_vars
  PROVE  Serving'
<1> USE WrapperAssumption DEF TypeOK, handleVars, lockVars, dataVars, threadVars,
     Serving, Held, FlushLabels, WriteLabels, Wakes
<1>1. ASSUME NEW t \in Threads, NEW h \in Wrappers, WriteCall(t, h) PROVE Serving'
  BY <1>1, GoneTo DEF WriteCall, Begin
<1>2. ASSUME NEW t \in Threads, NEW h \in Wrappers, FlushCall(t, h) PROVE Serving'
  BY <1>2, GoneTo DEF FlushCall, Begin
<1>3. ASSUME NEW t \in Threads, NEW h \in Wrappers, OpenCall(t, h) PROVE Serving'
  BY <1>3, GoneTo DEF OpenCall, NoNewOpen
<1>4. ASSUME NEW t \in Threads, NEW h \in Wrappers, ReleaseCall(t, h) PROVE Serving'
  BY <1>4, GoneTo DEF ReleaseCall, Begin
<1>5. ASSUME NEW t \in Threads, WriteLock(t) PROVE Serving'
  BY <1>5, GoneTo DEF WriteLock
<1>6. ASSUME NEW t \in Threads, WriteCached(t) PROVE Serving'
  BY <1>6, GoneTo DEF WriteCached
<1>7. ASSUME NEW t \in Threads, WriteFetch(t) PROVE Serving'
  BY <1>7, GoneTo DEF WriteFetch
<1>8. ASSUME NEW t \in Threads, WriteCheck(t) PROVE Serving'
  BY <1>8, GoneTo DEF WriteCheck
<1>9. ASSUME NEW t \in Threads, WriteTimeout(t) PROVE Serving'
  BY <1>9, GoneTo DEF WriteTimeout
<1>10. ASSUME NEW t \in Threads, WriteData(t) PROVE Serving'
  BY <1>10, GoneTo DEF WriteData
<1>11. ASSUME NEW t \in Threads, FlushBusy(t) PROVE Serving'
  BY <1>11, GoneTo DEF FlushBusy, Raise
<1>12. ASSUME NEW t \in Threads, FlushPreWait(t) PROVE Serving'
  BY <1>12, GoneTo DEF FlushPreWait
<1>13. ASSUME NEW t \in Threads, FlushPreTimeout(t) PROVE Serving'
  BY <1>13, GoneTo DEF FlushPreTimeout
<1>14. ASSUME NEW t \in Threads, FlushQueueing(t) PROVE Serving'
  BY <1>14, GoneTo DEF FlushQueueing, PastPreWait, MustQueue, AbortRead
<1>15. ASSUME NEW t \in Threads, FlushNotQueueing(t) PROVE Serving'
  BY <1>15, GoneTo DEF FlushNotQueueing, PastPreWait, MustQueue, Raise, Return, AbortRead
<1>16. ASSUME NEW t \in Threads, FlushRef(t) PROVE Serving'
  BY <1>16, GoneTo DEF FlushRef
<1>17. ASSUME NEW t \in Threads, FlushExclude(t) PROVE Serving'
  BY <1>17, GoneTo DEF FlushExclude
<1>18. ASSUME NEW t \in Threads, FlushPut(t) PROVE Serving'
  BY <1>18, GoneTo DEF FlushPut
<1>19. ASSUME NEW t \in Threads, FlushMark(t) PROVE Serving'
  BY <1>19, GoneTo DEF FlushMark
<1>20. ASSUME NEW t \in Threads, FlushCheck(t) PROVE Serving'
  BY <1>20, GoneTo DEF FlushCheck, Raise, Return
<1>21. ASSUME NEW t \in Threads, FlushTimeout(t) PROVE Serving'
  BY <1>21, GoneTo DEF FlushTimeout, Raise
<1>22. ASSUME NEW t \in Threads, OpenRef(t) PROVE Serving'
  BY <1>22, GoneTo DEF OpenRef
<1>23. ASSUME NEW t \in Threads, ReleaseTest(t) PROVE Serving'
  BY <1>23, GoneTo DEF ReleaseTest, Raise, Misleading
<1>24. ASSUME NEW t \in Threads, ReleaseDeref(t) PROVE Serving'
  BY <1>24, GoneTo DEF ReleaseDeref, Deref
<1>25. ASSUME NEW w \in Workers, WorkerGet(w) PROVE Serving'
  BY <1>25, GoneTo DEF WorkerGet
<1>26. ASSUME NEW w \in Workers, WorkerStart(w) PROVE Serving'
  BY <1>26, GoneTo DEF WorkerStart
<1>27. ASSUME NEW w \in Workers, WorkerCopy(w) PROVE Serving'
  BY <1>27, GoneTo DEF WorkerCopy
<1>28. ASSUME NEW w \in Workers, WorkerUpload(w) PROVE Serving'
  BY <1>28, GoneTo DEF WorkerUpload
<1>29. ASSUME NEW w \in Workers, WorkerUnqueue(w) PROVE Serving'
  BY <1>29, GoneTo DEF WorkerUnqueue
<1>30. ASSUME NEW w \in Workers, WorkerRelease(w) PROVE Serving'
  BY <1>30, GoneTo DEF WorkerRelease
<1>31. ASSUME NEW w \in Workers, WorkerDeref(w) PROVE Serving'
  BY <1>31, GoneTo DEF WorkerDeref, Deref
<1>32. ASSUME NEW w \in Workers, WorkerNotify(w) PROVE Serving'
  BY <1>32, NotifiedTo DEF WorkerNotify
<1>33. ASSUME ReadThreadEnds PROVE Serving'
  <2>1. \A q \in Threads \cup Workers :
            pc'[q] = pc[q] \/ (q \in Threads /\ <<pc[q], pc'[q]>> \in Wakes)
    BY <1>33, ReaderWakes
  <2>2. UNCHANGED <<job, wrapper>>
    BY <1>33 DEF ReadThreadEnds
  <2> QED BY <2>1, <2>2
<1>34. ASSUME Unlink PROVE Serving'
  BY <1>34 DEF Unlink
<1>a. CASE UNCHANGED vars
  BY <1>a DEF vars
<1> QED
  BY <1>a, <1>1, <1>2, <1>3, <1>4, <1>5, <1>6, <1>7, <1>8, <1>9, <1>10, <1>11, <1>12,
      <1>13, <1>14, <1>15, <1>16, <1>17, <1>18, <1>19, <1>20, <1>21, <1>22, <1>23,
      <1>24, <1>25, <1>26, <1>27, <1>28, <1>29, <1>30, <1>31, <1>32, <1>33, <1>34
     DEF Next, Write, Flush, Close, Work

\* A step that gives and takes no reference.
Quiet ==
  /\ UNCHANGED <<refCount, fdOpen, queue>>
  /\ Held' = Held /\ AtWork' = AtWork /\ InHand' = InHand
\* A release() that raises: its reference stays.
Leak ==
  /\ UNCHANGED <<refCount, fdOpen, queue>>
  /\ \E h \in Held : Held' = Held \ {h}
  /\ AtWork' = AtWork /\ InHand' = InHand
  /\ Slow \/ Failing
\* The steps that give or take one.
Counting ==
  \/ \E t \in Threads : FlushRef(t) \/ FlushPut(t) \/ ReleaseDeref(t)
  \/ \E w \in Workers : WorkerGet(w) \/ WorkerDeref(w)

\* A thread that raises gives up the wrapper only of a release(), and then
\* something failed or was slow (lines 841, 861, 911).
LEMMA RaiseIsQuiet ==
  ASSUME TypeOK, Serving, LastFlush, Untroubled, NEW t \in Threads, pc[t] # "idle",
         Raise(t), UNCHANGED <<refCount, fdOpen, queue>>,
         pc[t] \notin {"f_excl", "f_put"},
         wrapper[job[t]] = "closing" => Slow \/ Failing
  PROVE  Quiet \/ Leak
<1> USE DEF TypeOK
<1>1. AtWork' = AtWork /\ InHand' = InHand
  BY GoneTo, WrapperAssumption DEF Raise, AtWork, Busy, InHand
<1>2. CASE wrapper[job[t]] = "closing"
  <2>1. Held' = Held \ {job[t]} /\ job[t] \in Held
    BY <1>2 DEF Raise, Held, Serving
  <2> QED BY <1>1, <1>2, <2>1 DEF Leak
<1>3. CASE wrapper[job[t]] # "closing"
  <2>1. Held' = Held
    BY <1>3 DEF Raise, Held
  <2> QED BY <1>1, <2>1 DEF Quiet
<1> QED BY <1>2, <1>3

\* All others leave the references alone.
LEMMA QuietSteps ==
  ASSUME NoNewOpen, TypeOK, Serving, LastFlush, Untroubled, [Next]_vars
  PROVE  Quiet \/ Leak \/ Counting
<1> USE WrapperAssumption DEF handleVars, lockVars, dataVars, threadVars, Wakes
<1> DEFINE Goal == Quiet \/ Leak \/ Counting
<1>1. ASSUME NEW t \in Threads, NEW h \in Wrappers, WriteCall(t, h) PROVE Goal
  BY <1>1, GoneTo DEF WriteCall, Begin, Quiet, TypeOK, Held, AtWork, Busy, InHand
<1>2. ASSUME NEW t \in Threads, NEW h \in Wrappers, FlushCall(t, h) PROVE Goal
  BY <1>2, GoneTo DEF FlushCall, Begin, Quiet, TypeOK, Held, AtWork, Busy, InHand
<1>3. ASSUME NEW t \in Threads, NEW h \in Wrappers, OpenCall(t, h) PROVE Goal
  BY <1>3, GoneTo DEF OpenCall, NoNewOpen, Quiet, TypeOK, Held, AtWork, Busy, InHand
<1>4. ASSUME NEW t \in Threads, NEW h \in Wrappers, ReleaseCall(t, h) PROVE Goal
  BY <1>4, GoneTo DEF ReleaseCall, Begin, Quiet, TypeOK, Held, AtWork, Busy, InHand
<1>5. ASSUME NEW t \in Threads, WriteLock(t) PROVE Goal
  BY <1>5, GoneTo DEF WriteLock, Quiet, TypeOK, Held, AtWork, Busy, InHand
<1>6. ASSUME NEW t \in Threads, WriteCached(t) PROVE Goal
  BY <1>6, GoneTo DEF WriteCached, Quiet, TypeOK, Held, AtWork, Busy, InHand
<1>7. ASSUME NEW t \in Threads, WriteFetch(t) PROVE Goal
  BY <1>7, GoneTo DEF WriteFetch, Quiet, TypeOK, Held, AtWork, Busy, InHand
<1>8. ASSUME NEW t \in Threads, WriteCheck(t) PROVE Goal
  BY <1>8, GoneTo DEF WriteCheck, Quiet, TypeOK, Held, AtWork, Busy, InHand
<1>9. ASSUME NEW t \in Threads, WriteTimeout(t) PROVE Goal
  BY <1>9, GoneTo DEF WriteTimeout, Quiet, TypeOK, Held, AtWork, Busy, InHand
<1>10. ASSUME NEW t \in Threads, WriteData(t) PROVE Goal
  BY <1>10, GoneTo DEF WriteData, Quiet, TypeOK, Held, AtWork, Busy, InHand
<1>11. ASSUME NEW t \in Threads, FlushBusy(t) PROVE Goal
  <2>1. wrapper[job[t]] # "closing"
    BY <1>11 DEF FlushBusy, LastFlush, FlushLabels
  <2> QED BY <1>11, <2>1, RaiseIsQuiet DEF FlushBusy, handleVars
<1>12. ASSUME NEW t \in Threads, FlushPreWait(t) PROVE Goal
  BY <1>12, GoneTo DEF FlushPreWait, Quiet, TypeOK, Held, AtWork, Busy, InHand
<1>13. ASSUME NEW t \in Threads, FlushPreTimeout(t) PROVE Goal
  BY <1>13, GoneTo DEF FlushPreTimeout, Quiet, TypeOK, Held, AtWork, Busy, InHand
<1>14. ASSUME NEW t \in Threads, FlushQueueing(t) PROVE Goal
  BY <1>14, GoneTo DEF FlushQueueing, PastPreWait, MustQueue, AbortRead, Quiet, TypeOK,
      Held, AtWork, Busy, InHand
<1>15. ASSUME NEW t \in Threads, FlushNotQueueing(t) PROVE Goal
  <2> USE DEF TypeOK
  <2>1. CASE Raise(t)
    <3>1. wrapper[job[t]] = "closing" => Slow \/ Failing
      BY <1>15, <2>1, GoneTo DEF Raise, Return, Untroubled, FlushNotQueueing
    <3> QED BY <1>15, <2>1, <3>1, RaiseIsQuiet DEF FlushNotQueueing, PastPreWait, handleVars
  <2>2. CASE ~Raise(t)
    BY <1>15, <2>2, GoneTo DEF FlushNotQueueing, Return, PastPreWait, Quiet, Held,
        AtWork, Busy, InHand
  <2> QED BY <2>1, <2>2
<1>16. ASSUME NEW t \in Threads, FlushRef(t) PROVE Goal
  BY <1>16 DEF Counting
<1>17. ASSUME NEW t \in Threads, FlushExclude(t) PROVE Goal
  BY <1>17, GoneTo DEF FlushExclude, Quiet, TypeOK, Held, AtWork, Busy, InHand
<1>18. ASSUME NEW t \in Threads, FlushPut(t) PROVE Goal
  BY <1>18 DEF Counting
<1>19. ASSUME NEW t \in Threads, FlushMark(t) PROVE Goal
  BY <1>19, GoneTo DEF FlushMark, Quiet, TypeOK, Held, AtWork, Busy, InHand
<1>20. ASSUME NEW t \in Threads, FlushCheck(t) PROVE Goal
  <2> USE DEF TypeOK
  <2>1. CASE Raise(t)
    <3>1. wrapper[job[t]] = "closing" => Slow \/ Failing
      BY <1>20, <2>1, GoneTo DEF Raise, Return, Untroubled, FlushCheck
    <3> QED BY <1>20, <2>1, <3>1, RaiseIsQuiet DEF FlushCheck
  <2>2. CASE ~Raise(t)
    BY <1>20, <2>2, GoneTo DEF FlushCheck, Return, Quiet, Held, AtWork, Busy, InHand
  <2> QED BY <2>1, <2>2
<1>21. ASSUME NEW t \in Threads, FlushTimeout(t) PROVE Goal
  <2> USE DEF TypeOK
  <2>1. CASE Raise(t)
    <3>1. wrapper[job[t]] = "closing" => Slow \/ Failing
      BY <1>21, <2>1, GoneTo DEF Raise, Return, Untroubled, FlushTimeout
    <3> QED BY <1>21, <2>1, <3>1, RaiseIsQuiet DEF FlushTimeout
  <2>2. CASE ~Raise(t)
    BY <1>21, <2>2, GoneTo DEF FlushTimeout, Quiet, Held, AtWork, Busy, InHand
  <2> QED BY <2>1, <2>2
<1>22. ASSUME NEW t \in Threads, OpenRef(t) PROVE Goal
  BY <1>22, GoneTo DEF OpenRef, Serving, Quiet, TypeOK, Held, AtWork, Busy, InHand
<1>23. ASSUME NEW t \in Threads, ReleaseTest(t) PROVE Goal
  <2> USE DEF TypeOK
  <2>1. CASE Raise(t)
    <3>1. wrapper[job[t]] = "closing" => Slow \/ Failing
      BY <1>23, <2>1, GoneTo DEF Raise, Return, Untroubled, ReleaseTest
    <3> QED BY <1>23, <2>1, <3>1, RaiseIsQuiet DEF ReleaseTest
  <2>2. CASE ~Raise(t)
    BY <1>23, <2>2, GoneTo DEF ReleaseTest, Quiet, Held, AtWork, Busy, InHand
  <2> QED BY <2>1, <2>2
<1>24. ASSUME NEW t \in Threads, ReleaseDeref(t) PROVE Goal
  BY <1>24 DEF Counting
<1>25. ASSUME NEW w \in Workers, WorkerGet(w) PROVE Goal
  BY <1>25 DEF Counting
<1>26. ASSUME NEW w \in Workers, WorkerStart(w) PROVE Goal
  BY <1>26, GoneTo DEF WorkerStart, Quiet, TypeOK, Held, AtWork, Busy, InHand
<1>27. ASSUME NEW w \in Workers, WorkerCopy(w) PROVE Goal
  BY <1>27, GoneTo DEF WorkerCopy, Quiet, TypeOK, Held, AtWork, Busy, InHand
<1>28. ASSUME NEW w \in Workers, WorkerUpload(w) PROVE Goal
  BY <1>28, GoneTo DEF WorkerUpload, Quiet, TypeOK, Held, AtWork, Busy, InHand
<1>29. ASSUME NEW w \in Workers, WorkerUnqueue(w) PROVE Goal
  BY <1>29, GoneTo DEF WorkerUnqueue, Quiet, TypeOK, Held, AtWork, Busy, InHand
<1>30. ASSUME NEW w \in Workers, WorkerRelease(w) PROVE Goal
  BY <1>30, GoneTo DEF WorkerRelease, Quiet, TypeOK, Held, AtWork, Busy, InHand
<1>31. ASSUME NEW w \in Workers, WorkerDeref(w) PROVE Goal
  BY <1>31 DEF Counting
<1>32. ASSUME NEW w \in Workers, WorkerNotify(w) PROVE Goal
  BY <1>32, NotifiedTo DEF WorkerNotify, Quiet, TypeOK, Held, AtWork, Busy, InHand
<1>33. ASSUME ReadThreadEnds PROVE Goal
  <2>1. \A q \in Threads \cup Workers :
            pc'[q] = pc[q] \/ (q \in Threads /\ <<pc[q], pc'[q]>> \in Wakes)
    BY <1>33, ReaderWakes DEF TypeOK
  <2>2. AtWork' = AtWork /\ InHand' = InHand
    BY <2>1 DEF AtWork, InHand
  <2>3. Held' = Held /\ UNCHANGED <<refCount, fdOpen, queue>>
    BY <1>33 DEF ReadThreadEnds, Held
  <2> QED BY <2>2, <2>3 DEF Quiet
<1>34. ASSUME Unlink PROVE Goal
  BY <1>34 DEF Unlink, Quiet, TypeOK, Held, AtWork, Busy, InHand
<1>a. CASE UNCHANGED vars
  BY <1>a DEF vars, Quiet, TypeOK, Held, AtWork, Busy, InHand
<1> QED
  BY <1>a, <1>1, <1>2, <1>3, <1>4, <1>5, <1>6, <1>7, <1>8, <1>9, <1>10, <1>11, <1>12,
      <1>13, <1>14, <1>15, <1>16, <1>17, <1>18, <1>19, <1>20, <1>21, <1>22, <1>23,
      <1>24, <1>25, <1>26, <1>27, <1>28, <1>29, <1>30, <1>31, <1>32, <1>33, <1>34
     DEF Next, Write, Flush, Close, Work

\* Two numbers that change alike keep their order.
LEMMA Together ==
  \A a, b, c, d \in Int : a + d = c + b =>
    (c <= d => a <= b) /\ (c = d => a = b) /\ (c < d => a < b)
OBVIOUS

\* The steps that count: what is owed and refCount change alike.
LEMMA CountingStep ==
  ASSUME TypeOK, Locking, Serving, Loaded, Counted, Counting
  PROVE  /\ IsFiniteSet(AtWork') /\ refCount' \in Int /\ Owed' \in Int
         /\ Owed' + refCount = Owed + refCount'
         /\ fdOpen' <=> refCount' > 0
<1> DEFINE Goal ==
      /\ IsFiniteSet(AtWork') /\ refCount' \in Int /\ Owed' \in Int
      /\ Owed' + refCount = Owed + refCount'
      /\ fdOpen' <=> refCount' > 0
<1>0. /\ IsFiniteSet(Held) /\ Cardinality(Held) \in Nat
      /\ IsFiniteSet(AtWork) /\ Cardinality(AtWork) \in Nat
      /\ InHand \in {0, 1} /\ queue \in Nat /\ Owed \in Nat /\ refCount \in Int
      /\ Owed <= refCount /\ (fdOpen <=> refCount > 0)
  BY OwedIsNat DEF Counted, TypeOK
<1>1. ASSUME NEW t \in Threads, FlushRef(t) PROVE Goal
  <2>1. Held' = Held /\ AtWork' = AtWork
    BY <1>1, GoneTo, WrapperAssumption DEF FlushRef, TypeOK, Held, AtWork, Busy
  <2>2. InHand = 0
    BY <1>1, WrapperAssumption DEF FlushRef, Locking, InHand
  <2>3. InHand' = 1
    BY <1>1, GoneTo DEF FlushRef, TypeOK, InHand
  <2>4. refCount' = refCount + 1 /\ queue' = queue /\ fdOpen' = fdOpen
    BY <1>1 DEF FlushRef, Loaded, handleVars
  <2>5. Owed > 0
    BY <1>0, <1>1, UsersAreOwed DEF FlushRef, Serving
  <2>6. Owed' = Owed + 1
    BY <1>0, <2>1, <2>2, <2>3, <2>4 DEF Owed
  <2>7. fdOpen' <=> refCount' > 0
    BY <1>0, <2>4, <2>5
  <2> QED BY <1>0, <2>1, <2>4, <2>6, <2>7
<1>2. ASSUME NEW t \in Threads, FlushPut(t) PROVE Goal
  <2>1. Held' = Held /\ AtWork' = AtWork
    BY <1>2, GoneTo, WrapperAssumption DEF FlushPut, TypeOK, Held, AtWork, Busy
  <2>2. InHand = 1
    BY <1>2 DEF FlushPut, InHand
  <2>3. InHand' = 0
    BY <1>2, GoneTo DEF FlushPut, TypeOK, InHand, Locking
  <2>4. refCount' = refCount /\ queue' = queue + 1 /\ fdOpen' = fdOpen
    BY <1>2 DEF FlushPut, handleVars
  <2>5. Owed' = Owed
    BY <1>0, <2>1, <2>2, <2>3, <2>4 DEF Owed
  <2> QED BY <1>0, <2>1, <2>4, <2>5
<1>3. ASSUME NEW t \in Threads, ReleaseDeref(t) PROVE Goal
  <2>1. job[t] \in Held
    BY <1>3 DEF ReleaseDeref, Serving
  <2>2. Held' = Held \ {job[t]}
    BY <1>3, <2>1 DEF ReleaseDeref, TypeOK, Held
  <2>3. AtWork' = AtWork /\ InHand' = InHand /\ queue' = queue
    BY <1>3, GoneTo, WrapperAssumption DEF ReleaseDeref, TypeOK, AtWork, Busy, InHand
  <2>4. refCount' = refCount - 1 /\ fdOpen' = (fdOpen /\ refCount # 1)
    BY <1>3 DEF ReleaseDeref, Deref
  <2>5. Cardinality(Held') = Cardinality(Held) - 1
    BY <1>0, <2>1, <2>2, FS_RemoveElement
  <2>6. Owed' = Owed - 1
    BY <1>0, <2>3, <2>5 DEF Owed
  <2>7. Owed > 0
    BY <1>0, <2>1, UsersAreOwed
  <2>8. fdOpen' <=> refCount' > 0
    <3>1. fdOpen /\ (refCount' > 0 <=> refCount # 1)
      BY <1>0, <2>4, <2>7
    <3> QED BY <2>4, <3>1, Zenon
  <2> QED BY <1>0, <2>3, <2>4, <2>6, <2>8
<1>4. ASSUME NEW w \in Workers, WorkerGet(w) PROVE Goal
  <2>1. Held' = Held /\ InHand' = InHand
    BY <1>4, GoneTo, WrapperAssumption DEF WorkerGet, TypeOK, Held, InHand
  <2>2. AtWork' = AtWork \cup {w} /\ w \notin AtWork
    BY <1>4, GoneTo DEF WorkerGet, TypeOK, AtWork, Busy
  <2>3. refCount' = refCount /\ queue' = queue - 1 /\ fdOpen' = fdOpen
    BY <1>4 DEF WorkerGet, handleVars
  <2>4. IsFiniteSet(AtWork') /\ Cardinality(AtWork') = Cardinality(AtWork) + 1
    BY <1>0, <2>2, FS_AddElement
  <2>5. Owed' = Owed
    BY <1>0, <2>1, <2>3, <2>4 DEF Owed
  <2> QED BY <1>0, <2>3, <2>4, <2>5
<1>5. ASSUME NEW w \in Workers, WorkerDeref(w) PROVE Goal
  <2>1. Held' = Held /\ InHand' = InHand /\ queue' = queue
    BY <1>5, GoneTo, WrapperAssumption DEF WorkerDeref, TypeOK, Held, InHand
  <2>2. w \in AtWork
    BY <1>5 DEF WorkerDeref, AtWork, Busy
  <2>3. AtWork' = AtWork \ {w}
    BY <1>5, GoneTo DEF WorkerDeref, TypeOK, AtWork, Busy
  <2>4. refCount' = refCount - 1 /\ fdOpen' = (fdOpen /\ refCount # 1)
    BY <1>5 DEF WorkerDeref, Deref
  <2>5. IsFiniteSet(AtWork') /\ Cardinality(AtWork') = Cardinality(AtWork) - 1
    BY <1>0, <2>2, <2>3, FS_RemoveElement
  <2>6. Owed' = Owed - 1
    BY <1>0, <2>1, <2>5 DEF Owed
  <2>7. Owed > 0
    BY <1>0, <2>2, UsersAreOwed
  <2>8. fdOpen' <=> refCount' > 0
    <3>1. fdOpen /\ (refCount' > 0 <=> refCount # 1)
      BY <1>0, <2>4, <2>7
    <3> QED BY <2>4, <3>1, Zenon
  <2> QED BY <1>0, <2>4, <2>5, <2>6, <2>8
<1> QED BY <1>1, <1>2, <1>3, <1>4, <1>5 DEF Counting

\* A release() that raises leaves one reference too many.
LEMMA LeakStep ==
  ASSUME TypeOK, Counted, Leak
  PROVE  IsFiniteSet(AtWork') /\ Owed' \in Int /\ Owed' = Owed - 1
<1>0. /\ IsFiniteSet(Held) /\ Cardinality(Held) \in Nat
      /\ IsFiniteSet(AtWork) /\ Cardinality(AtWork) \in Nat
      /\ InHand \in {0, 1} /\ queue \in Nat /\ Owed \in Nat
  BY OwedIsNat DEF Counted
<1>1. PICK h \in Held : Held' = Held \ {h}
  BY DEF Leak
<1>2. Cardinality(Held') = Cardinality(Held) - 1
  BY <1>0, <1>1, FS_RemoveElement
<1>3. AtWork' = AtWork /\ InHand' = InHand /\ queue' = queue
  BY DEF Leak
<1> QED BY <1>0, <1>2, <1>3 DEF Owed

\* The count stays with its users in each step.
LEMMA CountedStep ==
  ASSUME NoNewOpen, TypeOK, Locking, Serving, LastFlush, Loaded, Untroubled, Counted,
         [Next]_vars
  PROVE  Counted'
<1>0. /\ Owed \in Nat /\ refCount \in Int /\ Owed <= refCount
      /\ ~Slow /\ ~Failing => Owed = refCount
  BY OwedIsNat DEF Counted, TypeOK
<1>1. CASE Quiet
  <2>1. Owed' = Owed
    BY <1>1 DEF Quiet, Owed
  <2> QED BY <1>1, <2>1 DEF Quiet, Counted
<1>2. CASE Leak
  <2>1. IsFiniteSet(AtWork') /\ Owed' = Owed - 1
    BY <1>2, LeakStep
  <2>2. Owed' <= refCount' /\ (fdOpen' <=> refCount' > 0)
    BY <1>0, <1>2, <2>1 DEF Leak, Counted
  <2> QED BY <1>2, <2>1, <2>2 DEF Leak, Counted
<1>3. CASE Counting
  <2>1. /\ IsFiniteSet(AtWork') /\ refCount' \in Int /\ Owed' \in Int
        /\ Owed' + refCount = Owed + refCount'
        /\ fdOpen' <=> refCount' > 0
    BY <1>3, CountingStep
  <2>2. Owed \in Int /\ refCount \in Int /\ Owed <= refCount
    BY <1>0
  <2>3. Owed' <= refCount' /\ (Owed = refCount => Owed' = refCount')
    BY <2>1, <2>2, Together, Zenon
  <2> QED BY <1>0, <2>1, <2>3 DEF Counted
<1> QED BY <1>1, <1>2, <1>3, QuietSteps

\* While a release() that is the last user flushes nobody else moves but workers
\* and the read thread.
LEMMA AloneStep ==
  ASSUME NoNewOpen, TypeOK, Serving, [Next]_vars,
         NEW s \in Threads, pc[s] \in FlushLabels, wrapper[job[s]] = "closing", Alone(s),
         pc'[s] \in FlushLabels, wrapper'[job'[s]] = "closing"
  PROVE  /\ Alone(s)' /\ job'[s] = job[s]
         /\ content' = content /\ asked'[s] = asked[s]
         /\ pc'[s] = "f_lock" => pc[s] = "f_lock"
<1>0. /\ \A u \in Threads : u # s => pc[u] = "idle"
      /\ \A h \in Wrappers : wrapper[h] = (IF h = job[s] THEN "closing" ELSE "closed")
      /\ job[s] \in Wrappers
  BY DEF Alone, Held, TypeOK
<1> DEFINE Goal ==
      /\ \A u \in Threads : u # s => pc'[u] = "idle"
      /\ wrapper' = wrapper /\ job' = job /\ content' = content /\ asked' = asked
      /\ pc'[s] = "f_lock" => pc[s] = "f_lock"
<1> USE WrapperAssumption, <1>0 DEF handleVars, lockVars, dataVars, threadVars,
     FlushLabels, WriteLabels, Wakes
<1>1. ASSUME NEW t \in Threads, NEW h \in Wrappers, WriteCall(t, h) PROVE Goal
  BY <1>1, GoneTo DEF TypeOK, WriteCall, Begin
<1>2. ASSUME NEW t \in Threads, NEW h \in Wrappers, FlushCall(t, h) PROVE Goal
  BY <1>2, GoneTo DEF TypeOK, FlushCall, Begin
<1>3. ASSUME NEW t \in Threads, NEW h \in Wrappers, OpenCall(t, h) PROVE Goal
  BY <1>3, GoneTo DEF TypeOK, OpenCall, NoNewOpen
<1>4. ASSUME NEW t \in Threads, NEW h \in Wrappers, ReleaseCall(t, h) PROVE Goal
  BY <1>4, GoneTo DEF TypeOK, ReleaseCall, Begin
<1>5. ASSUME NEW t \in Threads, WriteLock(t) PROVE Goal
  BY <1>5, GoneTo DEF TypeOK, WriteLock
<1>6. ASSUME NEW t \in Threads, WriteCached(t) PROVE Goal
  BY <1>6, GoneTo DEF TypeOK, WriteCached
<1>7. ASSUME NEW t \in Threads, WriteFetch(t) PROVE Goal
  BY <1>7, GoneTo DEF TypeOK, WriteFetch
<1>8. ASSUME NEW t \in Threads, WriteCheck(t) PROVE Goal
  BY <1>8, GoneTo DEF TypeOK, WriteCheck
<1>9. ASSUME NEW t \in Threads, WriteTimeout(t) PROVE Goal
  BY <1>9, GoneTo DEF TypeOK, WriteTimeout
<1>10. ASSUME NEW t \in Threads, WriteData(t) PROVE Goal
  BY <1>10, GoneTo DEF TypeOK, WriteData
<1>11. ASSUME NEW t \in Threads, FlushBusy(t) PROVE Goal
  BY <1>11, GoneTo DEF TypeOK, FlushBusy, Raise
<1>12. ASSUME NEW t \in Threads, FlushPreWait(t) PROVE Goal
  BY <1>12, GoneTo DEF TypeOK, FlushPreWait
<1>13. ASSUME NEW t \in Threads, FlushPreTimeout(t) PROVE Goal
  BY <1>13, GoneTo DEF TypeOK, FlushPreTimeout
<1>14. ASSUME NEW t \in Threads, FlushQueueing(t) PROVE Goal
  BY <1>14, GoneTo DEF TypeOK, FlushQueueing, PastPreWait, MustQueue, AbortRead
<1>15. ASSUME NEW t \in Threads, FlushNotQueueing(t) PROVE Goal
  BY <1>15, GoneTo DEF TypeOK, FlushNotQueueing, PastPreWait, MustQueue, Raise, Return,
      AbortRead
<1>16. ASSUME NEW t \in Threads, FlushRef(t) PROVE Goal
  BY <1>16, GoneTo DEF TypeOK, FlushRef
<1>17. ASSUME NEW t \in Threads, FlushExclude(t) PROVE Goal
  BY <1>17, GoneTo DEF TypeOK, FlushExclude
<1>18. ASSUME NEW t \in Threads, FlushPut(t) PROVE Goal
  BY <1>18, GoneTo DEF TypeOK, FlushPut
<1>19. ASSUME NEW t \in Threads, FlushMark(t) PROVE Goal
  BY <1>19, GoneTo DEF TypeOK, FlushMark
<1>20. ASSUME NEW t \in Threads, FlushCheck(t) PROVE Goal
  BY <1>20, GoneTo DEF TypeOK, FlushCheck, Raise, Return
<1>21. ASSUME NEW t \in Threads, FlushTimeout(t) PROVE Goal
  BY <1>21, GoneTo DEF TypeOK, FlushTimeout, Raise
<1>22. ASSUME NEW t \in Threads, OpenRef(t) PROVE Goal
  BY <1>22, GoneTo DEF TypeOK, OpenRef
<1>23. ASSUME NEW t \in Threads, ReleaseTest(t) PROVE Goal
  BY <1>23, GoneTo DEF TypeOK, ReleaseTest, Raise, Misleading
<1>24. ASSUME NEW t \in Threads, ReleaseDeref(t) PROVE Goal
  BY <1>24, GoneTo DEF TypeOK, ReleaseDeref, Deref
<1>25. ASSUME NEW w \in Workers, WorkerGet(w) PROVE Goal
  BY <1>25, GoneTo DEF TypeOK, WorkerGet
<1>26. ASSUME NEW w \in Workers, WorkerStart(w) PROVE Goal
  BY <1>26, GoneTo DEF TypeOK, WorkerStart
<1>27. ASSUME NEW w \in Workers, WorkerCopy(w) PROVE Goal
  BY <1>27, GoneTo DEF TypeOK, WorkerCopy
<1>28. ASSUME NEW w \in Workers, WorkerUpload(w) PROVE Goal
  BY <1>28, GoneTo DEF TypeOK, WorkerUpload
<1>29. ASSUME NEW w \in Workers, WorkerUnqueue(w) PROVE Goal
  BY <1>29, GoneTo DEF TypeOK, WorkerUnqueue
<1>30. ASSUME NEW w \in Workers, WorkerRelease(w) PROVE Goal
  BY <1>30, GoneTo DEF TypeOK, WorkerRelease
<1>31. ASSUME NEW w \in Workers, WorkerDeref(w) PROVE Goal
  BY <1>31, GoneTo DEF TypeOK, WorkerDeref, Deref
<1>32. ASSUME NEW w \in Workers, WorkerNotify(w) PROVE Goal
  BY <1>32, NotifiedTo DEF TypeOK, WorkerNotify
<1>33. ASSUME ReadThreadEnds PROVE Goal
  <2>1. \A q \in Threads \cup Workers :
            pc'[q] = pc[q] \/ (q \in Threads /\ <<pc[q], pc'[q]>> \in Wakes)
    BY <1>33, ReaderWakes DEF TypeOK
  <2>2. UNCHANGED <<wrapper, job, content, asked>>
    BY <1>33 DEF ReadThreadEnds
  <2> QED BY <2>1, <2>2
<1>34. ASSUME Unlink PROVE Goal
  BY <1>34 DEF Unlink
<1>a. ASSUME UNCHANGED vars PROVE Goal
  <2>1. UNCHANGED <<pc, wrapper, job, content, asked>>
    BY <1>a DEF vars
  <2> QED BY <2>1
<1> HIDE DEF Goal
<1>b. Goal
  BY <1>a, <1>1, <1>2, <1>3, <1>4, <1>5, <1>6, <1>7, <1>8, <1>9, <1>10, <1>11, <1>12,
      <1>13, <1>14, <1>15, <1>16, <1>17, <1>18, <1>19, <1>20, <1>21, <1>22, <1>23,
      <1>24, <1>25, <1>26, <1>27, <1>28, <1>29, <1>30, <1>31, <1>32, <1>33, <1>34
     DEF Next, Write, Flush, Close, Work
<1> QED BY <1>b DEF Goal, Alone, Held

\* A flush() of a request that is being closed comes from its release().
LEMMA FlushOfRelease ==
  ASSUME NoNewOpen, TypeOK, Serving, [Next]_vars,
         NEW s \in Threads, pc'[s] \in FlushLabels, wrapper'[job'[s]] = "closing",
         ~(pc[s] \in FlushLabels /\ wrapper[job[s]] = "closing")
  PROVE  ReleaseTest(s)
<1> DEFINE Goal == ReleaseTest(s)
<1> USE WrapperAssumption DEF handleVars, lockVars, dataVars, threadVars,
     FlushLabels, WriteLabels, Wakes, Serving, Held
<1>1. ASSUME NEW t \in Threads, NEW h \in Wrappers, WriteCall(t, h) PROVE Goal
  BY <1>1, GoneTo DEF TypeOK, WriteCall, Begin
<1>2. ASSUME NEW t \in Threads, NEW h \in Wrappers, FlushCall(t, h) PROVE Goal
  BY <1>2, GoneTo DEF TypeOK, FlushCall, Begin
<1>3. ASSUME NEW t \in Threads, NEW h \in Wrappers, OpenCall(t, h) PROVE Goal
  BY <1>3, GoneTo DEF TypeOK, OpenCall, NoNewOpen
<1>4. ASSUME NEW t \in Threads, NEW h \in Wrappers, ReleaseCall(t, h) PROVE Goal
  BY <1>4, GoneTo DEF TypeOK, ReleaseCall, Begin
<1>5. ASSUME NEW t \in Threads, WriteLock(t) PROVE Goal
  BY <1>5, GoneTo DEF TypeOK, WriteLock
<1>6. ASSUME NEW t \in Threads, WriteCached(t) PROVE Goal
  BY <1>6, GoneTo DEF TypeOK, WriteCached
<1>7. ASSUME NEW t \in Threads, WriteFetch(t) PROVE Goal
  BY <1>7, GoneTo DEF TypeOK, WriteFetch
<1>8. ASSUME NEW t \in Threads, WriteCheck(t) PROVE Goal
  BY <1>8, GoneTo DEF TypeOK, WriteCheck
<1>9. ASSUME NEW t \in Threads, WriteTimeout(t) PROVE Goal
  BY <1>9, GoneTo DEF TypeOK, WriteTimeout
<1>10. ASSUME NEW t \in Threads, WriteData(t) PROVE Goal
  BY <1>10, GoneTo DEF TypeOK, WriteData
<1>11. ASSUME NEW t \in Threads, FlushBusy(t) PROVE Goal
  BY <1>11, GoneTo DEF TypeOK, FlushBusy, Raise
<1>12. ASSUME NEW t \in Threads, FlushPreWait(t) PROVE Goal
  BY <1>12, GoneTo DEF TypeOK, FlushPreWait
<1>13. ASSUME NEW t \in Threads, FlushPreTimeout(t) PROVE Goal
  BY <1>13, GoneTo DEF TypeOK, FlushPreTimeout
<1>14. ASSUME NEW t \in Threads, FlushQueueing(t) PROVE Goal
  BY <1>14, GoneTo DEF TypeOK, FlushQueueing, PastPreWait, MustQueue, AbortRead
<1>15. ASSUME NEW t \in Threads, FlushNotQueueing(t) PROVE Goal
  <2>1. \A h \in Wrappers : wrapper'[h] = "closing" => wrapper[h] = "closing"
    BY <1>15 DEF FlushNotQueueing, PastPreWait, Raise, Return, TypeOK
  <2>2. job' = job /\ pc[t] # "idle" /\ \A u \in Threads : u # t => pc'[u] = pc[u]
    BY <1>15, GoneTo DEF FlushNotQueueing, PastPreWait, Raise, Return, TypeOK
  <2>3. CASE s = t
    <3>1. pc[s] \in FlushLabels /\ job[s] \in Wrappers
      BY <1>15, <2>3 DEF FlushNotQueueing, PastPreWait
    <3> QED BY <2>1, <2>2, <3>1
  <2>4. CASE s # t
    BY <2>1, <2>2, <2>4
  <2> QED BY <2>3, <2>4
<1>16. ASSUME NEW t \in Threads, FlushRef(t) PROVE Goal
  BY <1>16, GoneTo DEF TypeOK, FlushRef
<1>17. ASSUME NEW t \in Threads, FlushExclude(t) PROVE Goal
  BY <1>17, GoneTo DEF TypeOK, FlushExclude
<1>18. ASSUME NEW t \in Threads, FlushPut(t) PROVE Goal
  BY <1>18, GoneTo DEF TypeOK, FlushPut
<1>19. ASSUME NEW t \in Threads, FlushMark(t) PROVE Goal
  BY <1>19, GoneTo DEF TypeOK, FlushMark
<1>20. ASSUME NEW t \in Threads, FlushCheck(t) PROVE Goal
  <2>1. \A h \in Wrappers : wrapper'[h] = "closing" => wrapper[h] = "closing"
    BY <1>20 DEF FlushCheck, Raise, Return, TypeOK
  <2>2. job' = job /\ pc[t] # "idle" /\ \A u \in Threads : u # t => pc'[u] = pc[u]
    BY <1>20, GoneTo DEF FlushCheck, Raise, Return, TypeOK
  <2>3. CASE s = t
    <3>1. pc[s] \in FlushLabels /\ job[s] \in Wrappers
      BY <1>20, <2>3 DEF FlushCheck
    <3> QED BY <2>1, <2>2, <3>1
  <2>4. CASE s # t
    BY <2>1, <2>2, <2>4
  <2> QED BY <2>3, <2>4
<1>21. ASSUME NEW t \in Threads, FlushTimeout(t) PROVE Goal
  <2>1. \A h \in Wrappers : wrapper'[h] = "closing" => wrapper[h] = "closing"
    BY <1>21 DEF FlushTimeout, Raise, TypeOK
  <2>2. job' = job /\ pc[t] # "idle" /\ \A u \in Threads : u # t => pc'[u] = pc[u]
    BY <1>21, GoneTo DEF FlushTimeout, Raise, TypeOK
  <2>3. CASE s = t
    <3>1. pc[s] \in FlushLabels /\ job[s] \in Wrappers
      BY <1>21, <2>3 DEF FlushTimeout
    <3> QED BY <2>1, <2>2, <3>1
  <2>4. CASE s # t
    BY <2>1, <2>2, <2>4
  <2> QED BY <2>3, <2>4
<1>22. ASSUME NEW t \in Threads, OpenRef(t) PROVE Goal
  BY <1>22, GoneTo DEF TypeOK, OpenRef
<1>23. ASSUME NEW t \in Threads, ReleaseTest(t) PROVE Goal
  <2>1. \A h \in Wrappers : wrapper'[h] = "closing" => wrapper[h] = "closing"
    BY <1>23 DEF ReleaseTest, Raise, TypeOK
  <2>2. job' = job /\ pc[t] # "idle" /\ \A u \in Threads : u # t => pc'[u] = pc[u]
    BY <1>23, GoneTo DEF ReleaseTest, Raise, TypeOK
  <2>3. CASE s = t
    BY <1>23, <2>3
  <2>4. CASE s # t
    BY <2>1, <2>2, <2>4
  <2> QED BY <2>3, <2>4
<1>24. ASSUME NEW t \in Threads, ReleaseDeref(t) PROVE Goal
  BY <1>24, GoneTo DEF TypeOK, ReleaseDeref, Deref
<1>25. ASSUME NEW w \in Workers, WorkerGet(w) PROVE Goal
  BY <1>25, GoneTo DEF TypeOK, WorkerGet
<1>26. ASSUME NEW w \in Workers, WorkerStart(w) PROVE Goal
  BY <1>26, GoneTo DEF TypeOK, WorkerStart
<1>27. ASSUME NEW w \in Workers, WorkerCopy(w) PROVE Goal
  BY <1>27, GoneTo DEF TypeOK, WorkerCopy
<1>28. ASSUME NEW w \in Workers, WorkerUpload(w) PROVE Goal
  BY <1>28, GoneTo DEF TypeOK, WorkerUpload
<1>29. ASSUME NEW w \in Workers, WorkerUnqueue(w) PROVE Goal
  BY <1>29, GoneTo DEF TypeOK, WorkerUnqueue
<1>30. ASSUME NEW w \in Workers, WorkerRelease(w) PROVE Goal
  BY <1>30, GoneTo DEF TypeOK, WorkerRelease
<1>31. ASSUME NEW w \in Workers, WorkerDeref(w) PROVE Goal
  BY <1>31, GoneTo DEF TypeOK, WorkerDeref, Deref
<1>32. ASSUME NEW w \in Workers, WorkerNotify(w) PROVE Goal
  BY <1>32, NotifiedTo DEF TypeOK, WorkerNotify
<1>33. ASSUME ReadThreadEnds PROVE Goal
  <2>1. \A q \in Threads \cup Workers :
            pc'[q] = pc[q] \/ (q \in Threads /\ <<pc[q], pc'[q]>> \in Wakes)
    BY <1>33, ReaderWakes DEF TypeOK
  <2>2. UNCHANGED <<wrapper, job>>
    BY <1>33 DEF ReadThreadEnds
  <2> QED BY <2>1, <2>2
<1>34. ASSUME Unlink PROVE Goal
  BY <1>34 DEF Unlink
<1>a. ASSUME UNCHANGED vars PROVE Goal
  BY <1>a DEF vars
<1> HIDE DEF Goal
<1>b. Goal
  BY <1>a, <1>1, <1>2, <1>3, <1>4, <1>5, <1>6, <1>7, <1>8, <1>9, <1>10, <1>11, <1>12,
      <1>13, <1>14, <1>15, <1>16, <1>17, <1>18, <1>19, <1>20, <1>21, <1>22, <1>23,
      <1>24, <1>25, <1>26, <1>27, <1>28, <1>29, <1>30, <1>31, <1>32, <1>33, <1>34
     DEF Next, Write, Flush, Close, Work
<1> QED BY <1>b DEF Goal

\* A release() that begins to flush has counted itself alone, and stays so.
LEMMA LastFlushStep ==
  ASSUME NoNewOpen, TypeOK, Locking, Serving, LastFlush, Loaded, Untroubled, Counted,
         [Next]_vars
  PROVE  LastFlush'
<1> SUFFICES ASSUME NEW s \in Threads, pc'[s] \in FlushLabels,
                    wrapper'[job'[s]] = "closing"
             PROVE  /\ Alone(s)'
                    /\ asked'[s] = content'
                    /\ pc'[s] = "f_lock" => refCount' = 1
  BY DEF LastFlush
<1>0. Owed <= refCount /\ IsFiniteSet(AtWork) /\ refCount \in Int /\ Owed \in Nat
  BY OwedIsNat DEF Counted, TypeOK
<1>1. CASE pc[s] \in FlushLabels /\ wrapper[job[s]] = "closing"
  <2>1. Alone(s) /\ asked[s] = content /\ (pc[s] = "f_lock" => refCount = 1)
    BY <1>1 DEF LastFlush
  <2>2. /\ Alone(s)' /\ job'[s] = job[s]
        /\ content' = content /\ asked'[s] = asked[s]
        /\ pc'[s] = "f_lock" => pc[s] = "f_lock"
    BY <1>1, <2>1, AloneStep
  <2>3. ASSUME pc'[s] = "f_lock" PROVE refCount' = 1
    <3>1. pc[s] = "f_lock" /\ refCount = 1
      BY <2>1, <2>2, <2>3
    <3>2. job[s] \in Held
      BY <2>1 DEF Alone
    <3>3. AtWork = {}
      BY <1>0, <3>1, <3>2, UsersAreOwed
    <3>4. CASE Quiet \/ Leak
      BY <3>1, <3>4 DEF Quiet, Leak
    <3>5. ASSUME NEW t \in Threads, FlushRef(t) PROVE FALSE
      BY <2>1, <2>3, <3>1, <3>5 DEF FlushRef, Alone
    <3>6. ASSUME NEW t \in Threads, FlushPut(t) PROVE FALSE
      BY <2>1, <3>1, <3>6 DEF FlushPut, Alone
    <3>7. ASSUME NEW t \in Threads, ReleaseDeref(t) PROVE FALSE
      BY <2>1, <3>1, <3>7 DEF ReleaseDeref, Alone
    <3>8. ASSUME NEW w \in Workers, WorkerGet(w) PROVE refCount' = 1
      BY <3>1, <3>8 DEF WorkerGet, handleVars
    <3>9. ASSUME NEW w \in Workers, WorkerDeref(w) PROVE FALSE
      BY <3>3, <3>9 DEF WorkerDeref, AtWork, Busy
    <3> QED BY <3>4, <3>5, <3>6, <3>7, <3>8, <3>9, QuietSteps DEF Counting
  <2> QED BY <2>1, <2>2, <2>3
<1>2. CASE ~(pc[s] \in FlushLabels /\ wrapper[job[s]] = "closing")
  <2>1. ReleaseTest(s)
    BY <1>2, FlushOfRelease
  <2>2. pc[s] = "r_test" /\ job[s] \in Held /\ wrapper[job[s]] = "closing"
    BY <2>1 DEF ReleaseTest, Serving
  <2>3. refCount = 1 /\ UNCHANGED <<refCount, wrapper, job, content>>
        /\ asked' = [asked EXCEPT ![s] = content]
    BY <2>1, GoneTo DEF ReleaseTest, Raise, FlushLabels, handleVars, dataVars, TypeOK
  <2>4. Held = {job[s]}
    BY <1>0, <2>2, <2>3, UsersAreOwed
  <2>5. ASSUME NEW u \in Threads, u # s PROVE pc'[u] = "idle"
    <3>1. pc[u] = "idle"
      BY <2>2, <2>4, <2>5 DEF Serving
    <3>2. pc'[u] = pc[u]
      BY <2>1, <2>5, GoneTo DEF ReleaseTest, Raise, TypeOK
    <3> QED BY <3>1, <3>2
  <2>6. Alone(s)'
    BY <2>3, <2>4, <2>5 DEF Alone, Held
  <2> QED BY <2>3, <2>6 DEF TypeOK
<1> QED BY <1>1, <1>2

\* A release() that raises gives up its wrapper and keeps its reference.
LEMMA RaiseOwes ==
  ASSUME TypeOK, Counted, Serving, NEW t \in Threads, pc[t] # "idle",
         pc[t] \notin {"f_excl", "f_put"}, wrapper[job[t]] = "closing",
         Raise(t), UNCHANGED <<refCount, queue>>
  PROVE  Owed' < refCount'
<1>0. /\ IsFiniteSet(Held) /\ Cardinality(Held) \in Nat /\ Cardinality(AtWork) \in Nat
      /\ InHand \in {0, 1} /\ queue \in Nat /\ Owed \in Nat
      /\ refCount \in Int /\ Owed <= refCount
  BY OwedIsNat DEF Counted, TypeOK
<1>1. Held' = Held \ {job[t]} /\ job[t] \in Held
  BY DEF Raise, Held, Serving, TypeOK
<1>2. Cardinality(Held') = Cardinality(Held) - 1
  BY <1>0, <1>1, FS_RemoveElement
<1>3. AtWork' = AtWork /\ InHand' = InHand
  BY GoneTo, WrapperAssumption DEF Raise, AtWork, Busy, InHand, TypeOK
<1>4. Owed' = Owed - 1
  BY <1>0, <1>2, <1>3 DEF Owed
<1> QED BY <1>0, <1>4

\* An unlinked file stays unlinked, a misled release() is not forgotten, and a
\* reference too many is never given back.
LEMMA LostStays ==
  ASSUME NoNewOpen, TypeOK, Locking, Serving, LastFlush, Loaded, Untroubled, Counted,
         [Next]_vars
  PROVE  /\ obsolete => obsolete'
         /\ misled => misled'
         /\ Owed < refCount => Owed' < refCount'
<1>1. (obsolete => obsolete') /\ (misled => misled')
  <2> DEFINE Goal == (obsolete => obsolete') /\ (misled => misled')
  <2> USE DEF handleVars, lockVars, dataVars, threadVars
  <2>1. ASSUME NEW t \in Threads, NEW h \in Wrappers, WriteCall(t, h) PROVE Goal
    BY <2>1 DEF WriteCall, Begin
  <2>2. ASSUME NEW t \in Threads, NEW h \in Wrappers, FlushCall(t, h) PROVE Goal
    BY <2>2 DEF FlushCall, Begin
  <2>3. ASSUME NEW t \in Threads, NEW h \in Wrappers, OpenCall(t, h) PROVE Goal
    BY <2>3 DEF OpenCall
  <2>4. ASSUME NEW t \in Threads, NEW h \in Wrappers, ReleaseCall(t, h) PROVE Goal
    BY <2>4 DEF ReleaseCall, Begin
  <2>5. ASSUME NEW t \in Threads, WriteLock(t) PROVE Goal
    BY <2>5 DEF WriteLock
  <2>6. ASSUME NEW t \in Threads, WriteCached(t) PROVE Goal
    BY <2>6 DEF WriteCached
  <2>7. ASSUME NEW t \in Threads, WriteFetch(t) PROVE Goal
    BY <2>7 DEF WriteFetch
  <2>8. ASSUME NEW t \in Threads, WriteCheck(t) PROVE Goal
    BY <2>8 DEF WriteCheck
  <2>9. ASSUME NEW t \in Threads, WriteTimeout(t) PROVE Goal
    BY <2>9 DEF WriteTimeout
  <2>10. ASSUME NEW t \in Threads, WriteData(t) PROVE Goal
    BY <2>10 DEF WriteData
  <2>11. ASSUME NEW t \in Threads, FlushBusy(t) PROVE Goal
    BY <2>11 DEF FlushBusy, Raise
  <2>12. ASSUME NEW t \in Threads, FlushPreWait(t) PROVE Goal
    BY <2>12 DEF FlushPreWait
  <2>13. ASSUME NEW t \in Threads, FlushPreTimeout(t) PROVE Goal
    BY <2>13 DEF FlushPreTimeout
  <2>14. ASSUME NEW t \in Threads, FlushQueueing(t) PROVE Goal
    BY <2>14 DEF FlushQueueing, PastPreWait, MustQueue, AbortRead
  <2>15. ASSUME NEW t \in Threads, FlushNotQueueing(t) PROVE Goal
    BY <2>15 DEF FlushNotQueueing, PastPreWait, MustQueue, Raise, Return, AbortRead
  <2>16. ASSUME NEW t \in Threads, FlushRef(t) PROVE Goal
    BY <2>16 DEF FlushRef
  <2>17. ASSUME NEW t \in Threads, FlushExclude(t) PROVE Goal
    BY <2>17 DEF FlushExclude
  <2>18. ASSUME NEW t \in Threads, FlushPut(t) PROVE Goal
    BY <2>18 DEF FlushPut
  <2>19. ASSUME NEW t \in Threads, FlushMark(t) PROVE Goal
    BY <2>19 DEF FlushMark
  <2>20. ASSUME NEW t \in Threads, FlushCheck(t) PROVE Goal
    BY <2>20 DEF FlushCheck, Raise, Return
  <2>21. ASSUME NEW t \in Threads, FlushTimeout(t) PROVE Goal
    BY <2>21 DEF FlushTimeout, Raise
  <2>22. ASSUME NEW t \in Threads, OpenRef(t) PROVE Goal
    BY <2>22 DEF OpenRef
  <2>23. ASSUME NEW t \in Threads, ReleaseTest(t) PROVE Goal
    BY <2>23 DEF ReleaseTest, Raise, Misleading
  <2>24. ASSUME NEW t \in Threads, ReleaseDeref(t) PROVE Goal
    BY <2>24 DEF ReleaseDeref, Deref
  <2>25. ASSUME NEW w \in Workers, WorkerGet(w) PROVE Goal
    BY <2>25 DEF WorkerGet
  <2>26. ASSUME NEW w \in Workers, WorkerStart(w) PROVE Goal
    BY <2>26 DEF WorkerStart
  <2>27. ASSUME NEW w \in Workers, WorkerCopy(w) PROVE Goal
    BY <2>27 DEF WorkerCopy
  <2>28. ASSUME NEW w \in Workers, WorkerUpload(w) PROVE Goal
    BY <2>28 DEF WorkerUpload
  <2>29. ASSUME NEW w \in Workers, WorkerUnqueue(w) PROVE Goal
    BY <2>29 DEF WorkerUnqueue
  <2>30. ASSUME NEW w \in Workers, WorkerRelease(w) PROVE Goal
    BY <2>30 DEF WorkerRelease
  <2>31. ASSUME NEW w \in Workers, WorkerDeref(w) PROVE Goal
    BY <2>31 DEF WorkerDeref, Deref
  <2>32. ASSUME NEW w \in Workers, WorkerNotify(w) PROVE Goal
    BY <2>32 DEF WorkerNotify
  <2>33. ASSUME ReadThreadEnds PROVE Goal
    BY <2>33 DEF ReadThreadEnds
  <2>34. ASSUME Unlink PROVE Goal
    BY <2>34 DEF Unlink
  <2>a. ASSUME UNCHANGED vars PROVE Goal
    BY <2>a DEF vars
  <2> HIDE DEF Goal
  <2>b. Goal
    BY <2>a, <2>1, <2>2, <2>3, <2>4, <2>5, <2>6, <2>7, <2>8, <2>9, <2>10, <2>11, <2>12,
        <2>13, <2>14, <2>15, <2>16, <2>17, <2>18, <2>19, <2>20, <2>21, <2>22, <2>23,
        <2>24, <2>25, <2>26, <2>27, <2>28, <2>29, <2>30, <2>31, <2>32, <2>33, <2>34
       DEF Next, Write, Flush, Close, Work
  <2> QED BY <2>b DEF Goal
<1>2. /\ Owed \in Int /\ refCount \in Int /\ Owed <= refCount
  BY OwedIsNat DEF Counted, TypeOK
<1>3. CASE Quiet
  <2>1. Owed' = Owed /\ refCount' = refCount
    BY <1>3 DEF Quiet, Owed
  <2> QED BY <1>1, <2>1
<1>4. CASE Leak
  <2>1. Owed' = Owed - 1 /\ refCount' = refCount
    BY <1>4, LeakStep DEF Leak
  <2>2. Owed' < refCount'
    BY <1>2, <2>1
  <2> QED BY <1>1, <2>2
<1>5. CASE Counting
  <2>1. refCount' \in Int /\ Owed' \in Int /\ Owed' + refCount = Owed + refCount'
    BY <1>5, CountingStep
  <2>2. Owed < refCount => Owed' < refCount'
    BY <1>2, <2>1, Together, Zenon
  <2> QED BY <1>1, <2>2
<1> QED BY <1>3, <1>4, <1>5, QuietSteps

\* An open request stays open until its release() begins.
LEMMA OpenStays ==
  ASSUME NoNewOpen, TypeOK, Serving, NEW k \in Wrappers, wrapper[k] = "open", [Next]_vars
  PROVE  wrapper'[k] = "open" \/ \E t \in Threads : WillFlush(t)'
<1> DEFINE Goal == wrapper'[k] = "open" \/ \E t \in Threads : WillFlush(t)'
<1> USE DEF handleVars, lockVars, dataVars, threadVars
<1>1. ASSUME NEW t \in Threads, NEW h \in Wrappers, WriteCall(t, h) PROVE Goal
  BY <1>1 DEF WriteCall, Begin
<1>2. ASSUME NEW t \in Threads, NEW h \in Wrappers, FlushCall(t, h) PROVE Goal
  BY <1>2 DEF FlushCall, Begin
<1>3. ASSUME NEW t \in Threads, NEW h \in Wrappers, OpenCall(t, h) PROVE Goal
  BY <1>3 DEF OpenCall, NoNewOpen
<1>4. ASSUME NEW t \in Threads, NEW h \in Wrappers, ReleaseCall(t, h) PROVE Goal
  BY <1>4, GoneTo DEF ReleaseCall, Begin, WillFlush, TypeOK
<1>5. ASSUME NEW t \in Threads, WriteLock(t) PROVE Goal
  BY <1>5 DEF WriteLock
<1>6. ASSUME NEW t \in Threads, WriteCached(t) PROVE Goal
  BY <1>6 DEF WriteCached
<1>7. ASSUME NEW t \in Threads, WriteFetch(t) PROVE Goal
  BY <1>7 DEF WriteFetch
<1>8. ASSUME NEW t \in Threads, WriteCheck(t) PROVE Goal
  BY <1>8 DEF WriteCheck
<1>9. ASSUME NEW t \in Threads, WriteTimeout(t) PROVE Goal
  BY <1>9 DEF WriteTimeout
<1>10. ASSUME NEW t \in Threads, WriteData(t) PROVE Goal
  BY <1>10 DEF WriteData
<1>11. ASSUME NEW t \in Threads, FlushBusy(t) PROVE Goal
  BY <1>11 DEF FlushBusy, Raise, TypeOK
<1>12. ASSUME NEW t \in Threads, FlushPreWait(t) PROVE Goal
  BY <1>12 DEF FlushPreWait
<1>13. ASSUME NEW t \in Threads, FlushPreTimeout(t) PROVE Goal
  BY <1>13 DEF FlushPreTimeout
<1>14. ASSUME NEW t \in Threads, FlushQueueing(t) PROVE Goal
  BY <1>14 DEF FlushQueueing, PastPreWait, MustQueue, AbortRead
<1>15. ASSUME NEW t \in Threads, FlushNotQueueing(t) PROVE Goal
  BY <1>15 DEF FlushNotQueueing, PastPreWait, MustQueue, Raise, Return, AbortRead, TypeOK
<1>16. ASSUME NEW t \in Threads, FlushRef(t) PROVE Goal
  BY <1>16 DEF FlushRef
<1>17. ASSUME NEW t \in Threads, FlushExclude(t) PROVE Goal
  BY <1>17 DEF FlushExclude
<1>18. ASSUME NEW t \in Threads, FlushPut(t) PROVE Goal
  BY <1>18 DEF FlushPut
<1>19. ASSUME NEW t \in Threads, FlushMark(t) PROVE Goal
  BY <1>19 DEF FlushMark
<1>20. ASSUME NEW t \in Threads, FlushCheck(t) PROVE Goal
  BY <1>20 DEF FlushCheck, Raise, Return, TypeOK
<1>21. ASSUME NEW t \in Threads, FlushTimeout(t) PROVE Goal
  BY <1>21 DEF FlushTimeout, Raise, TypeOK
<1>22. ASSUME NEW t \in Threads, OpenRef(t) PROVE Goal
  BY <1>22 DEF OpenRef, Serving
<1>23. ASSUME NEW t \in Threads, ReleaseTest(t) PROVE Goal
  BY <1>23 DEF ReleaseTest, Raise, Misleading, TypeOK
<1>24. ASSUME NEW t \in Threads, ReleaseDeref(t) PROVE Goal
  BY <1>24 DEF ReleaseDeref, Deref, Serving, Held, TypeOK
<1>25. ASSUME NEW w \in Workers, WorkerGet(w) PROVE Goal
  BY <1>25 DEF WorkerGet
<1>26. ASSUME NEW w \in Workers, WorkerStart(w) PROVE Goal
  BY <1>26 DEF WorkerStart
<1>27. ASSUME NEW w \in Workers, WorkerCopy(w) PROVE Goal
  BY <1>27 DEF WorkerCopy
<1>28. ASSUME NEW w \in Workers, WorkerUpload(w) PROVE Goal
  BY <1>28 DEF WorkerUpload
<1>29. ASSUME NEW w \in Workers, WorkerUnqueue(w) PROVE Goal
  BY <1>29 DEF WorkerUnqueue
<1>30. ASSUME NEW w \in Workers, WorkerRelease(w) PROVE Goal
  BY <1>30 DEF WorkerRelease
<1>31. ASSUME NEW w \in Workers, WorkerDeref(w) PROVE Goal
  BY <1>31 DEF WorkerDeref, Deref
<1>32. ASSUME NEW w \in Workers, WorkerNotify(w) PROVE Goal
  BY <1>32 DEF WorkerNotify
<1>33. ASSUME ReadThreadEnds PROVE Goal
  BY <1>33 DEF ReadThreadEnds
<1>34. ASSUME Unlink PROVE Goal
  BY <1>34 DEF Unlink
<1>a. ASSUME UNCHANGED vars PROVE Goal
  BY <1>a DEF vars
<1> HIDE DEF Goal
<1>b. Goal
  BY <1>a, <1>1, <1>2, <1>3, <1>4, <1>5, <1>6, <1>7, <1>8, <1>9, <1>10, <1>11, <1>12,
      <1>13, <1>14, <1>15, <1>16, <1>17, <1>18, <1>19, <1>20, <1>21, <1>22, <1>23,
      <1>24, <1>25, <1>26, <1>27, <1>28, <1>29, <1>30, <1>31, <1>32, <1>33, <1>34
     DEF Next, Write, Flush, Close, Work
<1> QED BY <1>b DEF Goal

\* A release() that has yet to flush does so, is misled, or keeps its reference;
\* it ends with nothing left to save.
LEMMA FlushStays ==
  ASSUME NoNewOpen, IInv, Serving, LastFlush, Untroubled, Counted,
         NEW s \in Threads, WillFlush(s), [Next]_vars
  PROVE  \/ WillFlush(s)' \/ backing = content \/ obsolete \/ misled'
         \/ Owed' < refCount' \/ \E h \in Wrappers : wrapper'[h] = "open"
<1> DEFINE Goal ==
      \/ WillFlush(s)' \/ backing = content \/ obsolete \/ misled'
      \/ Owed' < refCount' \/ \E h \in Wrappers : wrapper'[h] = "open"
<1> DEFINE Keeps == job'[s] = job[s] /\ wrapper'[job[s]] = "closing"
                     /\ (pc'[s] = "r_test" \/ pc'[s] \in FlushLabels)
<1>0. /\ pc[s] = "r_test" \/ pc[s] \in FlushLabels
      /\ wrapper[job[s]] = "closing" /\ job[s] \in Wrappers
      /\ \A u \in Threads : u # s /\ pc[u] # "idle" => job[u] # job[s]
      /\ TypeOK /\ pc[s] # "idle"
  BY DEF WillFlush, Serving, Held, FlushLabels, IInv
<1>k. Keeps => Goal
  BY DEF WillFlush
<1> HIDE DEF Goal
<1> USE WrapperAssumption, <1>0, <1>k DEF handleVars, lockVars, dataVars, threadVars,
     FlushLabels, Wakes
<1> HIDE <1>k
<1>1. ASSUME NEW t \in Threads, NEW h \in Wrappers, WriteCall(t, h) PROVE Keeps
  BY <1>1, GoneTo DEF TypeOK, WriteCall, Begin
<1>2. ASSUME NEW t \in Threads, NEW h \in Wrappers, FlushCall(t, h) PROVE Keeps
  BY <1>2, GoneTo DEF TypeOK, FlushCall, Begin
<1>3. ASSUME NEW t \in Threads, NEW h \in Wrappers, OpenCall(t, h) PROVE Keeps
  BY <1>3, GoneTo DEF TypeOK, OpenCall, NoNewOpen
<1>4. ASSUME NEW t \in Threads, NEW h \in Wrappers, ReleaseCall(t, h) PROVE Keeps
  BY <1>4, GoneTo DEF TypeOK, ReleaseCall, Begin
<1>5. ASSUME NEW t \in Threads, WriteLock(t) PROVE Keeps
  BY <1>5, GoneTo DEF TypeOK, WriteLock
<1>6. ASSUME NEW t \in Threads, WriteCached(t) PROVE Keeps
  BY <1>6, GoneTo DEF TypeOK, WriteCached
<1>7. ASSUME NEW t \in Threads, WriteFetch(t) PROVE Keeps
  BY <1>7, GoneTo DEF TypeOK, WriteFetch
<1>8. ASSUME NEW t \in Threads, WriteCheck(t) PROVE Keeps
  BY <1>8, GoneTo DEF TypeOK, WriteCheck
<1>9. ASSUME NEW t \in Threads, WriteTimeout(t) PROVE Keeps
  BY <1>9, GoneTo DEF TypeOK, WriteTimeout
<1>10. ASSUME NEW t \in Threads, WriteData(t) PROVE Keeps
  BY <1>10, GoneTo DEF TypeOK, WriteData
<1>11. ASSUME NEW t \in Threads, FlushBusy(t) PROVE Goal
  <2>1. CASE t # s
    <3>1. Keeps
      BY <1>11, <2>1, GoneTo DEF FlushBusy, Raise, TypeOK
    <3> QED BY <1>k, <3>1
  <2>2. CASE t = s
    <3>1. refCount = 1 /\ refCount > 1
      BY <1>11, <2>2 DEF FlushBusy, LastFlush
    <3> QED BY <3>1
  <2> QED BY <2>1, <2>2
<1>12. ASSUME NEW t \in Threads, FlushPreWait(t) PROVE Keeps
  BY <1>12, GoneTo DEF TypeOK, FlushPreWait
<1>13. ASSUME NEW t \in Threads, FlushPreTimeout(t) PROVE Keeps
  BY <1>13, GoneTo DEF TypeOK, FlushPreTimeout
<1>14. ASSUME NEW t \in Threads, FlushQueueing(t) PROVE Keeps
  BY <1>14, GoneTo DEF TypeOK, FlushQueueing, PastPreWait, MustQueue, AbortRead
<1>15. ASSUME NEW t \in Threads, FlushNotQueueing(t) PROVE Goal
  <2>1. CASE t # s
    <3>1. Keeps
      BY <1>15, <2>1, GoneTo DEF FlushNotQueueing, PastPreWait, Raise, Return, TypeOK
    <3> QED BY <1>k, <3>1
  <2>2. CASE t = s
    <3>1. CASE flushQueued \/ readThread # "none"
      <4>1. Keeps
        BY <1>15, <2>2, <3>1, GoneTo DEF FlushNotQueueing, TypeOK
      <4> QED BY <1>k, <4>1
    <3>2. CASE ~(flushQueued \/ readThread # "none")
      <4>1. ~fileModified \/ obsolete
        BY <1>15, <3>2 DEF FlushNotQueueing, MustQueue
      <4> QED BY <4>1 DEF Goal, IInv, Saved
    <3> QED BY <3>1, <3>2
  <2> QED BY <2>1, <2>2
<1>16. ASSUME NEW t \in Threads, FlushRef(t) PROVE Keeps
  BY <1>16, GoneTo DEF TypeOK, FlushRef
<1>17. ASSUME NEW t \in Threads, FlushExclude(t) PROVE Keeps
  BY <1>17, GoneTo DEF TypeOK, FlushExclude
<1>18. ASSUME NEW t \in Threads, FlushPut(t) PROVE Keeps
  BY <1>18, GoneTo DEF TypeOK, FlushPut
<1>19. ASSUME NEW t \in Threads, FlushMark(t) PROVE Keeps
  BY <1>19, GoneTo DEF TypeOK, FlushMark
<1>20. ASSUME NEW t \in Threads, FlushCheck(t) PROVE Goal
  <2>1. CASE t # s
    <3>1. Keeps
      BY <1>20, <2>1, GoneTo DEF FlushCheck, Raise, Return, TypeOK
    <3> QED BY <1>k, <3>1
  <2>2. CASE t = s
    <3>1. CASE flushQueued \/ readThread # "none"
      <4>1. Keeps
        BY <1>20, <2>2, <3>1, GoneTo DEF FlushCheck, TypeOK
      <4> QED BY <1>k, <4>1
    <3>2. CASE ~(flushQueued \/ readThread # "none") /\ flushException
      <4>1. Raise(t) /\ UNCHANGED <<refCount, queue>> /\ pc[t] = "f_check"
        BY <1>20, <3>2 DEF FlushCheck
      <4>2. Owed' < refCount'
        BY <2>2, <4>1, RaiseOwes
      <4> QED BY <4>2 DEF Goal
    <3>3. CASE ~(flushQueued \/ readThread # "none") /\ ~flushException
      <4>1. asked[s] <= backing \/ obsolete
        BY <1>20, <2>2, <3>3 DEF FlushCheck, IInv, Answered
      <4>2. asked[s] = content
        BY <1>20, <2>2 DEF FlushCheck, LastFlush
      <4>3. content \in Nat /\ backing \in Nat /\ backing <= content
        BY DEF IInv, Saved, TypeOK
      <4>4. backing = content \/ obsolete
        BY <4>1, <4>2, <4>3
      <4> QED BY <4>4 DEF Goal
    <3> QED BY <3>1, <3>2, <3>3
  <2> QED BY <2>1, <2>2
<1>21. ASSUME NEW t \in Threads, FlushTimeout(t) PROVE Goal
  <2>1. CASE t # s
    <3>1. Keeps
      BY <1>21, <2>1, GoneTo DEF FlushTimeout, Raise, TypeOK
    <3> QED BY <1>k, <3>1
  <2>2. CASE t = s
    <3>1. CASE flushQueued \/ readThread # "none"
      <4>1. Raise(t) /\ UNCHANGED <<refCount, queue>> /\ pc[t] = "f_wait"
        BY <1>21, <3>1 DEF FlushTimeout
      <4>2. Owed' < refCount'
        BY <2>2, <4>1, RaiseOwes
      <4> QED BY <4>2 DEF Goal
    <3>2. CASE ~(flushQueued \/ readThread # "none")
      <4>1. Keeps
        BY <1>21, <2>2, <3>2, GoneTo DEF FlushTimeout, TypeOK
      <4> QED BY <1>k, <4>1
    <3> QED BY <3>1, <3>2
  <2> QED BY <2>1, <2>2
<1>22. ASSUME NEW t \in Threads, OpenRef(t) PROVE Keeps
  BY <1>22, GoneTo DEF TypeOK, OpenRef
<1>23. ASSUME NEW t \in Threads, ReleaseTest(t) PROVE Goal
  <2>1. CASE t # s
    <3>1. Keeps
      BY <1>23, <2>1, GoneTo DEF ReleaseTest, Raise, TypeOK
    <3> QED BY <1>k, <3>1
  <2>2. CASE t = s
    <3>1. CASE refCount # 1
      <4>1. misled' \/ \E h \in Wrappers : wrapper[h] = "open"
        BY <1>23, <3>1 DEF ReleaseTest, Misleading
      <4>2. wrapper' = wrapper
        BY <1>23, <3>1 DEF ReleaseTest
      <4> QED BY <4>1, <4>2 DEF Goal
    <3>2. CASE refCount = 1 /\ ~proxyException
      <4>1. Keeps
        BY <1>23, <2>2, <3>2, GoneTo DEF ReleaseTest, TypeOK
      <4> QED BY <1>k, <4>1
    <3>3. CASE refCount = 1 /\ proxyException
      <4>1. Raise(t) /\ UNCHANGED <<refCount, queue>> /\ pc[t] = "r_test"
        BY <1>23, <3>3 DEF ReleaseTest
      <4>2. Owed' < refCount'
        BY <2>2, <4>1, RaiseOwes
      <4> QED BY <4>2 DEF Goal
    <3> QED BY <3>1, <3>2, <3>3
  <2> QED BY <2>1, <2>2
<1>24. ASSUME NEW t \in Threads, ReleaseDeref(t) PROVE Keeps
  BY <1>24, GoneTo DEF TypeOK, ReleaseDeref, Deref
<1>25. ASSUME NEW w \in Workers, WorkerGet(w) PROVE Keeps
  BY <1>25, GoneTo DEF TypeOK, WorkerGet
<1>26. ASSUME NEW w \in Workers, WorkerStart(w) PROVE Keeps
  BY <1>26, GoneTo DEF TypeOK, WorkerStart
<1>27. ASSUME NEW w \in Workers, WorkerCopy(w) PROVE Keeps
  BY <1>27, GoneTo DEF TypeOK, WorkerCopy
<1>28. ASSUME NEW w \in Workers, WorkerUpload(w) PROVE Keeps
  BY <1>28, GoneTo DEF TypeOK, WorkerUpload
<1>29. ASSUME NEW w \in Workers, WorkerUnqueue(w) PROVE Keeps
  BY <1>29, GoneTo DEF TypeOK, WorkerUnqueue
<1>30. ASSUME NEW w \in Workers, WorkerRelease(w) PROVE Keeps
  BY <1>30, GoneTo DEF TypeOK, WorkerRelease
<1>31. ASSUME NEW w \in Workers, WorkerDeref(w) PROVE Keeps
  BY <1>31, GoneTo DEF TypeOK, WorkerDeref, Deref
<1>32. ASSUME NEW w \in Workers, WorkerNotify(w) PROVE Keeps
  BY <1>32, NotifiedTo DEF TypeOK, WorkerNotify
<1>33. ASSUME ReadThreadEnds PROVE Keeps
  <2>1. \A q \in Threads \cup Workers :
            pc'[q] = pc[q] \/ (q \in Threads /\ <<pc[q], pc'[q]>> \in Wakes)
    BY <1>33, ReaderWakes DEF TypeOK
  <2>2. UNCHANGED <<job, wrapper>>
    BY <1>33 DEF ReadThreadEnds
  <2> QED BY <2>1, <2>2
<1>34. ASSUME Unlink PROVE Keeps
  BY <1>34 DEF Unlink
<1>a. ASSUME UNCHANGED vars PROVE Keeps
  BY <1>a DEF vars
<1> HIDE DEF Keeps
<1>b. Goal
  BY <1>k, <1>a, <1>1, <1>2, <1>3, <1>4, <1>5, <1>6, <1>7, <1>8, <1>9, <1>10, <1>11,
      <1>12, <1>13, <1>14, <1>15, <1>16, <1>17, <1>18, <1>19, <1>20, <1>21, <1>22,
      <1>23, <1>24, <1>25, <1>26, <1>27, <1>28, <1>29, <1>30, <1>31, <1>32, <1>33, <1>34
     DEF Next, Write, Flush, Close, Work
<1> QED BY <1>b DEF Goal

\* What an upload puts into VOSpace is what the cache has.
LEMMA SavedStays ==
  ASSUME Saved, [Next]_vars, backing = content, content' = content
  PROVE  backing' = content'
<1> DEFINE Goal == backing' = backing
<1> USE DEF handleVars, lockVars, dataVars, threadVars
<1>1. ASSUME NEW t \in Threads, NEW h \in Wrappers, WriteCall(t, h) PROVE Goal
  BY <1>1 DEF WriteCall, Begin
<1>2. ASSUME NEW t \in Threads, NEW h \in Wrappers, FlushCall(t, h) PROVE Goal
  BY <1>2 DEF FlushCall, Begin
<1>3. ASSUME NEW t \in Threads, NEW h \in Wrappers, OpenCall(t, h) PROVE Goal
  BY <1>3 DEF OpenCall
<1>4. ASSUME NEW t \in Threads, NEW h \in Wrappers, ReleaseCall(t, h) PROVE Goal
  BY <1>4 DEF ReleaseCall, Begin
<1>5. ASSUME NEW t \in Threads, WriteLock(t) PROVE Goal
  BY <1>5 DEF WriteLock
<1>6. ASSUME NEW t \in Threads, WriteCached(t) PROVE Goal
  BY <1>6 DEF WriteCached
<1>7. ASSUME NEW t \in Threads, WriteFetch(t) PROVE Goal
  BY <1>7 DEF WriteFetch
<1>8. ASSUME NEW t \in Threads, WriteCheck(t) PROVE Goal
  BY <1>8 DEF WriteCheck
<1>9. ASSUME NEW t \in Threads, WriteTimeout(t) PROVE Goal
  BY <1>9 DEF WriteTimeout
<1>10. ASSUME NEW t \in Threads, WriteData(t) PROVE Goal
  BY <1>10 DEF WriteData
<1>11. ASSUME NEW t \in Threads, FlushBusy(t) PROVE Goal
  BY <1>11 DEF FlushBusy, Raise
<1>12. ASSUME NEW t \in Threads, FlushPreWait(t) PROVE Goal
  BY <1>12 DEF FlushPreWait
<1>13. ASSUME NEW t \in Threads, FlushPreTimeout(t) PROVE Goal
  BY <1>13 DEF FlushPreTimeout
<1>14. ASSUME NEW t \in Threads, FlushQueueing(t) PROVE Goal
  BY <1>14 DEF FlushQueueing, PastPreWait, MustQueue, AbortRead
<1>15. ASSUME NEW t \in Threads, FlushNotQueueing(t) PROVE Goal
  BY <1>15 DEF FlushNotQueueing, PastPreWait, MustQueue, Raise, Return, AbortRead
<1>16. ASSUME NEW t \in Threads, FlushRef(t) PROVE Goal
  BY <1>16 DEF FlushRef
<1>17. ASSUME NEW t \in Threads, FlushExclude(t) PROVE Goal
  BY <1>17 DEF FlushExclude
<1>18. ASSUME NEW t \in Threads, FlushPut(t) PROVE Goal
  BY <1>18 DEF FlushPut
<1>19. ASSUME NEW t \in Threads, FlushMark(t) PROVE Goal
  BY <1>19 DEF FlushMark
<1>20. ASSUME NEW t \in Threads, FlushCheck(t) PROVE Goal
  BY <1>20 DEF FlushCheck, Raise, Return
<1>21. ASSUME NEW t \in Threads, FlushTimeout(t) PROVE Goal
  BY <1>21 DEF FlushTimeout, Raise
<1>22. ASSUME NEW t \in Threads, OpenRef(t) PROVE Goal
  BY <1>22 DEF OpenRef
<1>23. ASSUME NEW t \in Threads, ReleaseTest(t) PROVE Goal
  BY <1>23 DEF ReleaseTest, Raise, Misleading
<1>24. ASSUME NEW t \in Threads, ReleaseDeref(t) PROVE Goal
  BY <1>24 DEF ReleaseDeref, Deref
<1>25. ASSUME NEW w \in Workers, WorkerGet(w) PROVE Goal
  BY <1>25 DEF WorkerGet
<1>26. ASSUME NEW w \in Workers, WorkerStart(w) PROVE Goal
  BY <1>26 DEF WorkerStart
<1>27. ASSUME NEW w \in Workers, WorkerCopy(w) PROVE Goal
  BY <1>27 DEF WorkerCopy
<1>28. ASSUME NEW w \in Workers, WorkerUpload(w) PROVE Goal
  <2>1. upload[w] = content
    BY <1>28 DEF WorkerUpload, Saved
  <2> QED BY <1>28, <2>1 DEF WorkerUpload
<1>29. ASSUME NEW w \in Workers, WorkerUnqueue(w) PROVE Goal
  BY <1>29 DEF WorkerUnqueue
<1>30. ASSUME NEW w \in Workers, WorkerRelease(w) PROVE Goal
  BY <1>30 DEF WorkerRelease
<1>31. ASSUME NEW w \in Workers, WorkerDeref(w) PROVE Goal
  BY <1>31 DEF WorkerDeref, Deref
<1>32. ASSUME NEW w \in Workers, WorkerNotify(w) PROVE Goal
  BY <1>32 DEF WorkerNotify
<1>33. ASSUME ReadThreadEnds PROVE Goal
  BY <1>33 DEF ReadThreadEnds
<1>34. ASSUME Unlink PROVE Goal
  BY <1>34 DEF Unlink
<1>a. ASSUME UNCHANGED vars PROVE Goal
  BY <1>a DEF vars
<1> HIDE DEF Goal
<1>b. Goal
  BY <1>a, <1>1, <1>2, <1>3, <1>4, <1>5, <1>6, <1>7, <1>8, <1>9, <1>10, <1>11, <1>12,
      <1>13, <1>14, <1>15, <1>16, <1>17, <1>18, <1>19, <1>20, <1>21, <1>22, <1>23,
      <1>24, <1>25, <1>26, <1>27, <1>28, <1>29, <1>30, <1>31, <1>32, <1>33, <1>34
     DEF Next, Write, Flush, Close, Work
<1> QED BY <1>b DEF Goal

\* Unsaved content keeps its keeper.
LEMMA NotLostStep ==
  ASSUME NoNewOpen, CloseInv, [Next]_vars
  PROVE  NotLost'
<1> USE DEF CloseInv
<1>0. TypeOK /\ Locking /\ Saved
  BY DEF IInv
<1>1. /\ obsolete => obsolete'
      /\ misled => misled'
      /\ Owed < refCount => Owed' < refCount'
  BY <1>0, LostStays
<1>2. CASE obsolete \/ misled \/ Owed < refCount
  BY <1>1, <1>2 DEF NotLost
<1>3. ASSUME NEW k \in Wrappers, wrapper[k] = "open" PROVE NotLost'
  BY <1>0, <1>3, OpenStays DEF NotLost
<1>4. CASE backing = content
  <2>1. CASE content' = content
    <3>1. backing' = content'
      BY <1>0, <1>4, <2>1, SavedStays
    <3> QED BY <3>1 DEF NotLost
  <2>2. CASE content' # content
    <3>1. PICK t \in Threads : WriteData(t)
      BY <2>2, OnlyWritesChange
    <3>2. wrapper[job[t]] = "open" /\ job[t] \in Wrappers
      BY <3>1 DEF WriteData, Serving, Held, WriteLabels
    <3> QED BY <1>3, <3>2
  <2> QED BY <2>1, <2>2
<1>5. ASSUME NEW s \in Threads, WillFlush(s) PROVE NotLost'
  <2>1. CASE backing = content
    BY <1>4, <2>1
  <2>2. CASE obsolete
    BY <1>2, <2>2
  <2>3. CASE ~(backing = content) /\ ~obsolete
    <3>1. \/ WillFlush(s)' \/ misled' \/ Owed' < refCount'
          \/ \E h \in Wrappers : wrapper'[h] = "open"
      BY <1>5, <2>3, FlushStays
    <3> QED BY <3>1 DEF NotLost
  <2> QED BY <2>1, <2>2, <2>3
<1> QED BY <1>2, <1>3, <1>4, <1>5 DEF NotLost

\* Its initial state has the references of the open requests.
LEMMA CloseInit == NoNewOpen /\ Init => CloseInv
<1> SUFFICES ASSUME NoNewOpen, Init PROVE CloseInv
  OBVIOUS
<1> USE DEF Init
<1>1. IInv
  BY InitIInv
<1>2. Held = FirstOpen /\ AtWork = {} /\ InHand = 0
  BY WrapperAssumption DEF Held, AtWork, InHand, Busy
<1>3. IsFiniteSet(AtWork) /\ Cardinality(AtWork) = 0
  BY <1>2, FS_EmptySet
<1>4. Cardinality(FirstOpen) \in Nat /\ Cardinality(FirstOpen) # 0
  BY WrapperAssumption, FS_Subset, FS_CardinalityType, FS_EmptySet
<1>5. Owed = refCount /\ refCount > 0
  BY <1>2, <1>3, <1>4 DEF Owed
<1>6. Counted
  BY <1>3, <1>4, <1>5 DEF Counted
<1>7. Serving /\ LastFlush /\ Loaded /\ Untroubled
  BY DEF Serving, LastFlush, Loaded, Untroubled, FlushLabels, WriteLabels
<1>8. NotLost
  BY DEF NotLost
<1> QED BY <1>1, <1>6, <1>7, <1>8 DEF CloseInv

\* With requests that are all open at the start the parts hold in every state.
LEMMA CloseInvariance == ASSUME NoNewOpen PROVE Spec => []CloseInv
<1>1. Init => CloseInv
  BY CloseInit
<1>2. CloseInv /\ [Next]_vars => CloseInv'
  <2> SUFFICES ASSUME CloseInv, [Next]_vars PROVE CloseInv'
    OBVIOUS
  <2>1. IInv'
    BY IInvStep DEF CloseInv
  <2>2. TypeOK /\ Locking /\ Single /\ Serving /\ LastFlush /\ Loaded /\ Untroubled /\ Counted
    BY DEF CloseInv, IInv
  <2>3. Serving' /\ LastFlush' /\ Loaded' /\ Untroubled' /\ Counted'
    BY <2>2, ServingStep, LastFlushStep, LoadedStep, UntroubledStep, CountedStep
  <2>4. NotLost'
    BY NotLostStep
  <2> QED BY <2>1, <2>3, <2>4 DEF CloseInv
<1> QED BY <1>1, <1>2, PTL DEF Spec

\* Whoever uses the file finds the descriptor open, whatever fails or takes too
\* long: the count is never below the number of users (lines 876, 921, 928, 1003).
THEOREM UsersFindItOpen ==
  ASSUME NoNewOpen PROVE Spec => [](Users # {} \/ queue > 0 => fdOpen)
<1>1. CloseInv => (Users # {} \/ queue > 0 => fdOpen)
  <2> SUFFICES ASSUME CloseInv, Users # {} \/ queue > 0 PROVE fdOpen
    OBVIOUS
  <2>1. TypeOK /\ Counted
    BY DEF CloseInv, IInv
  <2>2. Held # {} \/ AtWork # {} \/ queue > 0
    BY DEF Users, Held, AtWork
  <2>3. Owed > 0 /\ Owed \in Nat
    BY <2>1, <2>2, UsersAreOwed, OwedIsNat DEF Counted
  <2> QED BY <2>1, <2>3 DEF Counted, TypeOK
<1> QED BY <1>1, CloseInvariance, PTL

\* The descriptor is open exactly as long as it is used, for any number of
\* threads, workers and requests, if nothing fails and nothing takes too long
\* (deref(), lines 925-944; a release() that raises keeps its reference).
THEOREM OpenWhileUsed ==
  ASSUME NoNewOpen, ~Slow, ~Failing PROVE Spec => []OpenIffUsed
<1>1. CloseInv => OpenIffUsed
  <2> SUFFICES ASSUME CloseInv PROVE OpenIffUsed
    OBVIOUS
  <2>1. TypeOK /\ Counted /\ Serving
    BY DEF CloseInv, IInv
  <2>2. Owed = refCount /\ (fdOpen <=> refCount > 0) /\ Owed \in Nat
    BY <2>1, OwedIsNat DEF Counted
  <2>3. InHand = 1 => Held # {}
    BY <2>1 DEF InHand, Serving
  <2>4. Users # {} <=> Held # {} \/ AtWork # {}
    BY DEF Users, Held, AtWork
  <2>5. Owed > 0 <=> Held # {} \/ AtWork # {} \/ queue > 0
    BY <2>1, <2>2, <2>3, UsersAreOwed, OwedIsNat DEF Counted
  <2> QED BY <2>2, <2>4, <2>5 DEF OpenIffUsed
<1> QED BY <1>1, CloseInvariance, PTL

\* When the last reference goes nothing is left only in the cache, unless the
\* file was unlinked or line 920 misled a release(), for any number of threads,
\* workers and requests, with failures and timeouts.
THEOREM LastCloseSaves ==
  ASSUME NoNewOpen PROVE Spec => NothingLostAtClose
<1> DEFINE Step == fdOpen /\ ~fdOpen' /\ ~obsolete /\ ~misled => backing = content
<1>1. CloseInv /\ [Next]_vars => Step
  <2> SUFFICES ASSUME CloseInv, [Next]_vars, fdOpen, ~fdOpen', ~obsolete, ~misled
               PROVE  backing = content
    OBVIOUS
  <2>1. /\ TypeOK /\ Locking /\ Serving /\ LastFlush /\ Loaded /\ Untroubled /\ Counted
        /\ NotLost
    BY DEF CloseInv, IInv
  <2>2. Owed \in Nat /\ refCount \in Int /\ Owed <= refCount /\ IsFiniteSet(AtWork)
    BY <2>1, OwedIsNat DEF Counted, TypeOK
  <2>3. ASSUME NEW t \in Threads, ReleaseDeref(t) PROVE backing = content
    <3>1. refCount = 1 /\ pc[t] = "r_deref"
      BY <2>3 DEF ReleaseDeref, Deref
    <3>2. job[t] \in Held /\ wrapper[job[t]] = "closing"
      BY <2>1, <3>1 DEF Serving
    <3>3. Held = {job[t]} /\ Owed > 0
      BY <2>1, <2>2, <3>1, <3>2, UsersAreOwed
    <3>4. \A h \in Wrappers : wrapper[h] # "open"
      BY <3>2, <3>3 DEF Held
    <3>5. \A u \in Threads : ~WillFlush(u)
      <4> SUFFICES ASSUME NEW u \in Threads, WillFlush(u) PROVE FALSE
        OBVIOUS
      <4>1. pc[u] # "idle" /\ wrapper[job[u]] = "closing"
        BY DEF WillFlush, FlushLabels
      <4>2. job[u] = job[t]
        BY <2>1, <3>3, <4>1 DEF Serving
      <4>3. u = t
        BY <2>1, <3>1, <4>1, <4>2 DEF Serving
      <4> QED BY <3>1, <4>3 DEF WillFlush, FlushLabels
    <3>6. ~(Owed < refCount)
      BY <2>2, <3>1, <3>3
    <3> QED BY <2>1, <3>4, <3>5, <3>6 DEF NotLost
  <2>4. ASSUME NEW w \in Workers, WorkerDeref(w) PROVE backing = content
    <3>1. refCount = 1 /\ w \in AtWork
      BY <2>4 DEF WorkerDeref, Deref, AtWork, Busy
    <3>2. Held = {} /\ Owed > 0
      BY <2>1, <2>2, <3>1, UsersAreOwed
    <3>3. \A h \in Wrappers : wrapper[h] # "open"
      BY <3>2 DEF Held
    <3>4. \A u \in Threads : ~WillFlush(u)
      BY <2>1, <3>2 DEF WillFlush, FlushLabels, Serving
    <3>5. ~(Owed < refCount)
      BY <2>2, <3>1, <3>2
    <3> QED BY <2>1, <3>3, <3>4, <3>5 DEF NotLost
  <2>5. Counting
    BY <2>1, QuietSteps DEF Quiet, Leak
  <2> QED
    BY <2>3, <2>4, <2>5 DEF Counting, FlushRef, FlushPut, WorkerGet, handleVars
<1> HIDE DEF Step
<1>2. Spec => [][Step]_vars
  BY <1>1, CloseInvariance, PTL DEF Spec
<1> QED BY <1>2 DEF NothingLostAtClose, Step

=============================================================================
