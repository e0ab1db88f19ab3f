------------------------------ MODULE FileRead ------------------------------
(* python/fuse/CadcCache.py: how the content of a file gets from the backing   *)
(* store into its cache file while FUSE threads read it.  open() learns the    *)
(* size and MD5 sum from the header a read thread gets; makeCached() waits for *)
(* the blocks a read() needs, from the thread that is running or from a new    *)
(* one; writeToCache() stores blocks and marks them in the block map, which    *)
(* survives the handle in a metadata file.                                     *)
(*                                                                             *)
(* fileCondition (a condition of fileLock) covers open, makeCached after its   *)
(* first tests, the marking of blocks and the end of a thread: each stretch    *)
(* between two waits is one step.  setHeader runs without it.  The file is     *)
(* opened to be read only; FileFlush has the writers.                          *)
EXTENDS Integers, FiniteSetsExt

CONSTANTS
  Clients,    \* FUSE threads, each with an open file of its own
  Readers,    \* bound: CacheReadThread objects alive at one time
  NoThread,   \* None
  N,          \* size of the file in blocks, all of them full
  Continue,   \* CONTINUE_MAX_SIZE in blocks
  Failing,    \* whether reads from the backing store may fail
  Timed,      \* the clients whose waits may time out
  MaxCalls    \* bound: calls of open() and read() of one client

ASSUME SizeAssumption == N \in Nat \ {0} /\ Continue \in Nat /\ MaxCalls \in Nat
ASSUME FailingAssumption == Failing \in BOOLEAN
ASSUME ThreadsAssumption == Timed \subseteq Clients /\ NoThread \notin Readers
ASSUME ClientsAssumption == IsFiniteSet(Clients)

VARIABLES
  fh,       \* the FileHandle, as long as somebody has it open
  saved,    \* the metadata file
  content,  \* the blocks known to be in the cache file as the backing store has them
  thr,      \* the read threads
  trust,    \* cache_nodes: open() may believe the metadata file
  pc, want, calls,
  emptied,  \* auxiliary: an empty cache file was called fully cached
  crossed,  \* auxiliary: a read thread was started while another one ran
  reused    \* auxiliary: ... or for a handle that had a response already

vars == <<fh, saved, content, thr, trust, pc, want, calls, emptied, crossed, reused>>

Blocks == 0..(N - 1)
(* md5 is none (there is no metadata), old, or that of the backing store. *)
NoMeta == [md5 |-> "none", bits |-> {}]
Meta   == [md5 : {"none", "old", "new"}, bits : SUBSET Blocks]
(* pos is the next block that lastVOFile.resp brings, stop is where it ends. *)
NoResponse == N + 1
NewHandle == [refs |-> 0, full |-> "unset", header |-> FALSE, meta |-> NoMeta,
              thread |-> NoThread, readFailed |-> FALSE, ioFailed |-> FALSE,
              pos |-> NoResponse, stop |-> 0]
NoWant == [first |-> 0, last |-> 0, from |-> 0, to |-> 0]
NoEnd  == N + 1      \* optionSize is None: read to the end of the file
Dead   == [at |-> "dead", start |-> 0, must |-> 0, end |-> 0, aborted |-> FALSE, cur |-> 0]

Waiting == {"headWait", "abortWait", "dataWait", "ownWait", "drainWait"}
Ready(label) == CASE label = "headWait" -> "head" [] label = "abortWait" -> "abort"
                  [] label = "dataWait" -> "data" [] label = "ownWait" -> "own"
                  [] label = "drainWait" -> "drain" [] OTHER -> label
NotifyAll == pc' = [c \in Clients |-> Ready(pc[c])]
Goto(c, label) == pc' = [pc EXCEPT ![c] = label]

Init ==
  /\ saved \in {m \in Meta : m.md5 = "none" => m = NoMeta}
  /\ content = IF saved.md5 = "new" THEN saved.bits ELSE {}
  /\ trust \in BOOLEAN /\ (trust => saved.md5 # "old")
  /\ fh = NewHandle
  /\ thr = [t \in Readers |-> Dead]
  /\ pc = [c \in Clients |-> "out"]
  /\ want = [c \in Clients |-> NoWant]
  /\ calls = [c \in Clients |-> 0]
  /\ emptied = FALSE /\ crossed = FALSE /\ reused = FALSE

-----------------------------------------------------------------------------
(* readData: a new thread, which the handle remembers instead of the last one. *)
Alive == {t \in Readers : thr[t].at # "dead"}
StartThread(f, start, must, end) ==
  \E t \in Readers \ Alive :
    /\ t = CHOOSE u \in Readers \ Alive : TRUE
    /\ thr' = [thr EXCEPT ![t] = [at |-> "start", start |-> start, must |-> must,
                                  end |-> end, aborted |-> FALSE, cur |-> start]]
    /\ fh' = [f EXCEPT !.thread = t]
    /\ crossed' = (crossed \/ Alive # {})
    /\ reused' = (reused \/ f.pos # NoResponse)

(* getFileHandle *)
OpenCall(c) ==
  /\ pc[c] = "out" /\ calls[c] < MaxCalls
  /\ calls' = [calls EXCEPT ![c] = @ + 1]
  /\ fh' = [fh EXCEPT !.refs = @ + 1]
  /\ Goto(c, "opening")
  /\ UNCHANGED <<saved, content, thr, trust, want, emptied, crossed, reused>>

(* The state of a handle nobody has looked at yet, from the metadata file.     *)
(* setHeader with the MD5 sum the metadata has changes nothing more.           *)
Emptied(f) == f.full = "no" /\ f.meta.bits = {}
Loaded(f) ==
  IF f.full # "unset" THEN f
  ELSE [f EXCEPT !.meta = saved,
                 !.full = IF saved.md5 # "none" /\ saved.bits = Blocks THEN "yes" ELSE "no",
                 !.header = saved.md5 # "none" /\ trust]

Open(c) ==
  LET f == Loaded(fh)
      empty == fh.full = "unset" /\ Emptied(f)
      g == IF empty THEN [f EXCEPT !.full = "yes"] ELSE f
      look == (g.refs = 1 \/ ~g.header) /\ (g.meta.md5 = "none" \/ ~trust)
  IN /\ pc[c] = "opening"
     /\ content' = IF empty THEN {} ELSE content
     /\ emptied' = (emptied \/ empty)
     /\ IF look THEN StartThread(g, 0, 0, NoEnd)
        ELSE fh' = g /\ UNCHANGED <<thr, crossed, reused>>
     /\ Goto(c, IF look /\ ~g.header /\ ~g.readFailed THEN "headWait"
                ELSE IF g.readFailed THEN "out" ELSE "open")
     /\ UNCHANGED <<saved, trust, want, calls>>

(* An exception in open() does not give the reference back. *)
OpenHeader(c) ==
  /\ pc[c] = "head"
  /\ Goto(c, IF fh.readFailed THEN "out" ELSE IF fh.header THEN "open" ELSE "headWait")
  /\ UNCHANGED <<fh, saved, content, thr, trust, want, calls, emptied, crossed, reused>>

-----------------------------------------------------------------------------
(* read() and makeCached() *)

Wanted(c)  == want[c].first..want[c].last
Missing(c) == Wanted(c) \ fh.meta.bits
Cached(c)  == Missing(c) = {}

(* What is missing is looked up without the lock, and once more under it.      *)
ReadCall(c) ==
  /\ pc[c] = "open" /\ calls[c] < MaxCalls
  /\ calls' = [calls EXCEPT ![c] = @ + 1]
  /\ \E first, last \in Blocks :
       LET missing == (first..last) \ fh.meta.bits
           cached  == fh.full = "yes" \/ missing = {}
       IN /\ first <= last
          /\ want' = [want EXCEPT ![c] =
               [first |-> first, last |-> last,
                from |-> IF cached THEN 0 ELSE Min(missing),
                to   |-> IF cached THEN 0 ELSE Max(missing)]]
          /\ Goto(c, IF fh.ioFailed THEN "open" ELSE IF cached THEN "copy" ELSE "make")
  /\ UNCHANGED <<fh, saved, content, thr, trust, emptied, crossed, reused>>

\* Mutant: a block too many.
NewReadBest_OneMore(t, first, last) ==
  IF first < t.start THEN <<TRUE, t.must>>
  ELSE IF t.end # NoEnd /\ last + 1 > t.end THEN <<TRUE, t.end>>
  ELSE <<FALSE, Max({t.must, last + 2})>>

(* isNewReadBest: <<whether, the new mandatoryEnd of the running thread>>; its  *)
(* currentByte is never moved. *)
NewReadBest(t, first, last) ==
  LET ref == Max({t.must, t.start})
  IN IF first < t.start THEN <<TRUE, t.must>>
     ELSE IF t.end # NoEnd /\ last + 1 > t.end THEN <<TRUE, t.end>>
     ELSE IF first <= ref + Continue THEN <<FALSE, Max({t.must, last + 1})>>
     ELSE <<TRUE, t.must>>

(* The end of makeCached: there is no thread, or there is nothing to wait for. *)
ReturnOrStart(c) ==
  IF Cached(c) THEN Goto(c, "copy") /\ UNCHANGED <<fh, thr, crossed, reused>>
  ELSE LET last == Max(Missing(c))
           next == {b \in fh.meta.bits : b > last}
       IN /\ StartThread(fh, Min(Missing(c)), last + 1, IF next = {} THEN N ELSE Min(next))
          /\ Goto(c, "ownWait")

Make(c) ==
  /\ pc[c] = "make"
  /\ want' = [want EXCEPT ![c].from = 0, ![c].to = 0]
  /\ IF fh.thread = NoThread THEN ReturnOrStart(c)
     ELSE LET best == NewReadBest(thr[fh.thread], want[c].from, want[c].to)
          IN /\ thr' = [thr EXCEPT ![fh.thread].must = best[2],
                                   ![fh.thread].aborted = @ \/ best[1]]
             /\ Goto(c, IF best[1] THEN "abortWait" ELSE IF Cached(c) THEN "copy" ELSE "dataWait")
             /\ UNCHANGED <<fh, crossed, reused>>
  /\ UNCHANGED <<saved, content, trust, calls, emptied>>

(* Whatever thread runs by now is aborted, and waited for again. *)
MakeAborted(c) ==
  /\ pc[c] = "abort"
  /\ IF Cached(c) \/ fh.thread = NoThread THEN ReturnOrStart(c)
     ELSE /\ thr' = [thr EXCEPT ![fh.thread].aborted = TRUE]
          /\ Goto(c, "abortWait")
          /\ UNCHANGED <<fh, crossed, reused>>
  /\ UNCHANGED <<saved, content, trust, want, calls, emptied>>

MakeData(c) ==
  /\ pc[c] = "data"
  /\ IF Cached(c) \/ fh.thread = NoThread THEN ReturnOrStart(c)
     ELSE Goto(c, "dataWait") /\ UNCHANGED <<fh, thr, crossed, reused>>
  /\ UNCHANGED <<saved, content, trust, want, calls, emptied>>

(* After its own thread makeCached returns, with the blocks or without. *)
MakeOwn(c) ==
  /\ pc[c] = "own"
  /\ Goto(c, IF Cached(c) \/ fh.thread = NoThread THEN "copy" ELSE "ownWait")
  /\ UNCHANGED <<fh, saved, content, thr, trust, want, calls, emptied, crossed, reused>>

Copy(c) ==
  /\ pc[c] = "copy"
  /\ Goto(c, "open")
  /\ want' = [want EXCEPT ![c] = NoWant]
  /\ UNCHANGED <<fh, saved, content, thr, trust, calls, emptied, crossed, reused>>

(* CacheRetry; from release() the reference is not given back. *)
Timeout(c) ==
  /\ c \in Timed
  /\ pc[c] \in {"abortWait", "dataWait", "ownWait", "drainWait"}
  /\ Goto(c, IF pc[c] = "drainWait" THEN "out" ELSE "open")
  /\ want' = [want EXCEPT ![c] = NoWant]
  /\ UNCHANGED <<fh, saved, content, thr, trust, calls, emptied, crossed, reused>>

-----------------------------------------------------------------------------
(* release(): only who sees itself alone flushes, which ends the read thread. *)

CloseCall(c) ==
  /\ pc[c] = "open"
  /\ Goto(c, IF fh.refs = 1 THEN "flush" ELSE "deref")
  /\ UNCHANGED <<fh, saved, content, thr, trust, want, calls, emptied, crossed, reused>>

Flush(c) ==
  /\ pc[c] = "flush"
  /\ Goto(c, IF fh.ioFailed \/ fh.refs > 1 THEN "out"
             ELSE IF fh.thread = NoThread THEN "deref" ELSE "drainWait")
  /\ thr' = IF fh.ioFailed \/ fh.refs > 1 \/ fh.thread = NoThread THEN thr
            ELSE [thr EXCEPT ![fh.thread].aborted = TRUE]
  /\ UNCHANGED <<fh, saved, content, trust, want, calls, emptied, crossed, reused>>

Drain(c) ==
  /\ pc[c] = "drain"
  /\ Goto(c, IF fh.thread = NoThread THEN "deref" ELSE "drainWait")
  /\ UNCHANGED <<fh, saved, content, thr, trust, want, calls, emptied, crossed, reused>>

(* The last one closes the descriptor: a thread that still runs fails at its   *)
(* next write, on a handle that is in nobody's table.                          *)
Deref(c) ==
  /\ pc[c] = "deref"
  /\ Goto(c, "out")
  /\ IF fh.refs > 1
     THEN fh' = [fh EXCEPT !.refs = @ - 1] /\ UNCHANGED <<saved, thr, emptied>>
     ELSE /\ fh' = NewHandle
          /\ saved' = IF fh.meta.md5 = "none" THEN saved ELSE fh.meta
          /\ thr' = [t \in Readers |-> Dead]
          /\ emptied' = FALSE
  /\ UNCHANGED <<content, trust, want, calls, crossed, reused>>

(* checkCacheSpace removes files that are in no table, data and metadata. *)
Evict ==
  /\ fh.refs = 0
  /\ saved' = NoMeta /\ content' = {}
  /\ UNCHANGED <<fh, thr, trust, pc, want, calls, emptied, crossed, reused>>

-----------------------------------------------------------------------------
(* CacheReadThread.execute with readFromBacking, writeToCache and setHeader *)

Step(t, from, to) == thr[t].at = from /\ thr' = [thr EXCEPT ![t].at = to]

Connect(t) ==
  /\ Step(t, "start", "read")
  /\ fh' = [fh EXCEPT !.readFailed = FALSE]
  /\ UNCHANGED <<saved, content, trust, pc, want, calls, emptied, crossed, reused>>

(* The next buffer.  lastVOFile sends its request only when it has no response *)
(* yet: open() prepares a request for the range of this thread, but a handle   *)
(* that has a response goes on with that, wherever it is.  The bytes reach the *)
(* file before the block is marked.                                            *)
Fetch(t) ==
  LET sent == fh.pos # NoResponse
      pos  == IF sent THEN fh.pos ELSE thr[t].cur
      stop == IF sent THEN fh.stop ELSE Min({thr[t].end, N})
      buff == pos < stop
  IN /\ ~(fh.header /\ buff /\ thr[t].cur = N)
     /\ IF fh.header /\ buff
        THEN /\ Step(t, "read", "mark")
             /\ fh' = [fh EXCEPT !.pos = pos + 1, !.stop = stop]
             /\ content' = IF pos = thr[t].cur THEN content \cup {pos} ELSE content \ {thr[t].cur}
        ELSE /\ Step(t, "read", IF fh.header THEN "finish" ELSE "header")
             /\ fh' = [fh EXCEPT !.pos = pos, !.stop = stop]
             /\ UNCHANGED content
     /\ UNCHANGED <<saved, trust, pc, want, calls, emptied, crossed, reused>>

\* Mutant: the block map is kept when the MD5 sum changes.
Header_KeepBits(t) ==
  /\ thr[t].at = "header"
  /\ fh' = [fh EXCEPT !.meta.md5 = "new"]
  /\ thr' = [thr EXCEPT ![t].at = "empty"]
  /\ UNCHANGED <<saved, content, trust, pc, want, calls, emptied, crossed, reused>>

(* setHeader, which takes no lock but to abort the registered thread. *)
Header(t) ==
  /\ thr[t].at = "header"
  /\ LET same == fh.meta.md5 = "new"
         meta == IF same THEN fh.meta
                 ELSE IF saved.md5 = "new" THEN saved ELSE [md5 |-> "new", bits |-> {}]
         read == [thr EXCEPT ![t].at = "empty"]
     IN /\ fh' = IF fh.header THEN fh
                 ELSE [fh EXCEPT !.meta = meta, !.full = IF same THEN @ ELSE "no"]
        /\ thr' = IF fh.header THEN [thr EXCEPT ![t].at = "read"]
                  ELSE IF same /\ fh.thread # NoThread
                  THEN [read EXCEPT ![fh.thread].aborted = TRUE] ELSE read
  /\ UNCHANGED <<saved, content, trust, pc, want, calls, emptied, crossed, reused>>

Empty(t) ==
  /\ Step(t, "empty", "read")
  /\ fh' = [fh EXCEPT !.header = TRUE, !.full = IF Emptied(fh) THEN "yes" ELSE @]
  /\ content' = IF Emptied(fh) THEN {} ELSE content
  /\ emptied' = (emptied \/ Emptied(fh))
  /\ UNCHANGED <<saved, trust, pc, want, calls, crossed, reused>>

\* Mutant: an aborted thread stops at once.
Mark_AtOnce(t) ==
  /\ thr[t].at = "mark"
  /\ fh' = [fh EXCEPT !.meta.bits = @ \cup {thr[t].cur}]
  /\ thr' = [thr EXCEPT ![t].cur = @ + 1, ![t].at = IF thr[t].aborted THEN "finish" ELSE "read"]
  /\ NotifyAll
  /\ UNCHANGED <<saved, content, trust, want, calls, emptied, crossed, reused>>

(* The thread looks at the flags of the registered thread, not at its own, and *)
(* fails when there is none.                                                   *)
Mark(t) ==
  /\ thr[t].at = "mark"
  /\ LET next == thr[t].cur + 1
         gone == fh.thread = NoThread
         stop == gone \/ (thr[fh.thread].aborted /\ thr[fh.thread].must <= next)
     IN /\ fh' = [fh EXCEPT !.meta.bits = @ \cup {thr[t].cur},
                            !.ioFailed = @ \/ gone, !.readFailed = @ \/ gone]
        /\ thr' = [thr EXCEPT ![t].cur = IF stop THEN @ ELSE next,
                              ![t].at = IF gone THEN "leave" ELSE IF stop THEN "finish" ELSE "read"]
  /\ NotifyAll
  /\ UNCHANGED <<saved, content, trust, want, calls, emptied, crossed, reused>>

Finish(t) ==
  /\ Step(t, "finish", "leave")
  /\ LET whole == thr[t].start = 0 /\ thr[t].end >= N
     IN fh' = IF ~thr[t].aborted /\ (whole \/ fh.meta.bits = Blocks)
              THEN [fh EXCEPT !.full = "yes"] ELSE fh
  /\ UNCHANGED <<saved, content, trust, pc, want, calls, emptied, crossed, reused>>

\* Mutant: nobody is told that the thread ends.
Leave_Silent(t) ==
  /\ thr[t].at = "leave"
  /\ thr' = [thr EXCEPT ![t] = Dead]
  /\ fh' = [fh EXCEPT !.thread = NoThread]
  /\ UNCHANGED <<saved, content, trust, pc, want, calls, emptied, crossed, reused>>

(* finally: whichever thread is registered is forgotten. *)
Leave(t) ==
  /\ thr[t].at = "leave"
  /\ thr' = [thr EXCEPT ![t] = Dead]
  /\ fh' = [fh EXCEPT !.thread = NoThread]
  /\ IF fh.thread = NoThread THEN UNCHANGED pc ELSE NotifyAll
  /\ UNCHANGED <<saved, content, trust, want, calls, emptied, crossed, reused>>

(* A read error, or a buffer past the end of the file. *)
Fails(t) ==
  /\ Failing \/ (fh.header /\ thr[t].cur = N /\ fh.pos < fh.stop)
  /\ Step(t, "read", "leave")
  /\ fh' = [fh EXCEPT !.ioFailed = TRUE, !.readFailed = TRUE]
  /\ UNCHANGED <<saved, content, trust, pc, want, calls, emptied, crossed, reused>>

-----------------------------------------------------------------------------
ClientStep(c) ==
  \/ Open(c) \/ OpenHeader(c)
  \/ Make(c) \/ MakeAborted(c) \/ MakeData(c) \/ MakeOwn(c) \/ Copy(c)
  \/ Flush(c) \/ Drain(c) \/ Deref(c)

ThreadStep(t) ==
  \/ Connect(t) \/ Fetch(t) \/ Header(t) \/ Empty(t)
  \/ Mark(t) \/ Finish(t) \/ Leave(t)

Next ==
  \/ \E c \in Clients :
       \/ OpenCall(c) \/ ReadCall(c) \/ CloseCall(c) \/ Timeout(c) \/ ClientStep(c)
  \/ \E t \in Readers : ThreadStep(t) \/ Fails(t)
  \/ Evict

Spec == Init /\ [][Next]_vars

-----------------------------------------------------------------------------
Handle == [refs : Nat, full : {"unset", "yes", "no"}, header : BOOLEAN, meta : Meta,
           thread : Readers \cup {NoThread}, readFailed : BOOLEAN, ioFailed : BOOLEAN,
           pos : 0..NoResponse, stop : 0..N]
Thread == [at : {"dead", "start", "read", "header", "empty", "mark", "finish", "leave"},
           start : 0..N, must : 0..N, end : 0..NoEnd, aborted : BOOLEAN, cur : 0..N]
Want == [first : Blocks, last : Blocks, from : Blocks, to : Blocks]
Places == Waiting \cup {Ready(w) : w \in Waiting}
          \cup {"out", "opening", "open", "make", "copy", "flush", "deref"}

TypeOK ==
  /\ fh \in Handle /\ saved \in Meta /\ content \subseteq Blocks
  /\ thr \in [Readers -> Thread]
  /\ pc \in [Clients -> Places] /\ want \in [Clients -> Want] /\ calls \in [Clients -> Nat]
  /\ {trust, emptied, crossed, reused} \subseteq BOOLEAN

(* A block is marked only after its bytes are in the file, in the handle and   *)
(* in the metadata file the next handle starts from: whatever order opens,     *)
(* reads, aborts, failures and closes come in, no block is believed to be      *)
(* cached that is not; a wrong mark would survive until the file changes.      *)
(* (writeToCache, setHeader and persist, as long as every handle has one read  *)
(* thread in its life: the next one gets its bytes from the wrong response.)   *)
MarkedWritten ==
  \/ crossed \/ reused
  \/ /\ saved.md5 = "new" => saved.bits \subseteq content
     /\ fh.meta.md5 = "new" => fh.meta.bits \subseteq content

(* The same, however many read threads a handle has. *)
MarkedAlways ==
  /\ saved.md5 = "new" => saved.bits \subseteq content
  /\ fh.meta.md5 = "new" => fh.meta.bits \subseteq content

(* Who waits for fileCondition is woken: the thread the handle has registered  *)
(* is running and will notify.  open() waits without a timeout, so a lost      *)
(* wake-up there is a hung file system call.                                   *)
WaiterHasThread ==
  \A c \in Clients :
    pc[c] \in Waiting => crossed \/ fh.thread \in Alive

(* read() returns bytes of the file: what it asked for is in the cache file    *)
(* when it copies, although another reader may have aborted the thread it      *)
(* waited for (makeCached, readThread.mandatoryEnd).  It does not when the     *)
(* cache file was taken for complete when it was emptied, when the response of *)
(* another thread was used, and after a failure, of which makeCached says      *)
(* nothing.                                                                    *)
ReadsData ==
  [][\A c \in Clients :
       Copy(c) => \/ emptied \/ crossed \/ reused \/ fh.ioFailed
                  \/ Wanted(c) \subseteq content]_vars
=============================================================================
