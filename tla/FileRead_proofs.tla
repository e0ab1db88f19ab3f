--------------------------- MODULE FileRead_proofs ---------------------------
(* Proofs about FileRead, for any number of FUSE threads, read threads and     *)
(* blocks: the handle, its read threads and what the clients ask for stay      *)
(* inside the file, the block map never promises a block that is not in the    *)
(* cache file, nobody waits for a thread that does not come, and what is read  *)
(* is there.                                                                   *)
EXTENDS FileRead, FiniteSetTheorems, WellFoundedInduction, TLAPS

-----------------------------------------------------------------------------
(* Of the numbers of a set the smallest exists, and below a bound the greatest. *)
LEMMA Least == ASSUME NEW T, T \subseteq Nat, T # {} PROVE \E x \in T : \A y \in T : x <= y
<1>0. \E R : IsWellFoundedOn(R, Nat) /\ \A x, y \in Nat : x < y => <<x, y>> \in R
  <2> DEFINE R == OpToRel(<, Nat)
  <2>1. IsWellFoundedOn(R, Nat)
    BY NatLessThanWellFounded
  <2>2. \A x, y \in Nat : x < y => <<x, y>> \in R
    BY DEF OpToRel
  <2> HIDE DEF R
  <2> QED BY <2>1, <2>2
<1>1. PICK R : IsWellFoundedOn(R, Nat) /\ \A x, y \in Nat : x < y => <<x, y>> \in R
  BY <1>0
<1>2. IsWellFoundedOn(R, Nat)
  BY <1>1
<1>3. \E x \in T : \A y \in T : ~ (<<y, x>> \in R)
  BY <1>2, WFMin
<1>4. PICK x \in T : \A y \in T : ~ (<<y, x>> \in R)
  BY <1>3
<1>5. \A y \in T : ~(y < x)
  BY <1>1, <1>4
<1>6. \A y \in T : x <= y
  <2> TAKE y \in T
  <2>1. x \in Nat /\ y \in Nat
    OBVIOUS
  <2> QED BY <1>5, <2>1
<1> QED BY <1>6

LEMMA MinIsLeast ==
  ASSUME NEW S, S \subseteq Nat, S # {} PROVE Min(S) \in S /\ \A y \in S : Min(S) <= y
<1>1. \E x \in S : \A y \in S : x =< y
  BY Least
<1> QED BY <1>1, Zenon DEF Min

LEMMA MaxIsGreatest ==
  ASSUME NEW k \in Nat, NEW S, S \subseteq 0..k, S # {}
  PROVE  Max(S) \in S /\ \A y \in S : Max(S) >= y
<1> DEFINE T == {k - y : y \in S}
<1>0. PICK s : s \in S
  OBVIOUS
<1>1. T \subseteq Nat /\ T # {}
  <2>1. \A y \in S : y \in 0..k
    OBVIOUS
  <2>2. \A y \in S : k - y \in Nat
    BY <2>1
  <2>3. k - s \in T
    BY <1>0
  <2> QED BY <2>2, <2>3
<1>2. PICK x \in T : \A y \in T : x <= y
  BY <1>1, Least
<1>3. PICK z \in S : x = k - z
  BY <1>2
<1>4. \A y \in S : z >= y
  <2> TAKE y \in S
  <2>1. x <= k - y
    BY <1>2
  <2> QED BY <1>3, <2>1
<1>5. \E u \in S : \A y \in S : u >= y
  BY <1>3, <1>4
<1> QED BY <1>5, Zenon DEF Max

(* What the read threads are asked for lies in the file. *)
LEMMA WantedTypes ==
  ASSUME NEW first \in Blocks, NEW last \in Blocks, NEW bits,
         (first..last) \ bits # {}
  PROVE  /\ Min((first..last) \ bits) \in Blocks /\ Max((first..last) \ bits) \in Blocks
         /\ \A b \in (first..last) \ bits :
              Min((first..last) \ bits) <= b /\ b <= Max((first..last) \ bits)
<1> DEFINE S == (first..last) \ bits
<1>1. S \subseteq Nat /\ S \subseteq 0..last /\ S \subseteq Blocks /\ last \in Nat
  BY SizeAssumption DEF Blocks
<1>2. Min(S) \in S /\ \A y \in S : Min(S) <= y
  BY <1>1, MinIsLeast
<1>3. Max(S) \in S /\ \A y \in S : Max(S) >= y
  BY <1>1, MaxIsGreatest
<1>4. \A y \in S : Max(S) \in Nat /\ y \in Nat
  BY <1>1, <1>3
<1> HIDE DEF S
<1>5. Min(S) \in Blocks /\ Max(S) \in Blocks /\ \A b \in S : Min(S) <= b /\ b <= Max(S)
  BY <1>1, <1>2, <1>3, <1>4
<1> QED BY <1>5 DEF S

(* Of two ends the smaller, of two bounds the greater. *)
LEMMA MinOfTwo ==
  ASSUME NEW a \in Nat, NEW b \in Nat PROVE Min({a, b}) = IF a < b THEN a ELSE b
<1>1. Min({a, b}) \in {a, b} /\ \A y \in {a, b} : Min({a, b}) <= y
  BY MinIsLeast
<1> QED BY <1>1

LEMMA MaxOfTwo ==
  ASSUME NEW a \in Nat, NEW b \in Nat PROVE Max({a, b}) = IF a < b THEN b ELSE a
<1>0. a + b \in Nat /\ {a, b} \subseteq 0..(a + b)
  OBVIOUS
<1>1. Max({a, b}) \in {a, b} /\ \A y \in {a, b} : Max({a, b}) >= y
  BY <1>0, MaxIsGreatest
<1> QED BY <1>1

-----------------------------------------------------------------------------
(* A block is about to be marked only if it is one of the file. *)
Marks == \A t \in Readers : thr[t].at = "mark" => thr[t].cur \in Blocks

(* A new thread has types when what it is asked for has.                       *)
LEMMA StartTyped ==
  ASSUME TypeOK, Marks, NEW f \in Handle,
         NEW i \in 0..N, NEW j \in 0..N, NEW k \in 0..NoEnd,
         StartThread(f, i, j, k)
  PROVE  /\ fh' \in Handle /\ thr' \in [Readers -> Thread] /\ Marks'
         /\ crossed' \in BOOLEAN /\ reused' \in BOOLEAN
<1>1. PICK t \in Readers \ Alive :
        /\ thr' = [thr EXCEPT ![t] = [at |-> "start", start |-> i, must |-> j, end |-> k,
                                     aborted |-> FALSE, cur |-> i]]
        /\ fh' = [f EXCEPT !.thread = t]
        /\ crossed' = (crossed \/ Alive # {})
        /\ reused' = (reused \/ f.pos # NoResponse)
  BY DEF StartThread
<1>2. [at |-> "start", start |-> i, must |-> j, end |-> k, aborted |-> FALSE, cur |-> i]
        \in Thread
  BY DEF Thread
<1>3. thr' \in [Readers -> Thread]
  BY <1>1, <1>2 DEF TypeOK
<1>4. fh' \in Handle
  BY <1>1 DEF Handle
<1>5. Marks'
  BY <1>1 DEF Marks, TypeOK
<1>6. crossed' \in BOOLEAN /\ reused' \in BOOLEAN
  BY <1>1, Zenon
<1> QED BY <1>3, <1>4, <1>5, <1>6

(* The blocks makeCached asks a new thread for are blocks of the file, from a  *)
(* missing one on and up to the next that is there.                            *)
LEMMA AskedBounds ==
  ASSUME TypeOK, NEW c \in Clients, ~Cached(c)
  PROVE  LET last == Max(Missing(c))
             next == {b \in fh.meta.bits : b > last}
             end  == IF next = {} THEN N ELSE Min(next)
         IN /\ Min(Missing(c)) \in 0..N /\ last + 1 \in 0..N /\ end \in 0..NoEnd
            /\ \A b \in Missing(c) : Min(Missing(c)) <= b /\ b < last + 1 /\ b < N /\ b < end
<1> DEFINE last == Max(Missing(c))
           next == {b \in fh.meta.bits : b > last}
           end  == IF next = {} THEN N ELSE Min(next)
<1>1. want[c].first \in Blocks /\ want[c].last \in Blocks /\ Missing(c) # {}
  BY DEF TypeOK, Want, Cached
<1>2. /\ Min(Missing(c)) \in Blocks /\ last \in Blocks
      /\ \A b \in Missing(c) : b \in Blocks /\ Min(Missing(c)) <= b /\ b <= last
  <2>1. Missing(c) = (want[c].first..want[c].last) \ fh.meta.bits
    BY DEF Missing, Wanted
  <2>2. \A b \in Missing(c) : b \in Blocks
    BY <1>1, <2>1, SizeAssumption DEF Blocks
  <2> QED BY <1>1, <2>1, <2>2, WantedTypes
<1>3. next \subseteq Blocks /\ Blocks \subseteq Nat
  BY SizeAssumption DEF TypeOK, Handle, Meta, Blocks
<1>4. next # {} => Min(next) \in Blocks /\ Min(next) \in next
  BY <1>3, MinIsLeast
<1>5. next # {} => Min(next) > last
  BY <1>4
<1> HIDE DEF last, next
<1>6. end \in 0..NoEnd
  BY <1>4, SizeAssumption DEF Blocks, NoEnd
<1>7. \A b \in Missing(c) : b < last + 1 /\ b < N /\ b < end
  BY <1>2, <1>4, <1>5, SizeAssumption DEF Blocks
<1>8. Min(Missing(c)) \in 0..N /\ last + 1 \in 0..N
  BY <1>2, SizeAssumption DEF Blocks
<1> HIDE DEF end
<1> QED BY <1>2, <1>6, <1>7, <1>8 DEF last, next, end

(* What makeCached asks a new thread for.                                      *)
LEMMA AskedTyped ==
  ASSUME TypeOK, Marks, NEW c \in Clients, ReturnOrStart(c)
  PROVE  /\ fh' \in Handle /\ thr' \in [Readers -> Thread] /\ Marks'
         /\ {crossed', reused'} \subseteq BOOLEAN
         /\ pc' \in [Clients -> Places]
<1>1. CASE Cached(c)
  <2>1. UNCHANGED <<fh, thr, crossed, reused>> /\ pc' = [pc EXCEPT ![c] = "copy"]
    BY <1>1 DEF ReturnOrStart, Goto
  <2> QED BY <2>1 DEF TypeOK, Marks, Places
<1>2. CASE ~Cached(c)
  <2>1. pc' = [pc EXCEPT ![c] = "ownWait"]
    BY <1>2 DEF ReturnOrStart, Goto
  <2>2. PICK i \in 0..N, j \in 0..N, k \in 0..NoEnd : StartThread(fh, i, j, k)
    BY <1>2, AskedBounds DEF ReturnOrStart
  <2>3. pc' \in [Clients -> Places] /\ fh \in Handle
    BY <2>1 DEF TypeOK, Places, Waiting
  <2> QED BY <2>2, <2>3, StartTyped
<1> QED BY <1>1, <1>2

(* What isNewReadBest leaves in the running thread.                            *)
LEMMA BestTyped ==
  ASSUME NEW t \in Thread, NEW first \in Blocks, NEW last \in Blocks
  PROVE  /\ NewReadBest(t, first, last)[1] \in BOOLEAN
         /\ NewReadBest(t, first, last)[2] \in 0..N
<1>1. /\ t.must \in Nat /\ t.start \in Nat /\ t.must \in 0..N /\ last + 1 \in 0..N
      /\ last + 1 \in Nat /\ t.end \in 0..NoEnd
  BY SizeAssumption DEF Thread, Blocks
<1>2. Max({t.must, last + 1}) \in 0..N
  BY <1>1, MaxOfTwo
<1>3. t.end # NoEnd => t.end \in 0..N
  BY <1>1, SizeAssumption DEF NoEnd
<1> QED BY <1>1, <1>2, <1>3 DEF NewReadBest

(* isNewReadBest asks the running thread for no less than it was asked for, or *)
(* for all it reads.                                                           *)
LEMMA BestGrows ==
  ASSUME NEW t \in Thread, NEW first \in Blocks, NEW last \in Blocks
  PROVE  \/ NewReadBest(t, first, last)[2] >= t.must
         \/ NewReadBest(t, first, last)[2] = t.end
<1>1. t.must \in Nat /\ last + 1 \in Nat
  BY SizeAssumption DEF Thread, Blocks
<1>2. Max({t.must, last + 1}) >= t.must
  BY <1>1, MaxOfTwo
<1> QED BY <1>1, <1>2 DEF NewReadBest

(* Waking clients keeps them at places there are.                              *)
LEMMA WokenTyped ==
  ASSUME pc \in [Clients -> Places], NotifyAll PROVE pc' \in [Clients -> Places]
BY DEF NotifyAll, Places, Ready, Waiting

(* Aborting the registered thread changes nothing but its flag. *)
LEMMA AbortTyped ==
  ASSUME fh \in Handle, fh.thread # NoThread, NEW f \in [Readers -> Thread]
  PROVE  LET g == [f EXCEPT ![fh.thread].aborted = TRUE]
         IN /\ g \in [Readers -> Thread]
            /\ \A t \in Readers : g[t].at = f[t].at /\ g[t].cur = f[t].cur
<1>1. fh.thread \in Readers
  BY DEF Handle
<1>2. f[fh.thread] \in Thread
  BY <1>1
<1>3. [f[fh.thread] EXCEPT !.aborted = TRUE] \in Thread
  BY <1>2 DEF Thread
<1>4. [f EXCEPT ![fh.thread].aborted = TRUE]
        = [f EXCEPT ![fh.thread] = [f[fh.thread] EXCEPT !.aborted = TRUE]]
  BY <1>1
<1>5. \A t \in Readers : f[t] \in Thread
  OBVIOUS
<1> QED BY <1>1, <1>3, <1>4, <1>5 DEF Thread

(* The state a handle is loaded with.                                          *)
LEMMA LoadedTyped == ASSUME TypeOK PROVE Loaded(fh) \in Handle
<1>1. CASE fh.full # "unset"
  BY <1>1 DEF Loaded, TypeOK
<1>2. CASE fh.full = "unset"
  <2>1. saved \in Meta /\ (saved.md5 # "none" /\ trust) \in BOOLEAN
    BY DEF TypeOK
  <2>2. (IF saved.md5 # "none" /\ saved.bits = Blocks THEN "yes" ELSE "no")
          \in {"unset", "yes", "no"}
    OBVIOUS
  <2> QED BY <1>2, <2>1, <2>2 DEF Loaded, TypeOK, Handle
<1> QED BY <1>1, <1>2

(* Every step keeps the types. *)
LEMMA TypeStep == ASSUME TypeOK, Marks, [Next]_vars PROVE TypeOK' /\ Marks'
<1> USE DEF Goto
<1>n. 0 \in 0..N /\ NoEnd \in 0..NoEnd /\ Blocks \subseteq Nat /\ 0 \in Blocks /\ N \in Nat
  BY SizeAssumption DEF NoEnd, Blocks
<1>t. /\ fh \in Handle /\ saved \in Meta /\ content \subseteq Blocks
      /\ thr \in [Readers -> Thread]
      /\ pc \in [Clients -> Places] /\ want \in [Clients -> Want]
      /\ calls \in [Clients -> Nat]
      /\ {trust, emptied, crossed, reused} \subseteq BOOLEAN
  BY DEF TypeOK
<1>1. ASSUME NEW c \in Clients, OpenCall(c) PROVE TypeOK' /\ Marks'
  <2>1. fh' \in Handle
    BY <1>1, <1>t DEF OpenCall, Handle
  <2>2. pc' \in [Clients -> Places] /\ calls' \in [Clients -> Nat]
    BY <1>1, <1>t DEF OpenCall, Places
  <2> QED BY <1>1, <1>t, <2>1, <2>2 DEF OpenCall, TypeOK, Marks
<1>2. ASSUME NEW c \in Clients, ReadCall(c) PROVE TypeOK' /\ Marks'
  <2>1. PICK first \in Blocks, last \in Blocks :
          LET missing == (first..last) \ fh.meta.bits
              cached  == fh.full = "yes" \/ missing = {}
          IN want' = [want EXCEPT ![c] =
               [first |-> first, last |-> last,
                from |-> IF cached THEN 0 ELSE Min(missing),
                to   |-> IF cached THEN 0 ELSE Max(missing)]]
    BY <1>2 DEF ReadCall
  <2> DEFINE missing == (first..last) \ fh.meta.bits
             cached  == fh.full = "yes" \/ missing = {}
  <2>2. missing # {} => Min(missing) \in Blocks /\ Max(missing) \in Blocks
    BY WantedTypes
  <2>3. want' = [want EXCEPT ![c] = [first |-> first, last |-> last,
                                     from |-> IF cached THEN 0 ELSE Min(missing),
                                     to   |-> IF cached THEN 0 ELSE Max(missing)]]
    BY <2>1
  <2>4. cached \/ missing # {}
    OBVIOUS
  <2> HIDE DEF missing, cached
  <2>5. want' \in [Clients -> Want]
    BY <1>n, <1>t, <2>2, <2>3, <2>4 DEF Want
  <2>6. pc' \in [Clients -> Places] /\ calls' \in [Clients -> Nat]
    BY <1>2, <1>t DEF ReadCall, Places
  <2>7. UNCHANGED <<fh, saved, content, thr, trust, emptied, crossed, reused>>
    BY <1>2 DEF ReadCall
  <2> QED BY <1>t, <2>5, <2>6, <2>7 DEF TypeOK, Marks
<1>3. ASSUME NEW c \in Clients, OpenHeader(c) \/ CloseCall(c) \/ Drain(c) \/ MakeOwn(c)
      PROVE  TypeOK' /\ Marks'
  <2>1. UNCHANGED <<fh, saved, content, thr, trust, want, calls, emptied, crossed, reused>>
    BY <1>3 DEF OpenHeader, CloseCall, Drain, MakeOwn
  <2>2. pc' \in [Clients -> Places]
    BY <1>3, <1>t DEF OpenHeader, CloseCall, Drain, MakeOwn, Places, Waiting
  <2> QED BY <1>t, <2>1, <2>2 DEF TypeOK, Marks
<1>4. ASSUME NEW c \in Clients, Copy(c) \/ Timeout(c) PROVE TypeOK' /\ Marks'
  <2>1. UNCHANGED <<fh, saved, content, thr, trust, calls, emptied, crossed, reused>>
    BY <1>4 DEF Copy, Timeout
  <2>2. pc' \in [Clients -> Places]
    BY <1>4, <1>t DEF Copy, Timeout, Places
  <2>3. want' = [want EXCEPT ![c] = NoWant] /\ NoWant \in Want
    BY <1>4, <1>n DEF Copy, Timeout, Want, NoWant
  <2>4. want' \in [Clients -> Want]
    BY <1>t, <2>3
  <2> QED BY <1>t, <2>1, <2>2, <2>4 DEF TypeOK, Marks
<1>5. ASSUME NEW c \in Clients, Open(c) PROVE TypeOK' /\ Marks'
  <2> DEFINE f == Loaded(fh)
             empty == fh.full = "unset" /\ Emptied(f)
             g == IF empty THEN [f EXCEPT !.full = "yes"] ELSE f
             look == (g.refs = 1 \/ ~g.header) /\ (g.meta.md5 = "none" \/ ~trust)
  <2>1. g \in Handle
    BY LoadedTyped DEF Handle
  <2>2. empty \in BOOLEAN
    OBVIOUS
  <2>3. /\ content' = IF empty THEN {} ELSE content
        /\ emptied' = (emptied \/ empty)
        /\ UNCHANGED <<saved, trust, want, calls>>
        /\ IF look THEN StartThread(g, 0, 0, NoEnd)
           ELSE fh' = g /\ UNCHANGED <<thr, crossed, reused>>
        /\ \E l \in {"headWait", "out", "open"} : pc' = [pc EXCEPT ![c] = l]
    <3>1. /\ content' = IF empty THEN {} ELSE content
          /\ emptied' = (emptied \/ empty)
          /\ UNCHANGED <<saved, trust, want, calls>>
          /\ IF look THEN StartThread(g, 0, 0, NoEnd)
             ELSE fh' = g /\ UNCHANGED <<thr, crossed, reused>>
          /\ pc' = [pc EXCEPT ![c] = IF look /\ ~g.header /\ ~g.readFailed THEN "headWait"
                                     ELSE IF g.readFailed THEN "out" ELSE "open"]
      BY <1>5, Zenon DEF Open
    <3> QED BY <3>1
  <2> HIDE DEF f, empty, g, look
  <2>4. content' \subseteq Blocks /\ emptied' \in BOOLEAN
    BY <1>t, <2>2, <2>3
  <2>5. pc' \in [Clients -> Places]
    BY <1>t, <2>3 DEF Places, Waiting
  <2>6. fh' \in Handle /\ thr' \in [Readers -> Thread] /\ Marks'
        /\ {crossed', reused'} \subseteq BOOLEAN
    <3>1. CASE look
      BY <1>n, <2>1, <2>3, <3>1, StartTyped
    <3>2. CASE ~look
      BY <1>t, <2>1, <2>3, <3>2 DEF Marks
    <3> QED BY <3>1, <3>2
  <2> QED BY <1>t, <2>3, <2>4, <2>5, <2>6 DEF TypeOK
<1>6. ASSUME NEW c \in Clients, Make(c) PROVE TypeOK' /\ Marks'
  <2>1. want' \in [Clients -> Want] /\ UNCHANGED <<saved, content, trust, calls, emptied>>
    <3>1. /\ want' = [want EXCEPT ![c].from = 0, ![c].to = 0]
          /\ UNCHANGED <<saved, content, trust, calls, emptied>>
      BY <1>6 DEF Make
    <3>2. [want[c] EXCEPT !.from = 0, !.to = 0] \in Want
      BY <1>n, <1>t DEF Want
    <3>3. want' = [want EXCEPT ![c] = [want[c] EXCEPT !.from = 0, !.to = 0]]
      BY <1>t, <3>1
    <3> QED BY <1>t, <3>1, <3>2, <3>3
  <2>2. CASE fh.thread = NoThread
    <3>1. ReturnOrStart(c)
      BY <1>6, <2>2 DEF Make
    <3> QED BY <1>t, <2>1, <3>1, AskedTyped DEF TypeOK
  <2>3. CASE fh.thread # NoThread
    <3> DEFINE best == NewReadBest(thr[fh.thread], want[c].from, want[c].to)
    <3>1. fh.thread \in Readers /\ thr[fh.thread] \in Thread
      BY <1>t, <2>3 DEF Handle
    <3>2. best[1] \in BOOLEAN /\ best[2] \in 0..N
      BY <1>t, <3>1, BestTyped DEF Want
    <3>3. /\ thr' = [thr EXCEPT ![fh.thread].must = best[2],
                                ![fh.thread].aborted = @ \/ best[1]]
          /\ UNCHANGED <<fh, crossed, reused>>
          /\ \E l \in {"abortWait", "copy", "dataWait"} : pc' = [pc EXCEPT ![c] = l]
      BY <1>6, <2>3 DEF Make
    <3> HIDE DEF best
    <3>4. thr' \in [Readers -> Thread] /\ Marks'
      BY <1>t, <3>1, <3>2, <3>3 DEF Thread, Marks
    <3>5. pc' \in [Clients -> Places]
      BY <1>t, <3>3 DEF Places, Waiting
    <3> QED BY <1>t, <2>1, <3>3, <3>4, <3>5 DEF TypeOK
  <2> QED BY <2>2, <2>3
<1>7. ASSUME NEW c \in Clients, MakeAborted(c) \/ MakeData(c) PROVE TypeOK' /\ Marks'
  <2>1. UNCHANGED <<saved, content, trust, want, calls, emptied>>
    BY <1>7 DEF MakeAborted, MakeData
  <2>2. CASE ReturnOrStart(c)
    BY <1>t, <2>1, <2>2, AskedTyped DEF TypeOK
  <2>3. CASE ~ReturnOrStart(c)
    <3>1. /\ \/ thr' = thr
             \/ fh.thread # NoThread /\ thr' = [thr EXCEPT ![fh.thread].aborted = TRUE]
          /\ UNCHANGED <<fh, crossed, reused>>
          /\ \E l \in {"abortWait", "dataWait"} : pc' = [pc EXCEPT ![c] = l]
      BY <1>7, <2>3 DEF MakeAborted, MakeData
    <3>2. thr' \in [Readers -> Thread] /\ Marks'
      <4>1. CASE thr' = thr
        BY <1>t, <4>1 DEF Marks
      <4>2. CASE fh.thread # NoThread /\ thr' = [thr EXCEPT ![fh.thread].aborted = TRUE]
        BY <1>t, <4>2, AbortTyped DEF Marks
      <4> QED BY <3>1, <4>1, <4>2
    <3>3. pc' \in [Clients -> Places]
      BY <1>t, <3>1 DEF Places, Waiting
    <3> QED BY <1>t, <2>1, <3>1, <3>2, <3>3 DEF TypeOK
  <2> QED BY <2>2, <2>3
<1>8. ASSUME NEW c \in Clients, Flush(c) PROVE TypeOK' /\ Marks'
  <2>1. UNCHANGED <<fh, saved, content, trust, want, calls, emptied, crossed, reused>>
    BY <1>8 DEF Flush
  <2>2. thr' \in [Readers -> Thread] /\ Marks'
    <3>1. \/ thr' = thr
          \/ fh.thread # NoThread /\ thr' = [thr EXCEPT ![fh.thread].aborted = TRUE]
      BY <1>8 DEF Flush
    <3>2. CASE thr' = thr
      BY <1>t, <3>2 DEF Marks
    <3>3. CASE fh.thread # NoThread /\ thr' = [thr EXCEPT ![fh.thread].aborted = TRUE]
      BY <1>t, <3>3, AbortTyped DEF Marks
    <3> QED BY <3>1, <3>2, <3>3
  <2>3. pc' \in [Clients -> Places]
    BY <1>8, <1>t DEF Flush, Places, Waiting
  <2> QED BY <1>t, <2>1, <2>2, <2>3 DEF TypeOK
<1>9. ASSUME NEW c \in Clients, Deref(c) PROVE TypeOK' /\ Marks'
  <2>1. /\ pc' \in [Clients -> Places]
        /\ UNCHANGED <<content, trust, want, calls, crossed, reused>>
    BY <1>9, <1>t DEF Deref, Places
  <2>2. CASE fh.refs > 1
    <3>1. fh' = [fh EXCEPT !.refs = @ - 1] /\ UNCHANGED <<saved, thr, emptied>>
      BY <1>9, <2>2 DEF Deref
    <3>2. fh' \in Handle
      BY <1>t, <2>2, <3>1 DEF Handle
    <3> QED BY <1>t, <2>1, <3>1, <3>2 DEF TypeOK, Marks
  <2>3. CASE ~(fh.refs > 1)
    <3>1. /\ fh' = NewHandle /\ emptied' = FALSE
          /\ saved' = IF fh.meta.md5 = "none" THEN saved ELSE fh.meta
          /\ thr' = [t \in Readers |-> Dead]
      BY <1>9, <2>3 DEF Deref
    <3>2. NewHandle \in Handle /\ Dead \in Thread
      BY SizeAssumption DEF NewHandle, Handle, NoMeta, Meta, NoResponse, Dead, Thread, NoEnd
    <3>3. saved' \in Meta
      BY <1>t, <3>1 DEF Handle
    <3>4. thr' \in [Readers -> Thread] /\ Marks'
      BY <3>1, <3>2 DEF Marks, Dead
    <3> QED BY <1>t, <2>1, <3>1, <3>2, <3>3, <3>4 DEF TypeOK
  <2> QED BY <2>2, <2>3
<1>10. CASE Evict
  <2>1. NoMeta \in Meta
    BY DEF NoMeta, Meta
  <2> QED BY <1>10, <1>t, <2>1 DEF Evict, TypeOK, Marks
<1>11. ASSUME NEW t \in Readers, Connect(t) \/ Finish(t) \/ Fails(t) PROVE TypeOK' /\ Marks'
  <2>1. UNCHANGED <<saved, content, trust, pc, want, calls, emptied, crossed, reused>>
    BY <1>11 DEF Connect, Finish, Fails
  <2>2. PICK l \in {"read", "leave"} : thr' = [thr EXCEPT ![t].at = l]
    BY <1>11 DEF Connect, Finish, Fails, Step
  <2>3. thr' \in [Readers -> Thread] /\ Marks'
    BY <1>t, <2>2 DEF Thread, Marks
  <2>4. fh' \in Handle
    BY <1>11, <1>t DEF Connect, Finish, Fails, Handle
  <2> QED BY <1>t, <2>1, <2>3, <2>4 DEF TypeOK
<1>12. ASSUME NEW t \in Readers, Fetch(t) PROVE TypeOK' /\ Marks'
  <2> DEFINE pos == IF fh.pos # NoResponse THEN fh.pos ELSE thr[t].cur
             stop == IF fh.pos # NoResponse THEN fh.stop ELSE Min({thr[t].end, N})
  <2>1. UNCHANGED <<saved, trust, pc, want, calls, emptied, crossed, reused>>
    BY <1>12 DEF Fetch
  <2>2. /\ thr[t].end \in Nat /\ thr[t].cur \in 0..N
        /\ fh.pos \in 0..NoResponse /\ fh.stop \in 0..N
    BY <1>t DEF Thread, Handle, NoEnd
  <2>3. pos \in 0..N /\ stop \in 0..N
    <3>1. Min({thr[t].end, N}) \in 0..N
      BY <1>n, <2>2, MinOfTwo
    <3> QED BY <1>n, <2>2, <3>1 DEF NoResponse
  <2>4. CASE fh.header /\ pos < stop
    <3>1. /\ thr' = [thr EXCEPT ![t].at = "mark"]
          /\ fh' = [fh EXCEPT !.pos = pos + 1, !.stop = stop]
          /\ content' = IF pos = thr[t].cur THEN content \cup {pos}
                        ELSE content \ {thr[t].cur}
          /\ thr[t].cur # N
      BY <1>12, <2>4 DEF Fetch, Step
    <3> HIDE DEF pos, stop
    <3>2. fh' \in Handle
      <4>1. pos + 1 \in 0..NoResponse
        BY <2>3, SizeAssumption DEF NoResponse
      <4> QED BY <1>t, <2>3, <3>1, <4>1 DEF Handle
    <3>3. thr[t].cur \in Blocks
      BY <2>2, <3>1, SizeAssumption DEF Blocks
    <3>4. thr' \in [Readers -> Thread] /\ Marks'
      BY <1>t, <3>1, <3>3 DEF Thread, Marks
    <3>5. content' \subseteq Blocks
      BY <1>t, <3>1, <3>3
    <3> QED BY <1>t, <2>1, <3>2, <3>4, <3>5 DEF TypeOK
  <2>5. CASE ~(fh.header /\ pos < stop)
    <3>1. /\ thr' = [thr EXCEPT ![t].at = IF fh.header THEN "finish" ELSE "header"]
          /\ fh' = [fh EXCEPT !.pos = pos, !.stop = stop]
          /\ content' = content
      BY <1>12, <2>5 DEF Fetch, Step
    <3> HIDE DEF pos, stop
    <3>2. fh' \in Handle
      <4>1. pos \in 0..NoResponse
        BY <2>3, SizeAssumption DEF NoResponse
      <4> QED BY <1>t, <2>3, <3>1, <4>1 DEF Handle
    <3>3. thr' \in [Readers -> Thread] /\ Marks'
      BY <1>t, <3>1 DEF Thread, Marks
    <3> QED BY <1>t, <2>1, <3>1, <3>2, <3>3 DEF TypeOK
  <2> QED BY <2>4, <2>5
<1>13. ASSUME NEW t \in Readers, Header(t) PROVE TypeOK' /\ Marks'
  <2>1. UNCHANGED <<saved, content, trust, pc, want, calls, emptied, crossed, reused>>
    BY <1>13 DEF Header
  <2>2. fh' \in Handle
    <3>1. [md5 |-> "new", bits |-> {}] \in Meta
      BY DEF Meta
    <3>2. PICK m \in Meta, full \in {fh.full, "no"} :
            fh' = fh \/ fh' = [fh EXCEPT !.meta = m, !.full = full]
      BY <1>13, <1>t, <3>1 DEF Header, Handle
    <3> QED BY <1>t, <3>2 DEF Handle
  <2>3. thr' \in [Readers -> Thread] /\ Marks'
    <3> DEFINE read == [thr EXCEPT ![t].at = "empty"]
    <3>1. /\ read \in [Readers -> Thread]
          /\ \A u \in Readers : read[u].at = "mark" => read[u].cur \in Blocks
      BY <1>t DEF Thread, Marks
    <3>2. \/ thr' = [thr EXCEPT ![t].at = "read"]
          \/ thr' = read
          \/ fh.thread # NoThread /\ thr' = [read EXCEPT ![fh.thread].aborted = TRUE]
      BY <1>13 DEF Header
    <3> HIDE DEF read
    <3>3. CASE thr' = [thr EXCEPT ![t].at = "read"]
      BY <1>t, <3>3 DEF Thread, Marks
    <3>4. CASE thr' = read
      BY <3>1, <3>4 DEF Marks
    <3>5. CASE fh.thread # NoThread /\ thr' = [read EXCEPT ![fh.thread].aborted = TRUE]
      BY <1>t, <3>1, <3>5, AbortTyped DEF Marks
    <3> QED BY <3>2, <3>3, <3>4, <3>5
  <2> QED BY <1>t, <2>1, <2>2, <2>3 DEF TypeOK
<1>14. ASSUME NEW t \in Readers, Empty(t) PROVE TypeOK' /\ Marks'
  <2>1. UNCHANGED <<saved, trust, pc, want, calls, crossed, reused>>
    BY <1>14 DEF Empty
  <2>2. thr' \in [Readers -> Thread] /\ Marks'
    BY <1>14, <1>t DEF Empty, Step, Thread, Marks
  <2>3. content' \subseteq Blocks /\ emptied' \in BOOLEAN
    <3>1. /\ content' = (IF Emptied(fh) THEN {} ELSE content)
          /\ emptied' = (emptied \/ Emptied(fh))
      BY <1>14 DEF Empty
    <3>2. Emptied(fh) \in BOOLEAN
      BY DEF Emptied
    <3> QED BY <1>t, <3>1, <3>2
  <2>4. fh' \in Handle
    BY <1>14, <1>t DEF Empty, Handle
  <2> QED BY <1>t, <2>1, <2>2, <2>3, <2>4 DEF TypeOK
<1>15. ASSUME NEW t \in Readers, Mark(t) PROVE TypeOK' /\ Marks'
  <2> DEFINE next == thr[t].cur + 1
             gone == fh.thread = NoThread
             stop == gone \/ (thr[fh.thread].aborted /\ thr[fh.thread].must <= next)
  <2>1. /\ thr[t].at = "mark"
        /\ UNCHANGED <<saved, content, trust, want, calls, emptied, crossed, reused>>
        /\ NotifyAll
        /\ fh' = [fh EXCEPT !.meta.bits = @ \cup {thr[t].cur},
                            !.ioFailed = @ \/ gone, !.readFailed = @ \/ gone]
        /\ \/ thr' = [thr EXCEPT ![t].at = "leave"]
           \/ thr' = [thr EXCEPT ![t].at = "finish"]
           \/ thr' = [thr EXCEPT ![t].cur = next, ![t].at = "read"]
    <3>1. /\ thr[t].at = "mark"
          /\ UNCHANGED <<saved, content, trust, want, calls, emptied, crossed, reused>>
          /\ NotifyAll
          /\ fh' = [fh EXCEPT !.meta.bits = @ \cup {thr[t].cur},
                              !.ioFailed = @ \/ gone, !.readFailed = @ \/ gone]
          /\ thr' = [thr EXCEPT ![t].cur = IF stop THEN @ ELSE next,
                                ![t].at = IF gone THEN "leave"
                                          ELSE IF stop THEN "finish" ELSE "read"]
      BY <1>15 DEF Mark
    <3>2. gone => stop
      OBVIOUS
    <3>3. thr[t] \in Thread
      BY <1>t
    <3> HIDE DEF next, gone, stop
    <3>4. CASE stop
      <4>1. thr' = [thr EXCEPT ![t].at = IF gone THEN "leave" ELSE "finish"]
        BY <1>t, <3>1, <3>3, <3>4 DEF Thread
      <4> QED BY <3>1, <4>1
    <3>5. CASE ~stop
      <4>1. thr' = [thr EXCEPT ![t].cur = next, ![t].at = "read"]
        BY <3>1, <3>2, <3>5
      <4> QED BY <3>1, <4>1
    <3> QED BY <3>4, <3>5
  <2>2. thr[t].cur \in Blocks /\ next \in 0..N
    <3>1. thr[t].cur \in Blocks
      BY <2>1 DEF Marks
    <3> QED BY <3>1, SizeAssumption DEF Blocks
  <2>3. gone \in BOOLEAN
    OBVIOUS
  <2> HIDE DEF next, gone, stop
  <2>4. fh' \in Handle
    <3>1. [fh.meta EXCEPT !.bits = @ \cup {thr[t].cur}] \in Meta
      BY <1>t, <2>2 DEF Handle, Meta
    <3>2. (fh.ioFailed \/ gone) \in BOOLEAN /\ (fh.readFailed \/ gone) \in BOOLEAN
      BY <2>3
    <3>3. fh' = [fh EXCEPT !.meta = [fh.meta EXCEPT !.bits = @ \cup {thr[t].cur}],
                           !.ioFailed = fh.ioFailed \/ gone,
                           !.readFailed = fh.readFailed \/ gone]
      BY <1>t, <2>1 DEF Handle
    <3> QED BY <1>t, <3>1, <3>2, <3>3 DEF Handle
  <2>5. thr' \in [Readers -> Thread] /\ Marks'
    BY <1>t, <2>1, <2>2 DEF Thread, Marks
  <2>6. pc' \in [Clients -> Places]
    BY <1>t, <2>1, WokenTyped
  <2> QED BY <1>t, <2>1, <2>4, <2>5, <2>6 DEF TypeOK
<1>16. ASSUME NEW t \in Readers, Leave(t) PROVE TypeOK' /\ Marks'
  <2>1. /\ UNCHANGED <<saved, content, trust, want, calls, emptied, crossed, reused>>
        /\ thr' = [thr EXCEPT ![t] = Dead] /\ fh' = [fh EXCEPT !.thread = NoThread]
        /\ pc' = pc \/ NotifyAll
    BY <1>16 DEF Leave
  <2>2. Dead \in Thread
    BY SizeAssumption DEF Dead, Thread, NoEnd
  <2>3. thr' \in [Readers -> Thread] /\ Marks'
    BY <1>t, <2>1, <2>2 DEF Marks, Dead
  <2>4. fh' \in Handle
    BY <1>t, <2>1 DEF Handle
  <2>5. pc' \in [Clients -> Places]
    BY <1>t, <2>1, WokenTyped
  <2> QED BY <1>t, <2>1, <2>3, <2>4, <2>5 DEF TypeOK
<1>17. CASE UNCHANGED vars
  BY <1>17, <1>t DEF vars, TypeOK, Marks
<1> QED
  BY <1>1, <1>2, <1>3, <1>4, <1>5, <1>6, <1>7, <1>8, <1>9, <1>10, <1>11, <1>12, <1>13,
     <1>14, <1>15, <1>16, <1>17 DEF Next, ClientStep, ThreadStep

(* The types hold at the start. *)
LEMMA TypeInit == Init => TypeOK /\ Marks
<1> SUFFICES ASSUME Init PROVE TypeOK /\ Marks OBVIOUS
<1>n. 0 \in 0..N /\ NoEnd \in 0..NoEnd /\ 0 \in Blocks /\ N \in Nat
  BY SizeAssumption DEF NoEnd, Blocks
<1>1. saved \in Meta /\ content \subseteq Blocks
  BY DEF Init, Meta
<1>2. fh \in Handle
  BY <1>n DEF Init, NewHandle, Handle, NoMeta, Meta, NoResponse
<1>3. Dead \in Thread
  BY <1>n DEF Dead, Thread
<1>4. thr \in [Readers -> Thread] /\ Marks
  BY <1>3 DEF Init, Marks, Dead
<1>5. pc \in [Clients -> Places] /\ calls \in [Clients -> Nat]
  BY DEF Init, Places
<1>6. NoWant \in Want
  BY <1>n DEF NoWant, Want
<1>7. want \in [Clients -> Want]
  BY <1>6 DEF Init
<1> QED BY <1>1, <1>2, <1>4, <1>5, <1>7 DEF Init, TypeOK

(* No step of a client or of a read thread takes a block outside the file, a   *)
(* response past its end, or a handle or thread out of the states they have:   *)
(* for any number of clients, threads and blocks, with aborts, failures and    *)
(* time-outs in any order (CadcCache.py, makeCached, isNewReadBest and         *)
(* writeToCache).                                                              *)
THEOREM FileReadTypes == Spec => []TypeOK
<1>1. TypeOK /\ Marks /\ [Next]_vars => (TypeOK /\ Marks)'
  BY TypeStep
<1>2. TypeOK /\ Marks => TypeOK
  OBVIOUS
<1> QED BY TypeInit, <1>1, <1>2, PTL DEF Spec

-----------------------------------------------------------------------------
(* The values the steps below take apart are records with these fields, which  *)
(* is all the argument needs of their types.                                   *)
IsRecord(r, fields) == DOMAIN r = fields
MetaFields   == {"md5", "bits"}
HandleFields == {"refs", "full", "header", "meta", "thread", "readFailed", "ioFailed",
                 "pos", "stop"}
ThreadFields == {"at", "start", "must", "end", "aborted", "cur"}

Shape ==
  /\ IsRecord(fh, HandleFields) /\ IsRecord(fh.meta, MetaFields)
  /\ IsRecord(saved, MetaFields)
  /\ DOMAIN thr = Readers
  /\ \A t \in Readers : IsRecord(thr[t], ThreadFields)
  /\ DOMAIN pc = Clients

(* The clients that have a reference to the handle, or lost it by an exception. *)
Inside == {c \in Clients : pc[c] # "out"}

(* Nobody is inside without a reference, so that nobody uses a handle that was *)
(* closed, and whoever is past open() has found its state.                     *)
Counted ==
  /\ fh.refs \in Nat
  /\ Cardinality(Inside) <= fh.refs
  /\ fh.refs = 0 => fh.full = "unset"
  /\ \A c \in Inside : pc[c] # "opening" => fh.full # "unset"
  /\ fh.full = "unset" => Alive = {} /\ fh.meta = NoMeta

(* One thread in the life of a handle: the response is where the thread is,    *)
(* what it is about to mark is written, what it is about to empty belongs to   *)
(* the content of today, and the metadata file promises no more than the       *)
(* handle does.                                                                *)
Written ==
  crossed \/ reused \/
    /\ \A t, u \in Alive : t = u
    /\ \A t \in Alive :
         /\ thr[t].at = "start" => fh.pos = NoResponse
         /\ thr[t].at \in {"read", "header", "empty"} =>
               fh.pos = NoResponse \/ fh.pos = thr[t].cur
         /\ thr[t].at = "mark" => thr[t].cur \in content /\ fh.pos = thr[t].cur + 1
         /\ thr[t].at = "empty" => fh.meta.md5 = "new"
    /\ saved.md5 = "new" /\ fh.meta.md5 = "new" => saved.bits \subseteq fh.meta.bits


-----------------------------------------------------------------------------
(* A reference count above zero is what somebody who is inside can rely on.    *)
LEMMA InsideCounts ==
  ASSUME Counted, NEW c \in Inside
  PROVE  fh.refs # 0 /\ (fh.refs <= 1 => Inside = {c})
<1>1. IsFiniteSet(Inside)
  BY ClientsAssumption, FS_Subset DEF Inside
<1>2. Cardinality(Inside) \in Nat /\ Cardinality(Inside) # 0
  BY <1>1, FS_CardinalityType, FS_EmptySet
<1>3. Cardinality(Inside \ {c}) = Cardinality(Inside) - 1 /\ IsFiniteSet(Inside \ {c})
  BY <1>1, FS_RemoveElement
<1>4. ASSUME fh.refs <= 1 PROVE Inside = {c}
  <2>1. Cardinality(Inside \ {c}) = 0
    BY <1>2, <1>3, <1>4, FS_CardinalityType DEF Counted
  <2>2. Inside \ {c} = {}
    BY <2>1, <1>3, FS_EmptySet
  <2> QED BY <2>2
<1> QED BY <1>2, <1>4 DEF Counted

(* The count stays above those inside when nobody comes in.                    *)
LEMMA FewerInside ==
  ASSUME Counted, Inside' \subseteq Inside
  PROVE  Cardinality(Inside') <= fh.refs
<1>1. IsFiniteSet(Inside)
  BY ClientsAssumption, FS_Subset DEF Inside
<1>2. /\ IsFiniteSet(Inside')
      /\ Cardinality(Inside') <= Cardinality(Inside)
  BY <1>1, FS_Subset
<1> QED BY <1>1, <1>2, FS_CardinalityType DEF Counted

(* Who leaves takes one from the number of those inside.                       *)
LEMMA OneLess ==
  ASSUME Counted, NEW c \in Inside, Inside' = Inside \ {c}, fh.refs > 1
  PROVE  Cardinality(Inside') <= fh.refs - 1
<1>1. IsFiniteSet(Inside)
  BY ClientsAssumption, FS_Subset DEF Inside
<1>2. Cardinality(Inside') = Cardinality(Inside) - 1
  BY <1>1, FS_RemoveElement
<1> QED BY <1>1, <1>2, FS_CardinalityType DEF Counted


(* Waking a client moves it neither in nor out.                                *)
LEMMA WokenInside ==
  ASSUME NEW l PROVE /\ Ready(l) = "out" <=> l = "out"
                     /\ Ready(l) = "opening" <=> l = "opening"
BY DEF Ready

-----------------------------------------------------------------------------
(* Every step leaves records records. *)
LEMMA ShapeStep == ASSUME Shape, [Next]_vars PROVE Shape'
<1> USE DEF Shape, IsRecord, HandleFields, MetaFields, ThreadFields, Goto
<1>1. ASSUME NEW f, IsRecord(f, HandleFields), IsRecord(f.meta, MetaFields), NEW i, NEW j, NEW k,
             StartThread(f, i, j, k)
      PROVE  /\ IsRecord(fh', HandleFields) /\ IsRecord(fh.meta', MetaFields)
             /\ DOMAIN thr' = Readers
             /\ \A t \in Readers : IsRecord(thr'[t], ThreadFields)
  BY <1>1 DEF StartThread
<1>2. ASSUME NEW c \in Clients, OpenCall(c) \/ ReadCall(c) \/ CloseCall(c) \/ Timeout(c)
      PROVE  Shape'
  BY <1>2 DEF OpenCall, ReadCall, CloseCall, Timeout
<1>3. ASSUME NEW c \in Clients, Open(c) PROVE Shape'
  BY <1>3, <1>1 DEF Open, Loaded, Emptied
<1>4. ASSUME NEW c \in Clients, OpenHeader(c) \/ Drain(c) \/ Copy(c) \/ MakeOwn(c)
      PROVE  Shape'
  BY <1>4 DEF OpenHeader, Drain, Copy, MakeOwn
<1>5. ASSUME NEW c \in Clients, Make(c) \/ MakeAborted(c) \/ MakeData(c)
      PROVE  Shape'
  BY <1>5, <1>1 DEF Make, MakeAborted, MakeData, ReturnOrStart
<1>6. ASSUME NEW c \in Clients, Flush(c) PROVE Shape'
  BY <1>6 DEF Flush
<1>7. ASSUME NEW c \in Clients, Deref(c) PROVE Shape'
  <2>1. CASE fh.refs > 1
    BY <1>7, <2>1 DEF Deref
  <2>2. CASE ~(fh.refs > 1)
    <3>1. fh' = NewHandle /\ saved' \in {saved, fh.meta} /\ thr' = [t \in Readers |-> Dead]
          /\ DOMAIN pc' = Clients
      BY <1>7, <2>2 DEF Deref
    <3>2. IsRecord(NewHandle, HandleFields) /\ IsRecord(NewHandle.meta, MetaFields)
          /\ IsRecord(Dead, ThreadFields)
      BY DEF NewHandle, NoMeta, Dead
    <3> QED BY <3>1, <3>2
  <2> QED BY <2>1, <2>2
<1>8. ASSUME NEW t \in Readers, Connect(t) \/ Fetch(t) \/ Finish(t) \/ Fails(t) \/ Empty(t)
      PROVE  Shape'
  <2>1. ASSUME NEW label, thr' = [thr EXCEPT ![t].at = label]
        PROVE  DOMAIN thr' = Readers /\ \A u \in Readers : IsRecord(thr'[u], ThreadFields)
    BY <2>1
  <2>2. CASE Connect(t)
    BY <2>1, <2>2 DEF Connect, Step
  <2>3. CASE Fetch(t)
    <3>1. PICK label, pos, stop :
            /\ thr' = [thr EXCEPT ![t].at = label]
            /\ fh' = [fh EXCEPT !.pos = pos, !.stop = stop]
      <4> DEFINE p == IF fh.pos # NoResponse THEN fh.pos ELSE thr[t].cur
                 e == IF fh.pos # NoResponse THEN fh.stop ELSE Min({thr[t].end, N})
      <4>1. CASE fh.header /\ p < e
        <5>1. /\ thr' = [thr EXCEPT ![t].at = "mark"]
              /\ fh' = [fh EXCEPT !.pos = p + 1, !.stop = e]
          BY <2>3, <4>1 DEF Fetch, Step
        <5> QED BY <5>1
      <4>2. CASE ~(fh.header /\ p < e)
        <5>1. /\ thr' = [thr EXCEPT ![t].at = IF fh.header THEN "finish" ELSE "header"]
              /\ fh' = [fh EXCEPT !.pos = p, !.stop = e]
          BY <2>3, <4>2 DEF Fetch, Step
        <5> QED BY <5>1
      <4> QED BY <4>1, <4>2
    <3>2. pc' = pc /\ saved' = saved
      BY <2>3 DEF Fetch
    <3> QED BY <2>1, <3>1, <3>2
  <2>4. CASE Finish(t)
    BY <2>1, <2>4 DEF Finish, Step
  <2>5. CASE Fails(t)
    BY <2>1, <2>5 DEF Fails, Step
  <2>6. CASE Empty(t)
    BY <2>1, <2>6 DEF Empty, Step
  <2> QED BY <1>8, <2>2, <2>3, <2>4, <2>5, <2>6
<1>9. ASSUME NEW t \in Readers, Header(t) PROVE Shape'
  BY <1>9 DEF Header
<1>10. ASSUME NEW t \in Readers, Mark(t) PROVE Shape'
  BY <1>10 DEF Mark, NotifyAll
<1>11. ASSUME NEW t \in Readers, Leave(t) PROVE Shape'
  BY <1>11 DEF Leave, NotifyAll, Dead
<1>12. CASE Evict
  BY <1>12 DEF Evict, NoMeta
<1>13. CASE UNCHANGED vars
  BY <1>13 DEF vars
<1> QED
  BY <1>2, <1>3, <1>4, <1>5, <1>6, <1>7, <1>8, <1>9, <1>10, <1>11, <1>12, <1>13
     DEF Next, ClientStep, ThreadStep

-----------------------------------------------------------------------------
(* What the fetch of a buffer does, from the place the response is at.         *)
LEMMA FetchParts ==
  ASSUME Shape, NEW t \in Readers, Fetch(t)
  PROVE  LET pos == IF fh.pos # NoResponse THEN fh.pos ELSE thr[t].cur
         IN /\ fh.refs' = fh.refs /\ fh.full' = fh.full /\ fh.meta' = fh.meta
            /\ fh.thread' = fh.thread /\ fh.header' = fh.header
            /\ saved' = saved /\ pc' = pc /\ crossed' = crossed /\ reused' = reused
            /\ thr[t].at = "read" /\ thr'[t].cur = thr[t].cur
            /\ \A u \in Readers \ {t} : thr'[u] = thr[u]
            /\ \/ /\ thr'[t].at = "mark" /\ fh.header /\ fh.pos' = pos + 1
                  /\ content' = IF pos = thr[t].cur THEN content \cup {pos}
                                ELSE content \ {thr[t].cur}
               \/ /\ thr'[t].at \in {"header", "finish"} /\ fh.pos' = pos
                  /\ thr'[t].at = "finish" => fh.header
                  /\ content' = content
<1> USE DEF Shape, IsRecord, HandleFields, ThreadFields
<1> DEFINE pos == IF fh.pos # NoResponse THEN fh.pos ELSE thr[t].cur
           stop == IF fh.pos # NoResponse THEN fh.stop ELSE Min({thr[t].end, N})
<1>1. /\ saved' = saved /\ pc' = pc /\ crossed' = crossed /\ reused' = reused
      /\ thr[t].at = "read"
  BY DEF Fetch, Step
<1>2. CASE fh.header /\ pos < stop
  <2>1. /\ thr' = [thr EXCEPT ![t].at = "mark"]
        /\ fh' = [fh EXCEPT !.pos = pos + 1, !.stop = stop]
        /\ content' = IF pos = thr[t].cur THEN content \cup {pos} ELSE content \ {thr[t].cur}
    BY <1>2 DEF Fetch, Step
  <2> HIDE DEF pos, stop
  <2>2. /\ thr'[t].at = "mark" /\ thr'[t].cur = thr[t].cur
        /\ \A u \in Readers \ {t} : thr'[u] = thr[u]
    BY <2>1
  <2>3. /\ fh.refs' = fh.refs /\ fh.full' = fh.full /\ fh.meta' = fh.meta
        /\ fh.thread' = fh.thread /\ fh.header' = fh.header /\ fh.pos' = pos + 1
    BY <2>1
  <2> QED BY <1>1, <1>2, <2>1, <2>2, <2>3 DEF pos
<1>3. CASE ~(fh.header /\ pos < stop)
  <2>1. /\ thr' = [thr EXCEPT ![t].at = IF fh.header THEN "finish" ELSE "header"]
        /\ fh' = [fh EXCEPT !.pos = pos, !.stop = stop]
        /\ content' = content
    BY <1>3 DEF Fetch, Step
  <2> HIDE DEF pos, stop
  <2>2. /\ thr'[t].at \in {"header", "finish"} /\ thr'[t].cur = thr[t].cur
        /\ thr'[t].at = "finish" => fh.header
        /\ \A u \in Readers \ {t} : thr'[u] = thr[u]
    BY <2>1
  <2>3. /\ fh.refs' = fh.refs /\ fh.full' = fh.full /\ fh.meta' = fh.meta
        /\ fh.thread' = fh.thread /\ fh.header' = fh.header /\ fh.pos' = pos
    BY <2>1
  <2> QED BY <1>1, <2>1, <2>2, <2>3 DEF pos
<1> QED BY <1>2, <1>3

-----------------------------------------------------------------------------
(* The number of references of the handle goes with the clients inside.        *)
LEMMA CountedStep == ASSUME Shape, Counted, [Next]_vars PROVE Counted'
<1> USE DEF Shape, IsRecord, HandleFields, MetaFields, ThreadFields, Goto
<1> DEFINE Seen(c) == fh.refs # 0 /\ (pc[c] # "opening" => fh.full # "unset")
           Same == fh.refs' = fh.refs /\ fh.full' = fh.full /\ fh.meta' = fh.meta
<1>1. ASSUME NEW c \in Inside PROVE Seen(c)
  BY <1>1, InsideCounts DEF Counted
<1>2. ASSUME fh.refs' = fh.refs, fh.full' # "unset", fh.refs # 0, Inside' \subseteq Inside
      PROVE  Counted'
  BY <1>2, FewerInside DEF Counted
<1>3. ASSUME NEW c \in Inside, pc' = [pc EXCEPT ![c] = pc'[c]] PROVE Inside' \subseteq Inside
  BY <1>3 DEF Inside
<1>4. ASSUME NEW c \in Clients, OpenCall(c) PROVE Counted'
  <2>1. Inside' = Inside \cup {c} /\ c \notin Inside
    BY <1>4 DEF OpenCall, Inside
  <2>2. IsFiniteSet(Inside)
    BY ClientsAssumption, FS_Subset DEF Inside
  <2>3. Cardinality(Inside') = Cardinality(Inside) + 1 /\ Cardinality(Inside) \in Nat
    BY <2>1, <2>2, FS_AddElement, FS_CardinalityType
  <2>4. /\ fh.refs' = fh.refs + 1 /\ fh.full' = fh.full /\ fh.meta' = fh.meta
        /\ thr' = thr
        /\ \A d \in Inside' : pc'[d] # "opening" => d \in Inside /\ pc[d] # "opening"
    BY <1>4, <2>1 DEF OpenCall, Inside
  <2> QED BY <2>3, <2>4 DEF Counted, Alive
<1>5. ASSUME NEW c \in Clients, Open(c) PROVE Counted'
  <2>1. c \in Inside
    BY <1>5 DEF Open, Inside
  <2> DEFINE f == Loaded(fh)
             empty == fh.full = "unset" /\ Emptied(f)
             g == IF empty THEN [f EXCEPT !.full = "yes"] ELSE f
  <2>4. DOMAIN g = HandleFields /\ g.refs = fh.refs /\ g.full # "unset"
    BY DEF Loaded
  <2>2. fh.refs' = fh.refs /\ fh.full' # "unset"
    <3>1. fh' = g \/ StartThread(g, 0, 0, NoEnd)
      BY <1>5, Zenon DEF Open
    <3> HIDE DEF g
    <3> QED BY <2>4, <3>1 DEF StartThread
  <2>3. Inside' \subseteq Inside
    BY <1>5, <2>1 DEF Open, Inside
  <2> QED BY <1>1, <1>2, <2>1, <2>2, <2>3
<1>6. ASSUME NEW c \in Inside, pc[c] # "opening",
             fh.refs' = fh.refs, fh.full' = fh.full, pc' = [pc EXCEPT ![c] = pc'[c]]
      PROVE  Counted'
  BY <1>1, <1>2, <1>3, <1>6
<1>7. ASSUME NEW c \in Clients,
             ReadCall(c) \/ CloseCall(c) \/ OpenHeader(c) \/ Drain(c) \/ Copy(c) \/ MakeOwn(c)
             \/ Flush(c)
      PROVE  Counted'
  <2>1. c \in Inside /\ pc[c] # "opening" /\ fh' = fh /\ pc' = [pc EXCEPT ![c] = pc'[c]]
    BY <1>7 DEF ReadCall, CloseCall, OpenHeader, Drain, Copy, MakeOwn, Flush, Inside
  <2> QED BY <1>6, <2>1
<1>8. ASSUME NEW c \in Clients, Timeout(c) PROVE Counted'
  <2>1. c \in Inside /\ pc[c] # "opening" /\ fh' = fh /\ pc' = [pc EXCEPT ![c] = pc'[c]]
    BY <1>8 DEF Timeout, Inside
  <2> QED BY <1>6, <2>1
<1>9. ASSUME NEW c \in Clients, Make(c) \/ MakeAborted(c) \/ MakeData(c) PROVE Counted'
  <2>1. /\ c \in Inside /\ pc[c] # "opening" /\ pc' = [pc EXCEPT ![c] = pc'[c]]
        /\ fh.refs' = fh.refs /\ fh.full' = fh.full
    BY <1>9 DEF Make, MakeAborted, MakeData, ReturnOrStart, StartThread, Inside
  <2> QED BY <1>6, <2>1
<1>10. ASSUME NEW c \in Clients, Deref(c) PROVE Counted'
  <2>1. c \in Inside /\ Inside' = Inside \ {c} /\ pc[c] # "opening"
    BY <1>10 DEF Deref, Inside
  <2>2. CASE fh.refs > 1
    <3>1. /\ fh.refs' = fh.refs - 1 /\ fh.full' = fh.full
          /\ \A d \in Inside' : pc'[d] = pc[d]
      BY <1>10, <2>1, <2>2 DEF Deref, Inside
    <3>2. Cardinality(Inside') <= fh.refs'
      BY <2>1, <2>2, <3>1, OneLess
    <3>3. fh.full # "unset"
      BY <2>1 DEF Counted
    <3> QED BY <2>2, <3>1, <3>2, <3>3 DEF Counted
  <2>3. CASE ~(fh.refs > 1)
    <3>1. Inside' = {}
      BY <2>1, <2>3, InsideCounts DEF Counted
    <3>2. Alive' = {}
      BY <1>10, <2>3 DEF Deref, Alive, Dead
    <3>3. fh' = NewHandle
      BY <1>10, <2>3 DEF Deref
    <3>4. Cardinality(Inside') = 0
      BY <3>1, FS_EmptySet
    <3> QED BY <3>1, <3>2, <3>3, <3>4 DEF Counted, NewHandle
  <2> QED BY <2>2, <2>3
<1>11. ASSUME NEW t \in Alive, Inside' \subseteq Inside, fh.refs' = fh.refs,
              fh.full' = fh.full \/ fh.full' # "unset"
       PROVE  Counted'
  BY <1>2, <1>11 DEF Counted
<1>12. ASSUME NEW t \in Readers,
              Connect(t) \/ Fetch(t) \/ Finish(t) \/ Fails(t) \/ Empty(t) \/ Header(t)
       PROVE  Counted'
  <2>1. t \in Alive /\ pc' = pc /\ fh.refs' = fh.refs /\ (fh.full' = fh.full \/ fh.full' # "unset")
    <3>1. CASE Fetch(t)
      BY <3>1, FetchParts DEF Alive
    <3>2. CASE Header(t)
      BY <3>2 DEF Header, Alive
    <3>3. CASE Connect(t) \/ Finish(t) \/ Fails(t) \/ Empty(t)
      BY <3>3 DEF Connect, Finish, Fails, Empty, Step, Alive
    <3> QED BY <1>12, <3>1, <3>2, <3>3
  <2> QED BY <1>11, <2>1 DEF Inside
<1>13. ASSUME NEW t \in Readers, Mark(t) \/ Leave(t) PROVE Counted'
  <2>1. t \in Alive /\ fh.refs' = fh.refs /\ fh.full' = fh.full
    BY <1>13 DEF Mark, Leave, Alive
  <2>2. Inside' \subseteq Inside
    BY <1>13, WokenInside DEF Mark, Leave, NotifyAll, Inside
  <2> QED BY <1>11, <2>1, <2>2
<1>14. CASE Evict
  BY <1>14 DEF Evict, Counted, Inside, Alive
<1>15. CASE UNCHANGED vars
  BY <1>15 DEF vars, Counted, Inside, Alive
<1> QED
  BY <1>4, <1>5, <1>7, <1>8, <1>9, <1>10, <1>12, <1>13, <1>14, <1>15
     DEF Next, ClientStep, ThreadStep

-----------------------------------------------------------------------------
(* What is marked is written, whichever step comes next. *)
LEMMA WrittenStep ==
  ASSUME Shape, Counted, Written, MarkedWritten, [Next]_vars
  PROVE  Written' /\ MarkedWritten'
<1> USE DEF Shape, IsRecord, HandleFields, MetaFields, ThreadFields
<1> DEFINE Kept == content' = content /\ saved' = saved /\ fh.meta' = fh.meta /\ fh.pos' = fh.pos
           Goal == Written' /\ MarkedWritten'
<1>1. ASSUME Kept, crossed' = crossed, reused' = reused,
             \A t \in Readers : thr'[t].at = thr[t].at /\ thr'[t].cur = thr[t].cur
      PROVE  Goal
  BY <1>1 DEF Written, MarkedWritten, Alive
<1>2. ASSUME NEW f, NEW i, NEW j, NEW k, StartThread(f, i, j, k)
      PROVE  \/ crossed' \/ reused'
             \/ /\ Alive = {} /\ ~crossed /\ ~reused /\ f.pos = NoResponse
                /\ \E t \in Readers : Alive' = {t} /\ thr'[t].at = "start"
  <2>1. PICK t \in Readers \ Alive :
          /\ thr' = [thr EXCEPT ![t] = [at |-> "start", start |-> i, must |-> j, end |-> k,
                                       aborted |-> FALSE, cur |-> i]]
          /\ crossed' = (crossed \/ Alive # {})
          /\ reused' = (reused \/ f.pos # NoResponse)
    BY <1>2 DEF StartThread
  <2>2. CASE Alive # {} \/ crossed \/ reused \/ f.pos # NoResponse
    BY <2>1, <2>2
  <2>3. CASE Alive = {} /\ ~crossed /\ ~reused /\ f.pos = NoResponse
    <3>1. thr'[t].at = "start" /\ \A u \in Readers \ {t} : thr'[u].at = "dead"
      BY <2>1, <2>3 DEF Alive
    <3>2. Alive' = {t}
      BY <3>1 DEF Alive
    <3> QED BY <2>1, <2>3, <3>1, <3>2
  <2> QED BY <2>2, <2>3
<1>3. ASSUME NEW f, NEW i, NEW j, NEW k, StartThread(f, i, j, k), Kept,
             f.pos = fh.pos
      PROVE  Goal
  BY <1>2, <1>3 DEF Written, MarkedWritten
<1>4. ASSUME NEW c \in Clients,
             OpenCall(c) \/ ReadCall(c) \/ CloseCall(c) \/ OpenHeader(c) \/ Drain(c)
             \/ Copy(c) \/ MakeOwn(c) \/ Flush(c) \/ Timeout(c)
      PROVE  Goal
  <2>1. Kept /\ crossed' = crossed /\ reused' = reused
    BY <1>4 DEF OpenCall, ReadCall, CloseCall, OpenHeader, Drain, Copy, MakeOwn, Flush, Timeout
  <2>2. \A t \in Readers : thr'[t].at = thr[t].at /\ thr'[t].cur = thr[t].cur
    BY <1>4 DEF OpenCall, ReadCall, CloseCall, OpenHeader, Drain, Copy, MakeOwn, Flush, Timeout
  <2> QED BY <1>1, <2>1, <2>2
<1>5. ASSUME NEW c \in Clients, ReturnOrStart(c), content' = content, saved' = saved PROVE Goal
  <2>1. CASE Cached(c)
    BY <1>1, <1>5, <2>1 DEF ReturnOrStart
  <2>2. CASE ~Cached(c)
    <3>1. PICK i, j, k : StartThread(fh, i, j, k)
      BY <1>5, <2>2 DEF ReturnOrStart
    <3>2. fh.meta' = fh.meta /\ fh.pos' = fh.pos
      BY <3>1 DEF StartThread
    <3> QED BY <1>3, <1>5, <3>1, <3>2
  <2> QED BY <2>1, <2>2
<1>6. ASSUME NEW c \in Clients, Make(c) \/ MakeAborted(c) \/ MakeData(c) PROVE Goal
  <2>1. content' = content /\ saved' = saved
    BY <1>6 DEF Make, MakeAborted, MakeData
  <2>2. CASE ReturnOrStart(c)
    BY <1>5, <2>1, <2>2
  <2>3. CASE ~ReturnOrStart(c)
    <3>1. Kept /\ crossed' = crossed /\ reused' = reused
      BY <1>6, <2>1, <2>3 DEF Make, MakeAborted, MakeData
    <3>2. \A t \in Readers : thr'[t].at = thr[t].at /\ thr'[t].cur = thr[t].cur
      BY <1>6, <2>3 DEF Make, MakeAborted, MakeData
    <3> QED BY <1>1, <3>1, <3>2
  <2> QED BY <2>2, <2>3
<1>7. ASSUME NEW c \in Clients, Open(c) PROVE Goal
  <2> DEFINE f == Loaded(fh)
             empty == fh.full = "unset" /\ Emptied(f)
             g == IF empty THEN [f EXCEPT !.full = "yes"] ELSE f
  <2>1. /\ saved' = saved
        /\ content' = IF empty THEN {} ELSE content
        /\ fh.meta' = g.meta /\ fh.pos' = g.pos
        /\ \/ thr' = thr /\ crossed' = crossed /\ reused' = reused
           \/ StartThread(g, 0, 0, NoEnd)
    <3>1. DOMAIN g = HandleFields
      BY DEF Loaded
    <3>2. /\ saved' = saved
          /\ content' = IF empty THEN {} ELSE content
          /\ \/ fh' = g /\ thr' = thr /\ crossed' = crossed /\ reused' = reused
             \/ StartThread(g, 0, 0, NoEnd)
      BY <1>7, Zenon DEF Open
    <3> HIDE DEF g, empty
    <3>3. fh.meta' = g.meta /\ fh.pos' = g.pos
      BY <3>1, <3>2 DEF StartThread
    <3> QED BY <3>2, <3>3
  <2>2. /\ g.meta = IF fh.full = "unset" THEN saved ELSE fh.meta
        /\ g.pos = fh.pos
    BY DEF Loaded
  <2>3. empty => saved.bits = {}
    BY DEF Loaded, Emptied
  <2>4. CASE fh.full = "unset"
    <3>1. Alive = {}
      BY <2>4 DEF Counted
    <3>2. \/ crossed' \/ reused'
          \/ \A t \in Alive' : Alive' = {t} /\ thr'[t].at = "start" /\ fh.pos' = NoResponse
      <4>1. CASE thr' = thr
        BY <3>1, <4>1 DEF Alive
      <4>2. CASE StartThread(g, 0, 0, NoEnd)
        <5> HIDE DEF g
        <5>1. \/ crossed' \/ reused'
              \/ g.pos = NoResponse /\ \E t \in Readers : Alive' = {t} /\ thr'[t].at = "start"
          BY <1>2, <4>2
        <5> QED BY <2>1, <5>1
      <4> QED BY <2>1, <4>1, <4>2
    <3>3. fh.meta' = saved
      BY <2>1, <2>2, <2>4
    <3>4. (crossed => crossed') /\ (reused => reused')
      <4> HIDE DEF g, empty
      <4>1. CASE crossed' = crossed /\ reused' = reused
        BY <4>1
      <4>2. CASE StartThread(g, 0, 0, NoEnd)
        <5>1. /\ crossed' = (crossed \/ Alive # {})
              /\ reused' = (reused \/ g.pos # NoResponse)
          BY <4>2 DEF StartThread
        <5> QED BY <5>1
      <4> QED BY <2>1, <4>1, <4>2
    <3> HIDE DEF g, empty
    <3>5. MarkedWritten'
      BY <2>1, <2>3, <3>3, <3>4 DEF MarkedWritten
    <3>6. Written'
      BY <2>1, <3>2, <3>3 DEF Written
    <3> QED BY <3>5, <3>6
  <2>5. CASE fh.full # "unset"
    <3>1. Kept
      BY <2>1, <2>2, <2>5
    <3> HIDE DEF g, empty
    <3> QED BY <1>1, <1>3, <2>1, <2>2, <3>1
  <2> QED BY <2>4, <2>5
<1>8. ASSUME NEW c \in Clients, Deref(c) PROVE Goal
  <2>1. CASE fh.refs > 1
    BY <1>1, <1>8, <2>1 DEF Deref
  <2>2. CASE ~(fh.refs > 1)
    <3>1. fh' = NewHandle /\ thr' = [t \in Readers |-> Dead] /\ content' = content
          /\ crossed' = crossed /\ reused' = reused
          /\ saved' = (IF fh.meta.md5 = "none" THEN saved ELSE fh.meta)
      BY <1>8, <2>2 DEF Deref
    <3>2. Alive' = {}
      BY <3>1 DEF Alive, Dead
    <3> QED BY <3>1, <3>2 DEF Written, MarkedWritten, NewHandle, NoMeta
  <2> QED BY <2>1, <2>2
<1>9. ASSUME NEW t \in Readers, Connect(t) \/ Finish(t) \/ Fails(t) \/ Leave(t) PROVE Goal
  <2>1. Kept /\ crossed' = crossed /\ reused' = reused
    BY <1>9 DEF Connect, Finish, Fails, Leave
  <2>2. /\ \A u \in Readers \ {t} : thr'[u] = thr[u]
        /\ thr'[t].at \in {"read", "leave", "dead"}
        /\ thr'[t].at = "read" => thr[t].at = "start"
        /\ t \in Alive
    BY <1>9 DEF Connect, Finish, Fails, Leave, Step, Dead, Alive
  <2>3. Alive' \subseteq Alive
    BY <2>2 DEF Alive
  <2> QED BY <2>1, <2>2, <2>3 DEF Written, MarkedWritten
<1>10. ASSUME NEW t \in Readers, Fetch(t) PROVE Goal
  <2>1. /\ saved' = saved /\ fh.meta' = fh.meta /\ crossed' = crossed /\ reused' = reused
        /\ t \in Alive /\ thr[t].at = "read"
        /\ \A u \in Readers \ {t} : thr'[u] = thr[u]
        /\ thr'[t].cur = thr[t].cur
        /\ thr'[t].at \in {"mark", "header", "finish"}
    BY <1>10, FetchParts DEF Alive
  <2>2. CASE crossed \/ reused
    BY <2>1, <2>2 DEF Written, MarkedWritten
  <2>3. CASE ~crossed /\ ~reused
    <3>1. fh.pos = NoResponse \/ fh.pos = thr[t].cur
      BY <2>1, <2>3 DEF Written
    <3> DEFINE pos == IF fh.pos # NoResponse THEN fh.pos ELSE thr[t].cur
    <3>2. /\ thr'[t].at = "mark" =>
               fh.pos' = pos + 1
               /\ content' = IF pos = thr[t].cur THEN content \cup {pos} ELSE content \ {thr[t].cur}
          /\ thr'[t].at # "mark" => fh.pos' = pos /\ content' = content
      BY <1>10, FetchParts
    <3>3. pos = thr[t].cur
      BY <3>1
    <3> HIDE DEF pos
    <3>4. /\ content \subseteq content'
          /\ thr'[t].at = "mark" => thr'[t].cur \in content' /\ fh.pos' = thr'[t].cur + 1
          /\ thr'[t].at # "mark" => fh.pos' = thr'[t].cur
      BY <2>1, <3>2, <3>3
    <3>5. Alive = {t} /\ Alive' = {t}
      BY <2>1, <2>3 DEF Alive, Written
    <3>6. MarkedWritten'
      BY <2>1, <2>3, <3>4 DEF MarkedWritten
    <3>7. Written'
      BY <2>1, <2>3, <3>4, <3>5 DEF Written
    <3> QED BY <3>6, <3>7
  <2> QED BY <2>2, <2>3
<1>11. ASSUME NEW t \in Readers, Header(t) PROVE Goal
  <2>1. /\ content' = content /\ saved' = saved /\ crossed' = crossed /\ reused' = reused
        /\ fh.pos' = fh.pos
        /\ t \in Alive /\ thr[t].at = "header"
        /\ \A u \in Readers : thr'[u].cur = thr[u].cur
        /\ \A u \in Readers \ {t} : thr'[u].at = thr[u].at
        /\ thr'[t].at = IF fh.header THEN "read" ELSE "empty"
    BY <1>11 DEF Header, Alive
  <2>2. Alive' \subseteq Alive
    BY <2>1 DEF Alive
  <2>3. CASE fh.header
    <3>1. fh.meta' = fh.meta
      BY <1>11, <2>3 DEF Header
    <3> QED BY <2>1, <2>2, <2>3, <3>1 DEF Written, MarkedWritten
  <2>4. CASE ~fh.header
    <3>1. fh.meta' = IF fh.meta.md5 = "new" THEN fh.meta
                     ELSE IF saved.md5 = "new" THEN saved ELSE [md5 |-> "new", bits |-> {}]
      BY <1>11, <2>4 DEF Header
    <3> QED BY <2>1, <2>2, <2>4, <3>1 DEF Written, MarkedWritten
  <2> QED BY <2>3, <2>4
<1>12. ASSUME NEW t \in Readers, Empty(t) PROVE Goal
  <2>1. /\ saved' = saved /\ fh.meta' = fh.meta /\ crossed' = crossed /\ reused' = reused
        /\ fh.pos' = fh.pos
        /\ t \in Alive /\ thr[t].at = "empty"
        /\ \A u \in Readers \ {t} : thr'[u] = thr[u]
        /\ thr'[t].at = "read" /\ thr'[t].cur = thr[t].cur
        /\ content' = content \/ (content' = {} /\ fh.meta.bits = {})
    BY <1>12 DEF Empty, Emptied, Step, Alive
  <2>2. Alive' \subseteq Alive
    BY <2>1 DEF Alive
  <2> QED BY <2>1, <2>2 DEF Written, MarkedWritten
<1>13. ASSUME NEW t \in Readers, Mark(t) PROVE Goal
  <2>1. /\ saved' = saved /\ content' = content /\ crossed' = crossed /\ reused' = reused
        /\ fh.meta' = [fh.meta EXCEPT !.bits = @ \cup {thr[t].cur}] /\ fh.pos' = fh.pos
        /\ t \in Alive /\ thr[t].at = "mark"
        /\ \A u \in Readers \ {t} : thr'[u] = thr[u]
        /\ thr'[t].at \in {"read", "finish", "leave"}
        /\ thr'[t].at = "read" => thr'[t].cur = thr[t].cur + 1
    BY <1>13 DEF Mark, Alive
  <2>2. Alive' \subseteq Alive
    BY <2>1 DEF Alive
  <2> QED BY <2>1, <2>2 DEF Written, MarkedWritten
<1>14. CASE Evict
  BY <1>14 DEF Evict, Counted, Written, MarkedWritten, Alive, NoMeta
<1>15. CASE UNCHANGED vars
  BY <1>1, <1>15 DEF vars
<1> QED
  BY <1>4, <1>6, <1>7, <1>8, <1>9, <1>10, <1>11, <1>12, <1>13, <1>14, <1>15
     DEF Next, ClientStep, ThreadStep

-----------------------------------------------------------------------------
(* The thread that runs is the one the handle has registered, so that its end  *)
(* is announced; and who wakes up in open() with no thread left finds the      *)
(* header or the failure it waited for.                                        *)
Announced ==
  crossed \/
    /\ \A t \in Alive : fh.thread = t
    /\ fh.thread # NoThread => fh.thread \in Alive
    /\ \A t \in Alive :
         /\ thr[t].at \in {"mark", "finish"} => fh.header
         /\ thr[t].at = "leave" => fh.header \/ fh.readFailed
    /\ \A c \in Clients :
         pc[c] = "head" /\ fh.thread = NoThread => fh.header \/ fh.readFailed

(* Nobody who was woken still waits, and nobody is woken into another label.   *)
LEMMA WokenLabel ==
  ASSUME NEW l PROVE /\ Ready(l) \notin Waiting
                     /\ Ready(l) = "head" => l \in {"head", "headWait"}
BY DEF Ready, Waiting

(* A reader that waits goes on being awaited by the thread, whoever steps.     *)
LEMMA WaitingStep ==
  ASSUME Shape, Counted, Announced, WaiterHasThread, [Next]_vars
  PROVE  Announced' /\ WaiterHasThread'
<1> USE DEF Shape, IsRecord, HandleFields, MetaFields, ThreadFields, Goto
<1> DEFINE Goal == Announced' /\ WaiterHasThread'
           Same == fh.thread' = fh.thread /\ fh.header' = fh.header /\ fh.readFailed' = fh.readFailed
<1>1. ASSUME Same, crossed' = crossed, \A t \in Readers : thr'[t].at = thr[t].at,
             \A c \in Clients :
               \/ pc'[c] = pc[c]
               \/ /\ pc'[c] \in Waiting => fh.thread # NoThread
                  /\ pc'[c] # "head"
      PROVE  Goal
  BY <1>1 DEF Announced, WaiterHasThread, Alive
<1>2. ASSUME NEW f, NEW i, NEW j, NEW k, IsRecord(f, HandleFields), StartThread(f, i, j, k)
      PROVE  Goal
  <2>1. PICK t \in Readers \ Alive :
          /\ thr' = [thr EXCEPT ![t] = [at |-> "start", start |-> i, must |-> j, end |-> k,
                                       aborted |-> FALSE, cur |-> i]]
          /\ fh' = [f EXCEPT !.thread = t]
          /\ crossed' = (crossed \/ Alive # {})
    BY <1>2 DEF StartThread
  <2>2. CASE Alive # {} \/ crossed
    BY <2>1, <2>2 DEF Announced, WaiterHasThread
  <2>3. CASE Alive = {} /\ ~crossed
    <3>1. thr'[t].at = "start" /\ \A u \in Readers \ {t} : thr'[u].at = "dead"
      BY <2>1, <2>3 DEF Alive
    <3>2. Alive' = {t}
      BY <3>1 DEF Alive
    <3>3. fh.thread' = t /\ t # NoThread
      BY <1>2, <2>1, ThreadsAssumption
    <3> QED BY <3>1, <3>2, <3>3 DEF Announced, WaiterHasThread
  <2> QED BY <2>2, <2>3
<1>3. ASSUME NEW c \in Clients,
             OpenCall(c) \/ ReadCall(c) \/ CloseCall(c) \/ Drain(c) \/ Copy(c) \/ MakeOwn(c)
             \/ Flush(c) \/ Timeout(c)
      PROVE  Goal
  <2>1. Same /\ crossed' = crossed /\ \A t \in Readers : thr'[t].at = thr[t].at
    BY <1>3 DEF OpenCall, ReadCall, CloseCall, Drain, Copy, MakeOwn, Flush, Timeout
  <2>2. /\ \A d \in Clients \ {c} : pc'[d] = pc[d]
        /\ pc'[c] \in Waiting => fh.thread # NoThread
        /\ pc'[c] # "head"
    BY <1>3 DEF OpenCall, ReadCall, CloseCall, Drain, Copy, MakeOwn, Flush, Timeout, Waiting
  <2> QED BY <1>1, <2>1, <2>2
<1>4. ASSUME NEW c \in Clients, OpenHeader(c) PROVE Goal
  <2>1. /\ fh' = fh /\ thr' = thr /\ crossed' = crossed
        /\ pc[c] = "head"
        /\ \A d \in Clients \ {c} : pc'[d] = pc[d]
        /\ pc'[c] # "head"
        /\ pc'[c] \in Waiting => ~fh.header /\ ~fh.readFailed
    BY <1>4 DEF OpenHeader, Waiting
  <2> QED BY <2>1 DEF Announced, WaiterHasThread, Alive
<1>5. ASSUME NEW c \in Clients, Open(c) PROVE Goal
  <2> DEFINE f == Loaded(fh)
             empty == fh.full = "unset" /\ Emptied(f)
             g == IF empty THEN [f EXCEPT !.full = "yes"] ELSE f
  <2>1. DOMAIN g = HandleFields
    BY DEF Loaded
  <2>2. CASE StartThread(g, 0, 0, NoEnd)
    <3> HIDE DEF g
    <3> QED BY <1>2, <2>1, <2>2
  <2>3. CASE ~StartThread(g, 0, 0, NoEnd)
    <3>1. /\ fh' = g /\ thr' = thr /\ crossed' = crossed
          /\ pc' = [pc EXCEPT ![c] = IF g.readFailed THEN "out" ELSE "open"]
      BY <1>5, <2>3 DEF Open
    <3>2. /\ g.thread = fh.thread /\ g.readFailed = fh.readFailed
          /\ fh.full # "unset" => g.header = fh.header
      BY DEF Loaded
    <3>3. /\ \A d \in Clients \ {c} : pc'[d] = pc[d]
          /\ pc'[c] # "head" /\ pc'[c] \notin Waiting
      BY <3>1 DEF Waiting
    <3>4. CASE fh.full # "unset"
      BY <1>1, <3>1, <3>2, <3>3, <3>4
    <3>5. CASE fh.full = "unset"
      <4>1. Alive = {} /\ \A d \in Clients : pc[d] # "head"
        BY <3>5 DEF Counted, Inside
      <4>2. Alive' = {}
        BY <3>1, <4>1 DEF Alive
      <4> QED BY <3>1, <3>2, <3>3, <4>1, <4>2 DEF Announced, WaiterHasThread
    <3> QED BY <3>4, <3>5
  <2> QED BY <2>2, <2>3
<1>6. ASSUME NEW c \in Clients, Make(c) \/ MakeAborted(c) \/ MakeData(c) PROVE Goal
  <2>1. CASE \E i, j, k : StartThread(fh, i, j, k)
    BY <1>2, <2>1
  <2>2. CASE ~\E i, j, k : StartThread(fh, i, j, k)
    <3>1. Same /\ crossed' = crossed
      BY <1>6, <2>2 DEF Make, MakeAborted, MakeData, ReturnOrStart
    <3>2. \A t \in Readers : thr'[t].at = thr[t].at
      BY <1>6, <2>2 DEF Make, MakeAborted, MakeData, ReturnOrStart
    <3>3. /\ \A d \in Clients \ {c} : pc'[d] = pc[d]
          /\ pc'[c] \in Waiting => fh.thread # NoThread
          /\ pc'[c] # "head"
      BY <1>6, <2>2 DEF Make, MakeAborted, MakeData, ReturnOrStart, Waiting
    <3> QED BY <1>1, <3>1, <3>2, <3>3
  <2> QED BY <2>1, <2>2
<1>7. ASSUME NEW c \in Clients, Deref(c) PROVE Goal
  <2>1. c \in Inside /\ \A d \in Clients \ {c} : pc'[d] = pc[d]
    BY <1>7 DEF Deref, Inside
  <2>2. pc'[c] = "out"
    BY <1>7 DEF Deref
  <2>3. CASE fh.refs > 1
    <3>1. Same /\ crossed' = crossed /\ thr' = thr
      BY <1>7, <2>3 DEF Deref
    <3> QED BY <1>1, <2>1, <2>2, <3>1 DEF Waiting
  <2>4. CASE ~(fh.refs > 1)
    <3>1. Inside = {c}
      BY <2>1, <2>4, InsideCounts DEF Counted
    <3>2. \A d \in Clients : pc'[d] = "out"
      BY <2>1, <2>2, <3>1 DEF Inside
    <3>3. fh' = NewHandle /\ Alive' = {}
      BY <1>7, <2>4 DEF Deref, Alive, Dead
    <3> QED BY <3>2, <3>3 DEF Announced, WaiterHasThread, NewHandle, Waiting
  <2> QED BY <2>3, <2>4
<1>8. ASSUME NEW t \in Readers, t \in Alive,
             \A u \in Readers \ {t} : thr'[u].at = thr[u].at,
             thr'[t].at \in {"read", "header", "empty", "mark", "finish", "leave"},
             thr'[t].at \in {"mark", "finish"} => fh.header',
             thr'[t].at = "leave" => fh.header' \/ fh.readFailed',
             fh.thread' = fh.thread, crossed' = crossed,
             \A c \in Clients : pc'[c] \in {pc[c], Ready(pc[c])}
      PROVE  Goal
  <2>1. Alive' = Alive
    BY <1>8 DEF Alive
  <2>2. CASE crossed
    BY <1>8, <2>2 DEF Announced, WaiterHasThread
  <2>3. CASE ~crossed
    <3>1. Alive = {t} /\ fh.thread = t /\ t # NoThread
      BY <1>8, <2>3, ThreadsAssumption DEF Announced
    <3>2. Announced'
      BY <1>8, <2>1, <3>1 DEF Announced
    <3> QED BY <1>8, <2>1, <3>1, <3>2 DEF WaiterHasThread
  <2> QED BY <2>2, <2>3
<1>9. ASSUME NEW t \in Readers, t \in Alive, crossed, crossed' = crossed PROVE Goal
  BY <1>9 DEF Announced, WaiterHasThread
<1>14. ASSUME NEW t \in Readers, Connect(t) \/ Fetch(t) \/ Fails(t) PROVE Goal
  <2>1. /\ t \in Alive /\ crossed' = crossed /\ pc' = pc
        /\ \A u \in Readers \ {t} : thr'[u].at = thr[u].at
        /\ thr'[t].at \in {"read", "header", "mark", "finish", "leave"}
    BY <1>14 DEF Connect, Fetch, Fails, Step, Alive
  <2>2. /\ thr'[t].at \in {"mark", "finish"} => fh.header'
        /\ thr'[t].at = "leave" => fh.readFailed'
        /\ fh.thread' = fh.thread
    <3>1. CASE Connect(t)
      BY <3>1 DEF Connect, Step
    <3>2. CASE Fails(t)
      BY <3>2 DEF Fails, Step
    <3>3. CASE Fetch(t)
      BY <3>3, FetchParts
    <3> QED BY <1>14, <3>1, <3>2, <3>3
  <2> QED BY <1>8, <2>1, <2>2
<1>15. ASSUME NEW t \in Readers, Header(t) \/ Empty(t) PROVE Goal
  <2>1. /\ t \in Alive /\ crossed' = crossed /\ pc' = pc
        /\ \A u \in Readers \ {t} : thr'[u].at = thr[u].at
        /\ thr'[t].at \in {"read", "empty"}
    BY <1>15 DEF Header, Empty, Step, Alive
  <2>2. fh.thread' = fh.thread
    BY <1>15 DEF Header, Empty
  <2> QED BY <1>8, <2>1, <2>2
<1>16. ASSUME NEW t \in Readers, Finish(t) PROVE Goal
  <2>1. /\ t \in Alive /\ thr[t].at = "finish" /\ crossed' = crossed /\ pc' = pc
        /\ \A u \in Readers \ {t} : thr'[u].at = thr[u].at
        /\ thr'[t].at = "leave"
    BY <1>16 DEF Finish, Step, Alive
  <2>2. fh.thread' = fh.thread /\ fh.header' = fh.header
    BY <1>16 DEF Finish
  <2>3. crossed \/ fh.header
    BY <2>1 DEF Announced
  <2> QED BY <1>8, <1>9, <2>1, <2>2, <2>3
<1>10. ASSUME NEW t \in Readers, Mark(t) PROVE Goal
  <2>1. t \in Alive /\ thr[t].at = "mark" /\ crossed' = crossed
    BY <1>10 DEF Mark, Alive
  <2>2. CASE crossed
    BY <2>1, <2>2 DEF Announced, WaiterHasThread
  <2>3. CASE ~crossed
    <3>1. fh.thread # NoThread /\ fh.header
      BY <2>1, <2>3, ThreadsAssumption DEF Announced
    <3>2. /\ \A u \in Readers \ {t} : thr'[u].at = thr[u].at
          /\ thr'[t].at \in {"finish", "read"}
          /\ fh.header' = fh.header /\ fh.thread' = fh.thread
      BY <1>10, <3>1 DEF Mark
    <3>3. \A c \in Clients : pc'[c] \in {pc[c], Ready(pc[c])}
      BY <1>10 DEF Mark, NotifyAll
    <3> QED BY <1>8, <2>1, <3>1, <3>2, <3>3
  <2> QED BY <2>2, <2>3
<1>11. ASSUME NEW t \in Readers, Leave(t) PROVE Goal
  <2>1. t \in Alive /\ thr[t].at = "leave" /\ crossed' = crossed
    BY <1>11 DEF Leave, Alive
  <2>2. CASE crossed
    BY <2>1, <2>2 DEF Announced, WaiterHasThread
  <2>3. CASE ~crossed
    <3>1. Alive = {t} /\ fh.thread = t /\ t # NoThread /\ (fh.header \/ fh.readFailed)
      BY <2>1, <2>3, ThreadsAssumption DEF Announced
    <3>2. thr' = [thr EXCEPT ![t] = Dead]
      BY <1>11 DEF Leave
    <3>3. Alive' = {}
      BY <3>1, <3>2 DEF Alive, Dead
    <3>4. fh' = [fh EXCEPT !.thread = NoThread]
      BY <1>11 DEF Leave
    <3>5. \A c \in Clients : pc'[c] = Ready(pc[c])
      BY <1>11, <3>1 DEF Leave, NotifyAll
    <3>6. \A c \in Clients : pc'[c] \notin Waiting
      BY <3>5, WokenLabel
    <3> QED BY <3>1, <3>3, <3>4, <3>6 DEF Announced, WaiterHasThread
  <2> QED BY <2>2, <2>3
<1>12. CASE Evict
  BY <1>1, <1>12 DEF Evict
<1>13. CASE UNCHANGED vars
  BY <1>1, <1>13 DEF vars
<1> QED
  BY <1>3, <1>4, <1>5, <1>6, <1>7, <1>10, <1>11, <1>12, <1>13, <1>14, <1>15, <1>16
     DEF Next, ClientStep, ThreadStep

-----------------------------------------------------------------------------
(* The places of a client that has opened the file. *)
Past == {"open", "make", "abortWait", "abort", "dataWait", "data", "ownWait", "own", "copy",
         "flush", "drainWait", "drain", "deref"}

(* The metadata open() may believe is never that of an older file. *)
Trusted == trust => saved.md5 # "old" /\ fh.meta.md5 # "old"

(* Where the response to the request of a read thread ends. *)
Limit(t) == IF thr[t].end < N THEN thr[t].end ELSE N

(* One thread in the life of a handle has marked every block from where it     *)
(* started to where it is; when it stops without being aborted, it has marked  *)
(* all it was asked for.                                                       *)
Marked(t) ==
  /\ ~fh.header => thr[t].cur = thr[t].start
  /\ thr[t].start..(thr[t].cur - 1) \subseteq fh.meta.bits
  /\ fh.pos # NoResponse => fh.stop = Limit(t)
  /\ thr[t].at = "finish" =>
       thr[t].aborted \/ thr[t].start..(Limit(t) - 1) \subseteq fh.meta.bits

(* Who is past open() sees the block map of the content of today. *)
Reading ==
  crossed \/ reused \/
    /\ fh.header => fh.meta.md5 = "new"
    /\ \A c \in Clients : pc[c] \in Past => fh.meta.md5 = "new"
    /\ \A t \in Alive : Marked(t)

(* Waking a client neither lets it into the file nor throws it out.            *)
LEMMA WokenPast ==
  ASSUME NEW l PROVE /\ Ready(l) \in Past => l \in Past
                     /\ Ready(l) = "copy" => l = "copy"
                     /\ Ready(l) \in {"own", "ownWait"} => l \in {"own", "ownWait"}
BY DEF Ready, Past

(* A step that takes nothing back keeps the relation of a thread to the map.   *)
LEMMA MarkedFrame ==
  ASSUME NEW t \in Readers, Marked(t),
         fh.header' = fh.header, fh.meta.bits \subseteq fh.meta.bits',
         fh.pos' = fh.pos, fh.stop' = fh.stop,
         thr'[t].start = thr[t].start, thr'[t].cur = thr[t].cur, thr'[t].end = thr[t].end,
         thr[t].aborted => thr'[t].aborted,
         thr'[t].at = "finish" => thr[t].at = "finish"
  PROVE  Marked(t)'
<1>1. Limit(t)' = Limit(t)
  BY DEF Limit
<1>2. ~fh.header' => thr'[t].cur = thr'[t].start
  BY DEF Marked
<1>3. thr'[t].start..(thr'[t].cur - 1) \subseteq fh.meta.bits'
  BY DEF Marked
<1>4. fh.pos' # NoResponse => fh.stop' = Limit(t)'
  BY <1>1 DEF Marked
<1>5. thr'[t].at = "finish" =>
        thr'[t].aborted \/ thr'[t].start..(Limit(t)' - 1) \subseteq fh.meta.bits'
  BY <1>1 DEF Marked
<1> QED BY <1>2, <1>3, <1>4, <1>5 DEF Marked

(* ... and with it who may read.                                               *)
LEMMA ReadingFrame ==
  ASSUME Reading, crossed' = crossed, reused' = reused,
         fh.header' = fh.header, fh.meta' = fh.meta, fh.pos' = fh.pos, fh.stop' = fh.stop,
         Alive' \subseteq Alive,
         \A t \in Alive' :
           /\ thr'[t].start = thr[t].start /\ thr'[t].cur = thr[t].cur
           /\ thr'[t].end = thr[t].end
           /\ thr[t].aborted => thr'[t].aborted
           /\ thr'[t].at = "finish" => thr[t].at = "finish",
         \A c \in Clients : pc'[c] \in Past => pc[c] \in Past
  PROVE  Reading'
<1>1. CASE crossed \/ reused
  BY <1>1 DEF Reading
<1>2. CASE ~(crossed \/ reused)
  <2>1. ASSUME NEW t \in Alive' PROVE Marked(t)'
    <3>1. t \in Readers /\ Marked(t)
      BY <1>2, <2>1 DEF Reading, Alive
    <3> QED BY <2>1, <3>1, MarkedFrame
  <2>2. /\ fh.header' => fh.meta.md5' = "new"
        /\ \A c \in Clients : pc'[c] \in Past => fh.meta.md5' = "new"
    BY <1>2 DEF Reading
  <2> QED BY <2>1, <2>2 DEF Reading
<1> QED BY <1>1, <1>2

(* A new thread that runs alone has marked nothing yet.                        *)
LEMMA ReadingStart ==
  ASSUME TypeOK, NEW f \in Handle, NEW i \in 0..N, NEW j \in 0..N, NEW k \in 0..NoEnd,
         StartThread(f, i, j, k), f.header => f.meta.md5 = "new",
         \A c \in Clients : pc'[c] \in Past => f.meta.md5 = "new"
  PROVE  Reading'
<1>1. PICK t \in Readers \ Alive :
        /\ thr' = [thr EXCEPT ![t] = [at |-> "start", start |-> i, must |-> j, end |-> k,
                                     aborted |-> FALSE, cur |-> i]]
        /\ fh' = [f EXCEPT !.thread = t]
        /\ crossed' = (crossed \/ Alive # {})
        /\ reused' = (reused \/ f.pos # NoResponse)
  BY DEF StartThread
<1>2. CASE crossed' \/ reused'
  BY <1>2 DEF Reading
<1>3. CASE ~(crossed' \/ reused')
  <2>1. Alive = {} /\ f.pos = NoResponse
    BY <1>1, <1>3
  <2>2. Alive' = {t}
    BY <1>1, <2>1 DEF Alive, TypeOK
  <2>3. fh'.header = f.header /\ fh'.meta = f.meta /\ fh'.pos = NoResponse
    BY <1>1, <2>1 DEF Handle
  <2>4. /\ thr'[t].at = "start" /\ thr'[t].cur = i /\ thr'[t].start = i
    BY <1>1 DEF TypeOK
  <2>5. thr'[t].start..(thr'[t].cur - 1) = {}
    BY <2>4
  <2>6. Marked(t)'
    BY <2>3, <2>4, <2>5 DEF Marked
  <2> QED BY <2>2, <2>3, <2>6 DEF Reading
<1> QED BY <1>2, <1>3

(* What makeCached does at its end, for who is past open(). *)
LEMMA ReadingAsk ==
  ASSUME TypeOK, Reading, NEW c \in Clients, pc[c] \in Past, ReturnOrStart(c)
  PROVE  Reading'
<1>1. \A d \in Clients : pc'[d] \in Past => pc[d] \in Past
  BY DEF ReturnOrStart, Goto, TypeOK, Past
<1>2. CASE Cached(c)
  <2>1. UNCHANGED <<fh, thr, crossed, reused>>
    BY <1>2 DEF ReturnOrStart
  <2> QED BY <1>1, <2>1, ReadingFrame DEF Alive
<1>3. CASE ~Cached(c)
  <2>1. PICK i \in 0..N, j \in 0..N, k \in 0..NoEnd : StartThread(fh, i, j, k)
    BY <1>3, AskedBounds DEF ReturnOrStart
  <2>2. CASE crossed \/ reused
    BY <2>1, <2>2 DEF Reading, StartThread
  <2>3. CASE ~(crossed \/ reused)
    <3>1. fh.meta.md5 = "new" /\ fh \in Handle
      BY <2>3 DEF Reading, TypeOK
    <3> QED BY <2>1, <3>1, ReadingStart
  <2> QED BY <2>2, <2>3
<1> QED BY <1>2, <1>3

-----------------------------------------------------------------------------
(* Nobody is inside a handle that has no references. *)
LEMMA NobodyInside == ASSUME Counted, fh.refs = 0 PROVE \A c \in Clients : pc[c] = "out"
<1> SUFFICES ASSUME NEW c \in Clients, pc[c] # "out" PROVE FALSE
  OBVIOUS
<1>1. c \in Inside
  BY DEF Inside
<1> QED BY <1>1, InsideCounts

(* The last client to leave leaves nobody behind, and a fresh handle.          *)
LEMMA LastLeaves ==
  ASSUME TypeOK, Counted, NEW c \in Clients, Deref(c), ~(fh.refs > 1)
  PROVE  /\ \A d \in Clients : pc'[d] = "out"
         /\ fh' = NewHandle /\ Alive' = {} /\ crossed' = crossed /\ reused' = reused
         /\ saved' = IF fh.meta.md5 = "none" THEN saved ELSE fh.meta
<1>1. c \in Inside /\ pc' = [pc EXCEPT ![c] = "out"]
  BY DEF Deref, Inside, Goto
<1>2. Inside = {c}
  BY <1>1, InsideCounts DEF TypeOK, Handle
<1>3. \A d \in Clients : pc'[d] = "out"
  BY <1>1, <1>2 DEF Inside, TypeOK
<1>4. thr' = [t \in Readers |-> Dead]
  BY DEF Deref
<1>5. Alive' = {}
  BY <1>4 DEF Alive, Dead
<1> QED BY <1>3, <1>5 DEF Deref

(* What a handle knows of the file when it is opened.                          *)
LEMMA LoadedKnows ==
  ASSUME TypeOK, Trusted, fh.full = "unset"
  PROVE  /\ Loaded(fh).meta = saved /\ Loaded(fh).refs = fh.refs
         /\ Loaded(fh).header <=> saved.md5 # "none" /\ trust
         /\ Loaded(fh).full \in {"yes", "no"}
         /\ Loaded(fh).full = "yes" => saved.bits = Blocks
         /\ Loaded(fh).thread = fh.thread /\ Loaded(fh).readFailed = fh.readFailed
         /\ Loaded(fh).ioFailed = fh.ioFailed /\ Loaded(fh).pos = fh.pos
         /\ Loaded(fh).stop = fh.stop
         /\ Loaded(fh).header => Loaded(fh).meta.md5 = "new"
<1>1. fh \in Handle /\ saved \in Meta
  BY DEF TypeOK
<1>2. Loaded(fh) = [fh EXCEPT !.meta = saved,
                 !.full = IF saved.md5 # "none" /\ saved.bits = Blocks THEN "yes" ELSE "no",
                 !.header = saved.md5 # "none" /\ trust]
  BY DEF Loaded
<1>3. Loaded(fh).header <=> saved.md5 # "none" /\ trust
  BY <1>1, <1>2 DEF Handle
<1>4. saved.md5 # "none" /\ trust => saved.md5 = "new"
  BY <1>1 DEF Trusted, Meta
<1>5. Loaded(fh).meta = saved
  BY <1>1, <1>2 DEF Handle
<1>6. /\ Loaded(fh).refs = fh.refs
      /\ Loaded(fh).full \in {"yes", "no"}
      /\ Loaded(fh).full = "yes" => saved.bits = Blocks
      /\ Loaded(fh).thread = fh.thread /\ Loaded(fh).readFailed = fh.readFailed
      /\ Loaded(fh).ioFailed = fh.ioFailed /\ Loaded(fh).pos = fh.pos
      /\ Loaded(fh).stop = fh.stop
  BY <1>1, <1>2 DEF Handle
<1> QED BY <1>3, <1>4, <1>5, <1>6

(* open(): what it does to the handle, and who gets through. *)
LEMMA OpenParts ==
  ASSUME TypeOK, Trusted, Counted, NEW c \in Clients, Open(c)
  PROVE  \E g \in Handle :
           /\ g.refs = fh.refs /\ g.thread = fh.thread /\ g.readFailed = fh.readFailed
           /\ g.ioFailed = fh.ioFailed /\ g.pos = fh.pos /\ g.stop = fh.stop
           /\ IF fh.full = "unset"
              THEN /\ g.meta = saved /\ g.full \in {"yes", "no"}
                   /\ g.full = "yes" => saved.bits = Blocks \/ emptied'
                   /\ g.header => saved.md5 = "new"
                   /\ content' = content \/ emptied'
              ELSE g = fh /\ content' = content /\ emptied' = emptied
           /\ emptied => emptied'
           /\ \/ StartThread(g, 0, 0, NoEnd)
              \/ fh' = g /\ thr' = thr /\ crossed' = crossed /\ reused' = reused
           /\ pc[c] = "opening" /\ \A d \in Clients \ {c} : pc'[d] = pc[d]
           /\ pc'[c] \in {"headWait", "out", "open"}
           /\ pc'[c] = "open" => g.header \/ (g.meta.md5 # "none" /\ trust)
           /\ saved' = saved /\ trust' = trust /\ want' = want
<1> DEFINE f == Loaded(fh)
           empty == fh.full = "unset" /\ Emptied(f)
           g == IF empty THEN [f EXCEPT !.full = "yes"] ELSE f
           look == (g.refs = 1 \/ ~g.header) /\ (g.meta.md5 = "none" \/ ~trust)
<1>1. f \in Handle /\ g \in Handle
  BY LoadedTyped DEF Handle
<1>2. /\ content' = IF empty THEN {} ELSE content
      /\ emptied' = (emptied \/ empty)
      /\ saved' = saved /\ trust' = trust /\ want' = want
      /\ pc[c] = "opening"
      /\ IF look THEN StartThread(g, 0, 0, NoEnd)
         ELSE fh' = g /\ UNCHANGED <<thr, crossed, reused>>
      /\ pc' = [pc EXCEPT ![c] = IF look /\ ~g.header /\ ~g.readFailed THEN "headWait"
                                 ELSE IF g.readFailed THEN "out" ELSE "open"]
  BY Zenon DEF Open, Goto
<1>3. /\ g.refs = f.refs /\ g.thread = f.thread /\ g.readFailed = f.readFailed
      /\ g.ioFailed = f.ioFailed /\ g.pos = f.pos /\ g.stop = f.stop
      /\ g.meta = f.meta /\ g.header = f.header
      /\ g.full = IF empty THEN "yes" ELSE f.full
  BY <1>1 DEF Handle
<1>4. fh.full # "unset" => f = fh /\ ~empty
  BY DEF Loaded
<1>5. fh.full # "unset" => g = fh
  BY <1>4
<1> HIDE DEF f, g
<1>6. /\ g.refs = fh.refs /\ g.thread = fh.thread /\ g.readFailed = fh.readFailed
      /\ g.ioFailed = fh.ioFailed /\ g.pos = fh.pos /\ g.stop = fh.stop
  <2>1. CASE fh.full = "unset"
    BY <1>3, <2>1, LoadedKnows DEF f
  <2>2. CASE fh.full # "unset"
    BY <1>5, <2>2
  <2> QED BY <2>1, <2>2
<1>7. IF fh.full = "unset"
      THEN /\ g.meta = saved /\ g.full \in {"yes", "no"}
           /\ g.full = "yes" => saved.bits = Blocks \/ emptied'
           /\ g.header => saved.md5 = "new"
           /\ content' = content \/ emptied'
      ELSE g = fh /\ content' = content /\ emptied' = emptied
  <2>1. CASE fh.full = "unset"
    <3>1. /\ g.meta = saved /\ g.full \in {"yes", "no"}
          /\ g.full = "yes" => saved.bits = Blocks \/ empty
          /\ g.header => saved.md5 = "new"
      BY <1>3, <2>1, LoadedKnows DEF f
    <3> QED BY <1>2, <2>1, <3>1
  <2>2. CASE fh.full # "unset"
    <3>1. ~empty /\ emptied \in BOOLEAN
      BY <1>4, <2>2 DEF TypeOK
    <3>2. emptied' = emptied
      BY <1>2, <3>1
    <3> QED BY <1>2, <1>5, <2>2, <3>1, <3>2
  <2> QED BY <2>1, <2>2
<1>8. /\ pc'[c] \in {"headWait", "out", "open"}
      /\ pc'[c] = "open" => ~look \/ g.header
      /\ \A d \in Clients \ {c} : pc'[d] = pc[d]
  BY <1>2 DEF TypeOK
<1>9. pc'[c] = "open" => g.header \/ (g.meta.md5 # "none" /\ trust)
  BY <1>8
<1>10. \/ StartThread(g, 0, 0, NoEnd)
       \/ fh' = g /\ thr' = thr /\ crossed' = crossed /\ reused' = reused
  BY <1>2
<1>11. emptied => emptied'
  BY <1>2
<1> HIDE DEF look, empty
<1> g \in Handle
  BY <1>1
<1>12. pc[c] = "opening" /\ saved' = saved /\ trust' = trust /\ want' = want
  BY <1>2
<1> WITNESS g \in Handle
<1> QED BY <1>6, <1>7, <1>8, <1>9, <1>10, <1>11, <1>12

-----------------------------------------------------------------------------
(* What is trusted and what is marked stays so, whoever steps. *)
LEMMA ReadingStep ==
  ASSUME TypeOK, Marks, Counted, Written, Announced, Trusted, Reading, [Next]_vars
  PROVE  Trusted' /\ Reading'
<1> USE DEF Goto
<1> DEFINE Goal == Trusted' /\ Reading'
           SameHandle == /\ fh.header' = fh.header /\ fh.meta' = fh.meta
                         /\ fh.pos' = fh.pos /\ fh.stop' = fh.stop
           SameThreads == \A t \in Readers :
             /\ thr'[t].start = thr[t].start /\ thr'[t].cur = thr[t].cur
             /\ thr'[t].end = thr[t].end /\ thr'[t].at = thr[t].at
             /\ thr[t].aborted => thr'[t].aborted
           NobodyNew == \A c \in Clients : pc'[c] \in Past => pc[c] \in Past
<1>t. /\ fh \in Handle /\ saved \in Meta /\ content \subseteq Blocks
      /\ thr \in [Readers -> Thread]
      /\ pc \in [Clients -> Places] /\ want \in [Clients -> Want]
  BY DEF TypeOK
<1>1. ASSUME SameHandle, SameThreads, NobodyNew, crossed' = crossed, reused' = reused,
             saved' = saved, trust' = trust
      PROVE  Goal
  <2>1. Alive' \subseteq Alive
    BY <1>1 DEF Alive
  <2>2. \A t \in Alive' :
           /\ thr'[t].start = thr[t].start /\ thr'[t].cur = thr[t].cur
           /\ thr'[t].end = thr[t].end
           /\ thr[t].aborted => thr'[t].aborted
           /\ thr'[t].at = "finish" => thr[t].at = "finish"
    BY <1>1 DEF Alive
  <2>3. Reading'
    BY <1>1, <2>1, <2>2, ReadingFrame
  <2> QED BY <1>1, <2>3 DEF Trusted
<1>2. ASSUME fh.thread # NoThread, thr' = [thr EXCEPT ![fh.thread].aborted = TRUE]
      PROVE  SameThreads
  <2>1. fh.thread \in Readers
    BY <1>t, <1>2 DEF Handle
  <2> QED BY <1>t, <1>2, <2>1 DEF Thread
<1>3. ASSUME NEW c \in Clients,
             ReadCall(c) \/ CloseCall(c) \/ Drain(c) \/ Copy(c) \/ MakeOwn(c) \/ Timeout(c)
      PROVE  Goal
  <2>1. SameHandle /\ crossed' = crossed /\ reused' = reused /\ saved' = saved /\ trust' = trust
        /\ thr' = thr
    BY <1>3 DEF ReadCall, CloseCall, Drain, Copy, MakeOwn, Timeout
  <2>2. NobodyNew
    BY <1>3, <1>t DEF ReadCall, CloseCall, Drain, Copy, MakeOwn, Timeout, Past
  <2> QED BY <1>1, <2>1, <2>2
<1>4. ASSUME NEW c \in Clients, OpenCall(c) PROVE Goal
  <2>1. crossed' = crossed /\ reused' = reused /\ saved' = saved /\ trust' = trust /\ thr' = thr
        /\ fh' = [fh EXCEPT !.refs = @ + 1]
    BY <1>4 DEF OpenCall
  <2>2. NobodyNew
    BY <1>4, <1>t DEF OpenCall, Past
  <2>3. SameHandle
    BY <1>t, <2>1 DEF Handle
  <2> QED BY <1>1, <2>1, <2>2, <2>3
<1>5. ASSUME NEW c \in Clients, OpenHeader(c) PROVE Goal
  <2>1. UNCHANGED <<fh, saved, content, thr, trust, want, calls, emptied, crossed, reused>>
    BY <1>5 DEF OpenHeader
  <2>2. /\ \A d \in Clients \ {c} : pc'[d] = pc[d]
        /\ pc'[c] \in Past => fh.header
    BY <1>5, <1>t DEF OpenHeader, Past
  <2>3. Reading'
    <3>1. \A t \in Readers : Marked(t)' <=> Marked(t)
      BY <2>1 DEF Marked, Limit
    <3> QED BY <2>1, <2>2, <3>1 DEF Reading, Alive
  <2> QED BY <2>1, <2>3 DEF Trusted
<1>6. ASSUME NEW c \in Clients, Open(c) PROVE Goal
  <2>1. PICK g \in Handle :
           /\ g.pos = fh.pos /\ g.stop = fh.stop
           /\ IF fh.full = "unset"
              THEN g.meta = saved /\ (g.header => saved.md5 = "new")
              ELSE g = fh
           /\ \/ StartThread(g, 0, 0, NoEnd)
              \/ fh' = g /\ thr' = thr /\ crossed' = crossed /\ reused' = reused
           /\ pc[c] = "opening" /\ \A d \in Clients \ {c} : pc'[d] = pc[d]
           /\ pc'[c] \in {"headWait", "out", "open"}
           /\ pc'[c] = "open" => g.header \/ (g.meta.md5 # "none" /\ trust)
           /\ saved' = saved /\ trust' = trust
    BY <1>6, OpenParts
  <2>2. fh'.meta = g.meta
    BY <1>t, <2>1 DEF StartThread, Handle
  <2>3. Trusted'
    BY <2>1, <2>2 DEF Trusted
  <2>4. trust /\ g.meta.md5 # "none" => g.meta.md5 = "new"
    BY <2>1, <2>2, <2>3 DEF Trusted, Handle, Meta
  <2>5. CASE crossed \/ reused
    <3>1. CASE StartThread(g, 0, 0, NoEnd)
      BY <2>3, <2>5, <3>1 DEF Reading, StartThread
    <3>2. CASE crossed' = crossed /\ reused' = reused
      BY <2>3, <2>5, <3>2 DEF Reading
    <3> QED BY <2>1, <2>3, <3>1, <3>2
  <2>6. CASE ~(crossed \/ reused)
    <3>1. g.header => g.meta.md5 = "new"
      BY <2>1, <2>6 DEF Reading
    <3>2. \A d \in Clients : pc'[d] \in Past => g.meta.md5 = "new"
      <4> SUFFICES ASSUME NEW d \in Clients, pc'[d] \in Past PROVE g.meta.md5 = "new"
        OBVIOUS
      <4>1. CASE d = c
        BY <2>1, <2>4, <3>1, <4>1 DEF Past
      <4>2. CASE d # c
        <5>1. pc[d] \in Past
          BY <2>1, <4>2
        <5>2. fh.full # "unset"
          BY <5>1 DEF Counted, Inside, Past
        <5> QED BY <2>1, <2>6, <5>1, <5>2 DEF Reading
      <4> QED BY <4>1, <4>2
    <3>3. CASE StartThread(g, 0, 0, NoEnd)
      <4>1. 0 \in 0..N /\ NoEnd \in 0..NoEnd
        BY SizeAssumption DEF NoEnd
      <4>2. Reading'
        BY <3>1, <3>2, <3>3, <4>1, ReadingStart
      <4> QED BY <2>3, <4>2
    <3>4. CASE fh' = g /\ thr' = thr /\ crossed' = crossed /\ reused' = reused
      <4>1. \A t \in Alive' : Marked(t)'
        <5>1. CASE fh.full = "unset"
          BY <3>4, <5>1 DEF Counted, Alive
        <5>2. CASE fh.full # "unset"
          <6>1. fh' = fh
            BY <2>1, <3>4, <5>2
          <6>2. \A t \in Alive : Marked(t)
            BY <2>6 DEF Reading
          <6> QED BY <3>4, <6>1, <6>2 DEF Marked, Limit, Alive
        <5> QED BY <5>1, <5>2
      <4> QED BY <2>3, <3>1, <3>2, <3>4, <4>1 DEF Reading
    <3> QED BY <2>1, <3>3, <3>4
  <2> QED BY <2>3, <2>5, <2>6
<1>7. ASSUME NEW c \in Clients, pc[c] \in Past, ReturnOrStart(c), saved' = saved, trust' = trust
      PROVE  Goal
  <2>1. Reading'
    BY <1>7, ReadingAsk
  <2>2. fh.meta' = fh.meta
    BY <1>7, <1>t DEF ReturnOrStart, StartThread, Handle
  <2> QED BY <1>7, <2>1, <2>2 DEF Trusted
<1>8. ASSUME NEW c \in Clients, Make(c) \/ MakeAborted(c) \/ MakeData(c) PROVE Goal
  <2>1. saved' = saved /\ trust' = trust /\ pc[c] \in Past
    BY <1>8 DEF Make, MakeAborted, MakeData, Past
  <2>2. CASE ReturnOrStart(c)
    BY <1>7, <2>1, <2>2
  <2>3. CASE ~ReturnOrStart(c)
    <3>1. fh' = fh /\ crossed' = crossed /\ reused' = reused
      BY <1>8, <2>3 DEF Make, MakeAborted, MakeData
    <3>2. NobodyNew
      <4>1. \A d \in Clients \ {c} : pc'[d] = pc[d]
        BY <1>8, <1>t, <2>3 DEF Make, MakeAborted, MakeData
      <4> QED BY <2>1, <4>1
    <3>3. SameThreads
      <4>1. CASE Make(c)
        <5> DEFINE best == NewReadBest(thr[fh.thread], want[c].from, want[c].to)
        <5>1. /\ fh.thread # NoThread
              /\ thr' = [thr EXCEPT ![fh.thread].must = best[2],
                                    ![fh.thread].aborted = @ \/ best[1]]
          BY <2>3, <4>1 DEF Make
        <5> HIDE DEF best
        <5>2. fh.thread \in Readers
          BY <1>t, <5>1 DEF Handle
        <5> QED BY <1>t, <5>1, <5>2 DEF Thread
      <4>2. CASE MakeAborted(c)
        <5>1. fh.thread # NoThread /\ thr' = [thr EXCEPT ![fh.thread].aborted = TRUE]
          BY <2>3, <4>2 DEF MakeAborted
        <5> QED BY <1>2, <5>1
      <4>3. CASE MakeData(c)
        BY <2>3, <4>3 DEF MakeData
      <4> QED BY <1>8, <4>1, <4>2, <4>3
    <3> QED BY <1>1, <2>1, <3>1, <3>2, <3>3
  <2> QED BY <2>2, <2>3
<1>9. ASSUME NEW c \in Clients, Flush(c) PROVE Goal
  <2>1. fh' = fh /\ crossed' = crossed /\ reused' = reused /\ saved' = saved /\ trust' = trust
    BY <1>9 DEF Flush
  <2>2. NobodyNew
    BY <1>9, <1>t DEF Flush, Past
  <2>3. SameThreads
    BY <1>2, <1>9 DEF Flush
  <2> QED BY <1>1, <2>1, <2>2, <2>3
<1>10. ASSUME NEW c \in Clients, Deref(c) PROVE Goal
  <2>1. CASE fh.refs > 1
    <3>1. /\ fh' = [fh EXCEPT !.refs = @ - 1] /\ UNCHANGED <<saved, thr, emptied>>
          /\ trust' = trust /\ crossed' = crossed /\ reused' = reused
      BY <1>10, <2>1 DEF Deref
    <3>2. NobodyNew
      BY <1>10, <1>t DEF Deref, Past
    <3>3. SameHandle
      BY <1>t, <3>1 DEF Handle
    <3> QED BY <1>1, <3>1, <3>2, <3>3
  <2>2. CASE ~(fh.refs > 1)
    <3>1. /\ \A d \in Clients : pc'[d] = "out"
          /\ fh' = NewHandle /\ Alive' = {}
          /\ saved' = IF fh.meta.md5 = "none" THEN saved ELSE fh.meta
      BY <1>10, <2>2, LastLeaves
    <3>2. trust' = trust
      BY <1>10 DEF Deref
    <3> QED BY <3>1, <3>2 DEF Trusted, Reading, NewHandle, NoMeta, Past
  <2> QED BY <2>1, <2>2
<1>11. ASSUME NEW t \in Readers, Connect(t) \/ Finish(t) \/ Fails(t) PROVE Goal
  <2>1. UNCHANGED <<saved, content, trust, pc, want, calls, emptied, crossed, reused>>
    BY <1>11 DEF Connect, Finish, Fails
  <2>2. PICK l \in {"read", "leave"} : thr' = [thr EXCEPT ![t].at = l] /\ thr[t].at # "dead"
    BY <1>11 DEF Connect, Finish, Fails, Step
  <2>3. SameHandle
    BY <1>11, <1>t DEF Connect, Finish, Fails, Handle
  <2>4. Alive' \subseteq Alive
    BY <1>t, <2>2 DEF Alive, Thread
  <2>5. \A u \in Alive' :
           /\ thr'[u].start = thr[u].start /\ thr'[u].cur = thr[u].cur
           /\ thr'[u].end = thr[u].end
           /\ thr[u].aborted => thr'[u].aborted
           /\ thr'[u].at = "finish" => thr[u].at = "finish"
    BY <1>t, <2>2 DEF Alive, Thread
  <2>6. Reading'
    BY <2>1, <2>3, <2>4, <2>5, ReadingFrame
  <2> QED BY <2>1, <2>3, <2>6 DEF Trusted
<1>12. ASSUME NEW t \in Readers, Fetch(t) PROVE Goal
  <2> DEFINE pos == IF fh.pos # NoResponse THEN fh.pos ELSE thr[t].cur
             stop == IF fh.pos # NoResponse THEN fh.stop ELSE Min({thr[t].end, N})
             buff == fh.header /\ pos < stop
             place == IF buff THEN "mark" ELSE IF fh.header THEN "finish" ELSE "header"
  <2>1. UNCHANGED <<saved, trust, pc, want, calls, emptied, crossed, reused>>
        /\ thr[t].at = "read"
    BY <1>12 DEF Fetch, Step
  <2>2. /\ thr' = [thr EXCEPT ![t].at = place]
        /\ fh' = [fh EXCEPT !.pos = IF buff THEN pos + 1 ELSE pos, !.stop = stop]
    BY <1>12 DEF Fetch, Step
  <2>3. Min({thr[t].end, N}) = Limit(t) /\ thr[t].end \in Nat
    <3>1. thr[t].end \in Nat /\ N \in Nat
      BY <1>t, SizeAssumption DEF Thread, NoEnd
    <3> QED BY <3>1, MinOfTwo DEF Limit
  <2>4. place = "finish" => fh.header /\ ~(pos < stop)
    OBVIOUS
  <2>5. fh.meta' = fh.meta /\ fh.header' = fh.header /\ fh.stop' = stop
    BY <1>t, <2>2 DEF Handle
  <2>6. /\ \A u \in Readers \ {t} : thr'[u] = thr[u]
        /\ thr'[t].cur = thr[t].cur /\ thr'[t].start = thr[t].start
        /\ thr'[t].end = thr[t].end /\ thr'[t].aborted = thr[t].aborted
        /\ thr'[t].at = place
    BY <1>t, <2>2 DEF Thread
  <2>7. Trusted'
    BY <2>1, <2>5 DEF Trusted
  <2>8. CASE crossed \/ reused
    BY <2>1, <2>7, <2>8 DEF Reading
  <2>9. CASE ~(crossed \/ reused)
    <3>1. t \in Alive /\ Alive = {t} /\ Marked(t)
      BY <2>1, <2>9 DEF Alive, Written, Reading
    <3>2. Alive' \subseteq {t}
      BY <2>6, <3>1 DEF Alive
    <3>3. stop = Limit(t)
      BY <2>3, <3>1 DEF Marked
    <3>4. pos = thr[t].cur
      BY <2>1, <2>9, <3>1 DEF Written
    <3>5. place = "finish" => thr[t].start..(Limit(t) - 1) \subseteq fh.meta.bits
      <4>1. thr[t].start..(thr[t].cur - 1) \subseteq fh.meta.bits
        BY <3>1 DEF Marked
      <4>2. thr[t].cur \in Nat /\ Limit(t) \in Nat /\ thr[t].start \in Nat
        BY <1>t, <2>3, SizeAssumption DEF Thread, Limit
      <4> HIDE DEF pos, stop, place
      <4> QED BY <2>4, <3>3, <3>4, <4>1, <4>2
    <3> HIDE DEF pos, stop, buff, place
    <3>6. Limit(t)' = Limit(t)
      BY <2>6 DEF Limit
    <3>7. Marked(t)'
      BY <2>5, <2>6, <3>1, <3>3, <3>5, <3>6 DEF Marked
    <3>8. Reading'
      BY <2>1, <2>5, <2>9, <3>2, <3>7 DEF Reading
    <3> QED BY <2>7, <3>8
  <2> QED BY <2>8, <2>9
<1>13. ASSUME NEW t \in Readers, Header(t) PROVE Goal
  <2>1. UNCHANGED <<saved, content, trust, pc, want, calls, emptied, crossed, reused>>
    BY <1>13 DEF Header
  <2>2. thr[t].at = "header" /\ t \in Alive
    BY <1>13 DEF Header, Alive
  <2>3. \A u \in Readers :
          /\ thr'[u].start = thr[u].start /\ thr'[u].cur = thr[u].cur
          /\ thr'[u].end = thr[u].end
          /\ thr[u].aborted => thr'[u].aborted
          /\ thr'[u].at = "finish" => thr[u].at = "finish"
          /\ thr'[u].at # "dead" => thr[u].at # "dead"
    <3> DEFINE read == [thr EXCEPT ![t].at = "empty"]
    <3>1. \/ thr' = [thr EXCEPT ![t].at = "read"]
          \/ thr' = read
          \/ fh.thread # NoThread /\ thr' = [read EXCEPT ![fh.thread].aborted = TRUE]
      BY <1>13 DEF Header
    <3>2. \A u \in Readers :
            /\ read[u].start = thr[u].start /\ read[u].cur = thr[u].cur
            /\ read[u].end = thr[u].end
            /\ thr[u].aborted => read[u].aborted
            /\ read[u].at = "finish" => thr[u].at = "finish"
            /\ read[u].at # "dead" => thr[u].at # "dead"
      BY <1>t, <2>2 DEF Thread
    <3>3. read \in [Readers -> Thread]
      BY <1>t DEF Thread
    <3> HIDE DEF read
    <3>4. CASE thr' = [thr EXCEPT ![t].at = "read"]
      BY <1>t, <2>2, <3>4 DEF Thread
    <3>5. CASE thr' = read
      BY <3>2, <3>5
    <3>6. CASE fh.thread # NoThread /\ thr' = [read EXCEPT ![fh.thread].aborted = TRUE]
      <4>1. fh.thread \in Readers
        BY <1>t, <3>6 DEF Handle
      <4> QED BY <3>2, <3>3, <3>6, <4>1 DEF Thread
    <3> QED BY <3>1, <3>4, <3>5, <3>6
  <2>4. Alive' \subseteq Alive
    BY <2>3 DEF Alive
  <2>5. CASE fh.header
    <3>1. SameHandle
      BY <1>13, <2>5 DEF Header
    <3>2. Reading'
      BY <2>1, <2>3, <2>4, <3>1, ReadingFrame DEF Alive
    <3> QED BY <2>1, <3>1, <3>2 DEF Trusted
  <2>6. CASE ~fh.header
    <3> DEFINE same == fh.meta.md5 = "new"
               meta == IF same THEN fh.meta
                       ELSE IF saved.md5 = "new" THEN saved ELSE [md5 |-> "new", bits |-> {}]
    <3>1. fh' = [fh EXCEPT !.meta = meta, !.full = IF same THEN @ ELSE "no"]
      BY <1>13, <2>6 DEF Header
    <3>2. meta.md5 = "new"
      OBVIOUS
    <3> HIDE DEF same, meta
    <3>3. /\ fh.meta' = meta /\ fh.header' = fh.header /\ fh.pos' = fh.pos
          /\ fh.stop' = fh.stop
      BY <1>t, <3>1 DEF Handle
    <3>4. Trusted'
      BY <2>1, <3>2, <3>3 DEF Trusted
    <3>5. CASE crossed \/ reused
      BY <2>1, <3>4, <3>5 DEF Reading
    <3>6. CASE ~(crossed \/ reused)
      <4>1. t \in Alive /\ Alive = {t} /\ Marked(t)
        BY <2>2, <3>6 DEF Written, Reading
      <4>2. Marked(t)'
        <5>1. thr'[t].cur = thr'[t].start /\ thr'[t].at # "finish"
          BY <2>2, <2>3, <2>6, <4>1 DEF Marked
        <5>2. thr'[t].start..(thr'[t].cur - 1) = {}
          <6>1. thr'[t].start \in Nat
            BY <1>t, <2>3 DEF Thread
          <6> QED BY <5>1, <6>1
        <5>3. Limit(t)' = Limit(t)
          BY <2>3 DEF Limit
        <5>4. fh.pos' # NoResponse => fh.stop' = Limit(t)'
          BY <3>3, <4>1, <5>3 DEF Marked
        <5> QED BY <5>1, <5>2, <5>4 DEF Marked
      <4>3. Reading'
        BY <2>4, <3>2, <3>3, <4>1, <4>2 DEF Reading
      <4> QED BY <3>4, <4>3
    <3> QED BY <3>5, <3>6
  <2> QED BY <2>5, <2>6
<1>14. ASSUME NEW t \in Readers, Empty(t) PROVE Goal
  <2>1. /\ UNCHANGED <<saved, trust, pc, want, calls, crossed, reused>>
        /\ thr' = [thr EXCEPT ![t].at = "read"] /\ thr[t].at = "empty" /\ t \in Alive
        /\ fh' = [fh EXCEPT !.header = TRUE, !.full = IF Emptied(fh) THEN "yes" ELSE @]
    BY <1>14 DEF Empty, Step, Alive
  <2>2. fh.meta' = fh.meta /\ fh.header' /\ fh.pos' = fh.pos /\ fh.stop' = fh.stop
    BY <1>t, <2>1 DEF Handle
  <2>3. Trusted'
    BY <2>1, <2>2 DEF Trusted
  <2>4. CASE crossed \/ reused
    BY <2>1, <2>3, <2>4 DEF Reading
  <2>5. CASE ~(crossed \/ reused)
    <3>1. Alive = {t} /\ Marked(t) /\ fh.meta.md5 = "new"
      BY <2>1, <2>5 DEF Written, Reading
    <3>2. /\ thr'[t].start = thr[t].start /\ thr'[t].cur = thr[t].cur
          /\ thr'[t].end = thr[t].end /\ thr'[t].at = "read" /\ Alive' \subseteq {t}
      BY <1>t, <2>1, <3>1 DEF Thread, Alive
    <3>3. Limit(t)' = Limit(t)
      BY <3>2 DEF Limit
    <3>4. Marked(t)'
      BY <2>2, <3>1, <3>2, <3>3 DEF Marked
    <3>5. Reading'
      BY <2>1, <2>2, <3>1, <3>2, <3>4 DEF Reading
    <3> QED BY <2>3, <3>5
  <2> QED BY <2>4, <2>5
<1>15. ASSUME NEW t \in Readers, Mark(t) PROVE Goal
  <2> DEFINE next == thr[t].cur + 1
             gone == fh.thread = NoThread
             stop == gone \/ (thr[fh.thread].aborted /\ thr[fh.thread].must <= next)
  <2>1. /\ thr[t].at = "mark" /\ t \in Alive
        /\ UNCHANGED <<saved, content, trust, want, calls, emptied, crossed, reused>>
        /\ NotifyAll
        /\ fh' = [fh EXCEPT !.meta.bits = @ \cup {thr[t].cur},
                            !.ioFailed = @ \/ gone, !.readFailed = @ \/ gone]
        /\ thr' = [thr EXCEPT ![t].cur = IF stop THEN @ ELSE next,
                              ![t].at = IF gone THEN "leave" ELSE IF stop THEN "finish" ELSE "read"]
    BY <1>15 DEF Mark, Alive
  <2> HIDE DEF next, stop
  <2>2. /\ fh.header' = fh.header /\ fh.pos' = fh.pos /\ fh.stop' = fh.stop
        /\ fh.meta.md5' = fh.meta.md5 /\ fh.meta.bits' = fh.meta.bits \cup {thr[t].cur}
    BY <1>t, <2>1 DEF Handle, Meta
  <2>3. Trusted'
    BY <2>1, <2>2 DEF Trusted
  <2>4. \A c \in Clients : pc'[c] \in Past => pc[c] \in Past
    BY <2>1, WokenPast DEF NotifyAll
  <2>5. CASE crossed \/ reused
    BY <2>1, <2>3, <2>5 DEF Reading
  <2>6. CASE ~(crossed \/ reused)
    <3>1. Alive = {t} /\ Marked(t) /\ fh.header /\ fh.thread = t /\ ~gone
      BY <2>1, <2>6, ThreadsAssumption DEF Written, Reading, Announced
    <3>2. /\ thr'[t].start = thr[t].start /\ thr'[t].end = thr[t].end
          /\ thr'[t].aborted = thr[t].aborted
          /\ thr'[t].cur = IF stop THEN thr[t].cur ELSE next
          /\ thr'[t].at = IF stop THEN "finish" ELSE "read"
          /\ Alive' \subseteq {t}
      BY <1>t, <2>1, <3>1 DEF Thread, Alive
    <3>3. Limit(t)' = Limit(t)
      BY <3>2 DEF Limit
    <3>4. stop => thr[t].aborted
      BY <3>1 DEF stop
    <3>5. thr'[t].start..(thr'[t].cur - 1) \subseteq fh.meta.bits'
      <4>1. thr[t].start..(thr[t].cur - 1) \subseteq fh.meta.bits
        BY <3>1 DEF Marked
      <4>2. thr[t].start \in Nat /\ thr[t].cur \in Nat
        BY <1>t DEF Thread
      <4>3. CASE stop
        BY <2>2, <3>2, <4>1, <4>3
      <4>4. CASE ~stop
        <5>1. thr'[t].cur = thr[t].cur + 1
          BY <3>2, <4>4 DEF next
        <5>2. thr'[t].start..(thr'[t].cur - 1)
                \subseteq (thr[t].start..(thr[t].cur - 1)) \cup {thr[t].cur}
          BY <3>2, <4>2, <5>1
        <5> QED BY <2>2, <4>1, <5>2
      <4> QED BY <4>3, <4>4
    <3>6. fh.pos' # NoResponse => fh.stop' = Limit(t)'
      BY <2>2, <3>1, <3>3 DEF Marked
    <3>7. Marked(t)'
      BY <2>2, <3>1, <3>2, <3>4, <3>5, <3>6 DEF Marked
    <3>8. Reading'
      BY <2>1, <2>2, <2>4, <2>6, <3>2, <3>7 DEF Reading
    <3> QED BY <2>3, <3>8
  <2> QED BY <2>5, <2>6
<1>16. ASSUME NEW t \in Readers, Leave(t) PROVE Goal
  <2>1. /\ UNCHANGED <<saved, content, trust, want, calls, emptied, crossed, reused>>
        /\ thr' = [thr EXCEPT ![t] = Dead] /\ fh' = [fh EXCEPT !.thread = NoThread]
        /\ pc' = pc \/ NotifyAll
    BY <1>16 DEF Leave
  <2>2. SameHandle
    BY <1>t, <2>1 DEF Handle
  <2>3. NobodyNew
    BY <2>1, WokenPast DEF NotifyAll
  <2>4. /\ Alive' \subseteq Alive
        /\ \A u \in Alive' : thr'[u] = thr[u]
    BY <1>t, <2>1 DEF Alive, Dead
  <2>5. Reading'
    BY <2>1, <2>2, <2>3, <2>4, ReadingFrame
  <2> QED BY <2>1, <2>2, <2>5 DEF Trusted
<1>17. CASE Evict
  <2>1. UNCHANGED <<fh, thr, trust, pc, want, calls, emptied, crossed, reused>> /\ saved' = NoMeta
    BY <1>17 DEF Evict
  <2>2. Reading'
    BY <2>1, ReadingFrame DEF Alive
  <2> QED BY <2>1, <2>2 DEF Trusted, NoMeta
<1>18. CASE UNCHANGED vars
  BY <1>1, <1>18 DEF vars
<1> QED
  BY <1>3, <1>4, <1>5, <1>6, <1>8, <1>9, <1>10, <1>11, <1>12, <1>13, <1>14,
     <1>15, <1>16, <1>17, <1>18 DEF Next, ClientStep, ThreadStep

-----------------------------------------------------------------------------
(* A read thread that is going to mark all that a client is still waiting for. *)
Covers(c, t) ==
  /\ thr[t].at \notin {"finish", "leave"}
  /\ \A b \in Missing(c) : thr[t].cur <= b /\ b < thr[t].must /\ b < Limit(t)

(* What makeCached() does not tell read(): the file was taken for complete     *)
(* when it was emptied, two threads shared a response, or a thread failed.     *)
Excuse == emptied \/ crossed \/ reused \/ fh.ioFailed

(* Who copies finds the bytes, and who waits for a thread of its own waits for *)
(* one that brings them, even when it is aborted in the meantime.              *)
CopyOk(c) == pc[c] = "copy" => Wanted(c) \subseteq content
OwnOk(c)  == pc[c] \in {"own", "ownWait"} =>
               Missing(c) = {} \/ \E t \in Alive : Covers(c, t)
FullOk    == fh.full = "yes" => fh.meta.bits = Blocks

Served == Excuse \/ (FullOk /\ \A c \in Clients : CopyOk(c) /\ OwnOk(c))

(* A thread goes on covering what it covered, unless it has marked it all.     *)
LEMMA CoversFrame ==
  ASSUME TypeOK, NEW c \in Clients, NEW t \in Readers, Covers(c, t),
         Wanted(c)' = Wanted(c), fh.meta.bits \subseteq fh.meta.bits',
         thr'[t].at \notin {"finish", "leave"},
         thr'[t].cur = thr[t].cur, thr'[t].end = thr[t].end,
         thr'[t].must >= thr[t].must \/ thr'[t].must = thr[t].end, thr'[t].must \in Nat
  PROVE  Covers(c, t)'
<1>1. Limit(t)' = Limit(t)
  BY DEF Limit
<1>2. Missing(c)' \subseteq Missing(c) /\ Missing(c) \subseteq Nat
  <2>1. Missing(c)' \subseteq Missing(c)
    BY DEF Missing
  <2>2. want[c].first \in Nat /\ want[c].last \in Nat
    BY SizeAssumption DEF TypeOK, Want, Blocks
  <2> QED BY <2>1, <2>2 DEF Missing, Wanted
<1>3. thr[t].must \in Nat /\ thr[t].end \in Nat /\ N \in Nat
  BY SizeAssumption DEF TypeOK, Thread, NoEnd
<1>4. ASSUME NEW b \in Missing(c) PROVE b < thr'[t].must
  <2>1. b < thr[t].must /\ b < Limit(t) /\ b \in Nat
    BY <1>2, <1>4 DEF Covers
  <2>2. b < thr[t].end
    BY <1>3, <2>1 DEF Limit
  <2> QED BY <1>3, <2>1, <2>2
<1>5. \A b \in Missing(c)' : thr'[t].cur <= b /\ b < thr'[t].must /\ b < Limit(t)'
  BY <1>1, <1>2, <1>4 DEF Covers
<1> QED BY <1>5 DEF Covers

(* A client whose place a step leaves alone is served as before.               *)
LEMMA ClientFrame ==
  ASSUME NEW c \in Clients, CopyOk(c), OwnOk(c),
         Wanted(c)' = Wanted(c), fh.meta.bits \subseteq fh.meta.bits',
         content \subseteq content',
         pc'[c] = "copy" => pc[c] = "copy",
         pc'[c] \in {"own", "ownWait"} => pc[c] \in {"own", "ownWait"},
         \A t \in Alive : Covers(c, t) => Missing(c)' = {} \/ (t \in Alive' /\ Covers(c, t)')
  PROVE  CopyOk(c)' /\ OwnOk(c)'
<1>1. CopyOk(c)'
  BY DEF CopyOk
<1>2. Missing(c) = {} => Missing(c)' = {}
  BY DEF Missing
<1>3. ASSUME pc'[c] \in {"own", "ownWait"}, Missing(c)' # {} PROVE \E t \in Alive' : Covers(c, t)'
  <2>1. PICK t \in Alive : Covers(c, t)
    BY <1>2, <1>3 DEF OwnOk
  <2>2. t \in Alive' /\ Covers(c, t)'
    BY <1>3, <2>1
  <2> QED BY <2>2
<1>4. OwnOk(c)'
  BY <1>3 DEF OwnOk
<1> QED BY <1>1, <1>4

(* A new thread, started when no other runs, takes nothing from anybody.       *)
LEMMA StartFrame ==
  ASSUME TypeOK, NEW f, NEW i, NEW j, NEW k, StartThread(f, i, j, k), ~crossed',
         NEW c \in Clients, CopyOk(c), OwnOk(c),
         pc'[c] = pc[c], want' = want, fh.meta.bits = fh.meta.bits', content' = content
  PROVE  CopyOk(c)' /\ OwnOk(c)'
<1>1. crossed' = (crossed \/ Alive # {})
  BY DEF StartThread
<1>2. Alive = {}
  BY <1>1
<1>3. Wanted(c)' = Wanted(c)
  BY DEF Wanted
<1> QED BY <1>2, <1>3, ClientFrame

(* What is marked is there for who is past open().                             *)
LEMMA MarkedThere ==
  ASSUME MarkedWritten, Reading, ~crossed, ~reused, NEW c \in Clients, pc[c] \in Past
  PROVE  fh.meta.bits \subseteq content /\ fh.meta.md5 = "new"
BY DEF MarkedWritten, Reading

(* The client that makes the step ends makeCached with the bytes it asked for, *)
(* or with a thread that brings them.                                          *)
LEMMA AskServed ==
  ASSUME TypeOK, MarkedWritten, Reading, NEW c \in Clients, pc[c] \in Past,
         ~crossed', ~reused', ReturnOrStart(c),
         Wanted(c)' = Wanted(c), content' = content
  PROVE  CopyOk(c)' /\ OwnOk(c)'
<1>1. ~crossed /\ ~reused
  BY DEF ReturnOrStart, StartThread
<1>2. fh.meta.bits \subseteq content
  BY <1>1, MarkedThere
<1>3. CASE Cached(c)
  <2>1. UNCHANGED fh /\ pc' = [pc EXCEPT ![c] = "copy"]
    BY <1>3 DEF ReturnOrStart, Goto
  <2>2. pc'[c] = "copy"
    BY <2>1 DEF TypeOK
  <2>3. Wanted(c) \subseteq content
    BY <1>2, <1>3 DEF Cached, Missing
  <2> QED BY <2>2, <2>3 DEF CopyOk, OwnOk
<1>4. CASE ~Cached(c)
  <2> DEFINE last == Max(Missing(c))
             next == {b \in fh.meta.bits : b > last}
             end  == IF next = {} THEN N ELSE Min(next)
  <2>1. /\ StartThread(fh, Min(Missing(c)), last + 1, end)
        /\ pc' = [pc EXCEPT ![c] = "ownWait"]
    BY <1>4 DEF ReturnOrStart, Goto
  <2>2. PICK i, j, k : /\ i = Min(Missing(c)) /\ j = last + 1 /\ k = end
    OBVIOUS
  <2>3. \A b \in Missing(c) : i <= b /\ b < j /\ b < N /\ b < k
    BY <1>4, <2>2, AskedBounds
  <2>4. StartThread(fh, i, j, k)
    BY <2>1, <2>2
  <2> HIDE DEF last, next, end
  <2>5. PICK t \in Readers \ Alive :
          /\ thr' = [thr EXCEPT ![t] = [at |-> "start", start |-> i, must |-> j, end |-> k,
                                       aborted |-> FALSE, cur |-> i]]
          /\ fh' = [fh EXCEPT !.thread = t]
    BY <2>4 DEF StartThread
  <2>6. fh.meta' = fh.meta
    BY <2>5 DEF TypeOK, Handle
  <2>7. Missing(c)' = Missing(c)
    BY <2>6 DEF Missing
  <2>8. /\ thr'[t].at = "start" /\ thr'[t].must = j /\ thr'[t].end = k
        /\ thr'[t].cur = i
    BY <2>5 DEF TypeOK
  <2>9. Limit(t)' \in {k, N}
    BY <2>8 DEF Limit
  <2>10. Covers(c, t)'
    BY <2>3, <2>7, <2>8, <2>9 DEF Covers
  <2>11. t \in Alive'
    BY <2>8 DEF Alive
  <2>12. pc'[c] = "ownWait"
    BY <2>1 DEF TypeOK
  <2> QED BY <2>10, <2>11, <2>12 DEF CopyOk, OwnOk
<1> QED BY <1>3, <1>4

-----------------------------------------------------------------------------
(* Everybody goes on being served, whoever steps. *)
LEMMA ServedStep ==
  ASSUME TypeOK, TypeOK', Counted, Written, MarkedWritten, Announced, Trusted, Reading, Served,
         [Next]_vars
  PROVE  Served'
<1> USE DEF Goto
<1>t. /\ fh \in Handle /\ saved \in Meta /\ content \subseteq Blocks
      /\ thr \in [Readers -> Thread]
      /\ pc \in [Clients -> Places] /\ want \in [Clients -> Want]
  BY DEF TypeOK
<1>u. fh' \in Handle /\ thr' \in [Readers -> Thread]
  BY DEF TypeOK
<1> DEFINE SameThreads == \A t \in Readers :
             /\ thr'[t].at = thr[t].at /\ thr'[t].cur = thr[t].cur /\ thr'[t].end = thr[t].end
             /\ thr'[t].must >= thr[t].must \/ thr'[t].must = thr[t].end
           Kept(c) == /\ pc'[c] = "copy" => pc[c] = "copy"
                      /\ pc'[c] \in {"own", "ownWait"} => pc[c] \in {"own", "ownWait"}
                      /\ Wanted(c)' = Wanted(c)
           Fine(c) == CopyOk(c)' /\ OwnOk(c)'
<1>1. ASSUME SameThreads, NEW c \in Clients, CopyOk(c), OwnOk(c), Kept(c),
             fh.meta' = fh.meta, content' = content
      PROVE  Fine(c)
  <2>1. ASSUME NEW t \in Alive, Covers(c, t) PROVE t \in Alive' /\ Covers(c, t)'
    <3>1. t \in Readers /\ thr'[t].must \in Nat
      BY <1>u, <2>1, SizeAssumption DEF Alive, Thread
    <3>2. Covers(c, t)'
      <4>1. thr'[t].at \notin {"finish", "leave"}
        BY <1>1, <2>1, <3>1 DEF Covers
      <4> QED BY <1>1, <2>1, <3>1, <4>1, CoversFrame
    <3>3. t \in Alive'
      BY <1>1, <2>1, <3>1 DEF Alive
    <3> QED BY <3>2, <3>3
  <2> HIDE DEF SameThreads
  <2> QED BY <1>1, <2>1, ClientFrame
<1>2. ASSUME fh.thread # NoThread, thr' = [thr EXCEPT ![fh.thread].aborted = TRUE]
      PROVE  SameThreads
  <2>1. fh.thread \in Readers
    BY <1>t, <1>2 DEF Handle
  <2>2. \A t \in Readers : thr[t].must \in Int
    BY <1>t, SizeAssumption DEF Thread
  <2> QED BY <1>t, <1>2, <2>1, <2>2 DEF Thread
<1>3. thr' = thr => SameThreads
  <2>1. \A t \in Readers : thr[t].must \in Int
    BY <1>t, SizeAssumption DEF Thread
  <2> QED BY <2>1
<1> HIDE DEF SameThreads
<1>4. ASSUME Excuse' PROVE Served'
  BY <1>4 DEF Served
<1>5. ASSUME NEW c \in Clients,
             OpenCall(c) \/ OpenHeader(c) \/ CloseCall(c) \/ Drain(c) \/ Copy(c) \/ Timeout(c)
             \/ Flush(c)
      PROVE  Served'
  <2>1. /\ fh.meta' = fh.meta /\ fh.full' = fh.full /\ fh.ioFailed' = fh.ioFailed
        /\ UNCHANGED <<content, emptied, crossed, reused>>
    BY <1>5, <1>t DEF OpenCall, OpenHeader, CloseCall, Drain, Copy, Timeout, Flush, Handle
  <2>2. SameThreads
    BY <1>2, <1>3, <1>5 DEF OpenCall, OpenHeader, CloseCall, Drain, Copy, Timeout, Flush
  <2>3. /\ \A d \in Clients \ {c} : pc'[d] = pc[d] /\ want'[d] = want[d]
        /\ pc'[c] \notin {"copy", "own", "ownWait"}
    BY <1>5, <1>t
       DEF OpenCall, OpenHeader, CloseCall, Drain, Copy, Timeout, Flush
  <2>4. CASE Excuse
    BY <1>4, <2>1, <2>4 DEF Excuse
  <2>5. CASE ~Excuse
    <3>1. ASSUME NEW d \in Clients PROVE Fine(d)
      <4>1. CASE d = c
        BY <2>3, <4>1 DEF CopyOk, OwnOk
      <4>2. CASE d # c
        <5>1. CopyOk(d) /\ OwnOk(d)
          BY <2>5 DEF Served
        <5>2. Kept(d)
          BY <2>3, <4>2 DEF Wanted
        <5> QED BY <1>1, <2>1, <2>2, <5>1, <5>2
      <4> QED BY <4>1, <4>2
    <3>2. FullOk'
      BY <2>1, <2>5 DEF Served, FullOk
    <3> QED BY <3>1, <3>2 DEF Served
  <2> QED BY <2>4, <2>5
<1>6. ASSUME NEW c \in Clients, Open(c) PROVE Served'
  <2>1. PICK g \in Handle :
           /\ g.ioFailed = fh.ioFailed
           /\ IF fh.full = "unset"
              THEN /\ g.meta = saved /\ g.full \in {"yes", "no"}
                   /\ g.full = "yes" => saved.bits = Blocks \/ emptied'
                   /\ content' = content \/ emptied'
              ELSE g = fh /\ content' = content /\ emptied' = emptied
           /\ emptied => emptied'
           /\ \/ StartThread(g, 0, 0, NoEnd)
              \/ fh' = g /\ thr' = thr /\ crossed' = crossed /\ reused' = reused
           /\ pc[c] = "opening" /\ \A d \in Clients \ {c} : pc'[d] = pc[d]
           /\ pc'[c] \in {"headWait", "out", "open"}
           /\ want' = want
    BY <1>6, OpenParts
  <2>2. /\ fh'.meta = g.meta /\ fh'.full = g.full /\ fh'.ioFailed = fh.ioFailed
    BY <1>t, <2>1 DEF StartThread, Handle
  <2>3. crossed \/ reused => crossed' \/ reused'
    <3>1. CASE StartThread(g, 0, 0, NoEnd)
      BY <3>1 DEF StartThread
    <3>2. CASE crossed' = crossed /\ reused' = reused
      BY <3>2
    <3> QED BY <2>1, <3>1, <3>2
  <2>4. CASE Excuse'
    BY <1>4, <2>4
  <2>5. CASE ~Excuse'
    <3>1. ~Excuse /\ content' = content /\ ~crossed' /\ ~emptied'
      BY <2>1, <2>2, <2>3, <2>5 DEF Excuse
    <3>2. FullOk /\ \A d \in Clients : CopyOk(d) /\ OwnOk(d)
      BY <3>1 DEF Served
    <3>3. FullOk'
      BY <2>1, <2>2, <3>1, <3>2 DEF FullOk
    <3>4. ASSUME NEW d \in Clients PROVE Fine(d)
      <4>1. CASE pc'[d] \notin {"copy", "own", "ownWait"}
        BY <4>1 DEF CopyOk, OwnOk
      <4>2. CASE pc'[d] \in {"copy", "own", "ownWait"}
        <5>1. d # c /\ pc'[d] = pc[d]
          BY <2>1, <4>2
        <5>2. fh.full # "unset"
          BY <4>2, <5>1 DEF Counted, Inside
        <5>3. g = fh
          BY <2>1, <5>2
        <5>4. Kept(d)
          BY <2>1, <5>1 DEF Wanted
        <5>5. CASE StartThread(g, 0, 0, NoEnd)
          <6>1. fh.meta.bits' = fh.meta.bits
            BY <2>2, <5>3
          <6> QED BY <2>1, <3>1, <3>2, <5>1, <5>5, <6>1, StartFrame
        <5>6. CASE fh' = g /\ thr' = thr
          <6>1. fh.meta' = fh.meta
            BY <2>2, <5>3
          <6> QED BY <1>1, <1>3, <3>1, <3>2, <5>4, <5>6, <6>1
        <5> QED BY <2>1, <5>5, <5>6
      <4> QED BY <4>1, <4>2
    <3> QED BY <3>3, <3>4 DEF Served
  <2> QED BY <2>4, <2>5
<1>7. ASSUME NEW c \in Clients, ReadCall(c) PROVE Served'
  <2>1. /\ pc[c] = "open"
        /\ UNCHANGED <<fh, saved, content, thr, trust, emptied, crossed, reused>>
    BY <1>7 DEF ReadCall
  <2>2. PICK first \in Blocks, last \in Blocks :
          LET missing == (first..last) \ fh.meta.bits
              cached  == fh.full = "yes" \/ missing = {}
          IN /\ want' = [want EXCEPT ![c] =
                  [first |-> first, last |-> last,
                   from |-> IF cached THEN 0 ELSE Min(missing),
                   to   |-> IF cached THEN 0 ELSE Max(missing)]]
             /\ pc' = [pc EXCEPT ![c] =
                  IF fh.ioFailed THEN "open" ELSE IF cached THEN "copy" ELSE "make"]
    BY <1>7 DEF ReadCall
  <2> DEFINE missing == (first..last) \ fh.meta.bits
             cached  == fh.full = "yes" \/ missing = {}
  <2>3. /\ \A d \in Clients \ {c} : pc'[d] = pc[d] /\ want'[d] = want[d]
        /\ pc'[c] \notin {"own", "ownWait"}
        /\ pc'[c] = "copy" => cached
        /\ want'[c].first = first /\ want'[c].last = last
    BY <1>t, <2>2
  <2> HIDE DEF missing
  <2>4. CASE Excuse
    BY <1>4, <2>1, <2>4 DEF Excuse
  <2>5. CASE ~Excuse
    <3>1. FullOk /\ \A d \in Clients : CopyOk(d) /\ OwnOk(d)
      BY <2>5 DEF Served
    <3>2. fh.meta.bits \subseteq content
      BY <2>1, <2>5, MarkedThere DEF Excuse, Past
    <3>3. Fine(c)
      <4>1. Wanted(c)' = first..last /\ first..last \subseteq Blocks
        BY <2>3, SizeAssumption DEF Wanted, Blocks
      <4>2. cached => first..last \subseteq fh.meta.bits
        BY <3>1, <4>1 DEF FullOk, missing
      <4> QED BY <2>1, <2>3, <3>2, <4>1, <4>2 DEF CopyOk, OwnOk
    <3>4. ASSUME NEW d \in Clients, d # c PROVE Fine(d)
      <4>1. Kept(d)
        BY <2>3, <3>4 DEF Wanted
      <4> QED BY <1>1, <1>3, <2>1, <3>1, <4>1
    <3>5. FullOk'
      BY <2>1, <3>1 DEF FullOk
    <3> QED BY <3>3, <3>4, <3>5 DEF Served
  <2> QED BY <2>4, <2>5
<1>8. ASSUME NEW c \in Clients, pc[c] \in Past, ReturnOrStart(c),
             Wanted(c)' = Wanted(c), \A d \in Clients \ {c} : want'[d] = want[d],
             content' = content, emptied' = emptied
      PROVE  Served'
  <2>1. \/ UNCHANGED <<fh, thr, crossed, reused>>
        \/ \E i, j, k : StartThread(fh, i, j, k)
    BY <1>8 DEF ReturnOrStart
  <2>2. /\ fh.meta' = fh.meta /\ fh.full' = fh.full /\ fh.ioFailed' = fh.ioFailed
        /\ crossed \/ reused => crossed' \/ reused'
    <3>1. CASE UNCHANGED <<fh, thr, crossed, reused>>
      BY <3>1
    <3>2. ASSUME NEW i, NEW j, NEW k, StartThread(fh, i, j, k)
          PROVE  /\ fh.meta' = fh.meta /\ fh.full' = fh.full /\ fh.ioFailed' = fh.ioFailed
                 /\ crossed \/ reused => crossed' \/ reused'
      BY <1>t, <3>2 DEF StartThread, Handle
    <3> QED BY <2>1, <3>1, <3>2
  <2>3. \A d \in Clients \ {c} : pc'[d] = pc[d]
    BY <1>8, <1>t DEF ReturnOrStart
  <2>4. CASE Excuse'
    BY <1>4, <2>4
  <2>5. CASE ~Excuse'
    <3>1. ~Excuse /\ ~crossed' /\ ~reused'
      BY <1>8, <2>2, <2>5 DEF Excuse
    <3>2. FullOk /\ \A d \in Clients : CopyOk(d) /\ OwnOk(d)
      BY <3>1 DEF Served
    <3>3. Fine(c)
      BY <1>8, <3>1, AskServed
    <3>4. ASSUME NEW d \in Clients, d # c PROVE Fine(d)
      <4>1. Kept(d)
        BY <1>8, <2>3, <3>4 DEF Wanted
      <4>2. CASE UNCHANGED <<fh, thr, crossed, reused>>
        BY <1>1, <1>3, <1>8, <2>2, <3>2, <4>1, <4>2
      <4>3. ASSUME NEW i, NEW j, NEW k, StartThread(fh, i, j, k) PROVE Fine(d)
        <5>1. Alive = {}
          BY <3>1, <4>3 DEF StartThread
        <5>2. fh.meta.bits \subseteq fh.meta.bits' /\ content \subseteq content'
          BY <1>8, <2>2
        <5> QED BY <3>2, <4>1, <5>1, <5>2, ClientFrame
      <4> QED BY <2>1, <4>2, <4>3
    <3>5. FullOk'
      BY <2>2, <3>2 DEF FullOk
    <3> QED BY <3>3, <3>4, <3>5 DEF Served
  <2> QED BY <2>4, <2>5
<1>9. ASSUME NEW c \in Clients, Make(c) \/ MakeAborted(c) \/ MakeData(c) PROVE Served'
  <2>1. /\ pc[c] \in {"make", "abort", "data"} /\ content' = content /\ emptied' = emptied
    BY <1>9 DEF Make, MakeAborted, MakeData
  <2>2. /\ want'[c].first = want[c].first /\ want'[c].last = want[c].last
        /\ \A d \in Clients \ {c} : want'[d] = want[d]
    <3>1. want' = want \/ want' = [want EXCEPT ![c].from = 0, ![c].to = 0]
      BY <1>9 DEF Make, MakeAborted, MakeData
    <3> QED BY <1>t, <3>1 DEF Want
  <2>3. Wanted(c)' = Wanted(c)
    BY <2>2 DEF Wanted
  <2>4. CASE ReturnOrStart(c)
    BY <1>8, <2>1, <2>2, <2>3, <2>4 DEF Past
  <2>5. CASE ~ReturnOrStart(c)
    <3>1. fh' = fh /\ crossed' = crossed /\ reused' = reused
      BY <1>9, <2>5 DEF Make, MakeAborted, MakeData
    <3>2. /\ \A d \in Clients \ {c} : pc'[d] = pc[d]
          /\ pc'[c] \notin {"own", "ownWait"}
          /\ pc'[c] = "copy" => Cached(c)
      BY <1>9, <1>t, <2>5 DEF Make, MakeAborted, MakeData
    <3>3. SameThreads
      <4>1. CASE Make(c)
        <5> DEFINE best == NewReadBest(thr[fh.thread], want[c].from, want[c].to)
        <5>1. /\ fh.thread # NoThread
              /\ thr' = [thr EXCEPT ![fh.thread].must = best[2],
                                    ![fh.thread].aborted = @ \/ best[1]]
          BY <2>5, <4>1 DEF Make
        <5>2. fh.thread \in Readers /\ thr[fh.thread] \in Thread
          BY <1>t, <5>1 DEF Handle
        <5>3. best[2] >= thr[fh.thread].must \/ best[2] = thr[fh.thread].end
          BY <1>t, <5>2, BestGrows DEF Want
        <5> HIDE DEF best
        <5>4. \A t \in Readers : thr[t].must \in Int
          BY <1>t, SizeAssumption DEF Thread
        <5> QED BY <1>t, <5>1, <5>2, <5>3, <5>4 DEF Thread, SameThreads
      <4>2. CASE MakeAborted(c)
        <5>1. fh.thread # NoThread /\ thr' = [thr EXCEPT ![fh.thread].aborted = TRUE]
          BY <2>5, <4>2 DEF MakeAborted
        <5> QED BY <1>2, <5>1
      <4>3. CASE MakeData(c)
        BY <1>3, <2>5, <4>3 DEF MakeData
      <4> QED BY <1>9, <4>1, <4>2, <4>3
    <3>4. CASE Excuse
      BY <1>4, <2>1, <3>1, <3>4 DEF Excuse
    <3>5. CASE ~Excuse
      <4>1. FullOk /\ \A d \in Clients : CopyOk(d) /\ OwnOk(d)
        BY <3>5 DEF Served
      <4>2. fh.meta.bits \subseteq content
        BY <2>1, <3>5, MarkedThere DEF Excuse, Past
      <4>3. Fine(c)
        BY <2>1, <2>3, <3>1, <3>2, <4>2 DEF CopyOk, OwnOk, Cached, Missing
      <4>4. ASSUME NEW d \in Clients, d # c PROVE Fine(d)
        <5>1. Kept(d)
          BY <2>2, <3>2, <4>4 DEF Wanted
        <5> QED BY <1>1, <2>1, <3>1, <3>3, <4>1, <5>1
      <4>5. FullOk'
        BY <3>1, <4>1 DEF FullOk
      <4> QED BY <4>3, <4>4, <4>5 DEF Served
    <3> QED BY <3>4, <3>5
  <2> QED BY <2>4, <2>5
<1>10. ASSUME NEW c \in Clients, MakeOwn(c) PROVE Served'
  <2>1. /\ pc[c] = "own"
        /\ UNCHANGED <<fh, saved, content, thr, trust, want, calls, emptied, crossed, reused>>
        /\ pc' = [pc EXCEPT ![c] = IF Cached(c) \/ fh.thread = NoThread THEN "copy"
                                   ELSE "ownWait"]
    BY <1>10 DEF MakeOwn
  <2>2. CASE Excuse
    BY <1>4, <2>1, <2>2 DEF Excuse
  <2>3. CASE ~Excuse
    <3>1. FullOk /\ \A d \in Clients : CopyOk(d) /\ OwnOk(d)
      BY <2>3 DEF Served
    <3>2. fh.meta.bits \subseteq content
      BY <2>1, <2>3, MarkedThere DEF Excuse, Past
    <3>3. \A d \in Clients : Wanted(d)' = Wanted(d) /\ Missing(d)' = Missing(d)
      BY <2>1 DEF Wanted, Missing
    <3>4. Fine(c)
      <4>1. CASE Cached(c) \/ fh.thread = NoThread
        <5>1. fh.thread = NoThread => Alive = {}
          BY <2>3, ThreadsAssumption DEF Announced, Excuse, Alive
        <5>2. Missing(c) = {}
          BY <2>1, <3>1, <4>1, <5>1 DEF OwnOk, Cached
        <5>3. Wanted(c) \subseteq content
          BY <3>2, <5>2 DEF Missing
        <5> QED BY <1>t, <2>1, <3>3, <4>1, <5>3 DEF CopyOk, OwnOk
      <4>2. CASE ~(Cached(c) \/ fh.thread = NoThread)
        <5>1. pc'[c] = "ownWait"
          BY <1>t, <2>1, <4>2
        <5>2. Kept(c)
          BY <2>1, <3>3, <5>1
        <5> QED BY <1>1, <1>3, <2>1, <3>1, <5>2
      <4> QED BY <4>1, <4>2
    <3>5. ASSUME NEW d \in Clients, d # c PROVE Fine(d)
      <4>1. Kept(d)
        BY <1>t, <2>1, <3>3, <3>5
      <4> QED BY <1>1, <1>3, <2>1, <3>1, <4>1
    <3>6. FullOk'
      BY <2>1, <3>1 DEF FullOk
    <3> QED BY <3>4, <3>5, <3>6 DEF Served
  <2> QED BY <2>2, <2>3
<1>11. ASSUME NEW c \in Clients, Deref(c) PROVE Served'
  <2>1. CASE fh.refs > 1
    <3>1. /\ fh' = [fh EXCEPT !.refs = @ - 1] /\ UNCHANGED <<saved, thr, emptied>>
          /\ UNCHANGED <<content, trust, want, calls, crossed, reused>>
          /\ pc' = [pc EXCEPT ![c] = "out"]
      BY <1>11, <2>1 DEF Deref
    <3>2. fh.meta' = fh.meta /\ fh.full' = fh.full /\ fh.ioFailed' = fh.ioFailed
      BY <1>t, <3>1 DEF Handle
    <3>3. \A d \in Clients : Kept(d)
      BY <1>t, <3>1 DEF Wanted
    <3>4. CASE Excuse
      BY <1>4, <3>1, <3>2, <3>4 DEF Excuse
    <3>5. CASE ~Excuse
      <4>1. FullOk /\ \A d \in Clients : CopyOk(d) /\ OwnOk(d)
        BY <3>5 DEF Served
      <4>2. \A d \in Clients : Fine(d)
        BY <1>1, <1>3, <3>1, <3>2, <3>3, <4>1
      <4>3. FullOk'
        BY <3>2, <4>1 DEF FullOk
      <4> QED BY <4>2, <4>3 DEF Served
    <3> QED BY <3>4, <3>5
  <2>2. CASE ~(fh.refs > 1)
    <3>1. (\A d \in Clients : pc'[d] = "out") /\ fh' = NewHandle
      BY <1>11, <2>2, LastLeaves
    <3> QED BY <3>1 DEF Served, FullOk, CopyOk, OwnOk, NewHandle
  <2> QED BY <2>1, <2>2
<1>12. CASE Evict
  <2>1. UNCHANGED <<fh, thr, trust, pc, want, calls, emptied, crossed, reused>> /\ fh.refs = 0
    BY <1>12 DEF Evict
  <2>2. \A d \in Clients : pc'[d] = "out"
    BY <2>1, NobodyInside
  <2>3. fh.full' = "unset"
    BY <2>1 DEF Counted
  <2> QED BY <2>2, <2>3 DEF Served, FullOk, CopyOk, OwnOk
<1>13. ASSUME NEW t \in Readers, t \in Alive, ~Excuse,
              fh.meta' = fh.meta, content \subseteq content',
              fh.full' = "yes" => fh.meta.bits = Blocks,
              want' = want, \A c \in Clients : Kept(c),
              \A c \in Clients : Covers(c, t) =>
                 Missing(c) = {} \/ (t \in Alive' /\ Covers(c, t)')
       PROVE  Served'
  <2>1. Alive = {t}
    BY <1>13 DEF Written, Excuse
  <2>2. ASSUME NEW c \in Clients PROVE Fine(c)
    <3>1. CopyOk(c) /\ OwnOk(c)
      BY <1>13 DEF Served
    <3>2. Missing(c)' = Missing(c)
      BY <1>13 DEF Missing, Wanted
    <3>3. \A u \in Alive : Covers(c, u) =>
                 Missing(c)' = {} \/ (u \in Alive' /\ Covers(c, u)')
      BY <1>13, <2>1, <3>2
    <3> QED BY <1>13, <3>1, <3>3, ClientFrame
  <2>3. FullOk'
    BY <1>13 DEF FullOk
  <2> QED BY <2>2, <2>3 DEF Served
<1>14. ASSUME NEW t \in Readers, ThreadStep(t) \/ Fails(t), Excuse PROVE Served'
  <2>1. crossed' = crossed /\ reused' = reused /\ (emptied => emptied')
    <3>1. CASE Empty(t)
      BY <3>1 DEF Empty
    <3>2. CASE ~Empty(t)
      <4>1. UNCHANGED <<emptied, crossed, reused>>
        <5>1. \/ Connect(t) \/ Fetch(t) \/ Header(t) \/ Mark(t) \/ Finish(t) \/ Leave(t)
              \/ Fails(t)
          BY <1>14, <3>2, Zenon DEF ThreadStep
        <5> QED BY <5>1 DEF Connect, Fetch, Header, Mark, Finish, Leave, Fails
      <4> QED BY <4>1
    <3> QED BY <3>1, <3>2
  <2>2. fh.ioFailed => fh'.ioFailed
    BY <1>14, <1>t DEF ThreadStep, Connect, Fetch, Header, Empty, Mark, Finish, Leave, Fails,
       Handle
  <2> QED BY <1>4, <1>14, <2>1, <2>2 DEF Excuse
<1>15. ASSUME NEW t \in Readers, Connect(t), ~Excuse PROVE Served'
  <2>1. /\ UNCHANGED <<saved, content, trust, pc, want, calls, emptied, crossed, reused>>
        /\ thr' = [thr EXCEPT ![t].at = "read"] /\ t \in Alive
        /\ fh' = [fh EXCEPT !.readFailed = FALSE]
    BY <1>15 DEF Connect, Step, Alive
  <2>2. fh.meta' = fh.meta /\ fh.full' = fh.full
    BY <1>t, <2>1 DEF Handle
  <2>3. /\ thr'[t].at = "read" /\ thr'[t].cur = thr[t].cur /\ thr'[t].end = thr[t].end
        /\ thr'[t].must = thr[t].must /\ thr[t].must \in Nat
    BY <1>t, <2>1, SizeAssumption DEF Thread
  <2>4. ASSUME NEW c \in Clients, Covers(c, t) PROVE t \in Alive' /\ Covers(c, t)'
    <3>1. Wanted(c)' = Wanted(c)
      BY <2>1 DEF Wanted
    <3>2. Covers(c, t)'
      BY <2>2, <2>3, <2>4, <3>1, CoversFrame
    <3> QED BY <2>3, <3>2 DEF Alive
  <2>5. fh.full' = "yes" => fh.meta.bits = Blocks
    BY <1>15, <2>2 DEF Served, FullOk
  <2>6. \A c \in Clients : Kept(c)
    BY <2>1 DEF Wanted
  <2> QED BY <1>13, <1>15, <2>1, <2>2, <2>4, <2>5, <2>6
<1>16. ASSUME NEW t \in Readers, Fetch(t), ~Excuse PROVE Served'
  <2> DEFINE pos == IF fh.pos # NoResponse THEN fh.pos ELSE thr[t].cur
             stop == IF fh.pos # NoResponse THEN fh.stop ELSE Min({thr[t].end, N})
             buff == fh.header /\ pos < stop
             place == IF buff THEN "mark" ELSE IF fh.header THEN "finish" ELSE "header"
  <2>1. /\ UNCHANGED <<saved, trust, pc, want, calls, emptied, crossed, reused>>
        /\ thr[t].at = "read" /\ t \in Alive
    BY <1>16 DEF Fetch, Step, Alive
  <2>2. /\ thr' = [thr EXCEPT ![t].at = place]
        /\ fh' = [fh EXCEPT !.pos = IF buff THEN pos + 1 ELSE pos, !.stop = stop]
        /\ content' = content \/
           content' = IF pos = thr[t].cur THEN content \cup {pos} ELSE content \ {thr[t].cur}
    BY <1>16 DEF Fetch, Step
  <2>3. Min({thr[t].end, N}) = Limit(t)
    <3>1. thr[t].end \in Nat /\ N \in Nat
      BY <1>t, SizeAssumption DEF Thread, NoEnd
    <3> QED BY <3>1, MinOfTwo DEF Limit
  <2>4. stop = Limit(t)
    BY <1>16, <2>1, <2>3 DEF Reading, Marked, Excuse
  <2>5. pos = thr[t].cur
    BY <1>16, <2>1 DEF Written, Excuse
  <2>6. place = "finish" => ~(pos < stop)
    OBVIOUS
  <2>7. place \in {"mark", "header", "finish"}
    OBVIOUS
  <2> HIDE DEF pos, stop, buff, place
  <2>8. fh.meta' = fh.meta /\ fh.full' = fh.full
    BY <1>t, <2>2 DEF Handle
  <2>9. /\ thr'[t].at = place /\ thr'[t].cur = thr[t].cur /\ thr'[t].end = thr[t].end
        /\ thr'[t].must = thr[t].must /\ thr[t].must \in Nat
    BY <1>t, <2>2, SizeAssumption DEF Thread
  <2>10. content \subseteq content'
    BY <2>2, <2>5
  <2>11. ASSUME NEW c \in Clients, Covers(c, t)
         PROVE  Missing(c) = {} \/ (t \in Alive' /\ Covers(c, t)')
    <3>1. CASE place = "finish"
      <4>1. Limit(t) <= thr[t].cur /\ Limit(t) \in Nat /\ thr[t].cur \in Nat
        <5>1. thr[t].cur \in Nat /\ Limit(t) \in Nat
          BY <1>t, SizeAssumption DEF Thread, Limit, NoEnd
        <5> QED BY <2>4, <2>5, <2>6, <3>1, <5>1
      <4>2. \A b \in Missing(c) : b \in Nat
        <5>1. want[c].first \in Nat /\ want[c].last \in Nat
          BY <1>t, SizeAssumption DEF Want, Blocks
        <5> QED BY <5>1 DEF Missing, Wanted
      <4>3. \A b \in Missing(c) : FALSE
        BY <2>11, <4>1, <4>2 DEF Covers
      <4> QED BY <4>3
    <3>2. CASE place # "finish"
      <4>1. Wanted(c)' = Wanted(c)
        BY <2>1 DEF Wanted
      <4>2. Covers(c, t)'
        BY <2>7, <2>8, <2>9, <2>11, <3>2, <4>1, CoversFrame
      <4> QED BY <2>7, <2>9, <4>2 DEF Alive
    <3> QED BY <3>1, <3>2
  <2>12. fh.full' = "yes" => fh.meta.bits = Blocks
    BY <1>16, <2>8 DEF Served, FullOk
  <2>13. \A c \in Clients : Kept(c)
    BY <2>1 DEF Wanted
  <2> QED BY <1>13, <1>16, <2>1, <2>8, <2>10, <2>11, <2>12, <2>13
<1>17. ASSUME NEW t \in Readers, Header(t), ~Excuse PROVE Served'
  <2>1. /\ UNCHANGED <<saved, content, trust, pc, want, calls, emptied, crossed, reused>>
        /\ thr[t].at = "header" /\ t \in Alive
    BY <1>17 DEF Header, Alive
  <2>2. /\ thr'[t].at \in {"read", "empty"} /\ thr'[t].cur = thr[t].cur
        /\ thr'[t].end = thr[t].end /\ thr'[t].must = thr[t].must /\ thr[t].must \in Nat
    <3> DEFINE read == [thr EXCEPT ![t].at = "empty"]
    <3>1. \/ thr' = [thr EXCEPT ![t].at = "read"]
          \/ thr' = read
          \/ fh.thread # NoThread /\ thr' = [read EXCEPT ![fh.thread].aborted = TRUE]
      BY <1>17 DEF Header
    <3>2. /\ read[t].at = "empty" /\ read[t].cur = thr[t].cur
          /\ read[t].end = thr[t].end /\ read[t].must = thr[t].must
          /\ read \in [Readers -> Thread]
      BY <1>t DEF Thread
    <3>3. thr[t].must \in Nat
      BY <1>t, SizeAssumption DEF Thread
    <3> HIDE DEF read
    <3>4. CASE thr' = [thr EXCEPT ![t].at = "read"]
      BY <1>t, <3>3, <3>4 DEF Thread
    <3>5. CASE thr' = read
      BY <3>2, <3>3, <3>5
    <3>6. CASE fh.thread # NoThread /\ thr' = [read EXCEPT ![fh.thread].aborted = TRUE]
      <4>1. fh.thread \in Readers
        BY <1>t, <3>6 DEF Handle
      <4> QED BY <3>2, <3>3, <3>6, <4>1 DEF Thread
    <3> QED BY <3>1, <3>4, <3>5, <3>6
  <2>3. CASE fh.header \/ fh.meta.md5 = "new"
    <3>1. fh.meta' = fh.meta /\ fh.full' = fh.full
      <4>1. CASE fh.header
        BY <1>17, <4>1 DEF Header
      <4>2. CASE ~fh.header /\ fh.meta.md5 = "new"
        <5>1. fh' = [fh EXCEPT !.meta = fh.meta, !.full = @]
          BY <1>17, <4>2 DEF Header
        <5> QED BY <1>t, <5>1 DEF Handle
      <4> QED BY <2>3, <4>1, <4>2
    <3>2. ASSUME NEW c \in Clients, Covers(c, t) PROVE t \in Alive' /\ Covers(c, t)'
      <4>1. Wanted(c)' = Wanted(c)
        BY <2>1 DEF Wanted
      <4>2. Covers(c, t)'
        BY <2>2, <3>1, <3>2, <4>1, CoversFrame
      <4> QED BY <2>2, <4>2 DEF Alive
    <3>3. fh.full' = "yes" => fh.meta.bits = Blocks
      BY <1>17, <3>1 DEF Served, FullOk
    <3>4. \A c \in Clients : Kept(c)
      BY <2>1 DEF Wanted
    <3> QED BY <1>13, <1>17, <2>1, <3>1, <3>2, <3>3, <3>4
  <2>4. CASE ~fh.header /\ fh.meta.md5 # "new"
    <3>1. \A c \in Clients : pc'[c] \notin Past
      BY <1>17, <2>1, <2>4 DEF Reading, Excuse
    <3>2. PICK m : fh' = [fh EXCEPT !.meta = m, !.full = "no"]
      BY <1>17, <2>4 DEF Header
    <3>3. fh.full' = "no"
      BY <1>t, <3>2 DEF Handle
    <3> QED BY <3>1, <3>3 DEF Served, FullOk, CopyOk, OwnOk, Past
  <2> QED BY <2>3, <2>4
<1>18. ASSUME NEW t \in Readers, Empty(t), ~Excuse PROVE Served'
  <2>1. /\ UNCHANGED <<saved, trust, pc, want, calls, crossed, reused>>
        /\ thr' = [thr EXCEPT ![t].at = "read"] /\ t \in Alive
        /\ fh' = [fh EXCEPT !.header = TRUE, !.full = IF Emptied(fh) THEN "yes" ELSE @]
        /\ content' = IF Emptied(fh) THEN {} ELSE content
        /\ emptied' = (emptied \/ Emptied(fh))
    BY <1>18 DEF Empty, Step, Alive
  <2>2. CASE Emptied(fh)
    BY <1>4, <2>1, <2>2 DEF Excuse
  <2>3. CASE ~Emptied(fh)
    <3>1. fh.meta' = fh.meta /\ fh.full' = fh.full /\ content' = content
      BY <1>t, <2>1, <2>3 DEF Handle
    <3>2. /\ thr'[t].at = "read" /\ thr'[t].cur = thr[t].cur /\ thr'[t].end = thr[t].end
          /\ thr'[t].must = thr[t].must /\ thr[t].must \in Nat
      BY <1>t, <2>1, SizeAssumption DEF Thread
    <3>3. ASSUME NEW c \in Clients, Covers(c, t) PROVE t \in Alive' /\ Covers(c, t)'
      <4>1. Wanted(c)' = Wanted(c)
        BY <2>1 DEF Wanted
      <4>2. Covers(c, t)'
        BY <3>1, <3>2, <3>3, <4>1, CoversFrame
      <4> QED BY <3>2, <4>2 DEF Alive
    <3>4. fh.full' = "yes" => fh.meta.bits = Blocks
      BY <1>18, <3>1 DEF Served, FullOk
    <3>5. \A c \in Clients : Kept(c)
      BY <2>1 DEF Wanted
    <3> QED BY <1>13, <1>18, <2>1, <3>1, <3>3, <3>4, <3>5
  <2> QED BY <2>2, <2>3
<1>19. ASSUME NEW t \in Readers, Mark(t), ~Excuse PROVE Served'
  <2> DEFINE next == thr[t].cur + 1
             stop == thr[t].aborted /\ thr[t].must <= next
  <2>1. thr[t].at = "mark" /\ t \in Alive
    BY <1>19 DEF Mark, Alive
  <2>2. Alive = {t} /\ fh.thread = t /\ t # NoThread
    BY <1>19, <2>1, ThreadsAssumption DEF Written, Announced, Excuse
  <2>3. /\ UNCHANGED <<saved, content, trust, want, calls, emptied, crossed, reused>>
        /\ NotifyAll
        /\ fh' = [fh EXCEPT !.meta.bits = @ \cup {thr[t].cur},
                            !.ioFailed = @ \/ FALSE, !.readFailed = @ \/ FALSE]
        /\ thr' = [thr EXCEPT ![t].cur = IF stop THEN @ ELSE next,
                              ![t].at = IF stop THEN "finish" ELSE "read"]
    BY <1>19, <2>2 DEF Mark
  <2> HIDE DEF next, stop
  <2>4. fh.meta.bits' = fh.meta.bits \cup {thr[t].cur} /\ fh.full' = fh.full
    BY <1>t, <2>3 DEF Handle, Meta
  <2>5. /\ thr'[t].cur = IF stop THEN thr[t].cur ELSE next
        /\ thr'[t].at = IF stop THEN "finish" ELSE "read"
        /\ thr'[t].end = thr[t].end /\ thr'[t].must = thr[t].must
    BY <1>t, <2>3 DEF Thread
  <2>6. thr[t].cur \in Nat /\ thr[t].must \in Nat
    BY <1>t, SizeAssumption DEF Thread
  <2>7. ASSUME NEW c \in Clients PROVE Fine(c)
    <3>1. CopyOk(c) /\ OwnOk(c)
      BY <1>19 DEF Served
    <3>2. Wanted(c)' = Wanted(c)
      BY <2>3 DEF Wanted
    <3>3. /\ pc'[c] = "copy" => pc[c] = "copy"
          /\ pc'[c] \in {"own", "ownWait"} => pc[c] \in {"own", "ownWait"}
      BY <2>3, WokenPast DEF NotifyAll
    <3>4. ASSUME Covers(c, t) PROVE Missing(c)' = {} \/ (t \in Alive' /\ Covers(c, t)')
      <4>1. Missing(c)' = Missing(c) \ {thr[t].cur}
        BY <2>4, <3>2 DEF Missing
      <4>2. \A b \in Missing(c) : b \in Nat
        <5>1. want[c].first \in Nat /\ want[c].last \in Nat
          BY <1>t, SizeAssumption DEF Want, Blocks
        <5> QED BY <5>1 DEF Missing, Wanted
      <4>3. \A b \in Missing(c)' : b \in Missing(c) /\ next <= b /\ b < thr[t].must
        BY <2>6, <3>4, <4>1, <4>2 DEF Covers, next
      <4>4. next \in Nat
        BY <2>6 DEF next
      <4>5. CASE stop
        <5>1. \A b \in Missing(c)' : FALSE
          BY <2>6, <4>2, <4>3, <4>4, <4>5 DEF stop
        <5> QED BY <5>1
      <4>6. CASE ~stop
        <5>1. thr'[t].at = "read" /\ thr'[t].cur = next
          BY <2>5, <4>6
        <5>2. Limit(t)' = Limit(t)
          BY <2>5 DEF Limit
        <5>3. \A b \in Missing(c)' : next <= b /\ b < thr'[t].must /\ b < Limit(t)'
          BY <2>5, <3>4, <4>3, <5>2 DEF Covers
        <5>4. Covers(c, t)'
          BY <5>1, <5>3 DEF Covers
        <5> QED BY <5>1, <5>4 DEF Alive
      <4> QED BY <4>5, <4>6
    <3>5. \A u \in Alive : Covers(c, u) => Missing(c)' = {} \/ (u \in Alive' /\ Covers(c, u)')
      BY <2>2, <3>4
    <3> QED BY <2>3, <2>4, <3>1, <3>2, <3>3, <3>5, ClientFrame
  <2>8. FullOk'
    <3>1. fh.full = "yes" => fh.meta.bits = Blocks
      BY <1>19 DEF Served, FullOk
    <3>2. fh.meta.bits' \subseteq Blocks
      BY <1>u DEF Handle, Meta
    <3> QED BY <2>4, <3>1, <3>2 DEF FullOk
  <2> QED BY <2>7, <2>8 DEF Served
<1>20. ASSUME NEW t \in Readers, Finish(t), ~Excuse PROVE Served'
  <2>1. /\ UNCHANGED <<saved, content, trust, pc, want, calls, emptied, crossed, reused>>
        /\ thr[t].at = "finish" /\ t \in Alive
        /\ fh' = IF ~thr[t].aborted /\ ((thr[t].start = 0 /\ thr[t].end >= N)
                                         \/ fh.meta.bits = Blocks)
                 THEN [fh EXCEPT !.full = "yes"] ELSE fh
    BY <1>20 DEF Finish, Step, Alive
  <2>2. fh.meta' = fh.meta
    BY <1>t, <2>1 DEF Handle
  <2>3. fh.full' = "yes" => fh.meta.bits = Blocks
    <3>1. CASE ~thr[t].aborted /\ thr[t].start = 0 /\ thr[t].end >= N
      <4>1. thr[t].start..(Limit(t) - 1) \subseteq fh.meta.bits
        BY <1>20, <2>1, <3>1 DEF Reading, Marked, Excuse
      <4>2. Limit(t) = N
        BY <1>t, <3>1, SizeAssumption DEF Limit, Thread, NoEnd
      <4>3. Blocks \subseteq fh.meta.bits /\ fh.meta.bits \subseteq Blocks
        BY <1>t, <3>1, <4>1, <4>2 DEF Blocks, Handle, Meta
      <4> QED BY <4>3
    <3>2. CASE ~(~thr[t].aborted /\ thr[t].start = 0 /\ thr[t].end >= N)
      BY <1>20, <1>t, <2>1, <3>2 DEF Served, FullOk, Handle
    <3> QED BY <3>1, <3>2
  <2>4. \A c \in Clients : Kept(c)
    BY <2>1 DEF Wanted
  <2>5. \A c \in Clients : ~Covers(c, t)
    BY <2>1 DEF Covers
  <2> QED BY <1>13, <1>20, <2>1, <2>2, <2>3, <2>4, <2>5
<1>21. ASSUME NEW t \in Readers, Leave(t), ~Excuse PROVE Served'
  <2>1. /\ UNCHANGED <<saved, content, trust, want, calls, emptied, crossed, reused>>
        /\ thr[t].at = "leave" /\ t \in Alive /\ fh' = [fh EXCEPT !.thread = NoThread]
        /\ pc' = pc \/ NotifyAll
    BY <1>21 DEF Leave, Alive
  <2>2. fh.meta' = fh.meta /\ fh.full' = fh.full
    BY <1>t, <2>1 DEF Handle
  <2>3. fh.full' = "yes" => fh.meta.bits = Blocks
    BY <1>21, <2>2 DEF Served, FullOk
  <2>4. \A c \in Clients : Kept(c)
    BY <2>1, WokenPast DEF NotifyAll, Wanted
  <2>5. \A c \in Clients : ~Covers(c, t)
    BY <2>1 DEF Covers
  <2> QED BY <1>13, <1>21, <2>1, <2>2, <2>3, <2>4, <2>5
<1>22. ASSUME NEW t \in Readers, Fails(t) PROVE Served'
  <2>1. fh.ioFailed'
    BY <1>22, <1>t DEF Fails, Handle
  <2> QED BY <1>4, <2>1 DEF Excuse
<1>23. CASE UNCHANGED vars
  <2>1. \A c \in Clients : Wanted(c)' = Wanted(c) /\ Missing(c)' = Missing(c)
    BY <1>23 DEF vars, Wanted, Missing
  <2>2. \A c \in Clients, t \in Readers : Covers(c, t)' <=> Covers(c, t)
    BY <1>23, <2>1 DEF vars, Covers, Limit
  <2>3. Alive' = Alive
    BY <1>23 DEF vars, Alive
  <2> QED BY <1>23, <2>1, <2>2, <2>3 DEF vars, Served, Excuse, FullOk, CopyOk, OwnOk, Alive
<1>24. ASSUME NEW c \in Clients, ClientStep(c) PROVE Served'
  BY <1>24, <1>5, <1>6, <1>9, <1>10, <1>11 DEF ClientStep
<1>25. ASSUME NEW t \in Readers, ThreadStep(t) \/ Fails(t) PROVE Served'
  BY <1>25, <1>14, <1>15, <1>16, <1>17, <1>18, <1>19, <1>20, <1>21, <1>22 DEF ThreadStep
<1> QED
  BY <1>5, <1>7, <1>12, <1>23, <1>24, <1>25 DEF Next

-----------------------------------------------------------------------------
(* The invariant the theorems rest on. *)
IInv ==
  /\ Shape /\ Counted /\ Written /\ MarkedWritten /\ Announced /\ WaiterHasThread
  /\ TypeOK /\ Marks /\ Trusted /\ Reading /\ Served

(* It holds at the start. *)
LEMMA InitIInv == Init => IInv
<1> SUFFICES ASSUME Init PROVE IInv OBVIOUS
<1>1. Inside = {} /\ Alive = {}
  BY DEF Init, Inside, Alive, Dead
<1>2. Cardinality(Inside) = 0
  BY <1>1, FS_EmptySet
<1>3. Shape
  BY DEF Init, Shape, IsRecord, HandleFields, MetaFields, ThreadFields, NewHandle, NoMeta,
         Meta, Dead
<1>4. Counted
  BY <1>1, <1>2 DEF Init, Counted, NewHandle
<1>5. Written /\ MarkedWritten
  BY <1>1 DEF Init, Written, MarkedWritten, NewHandle, NoMeta
<1>6. Announced /\ WaiterHasThread
  BY <1>1 DEF Init, Announced, WaiterHasThread, NewHandle, Waiting
<1>7. TypeOK /\ Marks
  BY TypeInit
<1>8. Trusted
  BY DEF Init, Trusted, NewHandle, NoMeta
<1>9. Reading /\ Served
  <2>1. fh = NewHandle /\ pc = [c \in Clients |-> "out"]
    BY DEF Init
  <2>2. ~fh.header /\ fh.full = "unset"
    BY <2>1 DEF NewHandle
  <2>3. \A c \in Clients : pc[c] = "out"
    BY <2>1
  <2>4. Reading
    BY <1>1, <2>2, <2>3 DEF Reading, Past
  <2>5. Served
    BY <2>2, <2>3 DEF Served, FullOk, CopyOk, OwnOk
  <2> QED BY <2>4, <2>5
<1> QED BY <1>3, <1>4, <1>5, <1>6, <1>7, <1>8, <1>9 DEF IInv

(* Every step keeps it. *)
LEMMA InductiveStep == IInv /\ [Next]_vars => IInv'
<1> SUFFICES ASSUME IInv, [Next]_vars PROVE IInv'
  OBVIOUS
<1>1. Shape' /\ Counted'
  BY ShapeStep, CountedStep DEF IInv
<1>2. Written' /\ MarkedWritten' /\ Announced' /\ WaiterHasThread'
  BY WrittenStep, WaitingStep DEF IInv
<1>3. TypeOK' /\ Marks'
  BY TypeStep DEF IInv
<1>4. Trusted' /\ Reading'
  BY ReadingStep DEF IInv
<1>5. Served'
  BY <1>3, ServedStep DEF IInv
<1> QED BY <1>1, <1>2, <1>3, <1>4, <1>5 DEF IInv

(* So it always holds. *)
LEMMA Inductive == Spec => []IInv
<1>1. IInv /\ [Next]_vars => IInv'
  BY InductiveStep
<1> QED BY InitIInv, <1>1, PTL DEF Spec

(* No block is believed to be cached that is not in the cache file, in the     *)
(* handle and in the metadata file, for any number of blocks, clients and      *)
(* failures, as long as no two read threads share the VOFile                   *)
(* (CadcCache.py, writeToCache, setHeader and deref).                          *)
THEOREM BlocksAreThere == Spec => []MarkedWritten
<1>1. IInv => MarkedWritten
  BY DEF IInv
<1> QED BY Inductive, <1>1, PTL

(* No wake-up is lost: who waits for fileCondition in open(), read() or        *)
(* release() waits for a thread that runs and that will announce its end, for  *)
(* any number of clients and in every order, as long as no second read thread  *)
(* is started beside the first (makeCached, open, flush and the end of         *)
(* CacheReadThread.execute).                                                   *)
THEOREM NoWakeupLost == Spec => []WaiterHasThread
<1>1. IInv => WaiterHasThread
  BY DEF IInv
<1> QED BY Inductive, <1>1, PTL

(* read() returns bytes of the file: what it asked for is in the cache file    *)
(* when it copies, for any number of blocks and clients, however often others  *)
(* abort the read thread it waited for, time out or close the file; unless the *)
(* cache file was taken for complete when it was emptied, two threads shared a *)
(* response, or a thread failed (CadcCache.py, read, makeCached, isNewReadBest *)
(* and CacheReadThread.execute).                                               *)
THEOREM WhatIsReadIsThere == Spec => ReadsData
<1>1. IInv /\ [Next]_vars =>
        [\A c \in Clients :
           Copy(c) => \/ emptied \/ crossed \/ reused \/ fh.ioFailed
                      \/ Wanted(c) \subseteq content]_vars
  <2> SUFFICES ASSUME IInv, NEW c \in Clients, Copy(c)
               PROVE  \/ emptied \/ crossed \/ reused \/ fh.ioFailed
                      \/ Wanted(c) \subseteq content
    OBVIOUS
  <2>1. pc[c] = "copy"
    BY DEF Copy
  <2> QED BY <2>1 DEF IInv, Served, Excuse, CopyOk
<1> QED BY Inductive, <1>1, PTL DEF Spec, ReadsData

(* A handle is not closed under anybody: while somebody is inside, between     *)
(* getFileHandle and deref, the handle has a reference (of a file that is only *)
(* read; FileFlush has the reference that flush() takes).                      *)
THEOREM NobodyIsCutOff == Spec => [](Inside # {} => fh.refs > 0)
<1>1. IInv => (Inside # {} => fh.refs > 0)
  <2> SUFFICES ASSUME IInv, NEW c \in Inside PROVE fh.refs > 0
    OBVIOUS
  <2> QED BY InsideCounts DEF IInv, Counted
<1> QED BY Inductive, <1>1, PTL
=============================================================================
