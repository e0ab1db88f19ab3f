--------------------------- MODULE NodeStore_proofs ---------------------------
(***************************************************************************)
(* Proofs about NodeStore, for any names, requests, trees and losses: what *)
(* its lists of statements are, who meets whom, and how far the requests   *)
(* are that work.                                                          *)
(***************************************************************************)
EXTENDS NodeStore, TLAPS, FiniteSetTheorems, SequenceTheorems, NaturalsInduction

-----------------------------------------------------------------------------
(* What statements are about *)

(* The tables, the kinds of their rows, and what names a row may hold. *)
TableNames == {"nodes", "properties", "addl_props", "links", "capabilities"}
RowKinds   == Kinds \cup {"", "none"}
Places     == Names \cup {Root}
Targets    == Names \cup {NoName, NoTarget}
Rows == [t : TableNames, id : Names, kind : RowKinds, target : Targets,
         by : Requests \cup {"init"}, no : Nat]

(* The statements of each sort, and all of them. *)
Inserts   == [do : {"insert"}, t : TableNames, id : Names, kind : RowKinds, target : Targets]
Deletes   == [do : {"delete"}, t : TableNames, ids : SUBSET Places]
Renames   == [do : {"rename"}, t : TableNames, id : Places, to : Names]
Retargets == [do : {"retarget"}, id : Names, target : Targets]
Selects   == [do : {"select"}, ids : SUBSET Places, last : BOOLEAN]
ChildrenS == {s \in [do : {"children"}, id : Places, to : Names] :
                \A m \in Under(s.id) : Renamed(m, s.id, s.to) \in Names}
ChildS    == [do : {"child"}, id : Names, to : Names]
Makes     == [do : {"make"}, kind : Kinds, id : Names]
MoveS     == [do : {"movebytes"}, id : Places, to : Names]
CopyS     == [do : {"copybytes"}, id : Places, to : Names]
RemoveS   == [do : {"removebytes"}, id : Places, container : BOOLEAN]
Stmt == Inserts \cup Deletes \cup Renames \cup Retargets \cup Selects \cup ChildrenS
        \cup ChildS \cup Makes \cup MoveS \cup CopyS \cup RemoveS

(* The strengthening of TypeOK: what requests still have to do has its type too. *)
Typed ==
  /\ IsFiniteSet(rows) /\ rows \subseteq Rows
  /\ file \in [Names -> [kind : Kinds \cup {"none"}, by : Requests \cup {"init", "none"}]]
  /\ pc \in [Requests -> {"idle", "called", "run", "done", "refused", "failed"}]
  /\ op \in [Requests -> Ops]
  /\ todo \in [Requests -> Seq(Stmt)]
  /\ found \in [Requests -> SUBSET Names]
  /\ tries \in [Requests -> 1..Retries]
  /\ losses \in 0..MaxLosses
  /\ DOMAIN before = Requests /\ \A r \in Requests : DOMAIN before[r] \subseteq Names
  /\ needs \in [Requests -> SUBSET Names]
  /\ sweeps \in SUBSET Requests
  /\ unclear \in SUBSET Names

-----------------------------------------------------------------------------
(* Lemmas about sequences *)

(* Every set of numbers that is not empty has a least element. *)
LEMMA Least == ASSUME NEW T, T \subseteq Nat, T # {} PROVE \E x \in T : \A y \in T : x <= y
<1>0. \E R : IsWellFoundedOn(R, Nat) /\ \A x, y \in Nat : x < y => <<x, y>> \in R
  <2> DEFINE R == OpToRel(<, Nat)
  <2>1. IsWellFoundedOn(R, Nat)
    BY NatLessThanWellFounded
  <2>2. \A x, y \in Nat : x < y => <<x, y>> \in R
    BY DEF OpToRel
  <2> HIDE DEF R
  <2> QED BY <2>1, <2>2
<1>1. PICK R : IsWellFoundedOn(R, Nat) /\ \A x, y \in Nat : x < y => <<x, y>> \in R
  BY <1>0
<1>2. IsWellFoundedOn(R, Nat)
  BY <1>1
<1>3. \E x \in T : \A y \in T : ~ (<<y, x>> \in R)
  BY <1>2, WFMin
<1>4. PICK x \in T : \A y \in T : ~ (<<y, x>> \in R)
  BY <1>3
<1>5. \A y \in T : ~(y < x)
  BY <1>1, <1>4
<1>6. \A y \in T : x <= y
  <2> TAKE y \in T
  <2>1. x \in Nat /\ y \in Nat
    OBVIOUS
  <2> QED BY <1>5, <2>1
<1> QED BY <1>6

(* SetToSeq lists the elements of a finite set. *)
LEMMA SetToSeqLists ==
  ASSUME NEW S, IsFiniteSet(S)
  PROVE  /\ SetToSeq(S) \in Seq(S) /\ Len(SetToSeq(S)) = Cardinality(S)
         /\ \A x \in S : \E i \in 1..Len(SetToSeq(S)) : SetToSeq(S)[i] = x
         /\ \A i, j \in 1..Len(SetToSeq(S)) : SetToSeq(S)[i] = SetToSeq(S)[j] => i = j
<1>1. Cardinality(S) \in Nat /\ ExistsBijection(1..Cardinality(S), S)
  BY FS_CardinalityType
<1>2. PICK f \in Bijection(1..Cardinality(S), S) : TRUE
  BY <1>1 DEF ExistsBijection
<1>3. f \in [1..Cardinality(S) -> S] /\ IsInjective(f)
  BY <1>2 DEF Bijection, Injection, Surjection, IsInjective
<1>4. SetToSeq(S) \in [1..Cardinality(S) -> S] /\ IsInjective(SetToSeq(S))
  BY <1>3 DEF SetToSeq
<1> DEFINE g == SetToSeq(S)
<1>5. g \in Seq(S) /\ Len(g) = Cardinality(S) /\ DOMAIN g = 1..Cardinality(S)
  BY <1>1, <1>4, SeqDef
<1>6. g \in Injection(1..Cardinality(S), S)
  BY <1>4 DEF Injection, IsInjective
<1>7. IsFiniteSet(1..Cardinality(S)) /\ Cardinality(1..Cardinality(S)) = Cardinality(S)
  BY <1>1, FS_Interval
<1>8. g \in Surjection(1..Cardinality(S), S)
  BY <1>6, <1>7, FS_Injection
<1>10. \A i, j \in 1..Len(g) : g[i] = g[j] => i = j
  BY <1>4, <1>5 DEF IsInjective
<1> HIDE DEF g
<1>9. \A x \in S : \E i \in 1..Len(g) : g[i] = x
  BY <1>5, <1>8 DEF Surjection
<1> QED BY <1>5, <1>9, <1>10 DEF g

(* FlattenSeq puts the sequences together one after the other. *)
LEMMA FlattenRec ==
  ASSUME NEW S, NEW seqs \in Seq(Seq(S)), Len(seqs) # 0
  PROVE  \E F : /\ FlattenSeq(seqs) = F[Len(seqs)]
               /\ \A i \in 1..Len(seqs) : F[i] = IF i = 1 THEN seqs[i] ELSE F[i-1] \o seqs[i]
<1> DEFINE K == Len(seqs)
           Rec(h, n) == h = [i \in 1..n |-> IF i = 1 THEN seqs[i] ELSE h[i-1] \o seqs[i]]
<1>1. K \in Nat /\ \A i \in 1..K : seqs[i] \in Seq(S)
  OBVIOUS
<1>3. K # 0
  OBVIOUS
<1>4. \E F : FlattenSeq(seqs) = F[K] /\ \A i \in 1..K : F[i] = IF i = 1 THEN seqs[i] ELSE F[i-1] \o seqs[i]
  <2> DEFINE F == CHOOSE h : Rec(h, K)
  <2>0. FlattenSeq(seqs) = F[K]
    BY <1>3 DEF FlattenSeq
  <2> HIDE DEF K, Rec
  <2>R. \A h, n : Rec(h, n) <=> h = [i \in 1..n |-> IF i = 1 THEN seqs[i] ELSE h[i-1] \o seqs[i]]
    BY DEF Rec
  <2>1. \A n \in 1..K : \E h : Rec(h, n)
    <3> DEFINE T == {n \in 1..K : ~ \E h : Rec(h, n)}
    <3>1. SUFFICES ASSUME T # {} PROVE FALSE
      OBVIOUS
    <3>2. PICK n \in T : \A y \in T : n <= y
      <4>1. T \subseteq Nat
        BY <1>1
      <4> HIDE DEF T
      <4> QED BY <3>1, <4>1, Least
    <3>3. n \in 1..K /\ n \in Nat
      BY <1>1
    <3>4. CASE n = 1
      <4> DEFINE k == [i \in 1..1 |-> seqs[1]]
      <4>1. k = [i \in 1..1 |-> IF i = 1 THEN seqs[i] ELSE k[i-1] \o seqs[i]]
        OBVIOUS
      <4>2. Rec(k, 1)
        BY <4>1, <2>R
      <4> QED BY <3>4, <4>2
    <3>5. CASE n # 1
      <4>1. n - 1 \in 1..K /\ n - 1 \notin T
        <5>1. n - 1 \in 1..K /\ ~(n <= n - 1)
          BY <1>1, <3>3, <3>5
        <5> HIDE DEF T
        <5> QED BY <3>2, <5>1
      <4>2. PICK h : Rec(h, n - 1)
        BY <4>1
      <4> DEFINE k == [i \in 1..n |-> IF i < n THEN h[i] ELSE h[n-1] \o seqs[n]]
      <4>3. h = [i \in 1..n-1 |-> IF i = 1 THEN seqs[i] ELSE h[i-1] \o seqs[i]]
        BY <4>2, <2>R
      <4>4. \A i \in 1..n : k[i] = IF i = 1 THEN seqs[i] ELSE k[i-1] \o seqs[i]
        <5> TAKE i \in 1..n
        <5>1. CASE i < n
          <6>1. i \in 1..n-1
            BY <3>3, <5>1
          <6>2. h[i] = IF i = 1 THEN seqs[i] ELSE h[i-1] \o seqs[i]
            BY <4>3, <6>1
          <6>3. i # 1 => i - 1 \in 1..n /\ i - 1 < n
            BY <3>3, <5>1
          <6>4. k[i] = h[i] /\ (i # 1 => k[i-1] = h[i-1])
            BY <3>3, <5>1, <6>3
          <6> HIDE DEF k
          <6> QED BY <6>2, <6>4
        <5>2. CASE ~(i < n)
          <6>1. i = n /\ n - 1 \in 1..n /\ n - 1 < n
            BY <3>3, <3>5, <5>2
          <6>2. n \in 1..n /\ ~(n < n)
            BY <3>3
          <6>3. k[n] = h[n-1] \o seqs[n]
            BY <6>2
          <6>4. k[n-1] = h[n-1]
            BY <6>1
          <6> HIDE DEF k
          <6> QED BY <3>5, <6>1, <6>3, <6>4
        <5> QED BY <5>1, <5>2
      <4>5. k = [i \in 1..n |-> IF i = 1 THEN seqs[i] ELSE k[i-1] \o seqs[i]]
        <5>1. k = [i \in 1..n |-> k[i]]
          OBVIOUS
        <5> HIDE DEF k
        <5> QED BY <4>4, <5>1
      <4>6. Rec(k, n)
        <5> HIDE DEF k
        <5> QED BY <4>5, <2>R
      <4> QED BY <3>2, <4>6
    <3> QED BY <3>4, <3>5
  <2>2. Rec(F, K)
    <3>1. K \in 1..K
      BY <1>1, <1>3
    <3> QED BY <2>1, <3>1
  <2> HIDE DEF F
  <2>3. F = [i \in 1..K |-> IF i = 1 THEN seqs[i] ELSE F[i-1] \o seqs[i]]
    BY <2>2, <2>R
  <2>4. \A i \in 1..K : F[i] = IF i = 1 THEN seqs[i] ELSE F[i-1] \o seqs[i]
    BY <2>3
  <2> QED BY <2>0, <2>4
<1> QED BY <1>4

(* What holds of its parts, and of two sequences put together if it holds of   *)
(* each, holds of the whole.                                                   *)
LEMMA FlattenClosed ==
  ASSUME NEW S, NEW C, C \subseteq Seq(S), <<>> \in C, \A s, t \in C : s \o t \in C,
         NEW seqs \in Seq(C)
  PROVE  FlattenSeq(seqs) \in C
<1> DEFINE K == Len(seqs)
<1>1. K \in Nat /\ (\A i \in 1..K : seqs[i] \in C) /\ seqs \in Seq(Seq(S))
  <2>1. K \in Nat /\ seqs \in [1..K -> C]
    BY LenProperties
  <2>2. seqs \in [1..K -> Seq(S)]
    BY <2>1
  <2> QED BY <2>1, <2>2, SeqDef
<1>2. CASE K = 0
  BY <1>2, EmptySeq DEF FlattenSeq
<1>3. CASE K # 0
  <2>1. PICK F : FlattenSeq(seqs) = F[K] /\ \A i \in 1..K : F[i] = IF i = 1 THEN seqs[i] ELSE F[i-1] \o seqs[i]
    BY <1>1, <1>3, FlattenRec
  <2> HIDE DEF K
  <2>2. \A n \in 1..K : F[n] \in C
    <3> DEFINE T == {n \in 1..K : F[n] \notin C}
    <3>1. SUFFICES ASSUME T # {} PROVE FALSE
      OBVIOUS
    <3>2. PICK n \in T : \A y \in T : n <= y
      <4>1. T \subseteq Nat
        BY <1>1
      <4> HIDE DEF T
      <4> QED BY <3>1, <4>1, Least
    <3>3. n \in 1..K /\ n # 1
      BY <1>1, <2>1
    <3>4. n - 1 \in 1..K /\ n - 1 \notin T
      <4>1. n - 1 \in 1..K /\ ~(n <= n - 1)
        BY <1>1, <3>3
      <4> HIDE DEF T
      <4> QED BY <3>2, <4>1
    <3>5. F[n] = F[n-1] \o seqs[n] /\ F[n-1] \in C /\ seqs[n] \in C
      BY <1>1, <2>1, <3>3, <3>4
    <3> QED BY <3>5
  <2>3. K \in 1..K
    BY <1>1, <1>3
  <2> QED BY <2>1, <2>2, <2>3
<1> QED BY <1>2, <1>3

(* FlattenSeq returns a sequence of what its parts are sequences of. *)
LEMMA FlattenSeqType ==
  ASSUME NEW S, NEW seqs \in Seq(Seq(S)) PROVE FlattenSeq(seqs) \in Seq(S)
<1>1. <<>> \in Seq(S) /\ \A s, t \in Seq(S) : s \o t \in Seq(S)
  BY EmptySeq, ConcatProperties
<1> QED BY <1>1, FlattenClosed

-----------------------------------------------------------------------------
(* The variables have their types *)

(* Lists of statements can be put together. *)
LEMMA Lists ==
  /\ <<>> \in Seq(Stmt)
  /\ \A s \in Stmt : <<s>> \in Seq(Stmt)
  /\ \A s, t \in Seq(Stmt) : s \o t \in Seq(Stmt)
  /\ \A c, s : s \in Seq(Stmt) => If(c, s) \in Seq(Stmt)
  /\ \A s \in Seq(Stmt) : s # <<>> => Head(s) \in Stmt /\ Tail(s) \in Seq(Stmt)
<1>1. <<>> \in Seq(Stmt)
  BY EmptySeq
<1>2. \A s \in Stmt : <<s>> \in Seq(Stmt)
  OBVIOUS
<1>3. \A s, t \in Seq(Stmt) : s \o t \in Seq(Stmt)
  BY ConcatProperties
<1>4. \A c, s : s \in Seq(Stmt) => If(c, s) \in Seq(Stmt)
  BY <1>1 DEF If
<1>5. \A s \in Seq(Stmt) : s # <<>> => Head(s) \in Stmt /\ Tail(s) \in Seq(Stmt)
  BY HeadTailProperties
<1> QED BY <1>1, <1>2, <1>3, <1>4, <1>5

(* What is read from the tables. *)
LEMMA Reads ==
  ASSUME rows \subseteq Rows
  PROVE  /\ \A n : GetType(n) \in RowKinds /\ GetTarget(n) \in Targets
         /\ \A n : GetTypes(n) \subseteq RowKinds
         /\ \A n : IsStored(n) => n \in Places
         /\ \A t, n : RowsOf(t, n) \subseteq rows
<1>1. \A t, n : \A w \in RowsOf(t, n) : w \in Rows /\ w.id = n /\ w.t = t
  BY DEF RowsOf
<1>2. \A n : GetTypes(n) \subseteq RowKinds
  <2> TAKE n
  <2>1. \A w \in RowsOf("nodes", n) : w.kind \in RowKinds
    BY <1>1 DEF Rows
  <2>2. "container" \in RowKinds
    BY DEF RowKinds, Kinds
  <2> QED BY <2>1, <2>2 DEF GetTypes
<1>3. \A n : GetType(n) \in RowKinds
  BY <1>2 DEF GetType, RowKinds
<1>4. \A n : GetTarget(n) \in Targets
  <2> TAKE n
  <2>1. {w.target : w \in RowsOf("links", n)} \subseteq Targets
    BY <1>1 DEF Rows
  <2>2. CASE RowsOf("links", n) = {}
    BY <2>2 DEF GetTarget, Targets
  <2>3. CASE RowsOf("links", n) # {}
    <3>1. {w.target : w \in RowsOf("links", n)} # {}
      BY <2>3
    <3> QED BY <2>1, <2>3, <3>1 DEF GetTarget
  <2> QED BY <2>2, <2>3
<1>5. \A n : IsStored(n) => n \in Places
  BY <1>1 DEF IsStored, Places, Rows
<1>6. \A t, n : RowsOf(t, n) \subseteq rows
  BY DEF RowsOf
<1> QED BY <1>2, <1>3, <1>4, <1>5, <1>6

(* Each statement is one. *)
LEMMA Statements ==
  /\ \A t \in TableNames, n \in Names, k \in RowKinds, m \in Targets : Insert(t, n, k, m) \in Stmt
  /\ \A t \in TableNames, S \in SUBSET Places : Delete(t, S) \in Stmt
  /\ \A t \in TableNames, n \in Places, m \in Names : Rename(t, n, m) \in Stmt
  /\ \A t \in TableNames, n \in Names : Update(t, n) \in Stmt
  /\ \A n \in Names, m \in Targets : Retarget(n, m) \in Stmt
  /\ \A S \in SUBSET Places, b \in BOOLEAN : Select(S, b) \in Stmt
  /\ \A n \in Places, m \in Names : MoveBytes(n, m) \in Stmt /\ CopyBytes(n, m) \in Stmt
  /\ \A n \in Names, m \in Names : Child(n, m) \in Stmt
  /\ \A k \in Kinds, n \in Names : Make(k, n) \in Stmt
  /\ \A n \in Places, b \in BOOLEAN : RemoveBytes(n, b) \in Stmt
  /\ \A n \in Places, to \in Names :
       (\A m \in Under(n) : Renamed(m, n, to) \in Names) => Children(n, to) \in Stmt
<1>1. \A t \in TableNames, n \in Names, k \in RowKinds, m \in Targets : Insert(t, n, k, m) \in Stmt
  BY DEF Stmt, Inserts, Insert
<1>2. \A t \in TableNames, S \in SUBSET Places : Delete(t, S) \in Stmt
  BY DEF Stmt, Deletes, Delete
<1>3. \A t \in TableNames, n \in Places, m \in Names : Rename(t, n, m) \in Stmt
  BY DEF Stmt, Renames, Rename
<1>4. \A t \in TableNames, n \in Names : Update(t, n) \in Stmt
  BY <1>3 DEF Update, Places
<1>5. \A n \in Names, m \in Targets : Retarget(n, m) \in Stmt
  BY DEF Stmt, Retargets, Retarget
<1>6. \A S \in SUBSET Places, b \in BOOLEAN : Select(S, b) \in Stmt
  BY DEF Stmt, Selects, Select
<1>7. \A n \in Places, m \in Names : MoveBytes(n, m) \in Stmt /\ CopyBytes(n, m) \in Stmt
  BY DEF Stmt, MoveS, CopyS, MoveBytes, CopyBytes
<1>8. \A n \in Names, m \in Names : Child(n, m) \in Stmt
  BY DEF Stmt, ChildS, Child
<1>9. \A k \in Kinds, n \in Names : Make(k, n) \in Stmt
  BY DEF Stmt, Makes, Make
<1>10. \A n \in Places, b \in BOOLEAN : RemoveBytes(n, b) \in Stmt
  BY DEF Stmt, RemoveS, RemoveBytes
<1>11. \A n \in Places, to \in Names :
         (\A m \in Under(n) : Renamed(m, n, to) \in Names) => Children(n, to) \in Stmt
  BY DEF Stmt, ChildrenS, Children
<1> QED BY <1>1, <1>2, <1>3, <1>4, <1>5, <1>6, <1>7, <1>8, <1>9, <1>10, <1>11

(* So are the lists the operations are made of. *)
LEMMA StoreDataType ==
  ASSUME NEW n \in Names, NEW kind \in RowKinds, NEW target \in Targets, NEW addl
  PROVE  StoreData(n, kind, target, addl) \in Seq(Stmt)
<1>1. /\ Insert("nodes", n, kind, NoName) \in Stmt /\ Insert("links", n, "", target) \in Stmt
      /\ Insert("addl_props", n, "", NoName) \in Stmt /\ Insert("properties", n, "", NoName) \in Stmt
  BY Statements DEF TableNames, RowKinds, Targets
<1> QED BY <1>1, Lists, Zenon DEF StoreData

(* The statements of updateProperties are statements. *)
LEMMA UpdatePropertiesType ==
  ASSUME NEW n \in Names, NEW target \in Targets, NEW kind, NEW addl
  PROVE  UpdateProperties(n, kind, target, addl) \in Seq(Stmt)
<1>1. /\ Retarget(n, target) \in Stmt /\ Insert("addl_props", n, "", NoName) \in Stmt
      /\ Update("addl_props", n) \in Stmt /\ Update("properties", n) \in Stmt
  BY Statements DEF TableNames, RowKinds, Targets
<1> QED BY <1>1, Lists, Zenon DEF UpdateProperties

(* So are those of updateData, ... *)
LEMMA UpdateDataType ==
  ASSUME rows \subseteq Rows, NEW n \in Places, NEW to \in Names
  PROVE  UpdateData(n, to) \in Seq(Stmt)
<1>1. [i \in 1..3 |-> Rename(Tables[i], n, to)] \in Seq(Stmt)
  <2>1. \A i \in 1..3 : Tables[i] \in TableNames
    BY DEF Tables, TableNames
  <2>2. [i \in 1..3 |-> Rename(Tables[i], n, to)] \in [1..3 -> Stmt]
    BY <2>1, Statements
  <2> HIDE DEF Stmt
  <2> QED BY <2>2, SeqDef
<1>2. UpdateProperties(to, GetType(n), GetTarget(n), RowsOf("addl_props", n) # {}) \in Seq(Stmt)
  BY Reads, UpdatePropertiesType
<1> QED BY <1>1, <1>2, Lists DEF UpdateData

(* ... storeData with what is stored elsewhere, ... *)
LEMMA CopyDataType ==
  ASSUME rows \subseteq Rows, NEW n, NEW to \in Names PROVE CopyData(n, to) \in Seq(Stmt)
BY Reads, StoreDataType DEF CopyData

(* ... removeData, ... *)
LEMMA RemoveDataType ==
  ASSUME NEW n \in Places, NEW container PROVE RemoveData(n, container) \in Seq(Stmt)
<1>1. \A S \in SUBSET Places : DeleteRows(S) \in Seq(Stmt)
  <2> TAKE S \in SUBSET Places
  <2>1. Len(Tables) = 5 /\ \A i \in 1..5 : Tables[i] \in TableNames
    BY DEF Tables, TableNames
  <2>2. DeleteRows(S) \in [1..5 -> Stmt]
    BY <2>1, Statements DEF DeleteRows
  <2> QED BY <2>2, SeqDef
<1>2. Under(n) \in SUBSET Places /\ {n} \in SUBSET Places
  BY DEF Under, Places
<1>3. Select(Under(n), FALSE) \in Stmt /\ Select({n}, TRUE) \in Stmt
  BY <1>2, Statements
<1> QED BY <1>1, <1>2, <1>3, Lists, Zenon DEF RemoveData

(* ... a creation, ... *)
LEMMA CreateStmtsType ==
  ASSUME rows \subseteq Rows, NEW o \in Ops PROVE CreateStmts(o) \in Seq(Stmt)
<1>1. o.id \in Names /\ o.to \in Targets /\ o.kind \in Kinds /\ o.kind \in RowKinds
  BY OpsAssumption DEF Op, Targets, RowKinds
<1>2. /\ Update("nodes", o.id) \in Stmt /\ Insert("capabilities", o.id, "", NoName) \in Stmt
      /\ Make(o.kind, o.id) \in Stmt
  BY <1>1, Statements DEF TableNames, RowKinds, Targets
<1>3. /\ UpdateProperties(o.id, o.kind, o.to, o.addl) \in Seq(Stmt)
      /\ StoreData(o.id, o.kind, o.to, o.addl) \in Seq(Stmt)
  BY <1>1, UpdatePropertiesType, StoreDataType
<1> QED BY <1>2, <1>3, Lists, Zenon DEF CreateStmts

(* ... a deletion, ... *)
LEMMA DeleteStmtsType ==
  ASSUME NEW n \in Places, NEW container \in BOOLEAN
  PROVE  DeleteStmts(n, container) \in Seq(Stmt)
BY RemoveDataType, Statements, Lists DEF DeleteStmts

(* ... a move and a copy. *)
LEMMA MoveStmtsType ==
  ASSUME rows \subseteq Rows, NEW n \in Places, NEW to \in Names,
         \A m \in Under(n) : Renamed(m, n, to) \in Names
  PROVE  MoveStmts(n, to) \in Seq(Stmt) /\ CopyStmts(n, to) \in Seq(Stmt)
<1>1. /\ MoveBytes(n, to) \in Stmt /\ CopyBytes(n, to) \in Stmt /\ Children(n, to) \in Stmt
      /\ UpdateData(n, to) \in Seq(Stmt) /\ CopyData(n, to) \in Seq(Stmt)
  BY Statements, UpdateDataType, CopyDataType
<1> QED BY <1>1, Lists, Zenon DEF MoveStmts, CopyStmts

(* What a request begins with, and what it may change. *)
LEMMA StmtsType ==
  ASSUME rows \subseteq Rows, NEW o \in Ops, Allowed(o), Fits(o), NEW container \in BOOLEAN
  PROVE  /\ Stmts(o, container) \in Seq(Stmt)
         /\ Scope(o) \subseteq Names /\ Needs(o) \subseteq Names
<1>1. o.id \in Names /\ o.do \in {"create", "delete", "move", "copy"}
  BY OpsAssumption DEF Op
<1>2. o.do # "create" => From(o) \in Places
  BY <1>1, Reads DEF Allowed, JobAllowed, From, Places
<1>3. ASSUME o.do = "create" PROVE Stmts(o, container) \in Seq(Stmt)
  <2>1. Stmts(o, container) = CreateStmts(o)
    BY <1>3, Zenon DEF Stmts
  <2> QED BY <2>1, CreateStmtsType
<1>4. ASSUME o.do # "create", ToNull(o) PROVE Stmts(o, container) \in Seq(Stmt)
  <2>1. Stmts(o, container) = DeleteStmts(From(o), container)
    BY <1>4, Zenon DEF Stmts
  <2> QED BY <1>2, <1>4, <2>1, DeleteStmtsType
<1>5. ASSUME o.do \in {"move", "copy"}, ~ToNull(o) PROVE Stmts(o, container) \in Seq(Stmt)
  <2>1. /\ From(o) \in Places /\ To(o) \in Names
        /\ \A m \in Under(From(o)) : Renamed(m, From(o), To(o)) \in Names
    BY <1>2, <1>5 DEF Fits
  <2>2. MoveStmts(From(o), To(o)) \in Seq(Stmt) /\ CopyStmts(From(o), To(o)) \in Seq(Stmt)
    BY <2>1, MoveStmtsType
  <2>3. \/ Stmts(o, container) = MoveStmts(From(o), To(o))
        \/ Stmts(o, container) = CopyStmts(From(o), To(o))
    BY <1>5, Zenon DEF Stmts
  <2> QED BY <2>2, <2>3
<1>6. Stmts(o, container) \in Seq(Stmt)
  BY <1>1, <1>3, <1>4, <1>5 DEF ToNull
<1>7. Scope(o) \subseteq Names
  <2>1. \A n \in Names : Subtree(n) \subseteq Names
    BY DEF Subtree, Under
  <2>2. WithLinks(Subtree(From(o)), LinkRow) \cup WithLinks(Subtree(From(o)), SeenTarget) \subseteq Names
    BY DEF WithLinks
  <2> QED BY <1>1, <2>1, <2>2 DEF Scope
<1>8. Needs(o) \subseteq Names
  BY DEF Needs
<1> QED BY <1>6, <1>7, <1>8

(* The types are right at first. *)
LEMMA InitTyped == Init => Typed
<1> SUFFICES ASSUME Init PROVE Typed
  OBVIOUS
<1>1. PICK E \in Existing : rows = UNION {RowsFor(x) : x \in E}
        /\ file = [n \in Names |-> IF \E x \in E : x.id = n
                     THEN [kind |-> (CHOOSE x \in E : x.id = n).kind, by |-> "init"]
                     ELSE NoFile]
  BY DEF Init
<1>2. IsFiniteSet(E) /\ \A x \in E : x \in [id : Names, kind : Kinds, target : Names \cup {NoName}]
  BY ExistingAssumption
<1>3. \A x \in E : RowsFor(x) \subseteq Rows
  <2>1. \A t \in TableNames, n \in Names, k \in RowKinds, m \in Targets :
          Row(t, n, k, m, "init", 0) \in Rows
    BY DEF Row, Rows
  <2>2. \A x \in E : x.id \in Names /\ x.kind \in RowKinds /\ x.target \in Targets
    BY <1>2 DEF RowKinds, Targets
  <2>3. /\ {"nodes", "properties", "links", "capabilities"} \subseteq TableNames
        /\ "" \in RowKinds /\ NoName \in Targets
    BY DEF TableNames, RowKinds, Targets
  <2> HIDE DEF Rows
  <2> TAKE x \in E
  <2>4. /\ Row("nodes", x.id, x.kind, NoName, "init", 0) \in Rows
        /\ Row("properties", x.id, "", NoName, "init", 0) \in Rows
        /\ Row("links", x.id, "", x.target, "init", 0) \in Rows
        /\ Row("capabilities", x.id, "", NoName, "init", 0) \in Rows
    BY <2>1, <2>2, <2>3
  <2> QED BY <2>4 DEF RowsFor
<1>4. \A x \in E : IsFiniteSet(RowsFor(x))
  <2> TAKE x \in E
  <2> DEFINE a == Row("nodes", x.id, x.kind, NoName, "init", 0)
             b == Row("properties", x.id, "", NoName, "init", 0)
             c == Row("links", x.id, "", x.target, "init", 0)
             d == Row("capabilities", x.id, "", NoName, "init", 0)
  <2>1. IsFiniteSet({a, b, c, d})
    <3>1. IsFiniteSet({a}) /\ IsFiniteSet({b}) /\ IsFiniteSet({c}) /\ IsFiniteSet({d})
      BY FS_Singleton
    <3>2. IsFiniteSet({a} \cup {b}) /\ IsFiniteSet({c} \cup {d})
      BY <3>1, FS_Union
    <3>3. IsFiniteSet(({a} \cup {b}) \cup ({c} \cup {d}))
      BY <3>2, FS_Union
    <3>4. {a, b, c, d} = ({a} \cup {b}) \cup ({c} \cup {d})
      OBVIOUS
    <3> HIDE DEF a, b, c, d
    <3> QED BY <3>3, <3>4
  <2>2. RowsFor(x) \subseteq {a, b, c, d}
    BY DEF RowsFor
  <2> HIDE DEF a, b, c, d
  <2> QED BY <2>1, <2>2, FS_Subset
<1>5. IsFiniteSet({RowsFor(x) : x \in E})
  <2> DEFINE f == [x \in E |-> RowsFor(x)]
             T == {RowsFor(x) : x \in E}
  <2>1. f \in Surjection(E, T)
    BY DEF Surjection
  <2> HIDE DEF f, T
  <2>2. IsFiniteSet(T)
    BY <1>2, <2>1, FS_Surjection
  <2> QED BY <2>2 DEF T
<1>6. IsFiniteSet(rows) /\ rows \subseteq Rows
  <2>1. IsFiniteSet(UNION {RowsFor(x) : x \in E})
    BY <1>4, <1>5, FS_UNION
  <2> QED BY <1>1, <1>3, <2>1
<1>7. file \in [Names -> [kind : Kinds \cup {"none"}, by : Requests \cup {"init", "none"}]]
  <2>1. ASSUME NEW n \in Names, \E x \in E : x.id = n
        PROVE  (CHOOSE x \in E : x.id = n).kind \in Kinds
    BY <1>2, <2>1
  <2> QED BY <1>1, <2>1 DEF NoFile
<1>8. todo \in [Requests -> Seq(Stmt)]
  BY Lists DEF Init
<1>9. DOMAIN before = Requests /\ \A r \in Requests : DOMAIN before[r] \subseteq Names
  <2>1. before = [r \in Requests |-> <<>>] /\ DOMAIN <<>> = {}
    BY DEF Init
  <2> QED BY <2>1
<1> QED BY <1>6, <1>7, <1>8, <1>9, BoundsAssumption DEF Init, Typed
(* Executing a statement leaves rows that are rows. *)
LEMMA RowsAfterType ==
  ASSUME IsFiniteSet(rows), rows \subseteq Rows, NEW r \in Requests, NEW s \in Stmt,
         s.do \in Writes
  PROVE  IsFiniteSet(RowsAfter(s, r)) /\ RowsAfter(s, r) \subseteq Rows
<1>1. CASE s.do = "insert"
  <2> DEFINE n == Cardinality({w \in rows : w.t = s.t /\ w.id = s.id /\ w.by = r})
             x == Row(s.t, s.id, s.kind, s.target, r, n)
  <2>1. s \in Inserts
    BY <1>1 DEF Stmt, Deletes, Renames, Retargets, Selects, ChildrenS, ChildS, Makes,
                MoveS, CopyS, RemoveS
  <2>2. n \in Nat
    <3>1. IsFiniteSet({w \in rows : w.t = s.t /\ w.id = s.id /\ w.by = r})
      BY FS_Subset
    <3> QED BY <3>1, FS_CardinalityType
  <2> HIDE DEF n
  <2>3. x \in Rows
    BY <2>1, <2>2 DEF Row, Rows, Inserts
  <2>4. RowsAfter(s, r) = rows \cup {x}
    BY <1>1 DEF RowsAfter, n
  <2> HIDE DEF x
  <2> QED BY <2>3, <2>4, FS_AddElement
<1>2. CASE s.do = "delete"
  <2>1. RowsAfter(s, r) \subseteq rows
    BY <1>2 DEF RowsAfter
  <2> QED BY <2>1, FS_Subset
<1>3. ASSUME NEW f, f = [w \in rows |-> f[w]], \A w \in rows : f[w] \in Rows,
             RowsAfter(s, r) = {f[w] : w \in rows}
      PROVE  IsFiniteSet(RowsAfter(s, r)) /\ RowsAfter(s, r) \subseteq Rows
  <2> DEFINE T == {f[w] : w \in rows}
  <2>1. f \in Surjection(rows, T)
    BY <1>3 DEF Surjection
  <2> HIDE DEF T
  <2>2. IsFiniteSet(T)
    BY <2>1, FS_Surjection
  <2> QED BY <1>3, <2>2 DEF T
<1>4. CASE s.do = "rename"
  <2>1. s \in Renames
    BY <1>4 DEF Stmt, Deletes, Inserts, Retargets, Selects, ChildrenS, ChildS, Makes,
                MoveS, CopyS, RemoveS
  <2> DEFINE f == [w \in rows |-> IF w.t = s.t /\ w.id = s.id THEN [w EXCEPT !.id = s.to] ELSE w]
  <2>2. \A w \in rows : f[w] \in Rows
    BY <2>1 DEF Rows, Renames
  <2>3. RowsAfter(s, r) = {f[w] : w \in rows}
    BY <1>4 DEF RowsAfter
  <2>4. f = [w \in rows |-> f[w]]
    OBVIOUS
  <2> HIDE DEF f
  <2> QED BY <1>3, <2>2, <2>3, <2>4
<1>5. CASE s.do = "retarget"
  <2>1. s \in Retargets
    BY <1>5 DEF Stmt, Deletes, Inserts, Renames, Selects, ChildrenS, ChildS, Makes,
                MoveS, CopyS, RemoveS
  <2> DEFINE f == [w \in rows |->
                     IF w.t = "links" /\ w.id = s.id THEN [w EXCEPT !.target = s.target] ELSE w]
  <2>2. \A w \in rows : f[w] \in Rows
    BY <2>1 DEF Rows, Retargets
  <2>3. RowsAfter(s, r) = {f[w] : w \in rows}
    BY <1>5 DEF RowsAfter
  <2>4. f = [w \in rows |-> f[w]]
    OBVIOUS
  <2> HIDE DEF f
  <2> QED BY <1>3, <2>2, <2>3, <2>4
<1> QED BY <1>1, <1>2, <1>4, <1>5 DEF Writes

(* The kinds of statements that requests stop at. *)
LEMMA KindsOfStmts ==
  ASSUME NEW s \in Stmt
  PROVE  /\ s.do = "select" => s.ids \subseteq Places
         /\ s.do = "children" => /\ s.id \in Places /\ s.to \in Names
                                 /\ \A m \in Under(s.id) : Renamed(m, s.id, s.to) \in Names
         /\ s.do = "child" => s.id \in Names /\ s.to \in Names
         /\ s.do = "make" => s.kind \in Kinds /\ s.id \in Names
BY DEF Stmt, Deletes, Inserts, Renames, Selects, Retargets, ChildrenS, ChildS, Makes,
       MoveS, CopyS, RemoveS

(* What is inserted into a list of statements. *)
LEMMA SelectType ==
  ASSUME NEW links \in SUBSET Names, IsFiniteSet(links)
  PROVE  LET order == SetToSeq(links)
         IN /\ FlattenSeq([i \in 1..Len(order) |-> RemoveData(order[i], FALSE)]) \in Seq(Stmt)
            /\ [i \in 1..Len(order) |-> RemoveBytes(order[i], FALSE)] \in Seq(Stmt)
<1> DEFINE order == SetToSeq(links)
<1>1. order \in Seq(links)
  BY SetToSeqLists
<1> HIDE DEF order
<1>2. Len(order) \in Nat /\ \A i \in 1..Len(order) : order[i] \in Places
  BY <1>1 DEF Places
<1>3. [i \in 1..Len(order) |-> RemoveData(order[i], FALSE)] \in [1..Len(order) -> Seq(Stmt)]
  BY <1>2, RemoveDataType
<1>4. [i \in 1..Len(order) |-> RemoveData(order[i], FALSE)] \in Seq(Seq(Stmt))
  <2> DEFINE S == Seq(Stmt)
             f == [i \in 1..Len(order) |-> RemoveData(order[i], FALSE)]
  <2>1. f \in [1..Len(order) -> S]
    BY <1>3
  <2> HIDE DEF S, f
  <2>2. f \in Seq(S)
    BY <1>2, <2>1, SeqDef
  <2> QED BY <2>2 DEF S, f
<1>5. FlattenSeq([i \in 1..Len(order) |-> RemoveData(order[i], FALSE)]) \in Seq(Stmt)
  BY <1>4, FlattenSeqType
<1>6. [i \in 1..Len(order) |-> RemoveBytes(order[i], FALSE)] \in [1..Len(order) -> Stmt]
  BY <1>2, Statements
<1>7. [i \in 1..Len(order) |-> RemoveBytes(order[i], FALSE)] \in Seq(Stmt)
  BY <1>2, <1>6, SeqDef
<1> QED BY <1>5, <1>7 DEF order

(* What getAllChildren adds to a todo list are statements. *)
LEMMA ChildrenType ==
  ASSUME NEW S \in SUBSET Names, IsFiniteSet(S), NEW n, NEW to,
         \A m \in S : Renamed(m, n, to) \in Names
  PROVE  LET order == SetToSeq(S)
         IN [i \in 1..Len(order) |-> Child(order[i], Renamed(order[i], n, to))] \in Seq(Stmt)
<1> DEFINE order == SetToSeq(S)
<1>1. order \in Seq(S)
  BY SetToSeqLists
<1> HIDE DEF order
<1>2. Len(order) \in Nat /\ \A i \in 1..Len(order) : order[i] \in S
  BY <1>1
<1>3. [i \in 1..Len(order) |-> Child(order[i], Renamed(order[i], n, to))] \in [1..Len(order) -> Stmt]
  BY <1>2, Statements
<1>4. [i \in 1..Len(order) |-> Child(order[i], Renamed(order[i], n, to))] \in Seq(Stmt)
  BY <1>2, <1>3, SeqDef
<1> QED BY <1>4 DEF order

(* Every step keeps the types. *)
LEMMA TypedStep == ASSUME Typed, [Next]_vars PROVE Typed'
<1> DEFINE F == [kind : Kinds \cup {"none"}, by : Requests \cup {"init", "none"}]
<1>D. /\ IsFiniteSet(rows) /\ rows \subseteq Rows /\ file \in [Names -> F]
      /\ pc \in [Requests -> {"idle", "called", "run", "done", "refused", "failed"}]
      /\ op \in [Requests -> Ops] /\ todo \in [Requests -> Seq(Stmt)]
      /\ found \in [Requests -> SUBSET Names] /\ tries \in [Requests -> 1..Retries]
      /\ losses \in 0..MaxLosses
      /\ DOMAIN before = Requests /\ (\A r \in Requests : DOMAIN before[r] \subseteq Names)
      /\ needs \in [Requests -> SUBSET Names] /\ sweeps \in SUBSET Requests
      /\ unclear \in SUBSET Names
  BY DEF Typed
<1>T. Typed' <=>
      /\ IsFiniteSet(rows') /\ rows' \subseteq Rows /\ file' \in [Names -> F]
      /\ pc' \in [Requests -> {"idle", "called", "run", "done", "refused", "failed"}]
      /\ op' \in [Requests -> Ops] /\ todo' \in [Requests -> Seq(Stmt)]
      /\ found' \in [Requests -> SUBSET Names] /\ tries' \in [Requests -> 1..Retries]
      /\ losses' \in 0..MaxLosses
      /\ DOMAIN before' = Requests /\ (\A r \in Requests : DOMAIN before'[r] \subseteq Names)
      /\ needs' \in [Requests -> SUBSET Names] /\ sweeps' \in SUBSET Requests
      /\ unclear' \in SUBSET Names
  BY DEF Typed
<1> HIDE DEF F
<1>N. Retries \in Nat \ {0} /\ MaxLosses \in Nat
  BY BoundsAssumption
<1>S. \A r \in Requests : scope[r] \subseteq Names
  BY <1>D DEF scope
<1>H. \A r \in Requests : pc[r] = "run" /\ todo[r] # <<>> =>
        Head1(r) \in Stmt /\ Tail(todo[r]) \in Seq(Stmt)
  BY <1>D, Lists DEF Head1
<1>A. ASSUME NEW r \in Requests, NEW rest \in Seq(Stmt), Advance(r, rest)
      PROVE  todo' \in [Requests -> Seq(Stmt)] /\ tries' \in [Requests -> 1..Retries]
  BY <1>A, <1>D, <1>N DEF Advance
<1>F. ASSUME NEW r \in Requests, Finished(r)
      PROVE  /\ todo' \in [Requests -> Seq(Stmt)] /\ tries' \in [Requests -> 1..Retries]
             /\ found' \in [Requests -> SUBSET Names]
             /\ DOMAIN before' = Requests /\ (\A q \in Requests : DOMAIN before'[q] \subseteq Names)
             /\ needs' \in [Requests -> SUBSET Names] /\ sweeps' \in SUBSET Requests
             /\ rows' = rows /\ file' = file /\ op' = op /\ losses' = losses
  <2>1. DOMAIN <<>> = {}
    OBVIOUS
  <2>2. \A q \in Requests : DOMAIN before'[q] \subseteq Names
    BY <1>F, <1>D, <2>1 DEF Finished
  <2> QED BY <1>F, <1>D, <1>N, <2>2, Lists DEF Finished, store
<1>1. ASSUME NEW r \in Requests, Call(r) PROVE Typed'
  BY <1>1, <1>D, <1>T DEF Call, store, aux
<1>2. ASSUME NEW r \in Requests, Refuse(r) PROVE Typed'
  BY <1>2, <1>D, <1>T DEF Refuse, store, aux
<1>3. ASSUME NEW r \in Requests, Begin(r) PROVE Typed'
  <2> DEFINE o == op[r]
             met == Met(r, Scope(o), Needs(o))
             doubts == (Scope(o) \cup Needs(o)) \cap unclear
  <2>1. /\ Allowed(o) /\ Fits(o)
        /\ pc' = [pc EXCEPT ![r] = "run"]
        /\ \E kind \in GetTypes(From(o)) \cup {"none"} :
             /\ todo' = [todo EXCEPT ![r] = Stmts(o, kind = "container")]
             /\ sweeps' \in {sweeps \cup {r}, sweeps \ met}
        /\ before' = [before EXCEPT ![r] = [n \in Scope(o) |-> Stored(n)]]
        /\ needs' = [needs EXCEPT ![r] = Needs(o)]
        /\ unclear' = unclear
             \cup (IF met # {} \/ doubts # {} \/ Amiss(o) THEN Scope(o) ELSE {})
             \cup UNION {scope[q] : q \in met}
        /\ UNCHANGED <<rows, file, op, found, tries, losses>>
    BY <1>3 DEF Begin, store
  <2>2. o \in Ops
    BY <1>D
  <2>3. \A b \in BOOLEAN : Stmts(o, b) \in Seq(Stmt)
    BY <1>D, <2>1, <2>2, StmtsType
  <2>4. Scope(o) \subseteq Names /\ Needs(o) \subseteq Names
    BY <1>D, <2>1, <2>2, StmtsType
  <2>5. met \subseteq Requests
    BY DEF Met, Running
  <2> HIDE DEF o, met, doubts
  <2>t. PICK b \in BOOLEAN : todo' = [todo EXCEPT ![r] = Stmts(o, b)]
    <3>1. PICK kind : todo' = [todo EXCEPT ![r] = Stmts(o, kind = "container")]
      BY <2>1
    <3> QED BY <3>1
  <2>6. todo' \in [Requests -> Seq(Stmt)]
    <3>1. Stmts(o, b) \in Seq(Stmt)
      BY <2>3
    <3> QED BY <2>t, <3>1, <1>D
  <2>7. unclear' \subseteq Names
    BY <2>1, <2>4, <2>5, <1>D, <1>S
  <2>8. sweeps' \subseteq Requests
    BY <2>1, <2>5, <1>D
  <2>9. DOMAIN before' = Requests /\ (\A q \in Requests : DOMAIN before'[q] \subseteq Names)
    BY <2>1, <2>4, <1>D
  <2> QED BY <2>1, <2>4, <2>6, <2>7, <2>8, <2>9, <1>D, <1>T
<1>4. ASSUME NEW r \in Requests, Execute(r) PROVE Typed'
  <2>1. pc[r] = "run" /\ todo[r] # <<>> /\ Head1(r).do \in Writes
    BY <1>4 DEF Execute, Doing
  <2>2. IsFiniteSet(rows') /\ rows' \subseteq Rows
    BY <1>4, <1>D, <1>H, <2>1, RowsAfterType DEF Execute
  <2>3. Advance(r, Tail(todo[r])) /\ UNCHANGED <<file, pc, op, found, losses, aux>>
    BY <1>4 DEF Execute
  <2>4. todo' \in [Requests -> Seq(Stmt)] /\ tries' \in [Requests -> 1..Retries]
    BY <2>1, <2>3, <1>H, <1>A
  <2> QED BY <2>2, <2>3, <2>4, <1>D, <1>T DEF aux
<1>5. ASSUME NEW r \in Requests, Lose(r) PROVE Typed'
  <2>1. pc[r] = "run" /\ todo[r] # <<>> /\ Head1(r).do \in Writes /\ losses < MaxLosses
    BY <1>5 DEF Lose, Doing
  <2>2. IsFiniteSet(rows') /\ rows' \subseteq Rows
    BY <1>5, <1>D, <1>H, <2>1, RowsAfterType DEF Lose
  <2>3. todo' \in [Requests -> Seq(Stmt)] /\ tries' \in [Requests -> 1..Retries]
    <3>1. CASE tries[r] > 1
      BY <1>5, <1>D, <1>N, <3>1 DEF Lose
    <3>2. CASE ~(tries[r] > 1)
      <4>1. Advance(r, Tail(todo[r]))
        BY <1>5, <3>2 DEF Lose
      <4> QED BY <4>1, <2>1, <1>H, <1>A
    <3> QED BY <3>1, <3>2
  <2>4. unclear' \subseteq Names /\ sweeps' \subseteq Requests
    <3>1. \/ unclear' = unclear \cup scope[r] /\ sweeps' = sweeps \ {r}
          \/ unclear' = unclear /\ sweeps' = sweeps
      BY <1>5 DEF Lose
    <3> QED BY <3>1, <1>D, <1>S
  <2>5. losses' \in 0..MaxLosses
    BY <1>5, <2>1, <1>D, <1>N DEF Lose
  <2>6. UNCHANGED <<file, pc, op, found, before, needs>>
    BY <1>5 DEF Lose
  <2> QED BY <2>2, <2>3, <2>4, <2>5, <2>6, <1>D, <1>T
<1>6. ASSUME NEW r \in Requests, SelectLinks(r) PROVE Typed'
  <2> DEFINE s == Head1(r)
             links == found[r] \cup {w.id : w \in {v \in rows : v.t = "links" /\ v.target \in s.ids}}
             order == SetToSeq(links)
             late == links \ scope[r]
             met == Met(r, late, {})
             first == FlattenSeq([i \in 1..Len(order) |-> RemoveData(order[i], FALSE)])
             last == [i \in 1..Len(order) |-> RemoveBytes(order[i], FALSE)]
  <2>1. pc[r] = "run" /\ todo[r] # <<>> /\ UNCHANGED <<rows, file, pc, op, losses, needs>>
    BY <1>6 DEF SelectLinks, Doing, store
  <2>2. \/ Advance(r, first \o Tail(todo[r]) \o last) /\ found' = [found EXCEPT ![r] = {}]
        \/ Advance(r, Tail(todo[r])) /\ found' = [found EXCEPT ![r] = links]
    BY <1>6 DEF SelectLinks
  <2>3. links \in SUBSET Names /\ IsFiniteSet(links)
    <3>1. links \in SUBSET Names
      BY <1>D DEF Rows
    <3> HIDE DEF links
    <3> QED BY <3>1, FS_Subset, NamesAssumption
  <2>4. first \in Seq(Stmt) /\ last \in Seq(Stmt)
    <3> HIDE DEF links
    <3> QED BY <2>3, SelectType
  <2>A. /\ before' = [before EXCEPT ![r] =
                        [n \in scope[r] \cup late |-> IF n \in late THEN Stored(n) ELSE @[n]]]
        /\ sweeps' = IF late = {} THEN sweeps ELSE sweeps \ (met \cup {r})
        /\ unclear' = unclear \cup (IF late = {} THEN {} ELSE scope[r] \cup late)
                               \cup UNION {scope[q] : q \in met}
    BY <1>6 DEF SelectLinks
  <2>B. late \subseteq Names /\ met \subseteq Requests
    BY <2>3 DEF Met, Running
  <2> HIDE DEF first, last, links, late, met
  <2>C. DOMAIN before' = Requests /\ (\A q \in Requests : DOMAIN before'[q] \subseteq Names)
    <3>1. scope[r] \cup late \subseteq Names
      BY <2>B, <1>S
    <3> QED BY <2>A, <3>1, <1>D
  <2>D. sweeps' \subseteq Requests /\ unclear' \subseteq Names
    BY <2>A, <2>B, <1>D, <1>S
  <2>5. first \o Tail(todo[r]) \o last \in Seq(Stmt) /\ Tail(todo[r]) \in Seq(Stmt)
    BY <2>1, <2>4, <1>H, Lists
  <2>6. todo' \in [Requests -> Seq(Stmt)] /\ tries' \in [Requests -> 1..Retries]
    BY <2>2, <2>5, <1>A
  <2>7. found' \in [Requests -> SUBSET Names]
    BY <2>2, <2>3, <1>D
  <2> QED BY <2>1, <2>6, <2>7, <2>C, <2>D, <1>D, <1>T
<1>7. ASSUME NEW r \in Requests, FindChildren(r) PROVE Typed'
  <2> DEFINE s == Head1(r)
             S == {n \in Under(s.id) : IsStored(n)}
             order == SetToSeq(S)
             list == [i \in 1..Len(order) |-> Child(order[i], Renamed(order[i], s.id, s.to))]
  <2>1. /\ pc[r] = "run" /\ todo[r] # <<>> /\ s.do = "children"
        /\ UNCHANGED <<rows, file, pc, op, found, losses, aux>>
    BY <1>7 DEF FindChildren, Doing, store
  <2>2. Advance(r, list \o Tail(todo[r]))
    BY <1>7 DEF FindChildren
  <2>3. S \in SUBSET Names /\ IsFiniteSet(S) /\ \A m \in S : Renamed(m, s.id, s.to) \in Names
    <3>1. S \in SUBSET Names
      BY DEF Under
    <3>2. \A m \in S : Renamed(m, s.id, s.to) \in Names
      BY <2>1, <1>H, KindsOfStmts
    <3> HIDE DEF S
    <3> QED BY <3>1, <3>2, FS_Subset, NamesAssumption
  <2>4. list \in Seq(Stmt)
    <3> HIDE DEF S
    <3> QED BY <2>3, ChildrenType
  <2> HIDE DEF list
  <2>5. todo' \in [Requests -> Seq(Stmt)] /\ tries' \in [Requests -> 1..Retries]
    BY <2>1, <2>2, <2>4, <1>H, <1>A, Lists
  <2> QED BY <2>1, <2>5, <1>D, <1>T DEF aux
<1>8. ASSUME NEW r \in Requests, ReadChild(r) PROVE Typed'
  <2> DEFINE s == Head1(r)
             list == IF op[r].do = "move" THEN UpdateData(s.id, s.to) ELSE CopyData(s.id, s.to)
  <2>1. /\ pc[r] = "run" /\ todo[r] # <<>> /\ s.do = "child"
        /\ UNCHANGED <<rows, file, pc, op, found, losses, aux>>
    BY <1>8 DEF ReadChild, Doing, store
  <2>2. Advance(r, list \o Tail(todo[r]))
    BY <1>8 DEF ReadChild
  <2>3. s.id \in Names /\ s.to \in Names
    BY <2>1, <1>H, KindsOfStmts
  <2>4. list \in Seq(Stmt)
    BY <2>3, <1>D, UpdateDataType, CopyDataType DEF Places
  <2> HIDE DEF list
  <2>5. todo' \in [Requests -> Seq(Stmt)] /\ tries' \in [Requests -> 1..Retries]
    BY <2>1, <2>2, <2>4, <1>H, <1>A, Lists
  <2> QED BY <2>1, <2>5, <1>D, <1>T DEF aux
<1>P. ASSUME NEW f \in [Names -> F], NEW n, NEW r \in Requests PROVE WithParents(f, n, r) \in [Names -> F]
  BY DEF WithParents, Put, F, Kinds
<1>9. ASSUME NEW r \in Requests, MakeFile(r) PROVE Typed'
  <2> DEFINE s == Head1(r)
  <2>1. /\ pc[r] = "run" /\ todo[r] # <<>> /\ s.do = "make"
        /\ file' = IF file[s.id] # NoFile THEN file
                   ELSE [WithParents(file, s.id, r) EXCEPT ![s.id] = Put(r, s.id, s.kind)]
        /\ Advance(r, Tail(todo[r]))
        /\ UNCHANGED <<rows, pc, op, found, losses, aux>>
    BY <1>9 DEF MakeFile, Doing
  <2>2. s.id \in Names /\ s.kind \in Kinds
    BY <2>1, <1>H, KindsOfStmts
  <2> HIDE DEF s
  <2>3. Put(r, s.id, s.kind) \in F
    BY <2>2 DEF Put, F
  <2>4. file' \in [Names -> F]
    BY <2>1, <2>2, <2>3, <1>D, <1>P
  <2>5. todo' \in [Requests -> Seq(Stmt)] /\ tries' \in [Requests -> 1..Retries]
    BY <2>1, <1>H, <1>A
  <2> QED BY <2>1, <2>4, <2>5, <1>D, <1>T DEF aux
<1>10. ASSUME NEW r \in Requests, MoveFiles(r) PROVE Typed'
  <2> DEFINE s == Head1(r)
             f == [m \in Names |->
                     IF m \in Subtree(s.to) /\ Renamed(m, s.to, s.id) \in Names
                       THEN file[Renamed(m, s.to, s.id)]
                     ELSE IF m \in Subtree(s.id) THEN NoFile ELSE file[m]]
  <2>1. /\ pc[r] = "run" /\ todo[r] # <<>>
        /\ file' = WithParents(f, s.to, r)
        /\ Advance(r, Tail(todo[r]))
        /\ UNCHANGED <<rows, pc, op, found, losses, aux>>
    BY <1>10 DEF MoveFiles, Doing
  <2>2. f \in [Names -> F]
    <3>1. NoFile \in F
      BY DEF F, NoFile
    <3> QED BY <3>1, <1>D
  <2> HIDE DEF f
  <2>3. file' \in [Names -> F]
    BY <2>1, <2>2, <1>P
  <2>4. todo' \in [Requests -> Seq(Stmt)] /\ tries' \in [Requests -> 1..Retries]
    BY <2>1, <1>H, <1>A
  <2> QED BY <2>1, <2>3, <2>4, <1>D, <1>T DEF aux
<1>11. ASSUME NEW r \in Requests, CopyFiles(r) PROVE Typed'
  <2> DEFINE s == Head1(r)
             L == {m \in Subtree(s.id) : file[m].kind = "link"}
             f(led) == [m \in Names |->
               LET src == Renamed(m, s.to, s.id)
               IN IF m \in Subtree(s.to) /\ src \in Names /\ file[src] # NoFile
                  THEN Put(r, m, IF src \in DOMAIN led THEN led[src] ELSE file[src].kind)
                  ELSE file[m]]
  <2>1. /\ pc[r] = "run" /\ todo[r] # <<>>
        /\ \E led \in [L -> {"container", "data"}] : file' = WithParents(f(led), s.to, r)
        /\ Advance(r, Tail(todo[r]))
        /\ UNCHANGED <<rows, pc, op, found, losses, aux>>
    BY <1>11 DEF CopyFiles, Doing
  <2>2. ASSUME NEW led \in [L -> {"container", "data"}] PROVE f(led) \in [Names -> F]
    <3>1. \A m \in Names : file[m] \in F /\ file[m].kind \in Kinds \cup {"none"}
      BY <1>D DEF F
    <3>2. \A x \in DOMAIN led : led[x] \in Kinds \cup {"none"}
      BY DEF Kinds
    <3>3. \A m, k : k \in Kinds \cup {"none"} => Put(r, m, k) \in F
      BY DEF Put, F
    <3> HIDE DEF L
    <3> QED BY <3>1, <3>2, <3>3
  <2> HIDE DEF f, L
  <2>3. file' \in [Names -> F]
    BY <2>1, <2>2, <1>P
  <2>4. todo' \in [Requests -> Seq(Stmt)] /\ tries' \in [Requests -> 1..Retries]
    BY <2>1, <1>H, <1>A
  <2> QED BY <2>1, <2>3, <2>4, <1>D, <1>T DEF aux
<1>12. ASSUME NEW r \in Requests, RemoveFiles(r) PROVE Typed'
  <2> DEFINE s == Head1(r)
             f == [m \in Names |-> IF m \in Subtree(s.id) THEN NoFile ELSE file[m]]
  <2>1. /\ pc[r] = "run" /\ todo[r] # <<>>
        /\ file' = file \/ file' = f
        /\ Advance(r, Tail(todo[r]))
        /\ UNCHANGED <<rows, pc, op, found, losses, aux>>
    BY <1>12 DEF RemoveFiles, Doing
  <2>2. f \in [Names -> F]
    <3>1. NoFile \in F
      BY DEF F, NoFile
    <3> QED BY <3>1, <1>D
  <2> HIDE DEF f
  <2>3. file' \in [Names -> F]
    BY <2>1, <2>2, <1>D
  <2>4. todo' \in [Requests -> Seq(Stmt)] /\ tries' \in [Requests -> 1..Retries]
    BY <2>1, <1>H, <1>A
  <2> QED BY <2>1, <2>3, <2>4, <1>D, <1>T DEF aux
<1>13. ASSUME NEW r \in Requests, Return(r) \/ Unmoved(r) \/ Fail(r) PROVE Typed'
  <2>1. Finished(r)
    BY <1>13 DEF Return, Unmoved, Fail
  <2>2. pc' \in [Requests -> {"idle", "called", "run", "done", "refused", "failed"}]
    BY <1>13, <1>D DEF Return, Unmoved, Fail
  <2>3. unclear' \subseteq Names
    <3>1. unclear' \subseteq unclear \cup scope[r]
      BY <1>13 DEF Return, Unmoved, Fail
    <3> QED BY <3>1, <1>D, <1>S
  <2> QED BY <2>1, <2>2, <2>3, <1>F, <1>D, <1>T
<1>14. CASE UNCHANGED vars
  BY <1>14, <1>D, <1>T DEF vars, store, aux
<1> QED BY <1>1, <1>2, <1>3, <1>4, <1>5, <1>6, <1>7, <1>8, <1>9, <1>10, <1>11, <1>12, <1>13,
           <1>14 DEF Next, Step

(* The types are right always. *)
LEMMA TypedInvariant == Spec => []Typed
BY InitTyped, TypedStep, PTL DEF Spec

(* The variables have their types, for any names, operations, trees and losses: *)
(* what requests write are rows and files of names there can be.                *)
THEOREM TypeCorrect == Spec => []TypeOK
<1>1. Typed => TypeOK
  BY DEF Typed, TypeOK, Rows
<1> QED BY <1>1, TypedInvariant, PTL

-----------------------------------------------------------------------------
(* Names *)

(* A strict prefix is shorter and agrees as far as it goes. *)
LEMMA PrefixByIndex ==
  ASSUME NEW a \in Seq(Parts), NEW b \in Seq(Parts)
  PROVE  /\ IsPrefix(a, b) <=> Len(a) <= Len(b) /\ \A i \in 1..Len(a) : a[i] = b[i]
         /\ IsStrictPrefix(a, b) <=> Len(a) < Len(b) /\ \A i \in 1..Len(a) : a[i] = b[i]
<1>0. Len(a) \in Nat /\ Len(b) \in Nat
  OBVIOUS
<1>1. ASSUME Len(a) <= Len(b)
      PROVE  SubSeq(a, 1, Len(a)) = SubSeq(b, 1, Len(a)) <=> \A i \in 1..Len(a) : a[i] = b[i]
  <2>1. SubSeq(a, 1, Len(a)) = [i \in 1..Len(a) |-> a[i]]
    BY <1>0 
  <2>2. SubSeq(b, 1, Len(a)) = [i \in 1..Len(a) |-> b[i]]
    BY <1>0, <1>1
  <2> QED BY <2>1, <2>2
<1>2. IsPrefix(a, b) <=> Len(a) <= Len(b) /\ \A i \in 1..Len(a) : a[i] = b[i]
  BY <1>1 DEF IsPrefix
<1>3. ASSUME IsPrefix(a, b) PROVE a # b <=> Len(a) < Len(b)
  <2>1. ASSUME ~(Len(a) < Len(b)) PROVE a = b
    <3>1. Len(a) = Len(b) /\ \A i \in 1..Len(a) : a[i] = b[i]
      BY <1>0, <1>2, <1>3, <2>1
    <3> QED BY <3>1, SeqEqual
  <2> QED BY <1>0, <2>1
<1> QED BY <1>0, <1>2, <1>3 DEF IsStrictPrefix

(* The order of prefixes. *)
LEMMA StrictPrefixes ==
  ASSUME NEW a \in Seq(Parts), NEW b \in Seq(Parts), NEW c \in Seq(Parts)
  PROVE  /\ ~IsStrictPrefix(a, a)
         /\ IsStrictPrefix(a, b) => ~IsStrictPrefix(b, a)
         /\ IsStrictPrefix(a, b) /\ IsStrictPrefix(b, c) => IsStrictPrefix(a, c)
         /\ IsStrictPrefix(a, c) /\ IsStrictPrefix(b, c) =>
              a = b \/ IsStrictPrefix(a, b) \/ IsStrictPrefix(b, a)
<1>0. Len(a) \in Nat /\ Len(b) \in Nat /\ Len(c) \in Nat
  OBVIOUS
<1> DEFINE P(x, y) == Len(x) < Len(y) /\ \A i \in 1..Len(x) : x[i] = y[i]
<1>P. \A x, y \in Seq(Parts) : IsStrictPrefix(x, y) <=> P(x, y)
  BY PrefixByIndex
<1>1. ~P(a, a) /\ (P(a, b) => ~P(b, a))
  BY <1>0
<1>2. P(a, b) /\ P(b, c) => P(a, c)
  <2> SUFFICES ASSUME P(a, b), P(b, c) PROVE P(a, c)
    OBVIOUS
  <2>1. \A i \in 1..Len(a) : i \in 1..Len(b)
    BY <1>0
  <2> QED BY <1>0, <2>1
<1>3. P(a, c) /\ P(b, c) => a = b \/ P(a, b) \/ P(b, a)
  <2> SUFFICES ASSUME P(a, c), P(b, c) PROVE a = b \/ P(a, b) \/ P(b, a)
    OBVIOUS
  <2>1. CASE Len(a) < Len(b)
    <3>1. \A i \in 1..Len(a) : i \in 1..Len(b)
      BY <1>0, <2>1
    <3> QED BY <2>1, <3>1
  <2>2. CASE Len(b) < Len(a)
    <3>1. \A i \in 1..Len(b) : i \in 1..Len(a)
      BY <1>0, <2>2
    <3> QED BY <2>2, <3>1
  <2>3. CASE Len(a) = Len(b)
    <3>1. \A i \in 1..Len(a) : a[i] = b[i]
      BY <2>3
    <3> QED BY <2>3, <3>1, SeqEqual
  <2> QED BY <1>0, <2>1, <2>2, <2>3
<1> HIDE DEF P
<1>4. /\ IsStrictPrefix(a, a) <=> P(a, a)
      /\ IsStrictPrefix(a, b) <=> P(a, b)
      /\ IsStrictPrefix(b, a) <=> P(b, a)
      /\ IsStrictPrefix(b, c) <=> P(b, c)
      /\ IsStrictPrefix(a, c) <=> P(a, c)
  BY <1>P
<1> QED BY <1>1, <1>2, <1>3, <1>4, Zenon

(* The same, for quantified names. *)
LEMMA PrefixOrder ==
  /\ \A a \in Seq(Parts) : ~IsStrictPrefix(a, a)
  /\ \A a, b \in Seq(Parts) : IsStrictPrefix(a, b) => ~IsStrictPrefix(b, a)
  /\ \A a, b, c \in Seq(Parts) : IsStrictPrefix(a, b) /\ IsStrictPrefix(b, c) => IsStrictPrefix(a, c)
  /\ \A a, b, c \in Seq(Parts) : IsStrictPrefix(a, c) /\ IsStrictPrefix(b, c) =>
       a = b \/ IsStrictPrefix(a, b) \/ IsStrictPrefix(b, a)
<1>1. \A a, b, c \in Seq(Parts) :
        /\ ~IsStrictPrefix(a, a)
        /\ IsStrictPrefix(a, b) => ~IsStrictPrefix(b, a)
        /\ IsStrictPrefix(a, b) /\ IsStrictPrefix(b, c) => IsStrictPrefix(a, c)
        /\ IsStrictPrefix(a, c) /\ IsStrictPrefix(b, c) =>
             a = b \/ IsStrictPrefix(a, b) \/ IsStrictPrefix(b, a)
  BY StrictPrefixes
<1> QED BY <1>1, Zenon

(* What is below a name. *)
LEMMA Below ==
  /\ \A n \in Names : n \in Seq(Parts) /\ n # Root
  /\ Root \in Seq(Parts) /\ Root \notin Names
  /\ \A n : Under(n) \subseteq Names /\ \A m : m \in Under(n) <=> m \in Names /\ IsStrictPrefix(n, m)
  /\ \A n \in Places : \A m \in Under(n) : Under(m) \subseteq Under(n) /\ n # m /\ n \notin Under(m)
  /\ \A n \in Places : n \notin Under(n)
<1>1. Root \in Seq(Parts) /\ Root \notin Names /\ \A n \in Names : n \in Seq(Parts) /\ n # Root
  BY NamesAssumption, EmptySeq DEF Root
<1>2. \A n : Under(n) \subseteq Names /\ \A m : m \in Under(n) <=> m \in Names /\ IsStrictPrefix(n, m)
  BY DEF Under
<1>3. \A n \in Places : \A m \in Under(n) : Under(m) \subseteq Under(n) /\ n # m /\ n \notin Under(m)
  <2> TAKE n \in Places
  <2> TAKE m \in Under(n)
  <2>1. n \in Seq(Parts) /\ m \in Seq(Parts) /\ IsStrictPrefix(n, m)
    BY <1>1, <1>2 DEF Places
  <2>2. ASSUME NEW u \in Under(m) PROVE u \in Under(n)
    BY <1>1, <1>2, <2>1, PrefixOrder
  <2>3. n # m /\ n \notin Under(m)
    BY <1>2, <2>1, PrefixOrder
  <2> QED BY <2>2, <2>3
<1>4. \A n \in Places : n \notin Under(n)
  BY <1>1, <1>2, PrefixOrder DEF Places
<1> QED BY <1>1, <1>2, <1>3, <1>4

(* What contains a name is what is just above it, or contains that. *)
LEMMA Above ==
  ASSUME NEW n \in Names
  PROVE  /\ Parent(n) \in Places
         /\ Parent(n) \in Names => n \in Under(Parent(n))
         /\ \A m \in Names : n \in Under(m) => m = Parent(n) \/ Parent(n) \in Under(m)
<1>1. n \in Seq(Parts) /\ n # <<>>
  BY NamesAssumption
<1>2. /\ Parent(n) \in Seq(Parts) /\ Len(Parent(n)) = Len(n) - 1
      /\ \A i \in 1..(Len(n) - 1) : Parent(n)[i] = n[i]
  <2>1. Len(n) \in Nat /\ Len(n) > 0
    BY <1>1, EmptySeq
  <2>2. Parent(n) = SubSeq(n, 1, Len(n) - 1)
    BY DEF Parent, Front
  <2>3. \A i \in 1..(Len(n) - 1) : n[i] \in Parts
    BY <1>1, <2>1
  <2>4. SubSeq(n, 1, Len(n) - 1) = [i \in 1..(Len(n) - 1) |-> n[i]]
    BY <2>1
  <2>5. [i \in 1..(Len(n) - 1) |-> n[i]] \in [1..(Len(n) - 1) -> Parts]
    BY <2>3
  <2>6. Parent(n) \in Seq(Parts)
    BY <2>1, <2>2, <2>4, <2>5, SeqDef
  <2>7. Len(SubSeq(n, 1, Len(n) - 1)) = Len(n) - 1
    <3>1. Len(SubSeq(n, 1, Len(n) - 1)) = IF 1 <= Len(n) - 1 THEN (Len(n) - 1) - 1 + 1 ELSE 0
      BY <2>1, <2>3, SubSeqProperties
    <3>2. (IF 1 <= Len(n) - 1 THEN (Len(n) - 1) - 1 + 1 ELSE 0) = Len(n) - 1
      BY <2>1
    <3> QED BY <3>1, <3>2
  <2>8. \A i \in 1..(Len(n) - 1) : SubSeq(n, 1, Len(n) - 1)[i] = n[i]
    BY <2>4
  <2> QED BY <2>2, <2>6, <2>7, <2>8
<1>3. Len(n) \in Nat /\ Len(n) > 0
  BY <1>1, EmptySeq
<1>4. Parent(n) \in Places
  <2>1. CASE Len(n) > 1
    BY <2>1, NamesAssumption DEF Places, Parent
  <2>2. CASE ~(Len(n) > 1)
    <3>1. Len(Parent(n)) = 0
      BY <1>2, <1>3, <2>2
    <3>2. Parent(n) = Root
      BY <1>2, <3>1, EmptySeq DEF Root
    <3> QED BY <3>2 DEF Places
  <2> QED BY <2>1, <2>2
<1>5. IsStrictPrefix(Parent(n), n)
  <2>1. \A i \in 1..Len(Parent(n)) : Parent(n)[i] = n[i]
    BY <1>2
  <2> QED BY <1>1, <1>2, <1>3, <2>1, PrefixByIndex
<1>6. ASSUME NEW m \in Names, n \in Under(m) PROVE m = Parent(n) \/ Parent(n) \in Under(m)
  <2>1. m \in Seq(Parts) /\ IsStrictPrefix(m, n)
    BY <1>6, Below
  <2>2. m = Parent(n) \/ IsStrictPrefix(m, Parent(n)) \/ IsStrictPrefix(Parent(n), m)
    BY <1>1, <1>2, <1>5, <2>1, PrefixOrder
  <2>3. ~IsStrictPrefix(Parent(n), m)
    <3>1. Len(m) < Len(n) /\ Len(m) \in Nat
      BY <1>1, <2>1, PrefixByIndex
    <3>2. ~(Len(Parent(n)) < Len(m))
      BY <1>2, <1>3, <3>1
    <3> QED BY <1>2, <2>1, <3>2, PrefixByIndex
  <2>4. ASSUME IsStrictPrefix(m, Parent(n)) PROVE Parent(n) \in Under(m)
    <3>1. Parent(n) # Root
      <4>1. Len(m) < Len(Parent(n)) /\ Len(m) \in Nat
        BY <1>2, <2>1, <2>4, PrefixByIndex
      <4> QED BY <4>1, EmptySeq DEF Root
    <3> QED BY <1>4, <2>4, <3>1, Below DEF Places
  <2> QED BY <2>2, <2>3, <2>4
<1> QED BY <1>4, <1>5, <1>6, Below

(* A name that is renamed from f to g is below g as it was below f. *)
LEMMA RenamedByIndex ==
  ASSUME NEW f \in Seq(Parts), NEW g \in Seq(Parts), NEW m \in Seq(Parts), IsPrefix(f, m)
  PROVE  /\ Renamed(m, f, g) \in Seq(Parts)
         /\ Len(Renamed(m, f, g)) = Len(g) + (Len(m) - Len(f))
         /\ \A i \in 1..Len(Renamed(m, f, g)) :
              Renamed(m, f, g)[i] = IF i <= Len(g) THEN g[i] ELSE m[(i - Len(g)) + Len(f)]
<1> DEFINE s == SubSeq(m, Len(f) + 1, Len(m))
<1>0. Len(f) \in Nat /\ Len(g) \in Nat /\ Len(m) \in Nat /\ Len(f) <= Len(m)
  BY DEF IsPrefix
<1>1. /\ s \in Seq(Parts) /\ Len(s) = Len(m) - Len(f)
      /\ \A i \in 1..(Len(m) - Len(f)) : s[i] = m[Len(f) + i]
  <2>1. \A i \in (Len(f) + 1)..Len(m) : m[i] \in Parts
    BY <1>0
  <2>2. /\ s \in Seq(Parts)
        /\ Len(s) = IF Len(f) + 1 <= Len(m) THEN Len(m) - (Len(f) + 1) + 1 ELSE 0
        /\ \A i \in 1..(Len(m) - (Len(f) + 1) + 1) : s[i] = m[(Len(f) + 1) + i - 1]
    BY <1>0, <2>1, SubSeqProperties
  <2>3. Len(m) - (Len(f) + 1) + 1 = Len(m) - Len(f)
    BY <1>0
  <2>4. \A i \in Nat : (Len(f) + 1) + i - 1 = Len(f) + i
    BY <1>0
  <2> HIDE DEF s
  <2>5. Len(s) = Len(m) - Len(f)
    BY <1>0, <2>2
  <2>6. \A i \in 1..(Len(m) - Len(f)) : s[i] = m[Len(f) + i]
    <3> TAKE i \in 1..(Len(m) - Len(f))
    <3>1. i \in Nat /\ i \in 1..(Len(m) - (Len(f) + 1) + 1)
      BY <1>0, <2>3
    <3>2. s[i] = m[(Len(f) + 1) + i - 1] /\ (Len(f) + 1) + i - 1 = Len(f) + i
      BY <2>2, <2>4, <3>1
    <3> QED BY <3>2
  <2> QED BY <2>2, <2>5, <2>6
<1> HIDE DEF s
<1>2. Renamed(m, f, g) = g \o s
  BY DEF Renamed, s
<1>3. /\ g \o s \in Seq(Parts) /\ Len(g \o s) = Len(g) + Len(s)
      /\ \A i \in 1..(Len(g) + Len(s)) :
           (g \o s)[i] = IF i <= Len(g) THEN g[i] ELSE s[i - Len(g)]
  BY <1>1, ConcatProperties
<1>4. ASSUME NEW i \in 1..(Len(g) + Len(s)), ~(i <= Len(g))
      PROVE  s[i - Len(g)] = m[(i - Len(g)) + Len(f)]
  <2>1. i - Len(g) \in 1..(Len(m) - Len(f)) /\ Len(f) + (i - Len(g)) = (i - Len(g)) + Len(f)
    BY <1>0, <1>1, <1>4
  <2> QED BY <1>1, <2>1
<1> QED BY <1>1, <1>2, <1>3, <1>4

(* Renaming keeps the order, and can be undone. *)
LEMMA Renaming ==
  ASSUME NEW f \in Names, NEW g \in Names
  PROVE  /\ Renamed(f, f, g) = g
         /\ \A m \in Subtree(f) : Renamed(Renamed(m, f, g), g, f) = m
         /\ \A m \in Subtree(f) : Renamed(m, f, g) \in Names => Renamed(m, f, g) \in Subtree(g)
         /\ \A m \in Under(f) : Renamed(m, f, g) # g
         /\ \A m, u \in Subtree(f) : Renamed(m, f, g) = Renamed(u, f, g) => m = u
         /\ \A m, u \in Subtree(f) :
              Renamed(m, f, g) \in Names /\ Renamed(u, f, g) \in Names =>
                (Renamed(u, f, g) \in Under(Renamed(m, f, g)) <=> u \in Under(m))
<1>0. f \in Seq(Parts) /\ g \in Seq(Parts) /\ Len(f) \in Nat /\ Len(g) \in Nat
  BY Below
<1>1. \A m \in Subtree(f) : m \in Seq(Parts) /\ IsPrefix(f, m) /\ Len(m) \in Nat /\ Len(f) <= Len(m)
  <2>1. IsPrefix(f, f)
    BY <1>0, PrefixByIndex
  <2> QED BY <1>0, <2>1, Below DEF Subtree, IsStrictPrefix, IsPrefix
<1> DEFINE R(m) == Renamed(m, f, g)
<1>2. \A m \in Subtree(f) :
        /\ R(m) \in Seq(Parts) /\ Len(R(m)) = Len(g) + (Len(m) - Len(f))
        /\ \A i \in 1..Len(R(m)) : R(m)[i] = IF i <= Len(g) THEN g[i] ELSE m[(i - Len(g)) + Len(f)]
  BY <1>0, <1>1, RenamedByIndex
<1> HIDE DEF R
<1>3. \A m \in Subtree(f) : IsPrefix(g, R(m)) /\ (m # f => g # R(m))
  <2> TAKE m \in Subtree(f)
  <2>1. Len(g) <= Len(R(m)) /\ \A i \in 1..Len(g) : g[i] = R(m)[i]
    BY <1>0, <1>1, <1>2
  <2>2. ASSUME m # f PROVE g # R(m)
    <3>1. Len(f) < Len(m)
      BY <1>0, <1>1, <2>2, PrefixByIndex DEF IsStrictPrefix
    <3>2. Len(R(m)) # Len(g)
      BY <1>0, <1>1, <1>2, <3>1
    <3> QED BY <3>2
  <2> QED BY <1>0, <1>2, <2>1, <2>2, PrefixByIndex
<1>4. R(f) = g
  <2>1. f \in Subtree(f)
    BY DEF Subtree
  <2>2. Len(R(f)) = Len(g) /\ \A i \in 1..Len(R(f)) : R(f)[i] = g[i]
    BY <1>0, <1>2, <2>1
  <2> QED BY <1>0, <1>2, <2>1, <2>2, SeqEqual
<1>5. \A m \in Subtree(f) : Renamed(R(m), g, f) = m
  <2> TAKE m \in Subtree(f)
  <2> DEFINE k == R(m)
             b == Renamed(k, g, f)
  <2>1. /\ b \in Seq(Parts) /\ Len(b) = Len(f) + (Len(k) - Len(g))
        /\ \A i \in 1..Len(b) : b[i] = IF i <= Len(f) THEN f[i] ELSE k[(i - Len(f)) + Len(g)]
    BY <1>0, <1>2, <1>3, RenamedByIndex
  <2>2. Len(k) = Len(g) + (Len(m) - Len(f)) /\ Len(k) \in Nat
    BY <1>0, <1>1, <1>2
  <2>3. Len(b) = Len(m)
    BY <1>0, <1>1, <2>1, <2>2
  <2>4. ASSUME NEW i \in 1..Len(b) PROVE b[i] = m[i]
    <3>1. CASE i <= Len(f)
      <4>1. i \in 1..Len(f) /\ \A j \in 1..Len(f) : f[j] = m[j]
        BY <1>0, <1>1, <3>1, PrefixByIndex
      <4> QED BY <2>1, <3>1, <4>1
    <3>2. CASE ~(i <= Len(f))
      <4> DEFINE j == (i - Len(f)) + Len(g)
      <4>1. j \in 1..Len(k) /\ ~(j <= Len(g)) /\ (j - Len(g)) + Len(f) = i
        BY <1>0, <1>1, <2>2, <2>3, <3>2
      <4>2. k[j] = m[(j - Len(g)) + Len(f)]
        BY <1>2, <4>1
      <4> HIDE DEF k, b
      <4> QED BY <2>1, <3>2, <4>1, <4>2
    <3> QED BY <3>1, <3>2
  <2> HIDE DEF k
  <2> QED BY <1>1, <2>1, <2>3, <2>4, SeqEqual DEF k
<1>6. \A m, u \in Subtree(f) : R(m) = R(u) => m = u
  BY <1>5
<1>7. \A m \in Subtree(f) : R(m) \in Names => R(m) \in Subtree(g)
  BY <1>3, <1>4, Below DEF Subtree, IsStrictPrefix
<1>8. \A m \in Under(f) : R(m) # g
  BY <1>3, Below, Zenon DEF Subtree, Places
<1>9. ASSUME NEW m \in Subtree(f), NEW u \in Subtree(f)
      PROVE  IsStrictPrefix(R(m), R(u)) <=> IsStrictPrefix(m, u)
  <2>1. Len(R(m)) < Len(R(u)) <=> Len(m) < Len(u)
    BY <1>0, <1>1, <1>2
  <2>2. ASSUME Len(m) < Len(u)
        PROVE  (\A i \in 1..Len(R(m)) : R(m)[i] = R(u)[i]) <=> \A i \in 1..Len(m) : m[i] = u[i]
    <3>1. ASSUME \A i \in 1..Len(R(m)) : R(m)[i] = R(u)[i], NEW i \in 1..Len(m) PROVE m[i] = u[i]
      <4>1. CASE i <= Len(f)
        <5>1. i \in 1..Len(f)
          BY <1>0, <4>1
        <5>2. m[i] = f[i]
          BY <1>0, <1>1, <5>1, PrefixByIndex
        <5>3. u[i] = f[i]
          BY <1>0, <1>1, <5>1, PrefixByIndex
        <5> QED BY <5>2, <5>3
      <4>2. CASE ~(i <= Len(f))
        <5> DEFINE j == (i - Len(f)) + Len(g)
        <5>1. /\ j \in 1..Len(R(m)) /\ j \in 1..Len(R(u)) /\ ~(j <= Len(g))
              /\ (j - Len(g)) + Len(f) = i
          BY <1>0, <1>1, <1>2, <2>2, <4>2
        <5> HIDE DEF j
        <5>2. R(m)[j] = m[i] /\ R(u)[j] = u[i]
          BY <1>2, <5>1
        <5> QED BY <3>1, <5>1, <5>2
      <4> QED BY <4>1, <4>2
    <3>2. ASSUME \A i \in 1..Len(m) : m[i] = u[i], NEW i \in 1..Len(R(m)) PROVE R(m)[i] = R(u)[i]
      <4>1. i \in 1..Len(R(u))
        BY <1>0, <1>1, <1>2, <2>2
      <4>2. CASE i <= Len(g)
        BY <1>2, <4>1, <4>2
      <4>3. CASE ~(i <= Len(g))
        <5>1. (i - Len(g)) + Len(f) \in 1..Len(m)
          BY <1>0, <1>1, <1>2, <4>3
        <5> QED BY <1>2, <3>2, <4>1, <4>3, <5>1
      <4> QED BY <4>2, <4>3
    <3> QED BY <3>1, <3>2
  <2> QED BY <1>1, <1>2, <2>1, <2>2, PrefixByIndex
<1>10. \A m, u \in Subtree(f) :
         R(m) \in Names /\ R(u) \in Names => (R(u) \in Under(R(m)) <=> u \in Under(m))
  <2>1. Subtree(f) \subseteq Names
    BY Below DEF Subtree
  <2> QED BY <1>9, <2>1, Below
<1> QED BY <1>4, <1>5, <1>6, <1>7, <1>8, <1>10 DEF R

-----------------------------------------------------------------------------
(* Lists of statements *)

(* What is in a list. *)
Items(list) == {list[i] : i \in 1..Len(list)}

(* Deletions are followed by the selection of the links to what they delete,   *)
(* and the first selection by the last.                                        *)
Followed(list) ==
  \A i \in 1..Len(list) :
    /\ list[i].do \in {"delete", "select", "removebytes"}
    /\ list[i].do = "delete" =>
         \E j \in (i + 1)..Len(list) : list[j].do = "select" /\ list[i].ids \subseteq list[j].ids
    /\ list[i].do = "select" /\ ~list[i].last =>
         \E j \in (i + 1)..Len(list) : list[j].do = "select" /\ list[j].last

(* No statement is twice in a list. *)
Distinct(list) == \A i, j \in 1..Len(list) : list[i] = list[j] => i = j

(* What a list put together of two has in it. *)
LEMMA ItemsConcat ==
  ASSUME NEW T, NEW s \in Seq(T), NEW t \in Seq(T)
  PROVE  /\ Items(s \o t) = Items(s) \cup Items(t)
         /\ Followed(s) /\ Followed(t) => Followed(s \o t)
         /\ Distinct(s) /\ Distinct(t) /\ Items(s) \cap Items(t) = {} => Distinct(s \o t)
<1>1. Len(s) \in Nat /\ Len(t) \in Nat
  BY LenProperties
<1>2. /\ Len(s \o t) = Len(s) + Len(t)
      /\ \A i \in 1..(Len(s) + Len(t)) : (s \o t)[i] = IF i <= Len(s) THEN s[i] ELSE t[i - Len(s)]
  BY ConcatProperties
<1>3. /\ \A i \in 1..Len(s) : i \in 1..(Len(s) + Len(t)) /\ (s \o t)[i] = s[i]
      /\ \A i \in 1..Len(t) : Len(s) + i \in 1..(Len(s) + Len(t)) /\ (s \o t)[Len(s) + i] = t[i]
  <2>1. ASSUME NEW i \in 1..Len(s) PROVE i \in 1..(Len(s) + Len(t)) /\ (s \o t)[i] = s[i]
    BY <1>1, <1>2
  <2>2. ASSUME NEW i \in 1..Len(t)
        PROVE  Len(s) + i \in 1..(Len(s) + Len(t)) /\ (s \o t)[Len(s) + i] = t[i]
    <3>1. /\ Len(s) + i \in 1..(Len(s) + Len(t)) /\ ~(Len(s) + i <= Len(s))
          /\ (Len(s) + i) - Len(s) = i
      BY <1>1
    <3> QED BY <1>2, <3>1
  <2> QED BY <2>1, <2>2
<1>4. \A i \in 1..(Len(s) + Len(t)) :
        i \in 1..Len(s) \/ \E k \in 1..Len(t) : i = Len(s) + k
  <2> TAKE i \in 1..(Len(s) + Len(t))
  <2>1. ASSUME i \notin 1..Len(s) PROVE i - Len(s) \in 1..Len(t) /\ i = Len(s) + (i - Len(s))
    BY <1>1, <2>1
  <2> QED BY <2>1
<1> DEFINE st == s \o t
<1> HIDE DEF st
<1>S. /\ Len(st) = Len(s) + Len(t)
      /\ \A i \in 1..Len(s) : i \in 1..Len(st) /\ st[i] = s[i]
      /\ \A i \in 1..Len(t) : Len(s) + i \in 1..Len(st) /\ st[Len(s) + i] = t[i]
      /\ \A i \in 1..Len(st) : i \in 1..Len(s) \/ \E k \in 1..Len(t) : i = Len(s) + k
  BY <1>2, <1>3, <1>4 DEF st
<1>5. Items(st) = Items(s) \cup Items(t)
  <2>1. ASSUME NEW x \in Items(st) PROVE x \in Items(s) \cup Items(t)
    <3>1. PICK i \in 1..Len(st) : x = st[i]
      BY DEF Items
    <3>2. CASE i \in 1..Len(s)
      <4>1. x = s[i]
        BY <1>S, <3>1, <3>2
      <4> QED BY <3>2, <4>1 DEF Items
    <3>3. CASE i \notin 1..Len(s)
      <4>1. PICK k \in 1..Len(t) : i = Len(s) + k
        BY <1>S, <3>3
      <4>2. x = t[k]
        BY <1>S, <3>1, <4>1
      <4> QED BY <4>2 DEF Items
    <3> QED BY <3>2, <3>3
  <2>2. ASSUME NEW x \in Items(s) \cup Items(t) PROVE x \in Items(st)
    <3>1. CASE x \in Items(s)
      <4>1. PICK i \in 1..Len(s) : x = s[i]
        BY <3>1 DEF Items
      <4> QED BY <1>S, <4>1 DEF Items
    <3>2. CASE x \in Items(t)
      <4>1. PICK i \in 1..Len(t) : x = t[i]
        BY <3>2 DEF Items
      <4> QED BY <1>S, <4>1 DEF Items
    <3> QED BY <3>1, <3>2
  <2> QED BY <2>1, <2>2
<1>6. ASSUME Followed(s), Followed(t) PROVE Followed(st)
  <2> SUFFICES ASSUME NEW i \in 1..Len(st)
               PROVE  /\ st[i].do \in {"delete", "select", "removebytes"}
                      /\ st[i].do = "delete" =>
                           \E j \in (i + 1)..Len(st) : st[j].do = "select" /\ st[i].ids \subseteq st[j].ids
                      /\ st[i].do = "select" /\ ~st[i].last =>
                           \E j \in (i + 1)..Len(st) : st[j].do = "select" /\ st[j].last
    BY DEF Followed
  <2>1. CASE i \in 1..Len(s)
    <3>1. \A j \in (i + 1)..Len(s) : j \in (i + 1)..Len(st) /\ st[j] = s[j]
      BY <1>1, <1>S
    <3>2. st[i] = s[i]
      BY <1>S, <2>1
    <3>3. /\ s[i].do \in {"delete", "select", "removebytes"}
          /\ s[i].do = "delete" =>
               \E j \in (i + 1)..Len(s) : s[j].do = "select" /\ s[i].ids \subseteq s[j].ids
          /\ s[i].do = "select" /\ ~s[i].last =>
               \E j \in (i + 1)..Len(s) : s[j].do = "select" /\ s[j].last
      BY <1>6, <2>1 DEF Followed
    <3> QED BY <3>1, <3>2, <3>3
  <2>2. CASE \E k \in 1..Len(t) : i = Len(s) + k
    <3>1. PICK k \in 1..Len(t) : i = Len(s) + k
      BY <2>2
    <3>2. \A j \in (k + 1)..Len(t) : Len(s) + j \in (i + 1)..Len(st) /\ st[Len(s) + j] = t[j]
      <4> TAKE j \in (k + 1)..Len(t)
      <4>1. j \in 1..Len(t) /\ Len(s) + j \in (i + 1)..(Len(s) + Len(t))
        BY <1>1, <3>1
      <4> QED BY <1>S, <4>1
    <3>3. st[i] = t[k]
      BY <1>S, <3>1
    <3>4. /\ t[k].do \in {"delete", "select", "removebytes"}
          /\ t[k].do = "delete" =>
               \E j \in (k + 1)..Len(t) : t[j].do = "select" /\ t[k].ids \subseteq t[j].ids
          /\ t[k].do = "select" /\ ~t[k].last =>
               \E j \in (k + 1)..Len(t) : t[j].do = "select" /\ t[j].last
      BY <1>6 DEF Followed
    <3> QED BY <3>2, <3>3, <3>4
  <2> QED BY <1>S, <2>1, <2>2
<1>7. ASSUME Distinct(s), Distinct(t), Items(s) \cap Items(t) = {} PROVE Distinct(st)
  <2> SUFFICES ASSUME NEW i \in 1..Len(st), NEW j \in 1..Len(st), st[i] = st[j] PROVE i = j
    BY DEF Distinct
  <2>1. CASE i \in 1..Len(s) /\ j \in 1..Len(s)
    BY <1>7, <1>S, <2>1 DEF Distinct
  <2>2. CASE i \in 1..Len(s) /\ j \notin 1..Len(s)
    <3>1. PICK k \in 1..Len(t) : j = Len(s) + k
      BY <1>S, <2>2
    <3>2. s[i] = t[k]
      BY <1>S, <2>2, <3>1
    <3>3. s[i] \in Items(s) /\ t[k] \in Items(t)
      BY <2>2 DEF Items
    <3> QED BY <1>7, <3>2, <3>3
  <2>3. CASE i \notin 1..Len(s) /\ j \in 1..Len(s)
    <3>1. PICK k \in 1..Len(t) : i = Len(s) + k
      BY <1>S, <2>3
    <3>2. s[j] = t[k]
      BY <1>S, <2>3, <3>1
    <3>3. s[j] \in Items(s) /\ t[k] \in Items(t)
      BY <2>3 DEF Items
    <3> QED BY <1>7, <3>2, <3>3
  <2>4. CASE i \notin 1..Len(s) /\ j \notin 1..Len(s)
    BY <1>7, <1>S, <2>4 DEF Distinct
  <2> QED BY <2>1, <2>2, <2>3, <2>4
<1> QED BY <1>5, <1>6, <1>7 DEF st

(* The shortest lists. *)
LEMMA ItemsSmall ==
  /\ Items(<<>>) = {} /\ Followed(<<>>) /\ Distinct(<<>>)
  /\ \A x : Items(<<x>>) = {x} /\ Distinct(<<x>>)
  /\ \A c, s : Items(If(c, s)) = IF c THEN Items(s) ELSE {}
  /\ \A c, s : Distinct(s) => Distinct(If(c, s))
<1>1. Items(<<>>) = {} /\ Followed(<<>>) /\ Distinct(<<>>)
  BY DEF Items, Followed, Distinct
<1>2. \A x : Items(<<x>>) = {x} /\ Distinct(<<x>>)
  <2> TAKE x
  <2>1. Len(<<x>>) = 1 /\ <<x>>[1] = x /\ \A i \in 1..1 : i = 1
    OBVIOUS
  <2>2. 1 \in 1..1
    OBVIOUS
  <2> QED BY <2>1, <2>2 DEF Items, Distinct
<1> QED BY <1>1, <1>2 DEF If

(* The head of a list and what follows it. *)
LEMMA ItemsTail ==
  ASSUME NEW T, NEW s \in Seq(T), s # <<>>
  PROVE  /\ Items(s) = {Head(s)} \cup Items(Tail(s))
         /\ Followed(s) => Followed(Tail(s))
         /\ Distinct(s) => Distinct(Tail(s)) /\ Head(s) \notin Items(Tail(s))
         /\ Followed(s) /\ Head(s).do = "delete" =>
              \E x \in Items(Tail(s)) : x.do = "select" /\ Head(s).ids \subseteq x.ids
         /\ Followed(s) /\ Head(s).do = "select" /\ ~Head(s).last =>
              \E x \in Items(Tail(s)) : x.do = "select" /\ x.last
         /\ Followed(s) => Head(s).do \in {"delete", "select", "removebytes"}
<1>1. Len(s) \in Nat /\ Len(s) > 0
  BY EmptySeq, LenProperties
<1>2. /\ Head(s) = s[1] /\ Len(Tail(s)) = Len(s) - 1
      /\ \A i \in 1..(Len(s) - 1) : Tail(s)[i] = s[i + 1]
  BY <1>1, HeadTailProperties
<1> DEFINE u == Tail(s)
           h == Head(s)
<1> HIDE DEF u, h
<1>3. /\ \A i \in 1..Len(u) : i + 1 \in 1..Len(s) /\ u[i] = s[i + 1]
      /\ 1 \in 1..Len(s) /\ h = s[1]
      /\ \A i \in 1..Len(s) : i = 1 \/ \E k \in 1..Len(u) : i = k + 1
  <2>1. \A i \in 1..Len(u) : i + 1 \in 1..Len(s) /\ u[i] = s[i + 1]
    BY <1>1, <1>2 DEF u
  <2>2. ASSUME NEW i \in 1..Len(s), i # 1 PROVE i - 1 \in 1..Len(u) /\ i = (i - 1) + 1
    BY <1>1, <1>2, <2>2 DEF u
  <2>3. 1 \in 1..Len(s) /\ h = s[1]
    BY <1>1, <1>2 DEF h
  <2> QED BY <2>1, <2>2, <2>3
<1>4. Items(s) = {h} \cup Items(u)
  <2>1. ASSUME NEW x \in Items(s) PROVE x \in {h} \cup Items(u)
    <3>1. PICK i \in 1..Len(s) : x = s[i]
      BY DEF Items
    <3>2. CASE i # 1
      <4>1. PICK k \in 1..Len(u) : i = k + 1
        BY <1>3, <3>2
      <4>2. x = u[k]
        BY <1>3, <3>1, <4>1
      <4> QED BY <4>2 DEF Items
    <3> QED BY <1>3, <3>1, <3>2
  <2>2. ASSUME NEW x \in Items(u) PROVE x \in Items(s)
    <3>1. PICK i \in 1..Len(u) : x = u[i]
      BY DEF Items
    <3> QED BY <1>3, <3>1 DEF Items
  <2>3. h \in Items(s)
    <3>1. 1 \in 1..Len(s) /\ h = s[1]
      BY <1>3
    <3> QED BY <3>1 DEF Items
  <2> QED BY <2>1, <2>2, <2>3
<1>L. Len(u) \in Nat /\ Len(s) = Len(u) + 1
  BY <1>1, <1>2 DEF u
<1>5. \A i \in 1..Len(u) : \A j \in ((i + 1) + 1)..Len(s) :
        \E k \in (i + 1)..Len(u) : u[k] = s[j]
  <2> TAKE i \in 1..Len(u)
  <2> TAKE j \in ((i + 1) + 1)..Len(s)
  <2>1. j - 1 \in (i + 1)..Len(u) /\ j - 1 \in 1..Len(u) /\ (j - 1) + 1 = j
    BY <1>L
  <2> QED BY <1>3, <2>1
<1>6. ASSUME Followed(s) PROVE Followed(u)
  <2> SUFFICES ASSUME NEW i \in 1..Len(u)
               PROVE  /\ u[i].do \in {"delete", "select", "removebytes"}
                      /\ u[i].do = "delete" =>
                           \E j \in (i + 1)..Len(u) : u[j].do = "select" /\ u[i].ids \subseteq u[j].ids
                      /\ u[i].do = "select" /\ ~u[i].last =>
                           \E j \in (i + 1)..Len(u) : u[j].do = "select" /\ u[j].last
    BY DEF Followed
  <2>1. i + 1 \in 1..Len(s) /\ u[i] = s[i + 1]
    BY <1>3
  <2>2. /\ s[i + 1].do \in {"delete", "select", "removebytes"}
        /\ s[i + 1].do = "delete" =>
             \E j \in ((i + 1) + 1)..Len(s) : s[j].do = "select" /\ s[i + 1].ids \subseteq s[j].ids
        /\ s[i + 1].do = "select" /\ ~s[i + 1].last =>
             \E j \in ((i + 1) + 1)..Len(s) : s[j].do = "select" /\ s[j].last
    BY <1>6, <2>1 DEF Followed
  <2>3. \A j \in ((i + 1) + 1)..Len(s) : \E k \in (i + 1)..Len(u) : u[k] = s[j]
    BY <1>5
  <2> QED BY <2>1, <2>2, <2>3
<1>7. ASSUME Distinct(s) PROVE Distinct(u) /\ h \notin Items(u)
  <2>1. \A i, j \in 1..Len(u) : i + 1 = j + 1 => i = j
    BY <1>L
  <2>2. \A i \in 1..Len(u) : i + 1 # 1
    BY <1>L
  <2>3. \A i, j \in 1..Len(u) : s[i + 1] = s[j + 1] => i + 1 = j + 1
    BY <1>3, <1>7 DEF Distinct
  <2>4. \A i \in 1..Len(u) : s[i + 1] # s[1]
    BY <1>3, <1>7, <2>2 DEF Distinct
  <2> QED BY <1>3, <2>1, <2>3, <2>4 DEF Distinct, Items
<1>8. \A j \in (1 + 1)..Len(s) : s[j] \in Items(u)
  <2> TAKE j \in (1 + 1)..Len(s)
  <2>1. j - 1 \in 1..Len(u) /\ (j - 1) + 1 = j
    BY <1>L
  <2> QED BY <1>3, <2>1 DEF Items
<1>9. ASSUME Followed(s)
      PROVE  /\ h.do = "delete" => \E x \in Items(u) : x.do = "select" /\ h.ids \subseteq x.ids
             /\ h.do = "select" /\ ~h.last => \E x \in Items(u) : x.do = "select" /\ x.last
             /\ h.do \in {"delete", "select", "removebytes"}
  BY <1>3, <1>8, <1>9 DEF Followed
<1> QED BY <1>4, <1>6, <1>7, <1>9 DEF u, h

(* A list that names the elements of a set one after the other. *)
LEMMA ItemsFrom ==
  ASSUME NEW T, NEW K \in Nat, NEW e \in [1..K -> T]
  PROVE  e \in Seq(T) /\ Items(e) = {e[i] : i \in 1..K}
<1>1. e \in Seq(T)
  BY SeqDef
<1>2. Len(e) = K
  OBVIOUS
<1> QED BY <1>1, <1>2 DEF Items

(* What is in a part of FlattenSeq is in the whole. *)
LEMMA FlattenItems ==
  ASSUME NEW S, NEW seqs \in Seq(Seq(S)), NEW n \in 1..Len(seqs)
  PROVE  Items(seqs[n]) \subseteq Items(FlattenSeq(seqs))
<1> DEFINE K == Len(seqs)
<1>1. K \in Nat /\ (\A i \in 1..K : seqs[i] \in Seq(S)) /\ K # 0
  OBVIOUS
<1>2. PICK F : FlattenSeq(seqs) = F[K] /\ \A i \in 1..K : F[i] = IF i = 1 THEN seqs[i] ELSE F[i-1] \o seqs[i]
  BY <1>1, FlattenRec
<1> HIDE DEF K
<1> DEFINE Good(k) == F[k] \in Seq(S) /\ (n <= k => Items(seqs[n]) \subseteq Items(F[k]))
           T == {k \in 1..K : ~Good(k)}
<1>3. ASSUME T # {} PROVE FALSE
  <2>1. PICK k \in T : \A y \in T : k <= y
    <3>1. T \subseteq Nat
      BY <1>1
    <3> HIDE DEF T
    <3> QED BY <1>3, <3>1, Least
  <2>2. k \in 1..K /\ ~Good(k)
    OBVIOUS
  <2>3. CASE k = 1
    <3>1. F[k] = seqs[k] /\ (n <= k => n = k)
      BY <1>2, <2>2, <2>3 DEF K
    <3> QED BY <1>1, <2>2, <2>3, <3>1
  <2>4. CASE k # 1
    <3>1. k - 1 \in 1..K /\ ~(k <= k - 1)
      BY <1>1, <2>2, <2>4
    <3>2. Good(k - 1)
      <4>1. k - 1 \notin T
        <5> HIDE DEF T
        <5> QED BY <2>1, <3>1
      <4> QED BY <3>1, <4>1
    <3>3. F[k] = F[k-1] \o seqs[k] /\ F[k-1] \in Seq(S) /\ seqs[k] \in Seq(S)
      BY <1>1, <1>2, <2>2, <2>4, <3>2
    <3>4. F[k] \in Seq(S) /\ Items(F[k]) = Items(F[k-1]) \cup Items(seqs[k])
      BY <3>3, ItemsConcat, ConcatProperties
    <3>5. n <= k => n <= k - 1 \/ n = k
      BY <1>1, <2>2 DEF K
    <3> QED BY <2>2, <3>2, <3>4, <3>5
  <2> QED BY <2>3, <2>4
<1>4. K \in 1..K /\ n <= K
  BY <1>1 DEF K
<1>5. Good(K)
  BY <1>3, <1>4
<1> QED BY <1>2, <1>4, <1>5

-----------------------------------------------------------------------------
(* More of names and links *)

(* What a name below the new one is called that contains what is moved there.  *)
LEMMA RenamedBack ==
  ASSUME NEW f \in Names, NEW g \in Names, \A m \in Subtree(f) : Renamed(m, f, g) \in Names,
         NEW u \in Subtree(f), NEW n \in Subtree(g), Renamed(u, f, g) \in Under(n)
  PROVE  \E m \in Subtree(f) : n = Renamed(m, f, g) /\ u \in Under(m)
<1> DEFINE R(m) == Renamed(m, f, g)
           T == {i \in Nat : \E v \in Subtree(f) : i = Len(v) /\ (n = R(v) \/ R(v) \in Under(n))}
<1>0. /\ f \in Places /\ g \in Places /\ n \in Names /\ n \in Seq(Parts)
      /\ \A m \in Subtree(f) : m \in Names /\ m \in Seq(Parts) /\ Len(m) \in Nat /\ IsPrefix(f, m)
  <2>1. f \in Seq(Parts) /\ IsPrefix(f, f)
    BY Below, PrefixByIndex
  <2>2. \A m \in Subtree(f) : m \in Names /\ IsPrefix(f, m)
    BY <2>1, Below DEF Subtree, IsStrictPrefix, IsPrefix
  <2>3. n \in Names
    BY Below DEF Subtree
  <2> QED BY <2>2, <2>3, Below DEF Places
<1>1. \A m \in Subtree(f) : R(m) \in Seq(Parts) /\ Len(R(m)) = Len(g) + (Len(m) - Len(f))
  <2>1. f \in Seq(Parts) /\ g \in Seq(Parts)
    BY Below
  <2> QED BY <1>0, <2>1, RenamedByIndex
<1>2. /\ R(f) = g
      /\ \A m, v \in Subtree(f) : R(v) \in Under(R(m)) <=> v \in Under(m)
  BY Renaming
<1>3. PICK i \in T : \A j \in T : i <= j
  <2>1. T \subseteq Nat /\ T # {}
    BY <1>0
  <2> HIDE DEF T
  <2> QED BY <2>1, Least
<1>4. PICK v \in Subtree(f) : i = Len(v) /\ (n = R(v) \/ R(v) \in Under(n))
  OBVIOUS
<1>5. \A x \in Subtree(f) : n = R(x) \/ R(x) \in Under(n) => Len(v) <= Len(x)
  BY <1>0, <1>3, <1>4
<1> HIDE DEF R, T
<1>6. n = R(v)
  <2> SUFFICES ASSUME R(v) \in Under(n) PROVE FALSE
    BY <1>4
  <2>1. v # f
    <3>1. g \notin Under(n)
      BY <1>0, Below DEF Subtree
    <3> QED BY <1>2, <3>1
  <2>2. v \in Under(f) /\ v \in Names
    BY <1>0, <2>1 DEF Subtree
  <2>p. PICK p : p = Parent(v)
    OBVIOUS
  <2>3. p \in Subtree(f) /\ v \in Under(p)
    <3>1. f = p \/ p \in Under(f)
      BY <2>2, <2>p, Above
    <3>2. p \in Names
      BY <3>1, Below
    <3> QED BY <2>2, <2>p, <3>1, <3>2, Above DEF Subtree
  <2>4. R(v) \in Under(R(p)) /\ R(p) \in Seq(Parts) /\ R(v) \in Seq(Parts)
    BY <1>1, <1>2, <2>3
  <2>5. IsStrictPrefix(R(p), R(v)) /\ IsStrictPrefix(n, R(v))
    BY <2>4, Below
  <2>6. n = R(p) \/ IsStrictPrefix(n, R(p)) \/ IsStrictPrefix(R(p), n)
    BY <1>0, <2>4, <2>5, PrefixOrder
  <2>7. Len(p) < Len(v) /\ Len(v) = Len(p) + 1
    <3>1. IsStrictPrefix(p, v) /\ p \in Seq(Parts) /\ v \in Seq(Parts)
      BY <1>0, <2>3, Below
    <3>2. Len(p) < Len(v)
      BY <3>1, PrefixByIndex
    <3>3. Len(p) = Len(v) - 1
      <4>1. Parent(v) = SubSeq(v, 1, Len(v) - 1) /\ Len(v) \in Nat /\ Len(v) > 0
        BY <3>1, <3>2 DEF Parent, Front
      <4>2. Len(SubSeq(v, 1, Len(v) - 1)) = IF 1 <= Len(v) - 1 THEN (Len(v) - 1) - 1 + 1 ELSE 0
        <5>1. \A j \in 1..(Len(v) - 1) : v[j] \in Parts
          BY <3>1, <4>1
        <5> QED BY <4>1, <5>1, SubSeqProperties
      <4>q. PICK q, l : q = SubSeq(v, 1, Len(v) - 1) /\ l = Len(v)
        OBVIOUS
      <4>3. Len(q) = IF 1 <= l - 1 THEN (l - 1) - 1 + 1 ELSE 0
        BY <4>2, <4>q, Zenon
      <4>4. p = q /\ l \in Nat /\ l > 0
        BY <2>p, <4>1, <4>q
      <4>5. Len(q) = l - 1
        BY <4>3, <4>4
      <4> QED BY <4>4, <4>5, <4>q
    <3> QED BY <3>1, <3>2, <3>3
  <2>8. ASSUME IsStrictPrefix(R(p), n) PROVE FALSE
    <3>1. Len(R(p)) < Len(n) /\ Len(n) < Len(R(v))
      BY <1>0, <2>4, <2>5, <2>8, PrefixByIndex
    <3>2. /\ Len(R(p)) = Len(g) + (Len(p) - Len(f)) /\ Len(R(v)) = Len(g) + (Len(v) - Len(f))
          /\ Len(g) \in Nat /\ Len(f) \in Nat /\ Len(p) \in Nat /\ Len(v) \in Nat /\ Len(n) \in Nat
      <4>1. g \in Seq(Parts) /\ f \in Seq(Parts)
        BY Below
      <4> QED BY <1>0, <1>1, <2>3, <4>1
    <3> QED BY <2>7, <3>1, <3>2
  <2>9. n = R(p) \/ R(p) \in Under(n)
    <3>1. R(p) \in Names
      BY <2>3 DEF R
    <3> QED BY <2>6, <2>8, <3>1, Below
  <2>10. Len(v) <= Len(p)
    BY <1>5, <2>3, <2>9
  <2>11. Len(v) \in Nat /\ Len(p) \in Nat
    BY <1>0, <2>3
  <2> QED BY <2>7, <2>10, <2>11
<1>7. u \in Under(v)
  <2>1. R(u) \in Under(R(v))
    BY <1>6 DEF R
  <2> QED BY <1>2, <2>1
<1> QED BY <1>6, <1>7 DEF R

(* What is put below a name has that name as its parent. *)
LEMMA ParentIs == ASSUME NEW s \in Places, NEW x \in Parts PROVE Parent(s \o <<x>>) = s
<1>1. s \in Seq(Parts) /\ <<x>> \in Seq(Parts) /\ Len(<<x>>) = 1
  BY Below DEF Places
<1>v. PICK v, l : v = s \o <<x>> /\ l = Len(s)
  OBVIOUS
<1>2. /\ v \in Seq(Parts) /\ l \in Nat /\ Len(v) = l + 1
      /\ \A i \in 1..(l + 1) : v[i] = IF i <= l THEN s[i] ELSE <<x>>[i - l]
  BY <1>1, <1>v, ConcatProperties
<1>3. Parent(v) = SubSeq(v, 1, l)
  <2>1. Len(v) - 1 = l
    BY <1>2
  <2> QED BY <2>1 DEF Parent, Front
<1>4. /\ SubSeq(v, 1, l) = [i \in 1..l |-> v[i]]
  BY <1>2
<1>5. \A i \in 1..l : v[i] = s[i] /\ s[i] \in Parts
  BY <1>1, <1>2, <1>v
<1>u. PICK u : u = SubSeq(v, 1, l)
  OBVIOUS
<1>6. u \in Seq(Parts) /\ Len(u) = l /\ \A i \in 1..l : u[i] = s[i]
  <2>1. u = [i \in 1..l |-> v[i]] /\ u \in [1..l -> Parts]
    BY <1>4, <1>5, <1>u
  <2>2. u \in Seq(Parts)
    BY <1>2, <2>1, SeqDef
  <2>3. DOMAIN u = 1..l
    BY <2>1
  <2>4. Len(u) = l
    BY <1>2, <2>2, <2>3, LenProperties
  <2> QED BY <1>5, <2>1, <2>2, <2>4
<1>7. u = s
  BY <1>1, <1>6, <1>v, SeqEqual
<1> QED BY <1>3, <1>7, <1>u, <1>v

(* A job puts the node into a container. *)
LEMMA JobParent ==
  ASSUME Typed, NEW o, JobAllowed(o), ~ToNull(o), From(o) \in Names
  PROVE  GetType(Parent(To(o))) = "container"
<1>r. PICK res, f : res = ResolveLinks(o.to) /\ f = From(o)
  OBVIOUS
<1>1. GetType(Parent(res)) = "container" /\ (IsStored(res) => GetType(res) = "container")
  BY <1>r DEF JobAllowed, ValidParent
<1>2. To(o) = IF IsStored(res) THEN res \o <<Last(f)>> ELSE res
  BY <1>r DEF To
<1>3. ASSUME IsStored(res) PROVE Parent(res \o <<Last(f)>>) = res
  <2>1. res \in Places
    <3>1. CASE res = Root
      BY <3>1 DEF Places
    <3>2. CASE res # Root
      <4>1. PICK w \in rows : w.id = res
        BY <1>3, <3>2 DEF IsStored, RowsOf
      <4> QED BY <4>1 DEF Typed, Rows, Places
    <3> QED BY <3>1, <3>2
  <2>2. Last(f) \in Parts
    <3>1. f \in Seq(Parts) /\ f # <<>>
      BY <1>r, Below DEF Root
    <3>2. Len(f) \in Nat /\ Len(f) > 0
      BY <3>1, EmptySeq
    <3> QED BY <3>1, <3>2 DEF Last
  <2> QED BY <2>1, <2>2, ParentIs
<1> QED BY <1>1, <1>2, <1>3

(* WithLinks gives the names of a set and of the links that lead to it, over   *)
(* other links, and of no others.                                              *)
Reach(S, goes) ==
  {n \in Names : \A X \in SUBSET Names :
     (\A m \in Names : m \in S \/ goes[m] \in S \cup X => m \in X) => n \in X}

(* The links that lead into S, over links, are the least such set. *)
LEMMA LinksLeast ==
  ASSUME NEW S, NEW goes
  PROVE  /\ Reach(S, goes) \subseteq Names
         /\ \A m \in Names : m \in S \/ goes[m] \in S \cup Reach(S, goes) => m \in Reach(S, goes)
         /\ \A l \in Reach(S, goes) : l \in S \/ goes[l] \in S \cup Reach(S, goes)
         /\ \A X : (\A m \in Reach(S, goes) : m \in S \/ goes[m] \in S \cup (X \cap Reach(S, goes)) => m \in X)
                 => Reach(S, goes) \subseteq X
<1>W. PICK W : W = Reach(S, goes)
  OBVIOUS
<1>0. W = {n \in Names : \A X \in SUBSET Names :
             (\A m \in Names : m \in S \/ goes[m] \in S \cup X => m \in X) => n \in X}
  BY <1>W DEF Reach
<1>1. W \subseteq Names
  BY <1>0
<1>2. \A n \in W : \A X \in SUBSET Names :
        (\A m \in Names : m \in S \/ goes[m] \in S \cup X => m \in X) => n \in X
  BY <1>0
<1>3. ASSUME NEW m \in Names, m \in S \/ goes[m] \in S \cup W PROVE m \in W
  <2> SUFFICES ASSUME NEW X \in SUBSET Names,
                      \A k \in Names : k \in S \/ goes[k] \in S \cup X => k \in X
               PROVE  m \in X
    BY <1>0
  <2>1. W \subseteq X
    BY <1>2
  <2> QED BY <1>3, <2>1
<1>4. ASSUME NEW X, \A m \in W : m \in S \/ goes[m] \in S \cup (X \cap W) => m \in X PROVE W \subseteq X
  <2>1. X \cap W \in SUBSET Names
    BY <1>1
  <2>2. \A m \in Names : m \in S \/ goes[m] \in S \cup (X \cap W) => m \in X \cap W
    BY <1>3, <1>4
  <2> QED BY <1>2, <2>1, <2>2
<1>5. \A l \in W : l \in S \/ goes[l] \in S \cup W
  <2> DEFINE X == {l \in W : l \in S \/ goes[l] \in S \cup W}
  <2>1. \A m \in W : m \in S \/ goes[m] \in S \cup (X \cap W) => m \in X
    OBVIOUS
  <2>2. W \subseteq X
    BY <1>4, <2>1
  <2> QED BY <2>2
<1> QED BY <1>1, <1>3, <1>4, <1>5, <1>W

-----------------------------------------------------------------------------
(* The lists deletions are made of *)

(* Deletions in front of a list that selects the links to what they delete. *)
LEMMA FollowedFront ==
  ASSUME NEW T, NEW d \in Seq(T), NEW u \in Seq(T), Followed(u),
         \A s \in Items(d) :
           /\ s.do \in {"delete", "select", "removebytes"}
           /\ s.do = "delete" => \E x \in Items(u) : x.do = "select" /\ s.ids \subseteq x.ids
           /\ s.do = "select" /\ ~s.last => \E x \in Items(u) : x.do = "select" /\ x.last
  PROVE  Followed(d \o u)
<1> DEFINE K == Len(d)
           c == d \o u
<1>1. /\ K \in Nat /\ Len(u) \in Nat /\ Len(c) = K + Len(u)
      /\ \A i \in 1..(K + Len(u)) : c[i] = IF i <= K THEN d[i] ELSE u[i - K]
  BY ConcatProperties
<1> HIDE DEF c, K
<1>2. ASSUME NEW k \in 1..Len(u) PROVE K + k \in 1..Len(c) /\ c[K + k] = u[k]
  <2>1. K + k \in 1..(K + Len(u)) /\ ~(K + k <= K) /\ (K + k) - K = k
    BY <1>1
  <2> QED BY <1>1, <2>1
<1> SUFFICES ASSUME NEW i \in 1..Len(c)
             PROVE  /\ c[i].do \in {"delete", "select", "removebytes"}
                    /\ c[i].do = "delete" =>
                         \E j \in (i + 1)..Len(c) : c[j].do = "select" /\ c[i].ids \subseteq c[j].ids
                    /\ c[i].do = "select" /\ ~c[i].last =>
                         \E j \in (i + 1)..Len(c) : c[j].do = "select" /\ c[j].last
  BY DEF Followed, c
<1>3. CASE i <= K
  <2>1. c[i] = d[i] /\ d[i] \in Items(d)
    <3>1. i \in 1..Len(d)
      BY <1>1, <1>3 DEF K
    <3> QED BY <1>1, <1>3, <3>1 DEF Items
  <2>2. \A x \in Items(u) : \E j \in (i + 1)..Len(c) : c[j] = x
    <3> TAKE x \in Items(u)
    <3>1. PICK k \in 1..Len(u) : x = u[k]
      BY DEF Items
    <3>2. K + k \in (i + 1)..Len(c) /\ c[K + k] = u[k]
      BY <1>1, <1>2, <1>3
    <3> QED BY <3>1, <3>2
  <2>3. ASSUME c[i].do = "delete"
        PROVE  \E j \in (i + 1)..Len(c) : c[j].do = "select" /\ c[i].ids \subseteq c[j].ids
    <3>1. PICK x \in Items(u) : x.do = "select" /\ c[i].ids \subseteq x.ids
      BY <2>1, <2>3
    <3> QED BY <2>2, <3>1
  <2>4. ASSUME c[i].do = "select" /\ ~c[i].last
        PROVE  \E j \in (i + 1)..Len(c) : c[j].do = "select" /\ c[j].last
    <3>1. PICK x \in Items(u) : x.do = "select" /\ x.last
      BY <2>1, <2>4
    <3> QED BY <2>2, <3>1
  <2> QED BY <2>1, <2>3, <2>4
<1>4. CASE ~(i <= K)
  <2>1. i - K \in 1..Len(u) /\ i = K + (i - K)
    BY <1>1, <1>4
  <2>2. PICK k \in 1..Len(u) : i = K + k
    BY <2>1
  <2>3. c[i] = u[k]
    BY <1>2, <2>2
  <2>4. \A j \in (k + 1)..Len(u) : K + j \in (i + 1)..Len(c) /\ c[K + j] = u[j]
    <3> TAKE j \in (k + 1)..Len(u)
    <3>1. j \in 1..Len(u) /\ K + j >= i + 1
      BY <1>1, <2>2
    <3>2. K + j \in 1..Len(c) /\ c[K + j] = u[j]
      BY <1>2, <3>1
    <3> QED BY <1>1, <3>1, <3>2
  <2>5. /\ u[k].do \in {"delete", "select", "removebytes"}
        /\ u[k].do = "delete" =>
             \E j \in (k + 1)..Len(u) : u[j].do = "select" /\ u[k].ids \subseteq u[j].ids
        /\ u[k].do = "select" /\ ~u[k].last =>
             \E j \in (k + 1)..Len(u) : u[j].do = "select" /\ u[j].last
    BY DEF Followed
  <2>6. ASSUME c[i].do = "delete"
        PROVE  \E j \in (i + 1)..Len(c) : c[j].do = "select" /\ c[i].ids \subseteq c[j].ids
    <3>1. PICK j \in (k + 1)..Len(u) : u[j].do = "select" /\ u[k].ids \subseteq u[j].ids
      BY <2>3, <2>5, <2>6
    <3>2. K + j \in (i + 1)..Len(c) /\ c[K + j] = u[j]
      BY <2>4, <3>1
    <3> QED BY <2>3, <3>1, <3>2
  <2>7. ASSUME c[i].do = "select" /\ ~c[i].last
        PROVE  \E j \in (i + 1)..Len(c) : c[j].do = "select" /\ c[j].last
    <3>1. PICK j \in (k + 1)..Len(u) : u[j].do = "select" /\ u[j].last
      BY <2>3, <2>5, <2>7
    <3>2. K + j \in (i + 1)..Len(c) /\ c[K + j] = u[j]
      BY <2>4, <3>1
    <3> QED BY <2>3, <3>1, <3>2
  <2> QED BY <2>3, <2>5, <2>6, <2>7
<1> QED BY <1>3, <1>4 DEF K

(* The rows of a set of names. *)
LEMMA DeleteRowsItems ==
  ASSUME NEW S \in SUBSET Places
  PROVE  DeleteRows(S) \in Seq(Stmt) /\ Items(DeleteRows(S)) = {Delete(t, S) : t \in TableNames}
<1>1. Len(Tables) = 5 /\ (\A i \in 1..5 : Tables[i] \in TableNames)
      /\ \A t \in TableNames : \E i \in 1..5 : Tables[i] = t
  <2>1. /\ Tables[1] = "nodes" /\ Tables[2] = "properties" /\ Tables[3] = "addl_props"
        /\ Tables[4] = "links" /\ Tables[5] = "capabilities" /\ Len(Tables) = 5
    BY DEF Tables
  <2>2. 1 \in 1..5 /\ 2 \in 1..5 /\ 3 \in 1..5 /\ 4 \in 1..5 /\ 5 \in 1..5
        /\ \A i \in 1..5 : i = 1 \/ i = 2 \/ i = 3 \/ i = 4 \/ i = 5
    OBVIOUS
  <2> QED BY <2>1, <2>2 DEF TableNames
<1>2. DeleteRows(S) = [i \in 1..5 |-> Delete(Tables[i], S)]
  BY <1>1 DEF DeleteRows
<1> DEFINE e == [i \in 1..5 |-> Delete(Tables[i], S)]
<1>3. e \in [1..5 -> Stmt]
  BY <1>1, Statements
<1>4. e \in Seq(Stmt) /\ Items(e) = {e[i] : i \in 1..5}
  <2> HIDE DEF e
  <2>1. 5 \in Nat
    OBVIOUS
  <2> QED BY <1>3, <2>1, ItemsFrom
<1>5. {e[i] : i \in 1..5} = {Delete(t, S) : t \in TableNames}
  <2>1. \A i \in 1..5 : e[i] = Delete(Tables[i], S)
    OBVIOUS
  <2> HIDE DEF e
  <2> QED BY <1>1, <2>1
<1> QED BY <1>2, <1>4, <1>5 DEF e

(* What removeData does. *)
LEMMA RemoveDataItems ==
  ASSUME NEW n \in Places, NEW container \in BOOLEAN
  PROVE  /\ RemoveData(n, container) \in Seq(Stmt)
         /\ Items(RemoveData(n, container)) =
              {Delete(t, {n}) : t \in TableNames} \cup {Select({n}, TRUE)}
              \cup IF container THEN {Delete(t, Under(n)) : t \in TableNames} \cup {Select(Under(n), FALSE)}
                   ELSE {}
         /\ Followed(RemoveData(n, container))
<1> DEFINE U == Under(n)
           d1 == DeleteRows(U)
           s1 == <<Select(U, FALSE)>>
           d2 == DeleteRows({n})
           s2 == <<Select({n}, TRUE)>>
<1>1. U \in SUBSET Places /\ {n} \in SUBSET Places
  BY DEF Under, Places
<1>2. Select(U, FALSE) \in Stmt /\ Select({n}, TRUE) \in Stmt
  BY <1>1, Statements
<1> HIDE DEF U
<1>3. /\ d1 \in Seq(Stmt) /\ Items(d1) = {Delete(t, U) : t \in TableNames}
      /\ d2 \in Seq(Stmt) /\ Items(d2) = {Delete(t, {n}) : t \in TableNames}
  BY <1>1, DeleteRowsItems
<1>4. /\ s1 \in Seq(Stmt) /\ Items(s1) = {Select(U, FALSE)}
      /\ s2 \in Seq(Stmt) /\ Items(s2) = {Select({n}, TRUE)} /\ <<>> \in Seq(Stmt)
  BY <1>2, Lists, ItemsSmall
<1>5. Followed(s2)
  <2>1. Len(s2) = 1 /\ s2[1] = Select({n}, TRUE) /\ \A i \in 1..1 : i = 1
    OBVIOUS
  <2> HIDE DEF s2
  <2> QED BY <2>1 DEF Followed, Select
<1>6. \A t : Delete(t, U).do = "delete" /\ Delete(t, U).ids = U
           /\ Delete(t, {n}).do = "delete" /\ Delete(t, {n}).ids = {n}
  BY DEF Delete
<1>7. /\ Select(U, FALSE).do = "select" /\ Select(U, FALSE).ids = U /\ Select(U, FALSE).last = FALSE
      /\ Select({n}, TRUE).do = "select" /\ Select({n}, TRUE).ids = {n} /\ Select({n}, TRUE).last = TRUE
  BY DEF Select
<1> HIDE DEF d1, s1, d2, s2, Stmt
<1>8. d2 \o s2 \in Seq(Stmt) /\ Items(d2 \o s2) = Items(d2) \cup Items(s2)
  <2>1. d2 \o s2 \in Seq(Stmt)
    BY <1>3, <1>4, Lists
  <2>2. d2 \in Seq(Stmt) /\ s2 \in Seq(Stmt)
    BY <1>3, <1>4
  <2>3. Items(d2 \o s2) = Items(d2) \cup Items(s2)
    BY <2>2, ItemsConcat
  <2> QED BY <2>1, <2>3
<1>9. Followed(d2 \o s2)
  <2>1. \A s \in Items(d2) : s.do = "delete" /\ s.ids = {n}
    BY <1>3, <1>6
  <2>2. \A s \in Items(d2) : \E x \in Items(s2) : x.do = "select" /\ s.ids \subseteq x.ids
    BY <1>4, <1>7, <2>1
  <2> QED BY <1>3, <1>4, <1>5, <2>1, <2>2, FollowedFront
<1>a. PICK a : a = d2 \o s2
  OBVIOUS
<1>A. a \in Seq(Stmt) /\ Items(a) = Items(d2) \cup Items(s2) /\ Followed(a)
  BY <1>8, <1>9, <1>a
<1>b. PICK b : b = s1 \o a
  OBVIOUS
<1>10. b \in Seq(Stmt) /\ Items(b) = Items(s1) \cup Items(d2) \cup Items(s2)
  <2>1. s1 \in Seq(Stmt) /\ a \in Seq(Stmt)
    BY <1>4, <1>A
  <2>2. b \in Seq(Stmt)
    BY <1>b, <2>1, Lists
  <2>3. Items(b) = Items(s1) \cup Items(a)
    BY <1>b, <2>1, ItemsConcat
  <2> QED BY <1>A, <2>2, <2>3
<1>11. Followed(b)
  <2>1. \A s \in Items(s1) : s.do = "select"
    BY <1>4, <1>7
  <2>2. \E x \in Items(a) : x.do = "select" /\ x.last
    BY <1>4, <1>7, <1>A
  <2> QED BY <1>4, <1>A, <1>b, <2>1, <2>2, FollowedFront
<1>c. PICK c : c = d1 \o b
  OBVIOUS
<1>12. c \in Seq(Stmt) /\ Items(c) = Items(d1) \cup Items(s1) \cup Items(d2) \cup Items(s2)
  <2>1. d1 \in Seq(Stmt) /\ b \in Seq(Stmt)
    BY <1>3, <1>10
  <2>2. c \in Seq(Stmt)
    BY <1>c, <2>1, Lists
  <2>3. Items(c) = Items(d1) \cup Items(b)
    BY <1>c, <2>1, ItemsConcat
  <2> QED BY <1>10, <2>2, <2>3
<1>13. Followed(c)
  <2>1. \A s \in Items(d1) : s.do = "delete" /\ s.ids = U
    BY <1>3, <1>6
  <2>2. \A s \in Items(d1) : \E x \in Items(b) : x.do = "select" /\ s.ids \subseteq x.ids
    BY <1>4, <1>7, <1>10, <2>1
  <2> QED BY <1>3, <1>10, <1>11, <1>c, <2>1, <2>2, FollowedFront
<1>14. CASE container
  <2>1. RemoveData(n, container) = ((d1 \o s1) \o d2) \o s2
    BY <1>14 DEF RemoveData, If, d1, s1, d2, s2, U
  <2>2. d1 \o s1 \in Seq(Stmt)
    BY <1>3, <1>4, Lists
  <2>3. ((d1 \o s1) \o d2) \o s2 = (d1 \o s1) \o a
    <3>1. PICK e : e = d1 \o s1
      OBVIOUS
    <3>2. (e \o d2) \o s2 = e \o (d2 \o s2)
      <4>1. e \in Seq(Stmt) /\ d2 \in Seq(Stmt) /\ s2 \in Seq(Stmt)
        BY <1>3, <1>4, <2>2, <3>1
      <4> QED BY <4>1, ConcatAssociative
    <3> QED BY <1>a, <3>1, <3>2
  <2>4. (d1 \o s1) \o a = c
    <3>1. d1 \in Seq(Stmt) /\ s1 \in Seq(Stmt) /\ a \in Seq(Stmt)
      BY <1>3, <1>4, <1>A
    <3> QED BY <1>b, <1>c, <3>1, ConcatAssociative
  <2> QED BY <1>3, <1>4, <1>12, <1>13, <1>14, <2>1, <2>3, <2>4 DEF U
<1>15. CASE ~container
  <2>1. RemoveData(n, container) = (<<>> \o d2) \o s2
    BY <1>15 DEF RemoveData, If, d2, s2
  <2>2. (<<>> \o d2) \o s2 = d2 \o s2
    BY <1>3, ConcatEmptySeq
  <2> QED BY <1>3, <1>4, <1>8, <1>9, <1>15, <2>1, <2>2
<1> QED BY <1>14, <1>15

(* Lists of what is in them. *)
LEMMA ItemsOf ==
  ASSUME NEW T, NEW s \in Seq(T), NEW G
  PROVE  /\ Items(s) \subseteq T
         /\ Items(s) \subseteq G <=> s \in Seq(G)
<1>1. Len(s) \in Nat /\ s \in [1..Len(s) -> T]
  BY LenProperties
<1>2. \A i \in 1..Len(s) : s[i] \in Items(s)
  BY DEF Items
<1>3. ASSUME Items(s) \subseteq G PROVE s \in Seq(G)
  <2>1. s \in [1..Len(s) -> G]
    BY <1>1, <1>2, <1>3
  <2> QED BY <1>1, <2>1, SeqDef
<1>4. ASSUME s \in Seq(G) PROVE Items(s) \subseteq G
  BY <1>4, LenProperties DEF Items
<1>5. Items(s) \subseteq T
  BY <1>1 DEF Items
<1> QED BY <1>3, <1>4, <1>5

(* What is inserted when links to what was deleted are found. *)
LinkDeletes(links) == LET order == SetToSeq(links)
  IN FlattenSeq([i \in 1..Len(order) |-> RemoveData(order[i], FALSE)])
LinkRemoves(links) == LET order == SetToSeq(links)
  IN [i \in 1..Len(order) |-> RemoveBytes(order[i], FALSE)]

(* The statements that removeData adds for the links it has found. *)
LEMMA LinkLists ==
  ASSUME NEW links \in SUBSET Names
  PROVE  /\ LinkDeletes(links) \in Seq(Stmt) /\ Followed(LinkDeletes(links))
         /\ \A s : s \in Items(LinkDeletes(links)) <=>
              \E l \in links : s = Select({l}, TRUE) \/ \E t \in TableNames : s = Delete(t, {l})
         /\ LinkRemoves(links) \in Seq(Stmt) /\ Followed(LinkRemoves(links))
         /\ Items(LinkRemoves(links)) = {RemoveBytes(l, FALSE) : l \in links}
<1> DEFINE order == SetToSeq(links)
           K == Len(order)
           e == [i \in 1..K |-> RemoveData(order[i], FALSE)]
           f == [i \in 1..K |-> RemoveBytes(order[i], FALSE)]
           Of(l) == {Delete(t, {l}) : t \in TableNames} \cup {Select({l}, TRUE)}
<1>0. LinkDeletes(links) = FlattenSeq(e) /\ LinkRemoves(links) = f
  BY DEF LinkDeletes, LinkRemoves
<1>1. IsFiniteSet(links)
  BY FS_Subset, NamesAssumption
<1>2. order \in Seq(links) /\ \A x \in links : \E i \in 1..K : order[i] = x
  BY <1>1, SetToSeqLists
<1> HIDE DEF order
<1>3. K \in Nat /\ (\A i \in 1..K : order[i] \in links) /\ links \subseteq Places
  BY <1>2 DEF Places
<1> HIDE DEF K, Stmt
<1>4. \A l \in links : /\ RemoveData(l, FALSE) \in Seq(Stmt) /\ Followed(RemoveData(l, FALSE))
                        /\ Items(RemoveData(l, FALSE)) = Of(l)
  <2> TAKE l \in links
  <2>1. l \in Places /\ FALSE \in BOOLEAN
    BY <1>3
  <2> QED BY <2>1, RemoveDataItems
<1> HIDE DEF Of
<1>5. \A i \in 1..K : e[i] \in Seq(Stmt) /\ Followed(e[i]) /\ Items(e[i]) = Of(order[i])
  BY <1>3, <1>4
<1>E. e = [i \in 1..K |-> e[i]]
  OBVIOUS
<1> HIDE DEF e
<1>6. FlattenSeq(e) \in Seq(Stmt) /\ Followed(FlattenSeq(e))
  <2> DEFINE C == {s \in Seq(Stmt) : Followed(s)}
  <2>1. e \in [1..K -> C]
    BY <1>5, <1>E
  <2>2. <<>> \in C
    BY ItemsSmall, Lists
  <2>3. \A s, t \in C : s \o t \in C
    BY ItemsConcat, Lists
  <2>4. C \subseteq Seq(Stmt)
    OBVIOUS
  <2> HIDE DEF C
  <2>5. e \in Seq(C)
    BY <1>3, <2>1, SeqDef
  <2>6. FlattenSeq(e) \in C
    BY <2>2, <2>3, <2>4, <2>5, FlattenClosed
  <2> QED BY <2>6 DEF C
<1>7. Items(FlattenSeq(e)) \subseteq UNION {Of(l) : l \in links}
  <2> DEFINE G == UNION {Of(l) : l \in links}
  <2>1. \A i \in 1..K : e[i] \in Seq(G)
    <3> TAKE i \in 1..K
    <3>1. e[i] \in Seq(Stmt) /\ Items(e[i]) \subseteq G
      BY <1>3, <1>5
    <3> HIDE DEF G
    <3> QED BY <3>1, ItemsOf
  <2> HIDE DEF G
  <2>2. e \in Seq(Seq(G))
    <3>1. e \in [1..K -> Seq(G)]
      BY <1>E, <2>1
    <3> QED BY <1>3, <3>1, SeqDef
  <2>3. FlattenSeq(e) \in Seq(G)
    BY <2>2, FlattenSeqType
  <2> QED BY <2>3, ItemsOf DEF G
<1>8. \A l \in links : Of(l) \subseteq Items(FlattenSeq(e))
  <2> TAKE l \in links
  <2>1. PICK i \in 1..K : order[i] = l
    BY <1>2
  <2>2. e \in Seq(Seq(Stmt)) /\ Len(e) = K
    <3>1. e \in [1..K -> Seq(Stmt)]
      BY <1>5, <1>E
    <3> QED BY <1>3, <3>1, SeqDef, LenProperties
  <2>3. Items(e[i]) \subseteq Items(FlattenSeq(e))
    BY <2>2, FlattenItems
  <2> QED BY <1>5, <2>1, <2>3
<1>9. f \in Seq(Stmt) /\ Items(f) = {f[i] : i \in 1..K}
  <2>1. f \in [1..K -> Stmt]
    BY <1>3, Statements
  <2> HIDE DEF f
  <2> QED BY <1>3, <2>1, ItemsFrom
<1>10. {f[i] : i \in 1..K} = {RemoveBytes(l, FALSE) : l \in links}
  BY <1>2, <1>3
<1>11. Followed(f)
  <2>1. Len(f) = K /\ \A i \in 1..K : f[i].do = "removebytes"
    BY <1>3 DEF RemoveBytes
  <2> HIDE DEF f
  <2> QED BY <2>1 DEF Followed
<1> HIDE DEF f
<1>12. \A l, s : s \in Of(l) <=> s = Select({l}, TRUE) \/ \E t \in TableNames : s = Delete(t, {l})
  BY DEF Of
<1>13. Items(FlattenSeq(e)) = UNION {Of(l) : l \in links}
  BY <1>7, <1>8
<1>14. \A s : s \in Items(LinkDeletes(links)) <=>
         \E l \in links : s = Select({l}, TRUE) \/ \E t \in TableNames : s = Delete(t, {l})
  <2> TAKE s
  <2>1. s \in Items(LinkDeletes(links)) <=> \E l \in links : s \in Of(l)
    BY <1>0, <1>13
  <2> QED BY <1>12, <2>1, Zenon
<1> QED BY <1>0, <1>6, <1>9, <1>10, <1>11, <1>14

-----------------------------------------------------------------------------
(* The lists jobs are made of *)

(* The tables that updateData and storeData change for what is no link. *)
Moved == {"nodes", "properties", "addl_props"}

(* The children of a node are looked for last. *)
LastOne(list) == \A i \in 1..Len(list) : list[i].do = "children" => i = Len(list)

(* A row of a copy. *)
CopyRow(t, k, kind) == Insert(t, k, IF t = "nodes" THEN kind ELSE "", NoName)

(* Two lists with nothing in common make a list with nothing twice in it. *)
LEMMA DistinctConcat ==
  ASSUME NEW s \in Seq(Stmt), NEW u \in Seq(Stmt), Distinct(s), Distinct(u),
         Items(s) \cap Items(u) = {}
  PROVE  s \o u \in Seq(Stmt) /\ Distinct(s \o u) /\ Items(s \o u) = Items(s) \cup Items(u)
<1> HIDE DEF Stmt
<1> QED BY ItemsConcat, ConcatProperties

(* What the creation of a node inserts and makes, each of it once. *)
NewStmts(n, kind, to, addl) ==
  StoreData(n, kind, to, addl)
  \o If(kind = "container", <<Insert("capabilities", n, "", NoName)>>)
  \o <<Make(kind, n)>>

(* What comes first in a list, and what then. *)
LEMMA FirstRest ==
  ASSUME NEW T, NEW x \in T, NEW u \in Seq(T)
  PROVE  /\ <<x>> \o u # <<>> /\ <<x>> \o u \in Seq(T)
         /\ Head(<<x>> \o u) = x /\ Tail(<<x>> \o u) = u
<1> DEFINE c == <<x>> \o u
<1>1. /\ <<x>> \in Seq(T) /\ Len(<<x>>) = 1 /\ Len(u) \in Nat /\ c \in Seq(T) /\ Len(c) = 1 + Len(u)
      /\ \A i \in 1..(1 + Len(u)) : c[i] = IF i <= 1 THEN <<x>>[i] ELSE u[i - 1]
  BY ConcatProperties
<1> HIDE DEF c
<1>2. c # <<>> /\ c[1] = x
  BY <1>1
<1>3. Head(c) = x
  BY <1>1, <1>2
<1>4. Tail(c) \in Seq(T) /\ Len(Tail(c)) = Len(u) /\ \A i \in 1..Len(u) : Tail(c)[i] = u[i]
  <2>1. Tail(c) \in Seq(T) /\ Len(Tail(c)) = Len(c) - 1
    BY <1>1, <1>2, HeadTailProperties
  <2>2. \A i \in 1..(Len(c) - 1) : Tail(c)[i] = c[i + 1]
    BY <1>1, <1>2
  <2>3. \A i \in 1..Len(u) : c[i + 1] = u[i]
    <3> TAKE i \in 1..Len(u)
    <3>1. i + 1 \in 1..(1 + Len(u)) /\ ~(i + 1 <= 1) /\ (i + 1) - 1 = i
      BY <1>1
    <3>j. PICK j : j = i + 1
      OBVIOUS
    <3>2. c[j] = u[j - 1]
      BY <1>1, <3>1, <3>j
    <3> QED BY <3>1, <3>2, <3>j
  <2> QED BY <1>1, <2>1, <2>2, <2>3
<1>5. Tail(c) = u
  BY <1>1, <1>4, SeqEqual
<1> QED BY <1>1, <1>2, <1>3, <1>5 DEF c

(* The statement that reads the children is the last one of the list that is left, too. *)
LEMMA LastTail ==
  ASSUME NEW T, NEW list \in Seq(T), list # <<>>, LastOne(list)
  PROVE  LastOne(Tail(list)) /\ (Head(list).do = "children" => Tail(list) = <<>>)
<1>1. /\ Tail(list) \in Seq(T) /\ Len(list) \in Nat /\ Len(list) > 0 /\ Len(Tail(list)) = Len(list) - 1
      /\ \A i \in 1..Len(Tail(list)) : Tail(list)[i] = list[i + 1]
      /\ Head(list) = list[1]
  <2>1. Tail(list) \in Seq(T) /\ Len(Tail(list)) = Len(list) - 1
    BY HeadTailProperties
  <2>2. Len(list) \in Nat /\ Len(list) > 0
    BY EmptySeq
  <2>3. \A i \in 1..(Len(list) - 1) : Tail(list)[i] = list[i + 1]
    BY <2>2
  <2> QED BY <2>1, <2>2, <2>3
<1>2. LastOne(Tail(list))
  <2> SUFFICES ASSUME NEW i \in 1..Len(Tail(list)), Tail(list)[i].do = "children"
               PROVE  i = Len(Tail(list))
    BY DEF LastOne
  <2>j. PICK j : j = i + 1
    OBVIOUS
  <2>1. j \in 1..Len(list) /\ list[j].do = "children"
    BY <1>1, <2>j
  <2>2. j = Len(list)
    BY <2>1, Zenon DEF LastOne
  <2>3. PICK n, p : n = Len(list) /\ p = Len(Tail(list))
    OBVIOUS
  <2>4. n \in Nat /\ p = n - 1 /\ i \in 1..p /\ i + 1 = n
    BY <1>1, <2>j, <2>2, <2>3, Zenon
  <2>5. i = p
    BY <2>4
  <2> QED BY <2>3, <2>5, Zenon
<1>3. ASSUME Head(list).do = "children" PROVE Tail(list) = <<>>
  <2>1. 1 \in 1..Len(list) /\ list[1].do = "children"
    BY <1>1, <1>3
  <2>2. 1 = Len(list)
    BY <2>1, Zenon DEF LastOne
  <2>3. PICK n, p : n = Len(list) /\ p = Len(Tail(list))
    OBVIOUS
  <2>4. n = 1 /\ p = n - 1
    BY <1>1, <2>2, <2>3, Zenon
  <2>5. p = 0
    BY <2>4
  <2>6. Len(Tail(list)) = 0
    BY <2>3, <2>5
  <2> QED BY <1>1, <2>6, EmptySeq
<1> QED BY <1>2, <1>3

(* It stays the last one when others are put in front of it. *)
LEMMA LastFront ==
  ASSUME NEW T, NEW d \in Seq(T), NEW u \in Seq(T), LastOne(u), \A s \in Items(d) : s.do # "children"
  PROVE  LastOne(d \o u)
<1> DEFINE K == Len(d)
           c == d \o u
<1>1. /\ K \in Nat /\ Len(u) \in Nat /\ Len(c) = K + Len(u)
      /\ \A i \in 1..(K + Len(u)) : c[i] = IF i <= K THEN d[i] ELSE u[i - K]
  BY ConcatProperties
<1> HIDE DEF c
<1> SUFFICES ASSUME NEW i \in 1..Len(c), c[i].do = "children" PROVE i = Len(c)
  BY DEF LastOne, c
<1>2. ~(i <= K)
  <2> SUFFICES ASSUME i <= K PROVE FALSE
    OBVIOUS
  <2>1. i \in 1..Len(d) /\ c[i] = d[i]
    BY <1>1
  <2>2. c[i] \in Items(d)
    BY <2>1 DEF Items
  <2> QED BY <2>2
<1>3. i - K \in 1..Len(u) /\ u[i - K].do = "children"
  BY <1>1, <1>2
<1>4. i - K = Len(u)
  BY <1>3 DEF LastOne
<1> QED BY <1>1, <1>4

(* What a move has to do for a node that is no link. *)
LEMMA UpdateItems ==
  ASSUME rows \subseteq Rows, NEW n \in Places, NEW to \in Names, GetType(n) # "link"
  PROVE  /\ UpdateData(n, to) \in Seq(Stmt)
         /\ \A s \in Items(UpdateData(n, to)) :
              \/ s = Insert("addl_props", to, "", NoName)
              \/ \E t \in Moved : s = Update(t, to) \/ s = Rename(t, n, to)
         /\ \A t \in Moved : Rename(t, n, to) \in Items(UpdateData(n, to))
<1>u. PICK x, u, e, U, R :
        /\ x = (IF RowsOf("addl_props", to) = {} THEN Insert("addl_props", to, "", NoName)
                ELSE Update("addl_props", to))
        /\ u = Update("properties", to)
        /\ e = If(RowsOf("addl_props", n) # {}, <<x>>)
        /\ U = UpdateProperties(to, GetType(n), GetTarget(n), RowsOf("addl_props", n) # {})
        /\ R = [i \in 1..3 |-> Rename(Tables[i], n, to)]
  OBVIOUS
<1>1. UpdateData(n, to) = U \o R /\ UpdateData(n, to) \in Seq(Stmt)
  BY <1>u, UpdateDataType DEF UpdateData
<1>2. /\ {"nodes", "properties", "addl_props"} \subseteq TableNames
      /\ "" \in RowKinds /\ NoName \in Targets
  BY DEF TableNames, RowKinds, Targets
<1>3. x \in Stmt /\ u \in Stmt /\ \A t \in Moved : Rename(t, n, to) \in Stmt
  BY <1>2, <1>u, Statements DEF Moved
<1> HIDE DEF Stmt
<1>4. U = (<<>> \o e) \o <<u>>
  <2>1. If(GetType(n) = "link", <<Retarget(to, GetTarget(n))>>) = <<>>
    BY DEF If
  <2>2. U = (If(GetType(n) = "link", <<Retarget(to, GetTarget(n))>>) \o e) \o <<u>>
    BY <1>u, Zenon DEF UpdateProperties
  <2> QED BY <2>1, <2>2
<1>5. e \in Seq(Stmt) /\ Items(e) \subseteq {x} /\ <<u>> \in Seq(Stmt) /\ Items(<<u>>) = {u}
  BY <1>3, <1>u, Lists, ItemsSmall
<1>6. U = e \o <<u>> /\ U \in Seq(Stmt) /\ Items(U) \subseteq {x, u}
  <2>1. U = e \o <<u>>
    BY <1>4, <1>5, ConcatEmptySeq
  <2>v. PICK v : v = <<u>> /\ v \in Seq(Stmt) /\ Items(v) = {u}
    BY <1>5
  <2>2. Items(e \o v) = Items(e) \cup Items(v)
    <3>1. e \in Seq(Stmt) /\ v \in Seq(Stmt)
      BY <1>5, <2>v
    <3> HIDE DEF Stmt
    <3> QED BY <3>1, ItemsConcat
  <2>3. e \o v \in Seq(Stmt)
    BY <1>5, <2>v, Lists
  <2> QED BY <1>5, <2>1, <2>2, <2>3, <2>v
<1>7. R \in Seq(Stmt) /\ \A s : s \in Items(R) <=> \E t \in Moved : s = Rename(t, n, to)
  <2>1. Tables[1] = "nodes" /\ Tables[2] = "properties" /\ Tables[3] = "addl_props"
    BY DEF Tables
  <2>2. \A i \in 1..3 : i = 1 \/ i = 2 \/ i = 3
    OBVIOUS
  <2>3. \A i \in 1..3 : Tables[i] \in Moved
    BY <2>1, <2>2 DEF Moved
  <2>4. R \in Seq(Stmt) /\ Len(R) = 3 /\ \A i \in 1..3 : R[i] = Rename(Tables[i], n, to)
    <3>1. \A i \in 1..3 : Rename(Tables[i], n, to) \in Stmt
      BY <1>3, <2>3
    <3>2. R \in [1..3 -> Stmt] /\ \A i \in 1..3 : R[i] = Rename(Tables[i], n, to)
      BY <1>u, <3>1
    <3>3. 3 \in Nat /\ R \in Seq(Stmt)
      BY <3>2, SeqDef
    <3> QED BY <3>2, <3>3
  <2>5. \A t \in Moved : \E i \in 1..3 : t = Tables[i]
    BY <2>1 DEF Moved
  <2>6. \A s : s \in Items(R) <=> \E i \in 1..3 : s = Rename(Tables[i], n, to)
    BY <2>4 DEF Items
  <2> QED BY <2>3, <2>4, <2>5, <2>6
<1>8. Items(UpdateData(n, to)) = Items(U) \cup Items(R)
  <2>1. U \in Seq(Stmt) /\ R \in Seq(Stmt)
    BY <1>6, <1>7
  <2>2. Items(U \o R) = Items(U) \cup Items(R)
    BY <2>1, ItemsConcat, Zenon
  <2> QED BY <1>1, <2>2, Zenon
<1>9. x = Insert("addl_props", to, "", NoName) \/ \E t \in Moved : x = Update(t, to)
  BY <1>u DEF Moved
<1>10. \E t \in Moved : u = Update(t, to)
  BY <1>u DEF Moved
<1> QED BY <1>1, <1>6, <1>7, <1>8, <1>9, <1>10

(* What a copied row says. *)
LEMMA CopyRowIs ==
  ASSUME NEW t, NEW k, NEW kind
  PROVE  /\ CopyRow(t, k, kind).do = "insert" /\ CopyRow(t, k, kind).t = t
         /\ CopyRow(t, k, kind).id = k
         /\ CopyRow("nodes", k, kind).kind = kind
BY DEF CopyRow, Insert

(* The statements that store a node that is no link, each of them once. *)
LEMMA StoreItems ==
  ASSUME NEW k \in Names, NEW kind \in RowKinds, kind # "link", NEW target \in Targets, NEW addl
  PROVE  /\ StoreData(k, kind, target, addl) \in Seq(Stmt) /\ Distinct(StoreData(k, kind, target, addl))
         /\ \A x \in Items(StoreData(k, kind, target, addl)) : \E t \in Moved : x = CopyRow(t, k, kind)
         /\ CopyRow("nodes", k, kind) \in Items(StoreData(k, kind, target, addl))
         /\ CopyRow("properties", k, kind) \in Items(StoreData(k, kind, target, addl))
<1>s. PICK a, c, d : /\ a = Insert("nodes", k, kind, NoName) /\ c = Insert("addl_props", k, "", NoName)
                     /\ d = Insert("properties", k, "", NoName)
  OBVIOUS
<1>1. a \in Stmt /\ c \in Stmt /\ d \in Stmt
  <2>1. /\ {"nodes", "properties", "addl_props"} \subseteq TableNames
        /\ kind \in RowKinds /\ "" \in RowKinds /\ NoName \in Targets
    BY DEF TableNames, RowKinds, Targets
  <2> QED BY <1>s, <2>1, Statements
<1>2. a # c /\ a # d /\ c # d
  BY <1>s DEF Insert
<1>3. /\ a = CopyRow("nodes", k, kind) /\ c = CopyRow("addl_props", k, kind)
      /\ d = CopyRow("properties", k, kind)
  BY <1>s DEF CopyRow
<1>C. PICK C : C = (IF addl THEN {c} ELSE {})
  OBVIOUS
<1>x. PICK xa, xc, xd : xa = <<a>> /\ xc = If(addl, <<c>>) /\ xd = <<d>>
  OBVIOUS
<1> HIDE DEF Stmt
<1>4. /\ xa \in Seq(Stmt) /\ Distinct(xa) /\ Items(xa) = {a}
      /\ xc \in Seq(Stmt) /\ Distinct(xc) /\ Items(xc) = C
      /\ xd \in Seq(Stmt) /\ Distinct(xd) /\ Items(xd) = {d}
  <2>1. xa \in Seq(Stmt) /\ Distinct(xa) /\ Items(xa) = {a}
    BY <1>1, <1>x, Lists, ItemsSmall
  <2>2. xc \in Seq(Stmt) /\ Distinct(xc) /\ Items(xc) = C
    BY <1>1, <1>x, <1>C, Lists, ItemsSmall
  <2>3. xd \in Seq(Stmt) /\ Distinct(xd) /\ Items(xd) = {d}
    BY <1>1, <1>x, Lists, ItemsSmall
  <2> QED BY <2>1, <2>2, <2>3
<1>5. C \subseteq {c}
  BY <1>C
<1>y. PICK y1 : y1 = xa \o xc
  OBVIOUS
<1>6. y1 \in Seq(Stmt) /\ Distinct(y1) /\ Items(y1) = {a} \cup C
  <2>1. {a} \cap C = {}
    BY <1>2, <1>5
  <2>2. xa \in Seq(Stmt) /\ Distinct(xa) /\ xc \in Seq(Stmt) /\ Distinct(xc)
        /\ Items(xa) \cap Items(xc) = {}
    BY <1>4, <2>1
  <2>3. xa \o xc \in Seq(Stmt) /\ Distinct(xa \o xc) /\ Items(xa \o xc) = Items(xa) \cup Items(xc)
    BY <2>2, DistinctConcat
  <2> QED BY <1>4, <1>y, <2>3
<1>7. y1 \o xd \in Seq(Stmt) /\ Distinct(y1 \o xd) /\ Items(y1 \o xd) = ({a} \cup C) \cup {d}
  <2>1. ({a} \cup C) \cap {d} = {}
    BY <1>2, <1>5
  <2>2. y1 \in Seq(Stmt) /\ Distinct(y1) /\ xd \in Seq(Stmt) /\ Distinct(xd)
        /\ Items(y1) \cap Items(xd) = {}
    BY <1>4, <1>6, <2>1
  <2>3. y1 \o xd \in Seq(Stmt) /\ Distinct(y1 \o xd) /\ Items(y1 \o xd) = Items(y1) \cup Items(xd)
    BY <2>2, DistinctConcat
  <2> QED BY <1>4, <1>6, <2>3
<1>8. StoreData(k, kind, target, addl) = y1 \o xd
  <2>1. If(kind = "link", <<Insert("links", k, "", target)>>) = <<>>
    BY DEF If
  <2>2. StoreData(k, kind, target, addl)
          = ((xa \o If(kind = "link", <<Insert("links", k, "", target)>>)) \o xc) \o xd
    BY <1>s, <1>x, Zenon DEF StoreData
  <2>3. xa \o <<>> = xa
    BY <1>4, ConcatEmptySeq
  <2> QED BY <1>y, <2>1, <2>2, <2>3
<1>9. \A x \in ({a} \cup C) \cup {d} : x = a \/ x = c \/ x = d
  BY <1>5
<1> QED BY <1>3, <1>7, <1>8, <1>9 DEF Moved

(* What comes last, if it comes. *)
LEMMA JobLast ==
  ASSUME NEW c \in Stmt, c.do = "children", NEW b, NEW e, e = If(b, <<c>>)
  PROVE  e \in Seq(Stmt) /\ Distinct(e) /\ LastOne(e) /\ \A s : s \in Items(e) <=> b /\ s = c
<1> HIDE DEF Stmt
<1>1. CASE b
  <2>1. e = <<c>>
    BY <1>1 DEF If
  <2>2. <<c>> \in Seq(Stmt) /\ Items(<<c>>) = {c} /\ Distinct(<<c>>)
    BY Lists, ItemsSmall
  <2>3. LastOne(<<c>>)
    BY DEF LastOne
  <2>4. \A s : s \in {c} <=> s = c
    OBVIOUS
  <2> QED BY <1>1, <2>1, <2>2, <2>3, <2>4, Zenon
<1>2. CASE ~b
  <2>1. e = <<>>
    BY <1>2 DEF If
  <2>2. <<>> \in Seq(Stmt) /\ Items(<<>>) = {} /\ Distinct(<<>>)
    BY Lists, ItemsSmall
  <2>3. LastOne(<<>>)
    BY DEF LastOne
  <2>4. \A s : ~(s \in {})
    OBVIOUS
  <2> QED BY <1>2, <2>1, <2>2, <2>3, <2>4, Zenon
<1> QED BY <1>1, <1>2

(* The rest of the statements of a job, in order. *)
LEMMA JobRest ==
  ASSUME NEW x \in Stmt, NEW u \in Seq(Stmt), NEW e \in Seq(Stmt), LastOne(e), Distinct(e),
         Items(u) \cap Items(e) = {}, \A s \in Items(u) : s.do # "children",
         NEW list, list = <<x>> \o u \o e
  PROVE  /\ list # <<>> /\ Head(list) = x /\ LastOne(Tail(list))
         /\ \A s : s \in Items(Tail(list)) <=> s \in Items(u) \/ s \in Items(e)
         /\ Distinct(u) => Distinct(Tail(list))
<1> HIDE DEF Stmt
<1>3. list = <<x>> \o (u \o e) /\ u \o e \in Seq(Stmt)
  <2>1. <<x>> \in Seq(Stmt) /\ u \o e \in Seq(Stmt)
    BY Lists
  <2> QED BY <2>1, ConcatAssociative
<1>v. PICK v : v = u \o e
  OBVIOUS
<1>4. v \in Seq(Stmt) /\ list = <<x>> \o v
  BY <1>3, <1>v
<1>5. list # <<>> /\ Head(list) = x /\ Tail(list) = v
  <2>1. <<x>> \o v # <<>> /\ Head(<<x>> \o v) = x /\ Tail(<<x>> \o v) = v
    BY <1>4, FirstRest, Zenon
  <2> QED BY <1>4, <2>1, Zenon
<1>6. LastOne(v)
  BY <1>v, LastFront
<1>7. Items(v) = Items(u) \cup Items(e)
  BY <1>v, ItemsConcat
<1>8. Distinct(u) => Distinct(v)
  BY <1>v, ItemsConcat
<1> QED BY <1>5, <1>6, <1>7, <1>8

-----------------------------------------------------------------------------
(* The invariant: who meets whom *)

(* A running request is good while not all its names are unclear: it is then   *)
(* the only one at work there, and what it has done so far is known.           *)
Good(r) == pc[r] = "run" /\ ~(scope[r] \subseteq unclear)

(* Requests that are in each other's way. *)
Meeting(r, q) == \/ scope[q] \cap (scope[r] \cup needs[r]) # {}
                 \/ needs[q] \cap scope[r] # {}

(* A request has met others with all its names or with none; those that are in *)
(* each other's way have met; a deletion that sweeps has met nobody.           *)
Whole == \A r \in Running : scope[r] \subseteq unclear \/ scope[r] \cap unclear = {}
Apart == \A r, q \in Running : r # q /\ Meeting(r, q) =>
           scope[r] \subseteq unclear /\ scope[q] \subseteq unclear /\ r \notin sweeps
Sweepers == \A r \in sweeps : /\ pc[r] = "run" /\ op[r].do = "delete"
                              /\ Subtree(op[r].id) \subseteq scope[r]
Orderly == Whole /\ Apart /\ Sweepers

(* What a request does between its first and its last step. *)
Works(r) ==
  \/ Execute(r) \/ Lose(r) \/ SelectLinks(r) \/ FindChildren(r) \/ ReadChild(r)
  \/ MakeFile(r) \/ MoveFiles(r) \/ CopyFiles(r) \/ RemoveFiles(r)
Ends(r) == Return(r) \/ Unmoved(r) \/ Fail(r)

(* A request that works changes nothing that belongs to others; late are the   *)
(* links it has come to besides its names.                                     *)
Alters(r, late, spoilt) ==
  LET met == Met(r, late, {})
  IN /\ late \subseteq Names /\ (late # {} => spoilt)
     /\ scope'[r] = scope[r] \cup late
     /\ unclear' = unclear \cup (IF spoilt THEN scope[r] \cup late ELSE {})
                           \cup UNION {scope[q] : q \in met}
     /\ sweeps' = IF spoilt THEN sweeps \ (met \cup {r}) ELSE sweeps

(* No request meets anybody with no name. *)
LEMMA MetNobody == \A r : Met(r, {}, {}) = {}
BY DEF Met

(* What any work of a request does to itself and to the others. *)
LEMMA WorkFacts ==
  ASSUME Typed, NEW r \in Requests, Works(r)
  PROVE  /\ pc[r] = "run" /\ todo[r] # <<>>
         /\ pc' = pc /\ op' = op /\ needs' = needs
         /\ \A q \in Requests : q # r =>
              todo'[q] = todo[q] /\ found'[q] = found[q] /\ scope'[q] = scope[q]
         /\ \E late, spoilt : Alters(r, late, spoilt)
<1>D. /\ rows \subseteq Rows /\ todo \in [Requests -> Seq(Stmt)] /\ found \in [Requests -> SUBSET Names]
      /\ DOMAIN before = Requests
  BY DEF Typed
<1>1. pc[r] = "run" /\ todo[r] # <<>>
  BY DEF Works, Execute, Lose, SelectLinks, FindChildren, ReadChild, MakeFile, MoveFiles,
         CopyFiles, RemoveFiles, Doing
<1>2. pc' = pc /\ op' = op /\ needs' = needs
  BY DEF Works, Execute, Lose, SelectLinks, FindChildren, ReadChild, MakeFile, MoveFiles,
         CopyFiles, RemoveFiles, aux
<1>3. /\ \E list : todo' = [todo EXCEPT ![r] = list]
      /\ \E set : found' = [found EXCEPT ![r] = set]
  <2>1. found = [found EXCEPT ![r] = found[r]] /\ todo = [todo EXCEPT ![r] = todo[r]]
    BY <1>D
  <2>2. \A rest : Advance(r, rest) => todo' = [todo EXCEPT ![r] = rest]
    BY DEF Advance
  <2>3. CASE SelectLinks(r)
    BY <2>2, <2>3 DEF SelectLinks
  <2>4. CASE Lose(r)
    BY <2>1, <2>2, <2>4 DEF Lose
  <2>5. CASE ~SelectLinks(r) /\ ~Lose(r)
    <3>1. found' = found /\ \E rest : Advance(r, rest)
      BY <2>5 DEF Works, Execute, FindChildren, ReadChild, MakeFile, MoveFiles, CopyFiles, RemoveFiles
    <3> QED BY <2>1, <2>2, <3>1
  <2> QED BY <2>3, <2>4, <2>5
<1>4. CASE ~SelectLinks(r)
  <2>1. before' = before /\ \/ unclear' = unclear /\ sweeps' = sweeps
                            \/ unclear' = unclear \cup scope[r] /\ sweeps' = sweeps \ {r}
    <3>1. CASE Lose(r)
      BY <3>1 DEF Lose
    <3>2. CASE ~Lose(r)
      BY <1>4, <3>2 DEF Works, Execute, FindChildren, ReadChild, MakeFile, MoveFiles, CopyFiles,
                        RemoveFiles, aux
    <3> QED BY <3>1, <3>2
  <2>2. scope' = scope
    BY <2>1 DEF scope
  <2>3. Alters(r, {}, FALSE) \/ Alters(r, {}, TRUE)
    BY <2>1, <2>2, MetNobody DEF Alters
  <2> QED BY <1>1, <1>2, <1>3, <1>D, <2>2, <2>3
<1>5. CASE SelectLinks(r)
  <2> DEFINE s == Head1(r)
             links == found[r] \cup {w.id : w \in {v \in rows : v.t = "links" /\ v.target \in s.ids}}
             late == links \ scope[r]
             met == Met(r, late, {})
  <2>1. /\ before' = [before EXCEPT ![r] =
                        [n \in scope[r] \cup late |-> IF n \in late THEN Stored(n) ELSE @[n]]]
        /\ sweeps' = IF late = {} THEN sweeps ELSE sweeps \ (met \cup {r})
        /\ unclear' = unclear \cup (IF late = {} THEN {} ELSE scope[r] \cup late)
                               \cup UNION {scope[q] : q \in met}
    BY <1>5 DEF SelectLinks
  <2>2. late \subseteq Names
    BY <1>D DEF Rows
  <2> HIDE DEF late
  <2>3. scope'[r] = scope[r] \cup late /\ \A q \in Requests : q # r => scope'[q] = scope[q]
    BY <2>1, <1>D DEF scope
  <2>4. Alters(r, late, late # {})
    BY <2>1, <2>2, <2>3 DEF Alters
  <2> QED BY <1>1, <1>2, <1>3, <1>D, <2>3, <2>4
<1> QED BY <1>4, <1>5

(* The end of a request leaves the others as they are, too. *)
LEMMA EndFacts ==
  ASSUME Typed, NEW r \in Requests, Ends(r)
  PROVE  /\ pc[r] = "run" /\ pc'[r] # "run" /\ (\A q \in Requests : q # r => pc'[q] = pc[q])
         /\ rows' = rows /\ file' = file /\ op' = op
         /\ found'[r] = {}
         /\ \A q \in Requests : q # r =>
              /\ todo'[q] = todo[q] /\ found'[q] = found[q] /\ scope'[q] = scope[q]
              /\ needs'[q] = needs[q]
         /\ sweeps' = sweeps \ {r}
         /\ \/ Return(r) /\ unclear' = unclear /\ r \notin sweeps
            \/ Fail(r) /\ unclear' = unclear \cup scope[r]
            \/ Unmoved(r) /\ unclear' = unclear
            \/ Return(r) /\ r \in sweeps /\ unclear' = unclear \ Subtree(op[r].id)
<1>D. /\ todo \in [Requests -> Seq(Stmt)] /\ found \in [Requests -> SUBSET Names]
      /\ DOMAIN before = Requests /\ needs \in [Requests -> SUBSET Names]
      /\ pc \in [Requests -> {"idle", "called", "run", "done", "refused", "failed"}]
  BY DEF Typed
<1>1. Finished(r) /\ pc[r] = "run" /\ (pc' = [pc EXCEPT ![r] = "done"] \/ pc' = [pc EXCEPT ![r] = "failed"])
  BY DEF Ends, Return, Unmoved, Fail, Doing
<1>2. pc'[r] # "run" /\ \A q \in Requests : q # r => pc'[q] = pc[q]
  BY <1>1, <1>D
<1>3. /\ rows' = rows /\ file' = file /\ op' = op /\ sweeps' = sweeps \ {r} /\ found'[r] = {}
      /\ \A q \in Requests : q # r => /\ todo'[q] = todo[q] /\ found'[q] = found[q]
                                      /\ needs'[q] = needs[q] /\ before'[q] = before[q]
  BY <1>1, <1>D DEF Finished, store
<1>4. \A q \in Requests : q # r => scope'[q] = scope[q]
  BY <1>3 DEF scope
<1>5. \/ Return(r) /\ unclear' = unclear /\ r \notin sweeps
      \/ Fail(r) /\ unclear' = unclear \cup scope[r]
      \/ Unmoved(r) /\ unclear' = unclear
      \/ Return(r) /\ r \in sweeps /\ unclear' = unclear \ Subtree(op[r].id)
  BY DEF Ends, Return, Unmoved, Fail
<1> QED BY <1>1, <1>2, <1>3, <1>4, <1>5

(* Requests that work keep out of each other's way, or are known to have met.  *)
LEMMA OrderlyWork ==
  ASSUME Typed, Orderly, NEW r \in Requests, Works(r) PROVE Orderly'
<1>1. /\ pc[r] = "run" /\ pc' = pc /\ op' = op /\ needs' = needs
      /\ \A q \in Requests : q # r => scope'[q] = scope[q]
      /\ \E late, spoilt : Alters(r, late, spoilt)
  BY WorkFacts
<1>2. PICK late, spoilt : Alters(r, late, spoilt)
  BY <1>1
<1> DEFINE met == Met(r, late, {})
<1>3. /\ late # {} => spoilt
      /\ scope'[r] = scope[r] \cup late
      /\ unclear' = unclear \cup (IF spoilt THEN scope[r] \cup late ELSE {})
                            \cup UNION {scope[q] : q \in met}
      /\ sweeps' = IF spoilt THEN sweeps \ (met \cup {r}) ELSE sweeps
  BY <1>2 DEF Alters
<1>4. \A q \in Running \ {r} : q \in met <=> scope[q] \cap late # {} \/ needs[q] \cap late # {}
  BY DEF Met
<1>5. met \subseteq Running \ {r}
  BY DEF Met
<1> HIDE DEF met
<1>6. Running' = Running /\ r \in Running
  BY <1>1 DEF Running
<1>7. \A q \in met : scope[q] \subseteq unclear'
  BY <1>3
<1>8. \A q \in Running \ {r} : Meeting(r, q)' \/ Meeting(q, r)' =>
        q \in met \/ Meeting(r, q) \/ Meeting(q, r)
  <2>1. \A q \in Running \ {r} : q \in Requests
    BY DEF Running
  <2> QED BY <1>1, <1>3, <1>4, <2>1 DEF Meeting
<1>9. \A q \in Running \ {r} : ~(scope[q] \subseteq unclear) =>
        \A p \in Running \ {q} : scope[q] \cap scope[p] = {}
  BY DEF Orderly, Apart, Meeting
<1>10. Whole'
  <2> SUFFICES ASSUME NEW q \in Running, ~(scope'[q] \subseteq unclear')
               PROVE  scope'[q] \cap unclear' = {}
    BY <1>6 DEF Whole
  <2>1. CASE q = r
    <3>1. ~spoilt /\ late = {}
      BY <1>3, <2>1
    <3>2. met = {}
      BY <1>4, <1>5, <3>1
    <3> QED BY <1>3, <2>1, <3>1, <3>2 DEF Orderly, Whole
  <2>2. CASE q # r
    <3>1. q \in Requests /\ scope'[q] = scope[q]
      BY <1>1, <2>2 DEF Running
    <3>2. ~(scope[q] \subseteq unclear) /\ q \notin met
      BY <1>3, <1>7, <3>1
    <3>3. scope[q] \cap unclear = {} /\ scope[q] \cap late = {}
      BY <1>4, <2>2, <3>2 DEF Orderly, Whole
    <3>4. scope[q] \cap scope[r] = {} /\ \A p \in met : scope[q] \cap scope[p] = {}
      BY <1>5, <1>6, <1>9, <2>2, <3>2
    <3> QED BY <1>3, <3>1, <3>3, <3>4
  <2> QED BY <2>1, <2>2
<1>11. Apart'
  <2> SUFFICES ASSUME NEW p \in Running, NEW q \in Running, p # q, Meeting(p, q)'
               PROVE  scope'[p] \subseteq unclear' /\ scope'[q] \subseteq unclear' /\ p \notin sweeps'
    BY <1>6 DEF Apart
  <2>0. unclear \subseteq unclear' /\ sweeps' \subseteq sweeps
    BY <1>3
  <2>1. CASE p # r /\ q # r
    <3>1. scope'[p] = scope[p] /\ scope'[q] = scope[q] /\ Meeting(p, q)
      BY <1>1, <2>1 DEF Running, Meeting
    <3> QED BY <2>0, <3>1 DEF Orderly, Apart
  <2>2. ASSUME NEW u \in Running \ {r}, Meeting(r, u)' \/ Meeting(u, r)'
        PROVE  scope'[r] \subseteq unclear' /\ scope'[u] \subseteq unclear'
               /\ r \notin sweeps' /\ u \notin sweeps'
    <3>0. scope'[u] = scope[u]
      BY <1>1 DEF Running
    <3>1. CASE u \in met
      <4>1. spoilt
        BY <1>3, <1>4, <3>1
      <4> QED BY <1>3, <1>7, <3>0, <3>1, <4>1
    <3>2. CASE u \notin met
      <4>1. Meeting(r, u) \/ Meeting(u, r)
        BY <1>8, <2>2, <3>2
      <4>2. scope[r] \subseteq unclear /\ scope[u] \subseteq unclear /\ r \notin sweeps /\ u \notin sweeps
        BY <1>6, <4>1 DEF Orderly, Apart, Meeting
      <4>3. scope'[r] \subseteq unclear'
        BY <1>3, <4>2
      <4> QED BY <2>0, <3>0, <4>2, <4>3
    <3> QED BY <3>1, <3>2
  <2> QED BY <2>1, <2>2
<1>12. Sweepers'
  <2> SUFFICES ASSUME NEW q \in sweeps'
               PROVE  pc[q] = "run" /\ op[q].do = "delete" /\ Subtree(op[q].id) \subseteq scope'[q]
    BY <1>1 DEF Sweepers, Subtree, Under
  <2>1. q \in sweeps
    BY <1>3
  <2>2. q \in Requests
    BY <2>1 DEF Typed
  <2>3. scope[q] \subseteq scope'[q]
    BY <1>1, <1>3, <2>2
  <2> QED BY <2>1, <2>3 DEF Orderly, Sweepers
<1> QED BY <1>10, <1>11, <1>12 DEF Orderly

(* So do requests that begin. *)
LEMMA OrderlyBegin ==
  ASSUME Typed, Orderly, NEW r \in Requests, Begin(r) PROVE Orderly'
<1> DEFINE o == op[r]
           met == Met(r, Scope(o), Needs(o))
           doubts == (Scope(o) \cup Needs(o)) \cap unclear
<1>0. /\ DOMAIN before = Requests /\ needs \in [Requests -> SUBSET Names] /\ sweeps \subseteq Requests
      /\ pc \in [Requests -> {"idle", "called", "run", "done", "refused", "failed"}]
  BY DEF Typed
<1>1. /\ pc[r] = "called" /\ pc' = [pc EXCEPT ![r] = "run"] /\ op' = op
      /\ \E kind : sweeps' = IF o.do = "delete" /\ kind = "container" /\ met = {}
                             THEN sweeps \cup {r} ELSE sweeps \ met
      /\ before' = [before EXCEPT ![r] = [n \in Scope(o) |-> Stored(n)]]
      /\ needs' = [needs EXCEPT ![r] = Needs(o)]
      /\ unclear' = unclear
           \cup (IF met # {} \/ doubts # {} \/ Amiss(o) THEN Scope(o) ELSE {})
           \cup UNION {scope[q] : q \in met}
  BY DEF Begin
<1>2. /\ scope'[r] = Scope(o) /\ needs'[r] = Needs(o)
      /\ \A q \in Requests : q # r => scope'[q] = scope[q] /\ needs'[q] = needs[q]
  BY <1>0, <1>1 DEF scope
<1>3. r \notin Running /\ Running' = Running \cup {r} /\ Running \subseteq Requests
  BY <1>0, <1>1 DEF Running
<1>4. \A q \in Running : q \in met <=> \/ scope[q] \cap (Scope(o) \cup Needs(o)) # {}
                                       \/ needs[q] \cap Scope(o) # {}
  BY <1>3 DEF Met
<1>5. met \subseteq Running
  BY DEF Met
<1>S. /\ sweeps' \subseteq sweeps \cup {r} /\ sweeps' \cap met = {}
      /\ r \in sweeps' => met = {} /\ o.do = "delete"
  <2>1. r \notin sweeps /\ r \notin met
    BY <1>1, <1>3, <1>5 DEF Orderly, Sweepers
  <2> QED BY <1>1, <2>1
<1>6. /\ unclear \subseteq unclear' /\ \A q \in met : scope[q] \subseteq unclear'
      /\ met # {} => Scope(o) \subseteq unclear'
      /\ Scope(o) \subseteq unclear' \/ (met = {} /\ unclear' = unclear /\ Scope(o) \cap unclear = {})
  BY <1>1
<1>C. o.do = "delete" => Subtree(o.id) \subseteq Scope(o)
  <2> SUFFICES ASSUME o.do = "delete" PROVE Subtree(o.id) \subseteq Scope(o)
    OBVIOUS
  <2>1. ToNull(o) /\ From(o) = o.id /\ o.do # "create"
    BY DEF ToNull, From
  <2>2. Subtree(o.id) \subseteq Names
    BY <1>0, OpsAssumption DEF Typed, Op, Subtree, Under
  <2> QED BY <2>1, <2>2 DEF Scope
<1>7. unclear' \subseteq unclear \cup Scope(o) \cup UNION {scope[q] : q \in met}
  BY <1>1
<1> HIDE DEF met, doubts, o
<1>8. Whole'
  <2> SUFFICES ASSUME NEW q \in Running', ~(scope'[q] \subseteq unclear')
               PROVE  scope'[q] \cap unclear' = {}
    BY DEF Whole
  <2>1. CASE q = r
    BY <1>2, <1>6, <2>1
  <2>2. CASE q # r
    <3>1. q \in Running /\ scope'[q] = scope[q]
      BY <1>2, <1>3, <2>2
    <3>2. ~(scope[q] \subseteq unclear) /\ q \notin met
      BY <1>6, <3>1
    <3>3. scope[q] \cap unclear = {} /\ scope[q] \cap Scope(o) = {}
      BY <1>4, <3>1, <3>2 DEF Orderly, Whole
    <3>4. \A p \in met : scope[q] \cap scope[p] = {}
      BY <1>5, <3>1, <3>2 DEF Orderly, Apart, Meeting
    <3> QED BY <1>7, <3>1, <3>3, <3>4
  <2> QED BY <2>1, <2>2
<1>9. Apart'
  <2> SUFFICES ASSUME NEW p \in Running', NEW q \in Running', p # q, Meeting(p, q)'
               PROVE  scope'[p] \subseteq unclear' /\ scope'[q] \subseteq unclear' /\ p \notin sweeps'
    BY DEF Apart
  <2>1. CASE p # r /\ q # r
    <3>1. /\ p \in Running /\ q \in Running /\ scope'[p] = scope[p] /\ scope'[q] = scope[q]
          /\ Meeting(p, q)
      BY <1>2, <1>3, <2>1 DEF Meeting
    <3>2. scope[p] \subseteq unclear /\ scope[q] \subseteq unclear /\ p \notin sweeps
      BY <3>1 DEF Orderly, Apart
    <3> QED BY <1>6, <1>S, <2>1, <3>1, <3>2
  <2>2. ASSUME NEW u \in Running, Meeting(r, u)' \/ Meeting(u, r)' PROVE u \in met
    <3>1. u # r /\ scope'[u] = scope[u] /\ needs'[u] = needs[u]
      BY <1>2, <1>3
    <3> QED BY <1>2, <1>4, <2>2, <3>1 DEF Meeting
  <2>3. ASSUME NEW u \in met
        PROVE  scope'[r] \subseteq unclear' /\ scope'[u] \subseteq unclear'
               /\ r \notin sweeps' /\ u \notin sweeps'
    <3>1. u # r /\ scope'[u] = scope[u]
      BY <1>2, <1>3, <1>5
    <3> QED BY <1>2, <1>6, <1>S, <3>1
  <2> QED BY <1>3, <2>1, <2>2, <2>3
<1>10. Sweepers'
  <2> SUFFICES ASSUME NEW q \in sweeps'
               PROVE  pc'[q] = "run" /\ op[q].do = "delete" /\ Subtree(op[q].id) \subseteq scope'[q]
    BY <1>1 DEF Sweepers, Subtree, Under
  <2>1. CASE q = r
    BY <1>0, <1>1, <1>2, <1>S, <1>C, <2>1 DEF o
  <2>2. CASE q # r
    <3>1. q \in sweeps /\ q \in Requests
      BY <1>0, <1>S, <2>2
    <3> QED BY <1>0, <1>1, <1>2, <2>2, <3>1 DEF Orderly, Sweepers
  <2> QED BY <2>1, <2>2
<1> QED BY <1>8, <1>9, <1>10 DEF Orderly

(* And what a request leaves unclear, or clears, does not touch the others. *)
LEMMA OrderlyEnd ==
  ASSUME Typed, Orderly, NEW r \in Requests, Ends(r) PROVE Orderly'
<1>1. /\ pc[r] = "run" /\ pc'[r] # "run" /\ (\A q \in Requests : q # r => pc'[q] = pc[q])
      /\ op' = op /\ sweeps' = sweeps \ {r}
      /\ \A q \in Requests : q # r => scope'[q] = scope[q] /\ needs'[q] = needs[q]
      /\ \/ unclear' = unclear \/ unclear' = unclear \cup scope[r]
         \/ r \in sweeps /\ unclear' = unclear \ Subtree(op[r].id)
  BY EndFacts
<1>2. r \in Running /\ Running' = Running \ {r} /\ Running \subseteq Requests
  BY <1>1 DEF Running
<1>3. \A q \in Running \ {r} :
        /\ ~(scope[q] \subseteq unclear) => scope[q] \cap scope[r] = {}
        /\ r \in sweeps => scope[q] \cap Subtree(op[r].id) = {}
  <2>1. \A q \in Running \ {r} : scope[q] \cap scope[r] # {} =>
          scope[q] \subseteq unclear /\ r \notin sweeps
    BY <1>2 DEF Orderly, Apart, Meeting
  <2> QED BY <2>1 DEF Orderly, Sweepers
<1>4. \A q \in Running \ {r} :
        scope[q] \subseteq unclear \/ scope[q] \cap unclear = {}
  BY DEF Orderly, Whole
<1>5. \A q \in Running \ {r} :
        /\ scope[q] \subseteq unclear => scope[q] \subseteq unclear'
        /\ scope[q] \subseteq unclear' \/ scope[q] \cap unclear' = {}
  BY <1>1, <1>3, <1>4
<1>6. Whole'
  BY <1>1, <1>2, <1>5 DEF Whole
<1>7. Apart'
  <2> SUFFICES ASSUME NEW p \in Running \ {r}, NEW q \in Running \ {r}, p # q, Meeting(p, q)'
               PROVE  scope'[p] \subseteq unclear' /\ scope'[q] \subseteq unclear' /\ p \notin sweeps'
    BY <1>2 DEF Apart
  <2>1. scope'[p] = scope[p] /\ scope'[q] = scope[q] /\ Meeting(p, q)
    BY <1>1, <1>2 DEF Meeting
  <2>2. scope[p] \subseteq unclear /\ scope[q] \subseteq unclear /\ p \notin sweeps
    BY <2>1 DEF Orderly, Apart
  <2> QED BY <1>1, <1>5, <2>1, <2>2
<1>8. Sweepers'
  <2> SUFFICES ASSUME NEW q \in sweeps'
               PROVE  pc'[q] = "run" /\ op[q].do = "delete" /\ Subtree(op[q].id) \subseteq scope'[q]
    BY <1>1 DEF Sweepers, Subtree, Under
  <2>1. q \in sweeps /\ q \in Requests /\ q # r
    BY <1>1 DEF Typed
  <2> QED BY <1>1, <2>1 DEF Orderly, Sweepers
<1> QED BY <1>6, <1>7, <1>8 DEF Orderly

-----------------------------------------------------------------------------
(* Requests change their own names only *)

(* A statement that changes nothing but what belongs to the names in D, and    *)
(* makes missing directories above them.                                       *)
Inside(s, D) ==
  /\ s.do \in {"insert", "retarget", "make"} => s.id \in D
  /\ s.do = "delete" => s.ids \cap Names \subseteq D
  /\ s.do \in {"rename", "child"} => s.id \in D /\ s.to \in D
  /\ s.do = "children" => \A m \in Under(s.id) : m \in D /\ Renamed(m, s.id, s.to) \in D
  /\ s.do \in {"movebytes", "copybytes"} => /\ s.to \in D
                                            /\ (Subtree(s.id) \cup Subtree(s.to)) \cap Names \subseteq D
  /\ s.do = "removebytes" => (IF s.container THEN Subtree(s.id) ELSE {s.id}) \cap Names \subseteq D
Local(D) == {s \in Stmt : Inside(s, D)}

(* What a request has still to do, and the links it has found, are its own. *)
Within == \A r \in Requests :
  IF pc[r] = "run" THEN todo[r] \in Seq(Local(scope[r])) /\ found[r] \subseteq scope[r]
  ELSE found[r] = {}

(* Lists of anything can be put together. *)
LEMMA ListsOf ==
  ASSUME NEW T
  PROVE  /\ <<>> \in Seq(T)
         /\ \A s \in T : <<s>> \in Seq(T)
         /\ \A s, t \in Seq(T) : s \o t \in Seq(T)
         /\ \A c, s : s \in Seq(T) => If(c, s) \in Seq(T)
         /\ \A s \in Seq(T) : s # <<>> => Head(s) \in T /\ Tail(s) \in Seq(T)
<1>1. \A s, t \in Seq(T) : s \o t \in Seq(T)
  BY ConcatProperties
<1>2. \A s \in Seq(T) : s # <<>> => Head(s) \in T /\ Tail(s) \in Seq(T)
  BY HeadTailProperties
<1> QED BY <1>1, <1>2 DEF If

(* Statements that are inside. *)
LEMMA LocalStatements ==
  ASSUME NEW D \in SUBSET Names
  PROVE  /\ Local(D) \subseteq Stmt
         /\ \A t \in TableNames, n \in D, k \in RowKinds, m \in Targets : Insert(t, n, k, m) \in Local(D)
         /\ \A t \in TableNames, S \in SUBSET Places : S \cap Names \subseteq D => Delete(t, S) \in Local(D)
         /\ \A t \in TableNames, n \in D, m \in D : Rename(t, n, m) \in Local(D)
         /\ \A t \in TableNames, n \in D : Update(t, n) \in Local(D)
         /\ \A n \in D, m \in Targets : Retarget(n, m) \in Local(D)
         /\ \A S \in SUBSET Places, b \in BOOLEAN : Select(S, b) \in Local(D)
         /\ \A n \in Places, m \in D :
              (Subtree(n) \cup Subtree(m)) \cap Names \subseteq D =>
                MoveBytes(n, m) \in Local(D) /\ CopyBytes(n, m) \in Local(D)
         /\ \A n \in D, m \in D : Child(n, m) \in Local(D)
         /\ \A k \in Kinds, n \in D : Make(k, n) \in Local(D)
         /\ \A n \in Places, b \in BOOLEAN :
              (IF b THEN Subtree(n) ELSE {n}) \cap Names \subseteq D => RemoveBytes(n, b) \in Local(D)
         /\ \A n \in Places, to \in Names :
              (\A m \in Under(n) : m \in D /\ Renamed(m, n, to) \in D) => Children(n, to) \in Local(D)
<1> USE DEF Local, Inside
<1>0. D \subseteq Names /\ D \subseteq Places
  BY DEF Places
<1> HIDE DEF Stmt
<1>1. \A t \in TableNames, n \in D, k \in RowKinds, m \in Targets : Insert(t, n, k, m) \in Local(D)
  BY <1>0, Statements DEF Insert
<1>2. \A t \in TableNames, S \in SUBSET Places : S \cap Names \subseteq D => Delete(t, S) \in Local(D)
  BY <1>0, Statements DEF Delete
<1>3. \A t \in TableNames, n \in D, m \in D : Rename(t, n, m) \in Local(D)
  BY <1>0, Statements DEF Rename
<1>4. \A t \in TableNames, n \in D : Update(t, n) \in Local(D)
  BY <1>3 DEF Update
<1>5. \A n \in D, m \in Targets : Retarget(n, m) \in Local(D)
  BY <1>0, Statements DEF Retarget
<1>6. \A S \in SUBSET Places, b \in BOOLEAN : Select(S, b) \in Local(D)
  BY <1>0, Statements DEF Select
<1>7. \A n \in Places, m \in D :
        (Subtree(n) \cup Subtree(m)) \cap Names \subseteq D =>
          MoveBytes(n, m) \in Local(D) /\ CopyBytes(n, m) \in Local(D)
  BY <1>0, Statements DEF MoveBytes, CopyBytes
<1>8. \A n \in D, m \in D : Child(n, m) \in Local(D)
  BY <1>0, Statements DEF Child
<1>9. \A k \in Kinds, n \in D : Make(k, n) \in Local(D)
  BY <1>0, Statements DEF Make
<1>10. \A n \in Places, b \in BOOLEAN :
         (IF b THEN Subtree(n) ELSE {n}) \cap Names \subseteq D => RemoveBytes(n, b) \in Local(D)
  BY <1>0, Statements DEF RemoveBytes
<1>11. \A n \in Places, to \in Names :
         (\A m \in Under(n) : m \in D /\ Renamed(m, n, to) \in D) => Children(n, to) \in Local(D)
  <2> SUFFICES ASSUME NEW n \in Places, NEW to \in Names,
                      \A m \in Under(n) : m \in D /\ Renamed(m, n, to) \in D
               PROVE  Children(n, to) \in Local(D)
    OBVIOUS
  <2>1. Children(n, to) \in Stmt
    BY <1>0, Statements
  <2>2. Children(n, to).do = "children" /\ Children(n, to).id = n /\ Children(n, to).to = to
    BY DEF Children
  <2> QED BY <2>1, <2>2
<1>12. Local(D) \subseteq Stmt
  OBVIOUS
<1> HIDE DEF Local
<1> QED BY <1>1, <1>2, <1>3, <1>4, <1>5, <1>6, <1>7, <1>8, <1>9, <1>10, <1>11, <1>12

(* What is inside stays inside when there is more. *)
LEMMA LocalGrows ==
  ASSUME NEW D \in SUBSET Names, NEW E \in SUBSET Names, D \subseteq E
  PROVE  Local(D) \subseteq Local(E) /\ Seq(Local(D)) \subseteq Seq(Local(E))
<1>1. ASSUME NEW s \in Local(D) PROVE s \in Local(E)
  <2>1. s \in Stmt /\ Inside(s, D)
    BY DEF Local
  <2>2. Inside(s, E)
    BY <2>1 DEF Inside
  <2> QED BY <2>1, <2>2 DEF Local
<1> HIDE DEF Local
<1> QED BY <1>1

(* So are the lists the operations are made of. *)
LEMMA LocalData ==
  ASSUME NEW D \in SUBSET Names, rows \subseteq Rows
  PROVE  /\ \A n \in D, kind \in RowKinds, target \in Targets : \A addl :
              StoreData(n, kind, target, addl) \in Seq(Local(D))
         /\ \A n \in D, target \in Targets : \A kind, addl :
              UpdateProperties(n, kind, target, addl) \in Seq(Local(D))
         /\ \A n \in D, to \in D :
              UpdateData(n, to) \in Seq(Local(D)) /\ CopyData(n, to) \in Seq(Local(D))
         /\ \A n \in Places : \A container :
              (n \in Names => n \in D) /\ (container => Under(n) \subseteq D) =>
                RemoveData(n, container) \in Seq(Local(D))
<1> DEFINE T == Local(D)
<1>L. /\ <<>> \in Seq(T)
      /\ \A s \in T : <<s>> \in Seq(T)
      /\ \A s, t \in Seq(T) : s \o t \in Seq(T)
      /\ \A c, s : s \in Seq(T) => If(c, s) \in Seq(T)
  BY ListsOf
<1>T. /\ \A t \in TableNames, n \in D, k \in RowKinds, m \in Targets : Insert(t, n, k, m) \in T
      /\ \A t \in TableNames, S \in SUBSET Places : S \cap Names \subseteq D => Delete(t, S) \in T
      /\ \A t \in TableNames, n \in D, m \in D : Rename(t, n, m) \in T
      /\ \A t \in TableNames, n \in D : Update(t, n) \in T
      /\ \A n \in D, m \in Targets : Retarget(n, m) \in T
      /\ \A S \in SUBSET Places, b \in BOOLEAN : Select(S, b) \in T
  BY LocalStatements
<1>K. /\ {"nodes", "properties", "addl_props", "links", "capabilities"} \subseteq TableNames
      /\ "" \in RowKinds /\ NoName \in Targets
  BY DEF TableNames, RowKinds, Targets
<1> HIDE DEF T
<1>1. ASSUME NEW n \in D, NEW kind \in RowKinds, NEW target \in Targets, NEW addl
      PROVE  StoreData(n, kind, target, addl) \in Seq(T)
  <2>1. /\ Insert("nodes", n, kind, NoName) \in T /\ Insert("links", n, "", target) \in T
        /\ Insert("addl_props", n, "", NoName) \in T /\ Insert("properties", n, "", NoName) \in T
    BY <1>T, <1>K
  <2> QED BY <1>L, <2>1, Zenon DEF StoreData
<1>2. ASSUME NEW n \in D, NEW target \in Targets, NEW kind, NEW addl
      PROVE  UpdateProperties(n, kind, target, addl) \in Seq(T)
  <2>1. /\ Retarget(n, target) \in T /\ Insert("addl_props", n, "", NoName) \in T
        /\ Update("addl_props", n) \in T /\ Update("properties", n) \in T
    BY <1>T, <1>K
  <2> QED BY <1>L, <2>1, Zenon DEF UpdateProperties
<1>3. ASSUME NEW n \in D, NEW to \in D
      PROVE  UpdateData(n, to) \in Seq(T) /\ CopyData(n, to) \in Seq(T)
  <2>1. [i \in 1..3 |-> Rename(Tables[i], n, to)] \in Seq(T)
    <3>1. \A i \in 1..3 : Tables[i] \in TableNames
      BY DEF Tables, TableNames
    <3>2. [i \in 1..3 |-> Rename(Tables[i], n, to)] \in [1..3 -> T]
      BY <3>1, <1>T
    <3> QED BY <3>2, SeqDef
  <2>2. UpdateProperties(to, GetType(n), GetTarget(n), RowsOf("addl_props", n) # {}) \in Seq(T)
    BY Reads, <1>2
  <2>3. StoreData(to, GetType(n), GetTarget(n), RowsOf("addl_props", n) # {}) \in Seq(T)
    BY Reads, <1>1
  <2> QED BY <1>L, <2>1, <2>2, <2>3 DEF UpdateData, CopyData
<1>4. ASSUME NEW n \in Places, n \in Names => n \in D, NEW container, container => Under(n) \subseteq D
      PROVE  RemoveData(n, container) \in Seq(T)
  <2>1. \A S \in SUBSET Places : S \cap Names \subseteq D => DeleteRows(S) \in Seq(T)
    <3> TAKE S \in SUBSET Places
    <3> HAVE S \cap Names \subseteq D
    <3>1. Len(Tables) = 5 /\ \A i \in 1..5 : Tables[i] \in TableNames
      BY DEF Tables, TableNames
    <3>2. DeleteRows(S) \in [1..5 -> T]
      BY <1>T, <3>1 DEF DeleteRows
    <3>3. 5 \in Nat /\ DeleteRows(S) \in UNION {[1..k -> T] : k \in Nat}
      BY <3>2
    <3> QED BY <3>3, SeqDef
  <2>2. Under(n) \in SUBSET Places /\ {n} \in SUBSET Places /\ {n} \cap Names \subseteq D
    BY <1>4 DEF Under, Places
  <2>3. Select(Under(n), FALSE) \in T /\ Select({n}, TRUE) \in T
    BY <2>2, <1>T
  <2>4. DeleteRows({n}) \in Seq(T) /\ <<Select({n}, TRUE)>> \in Seq(T)
    BY <1>L, <2>1, <2>2, <2>3
  <2>5. If(container, DeleteRows(Under(n)) \o <<Select(Under(n), FALSE)>>) \in Seq(T)
    <3>1. CASE container
      <4>1. DeleteRows(Under(n)) \in Seq(T) /\ <<Select(Under(n), FALSE)>> \in Seq(T)
        BY <1>4, <1>L, <2>1, <2>2, <2>3, <3>1
      <4> QED BY <1>L, <4>1
    <3>2. CASE ~container
      BY <1>L, <3>2 DEF If
    <3> QED BY <3>1, <3>2
  <2>6. (If(container, DeleteRows(Under(n)) \o <<Select(Under(n), FALSE)>>) \o DeleteRows({n}))
          \o <<Select({n}, TRUE)>> \in Seq(T)
    BY <1>L, <2>4, <2>5, Zenon
  <2> QED BY <2>6 DEF RemoveData
<1> QED BY <1>1, <1>2, <1>3, <1>4 DEF T

(* A request that begins has in its scope all that it is going to change. *)
LEMMA LocalStmts ==
  ASSUME rows \subseteq Rows, NEW o \in Ops, Allowed(o), Fits(o), NEW kind \in GetTypes(From(o)) \cup {"none"}
  PROVE  Stmts(o, kind = "container") \in Seq(Local(Scope(o)))
<1> DEFINE D == Scope(o)
           T == Local(D)
           b == (kind = "container")
<1>1. /\ o.id \in Names /\ o.to \in Targets /\ o.kind \in Kinds /\ o.kind \in RowKinds
      /\ o.do \in {"create", "delete", "move", "copy"} /\ b \in BOOLEAN
  BY OpsAssumption DEF Op, Targets, RowKinds
<1>2. D \in SUBSET Names
  BY <1>1, StmtsType
<1>L. /\ <<>> \in Seq(T)
      /\ \A s \in T : <<s>> \in Seq(T)
      /\ \A s, t \in Seq(T) : s \o t \in Seq(T)
      /\ \A c, s : s \in Seq(T) => If(c, s) \in Seq(T)
  BY ListsOf
<1>K. /\ {"nodes", "properties", "addl_props", "links", "capabilities"} \subseteq TableNames
      /\ "" \in RowKinds /\ NoName \in Targets
  BY DEF TableNames, RowKinds, Targets
<1>3. ASSUME o.do = "create" PROVE Stmts(o, b) \in Seq(T)
  <2>1. Stmts(o, b) = CreateStmts(o)
    BY <1>3, Zenon DEF Stmts
  <2>2. o.id \in D
    BY <1>3 DEF Scope, Subtree
  <2>3. /\ Update("nodes", o.id) \in T /\ Insert("capabilities", o.id, "", NoName) \in T
        /\ Make(o.kind, o.id) \in T
    BY <1>1, <1>2, <1>K, <2>2, LocalStatements
  <2>4. /\ UpdateProperties(o.id, o.kind, o.to, o.addl) \in Seq(T)
        /\ StoreData(o.id, o.kind, o.to, o.addl) \in Seq(T)
    BY <1>1, <1>2, <2>2, LocalData
  <2> HIDE DEF T
  <2>5. UpdateProperties(o.id, o.kind, o.to, o.addl) \o <<Update("nodes", o.id)>> \in Seq(T)
    BY <1>L, <2>3, <2>4
  <2>6. (StoreData(o.id, o.kind, o.to, o.addl)
          \o If(o.kind = "container", <<Insert("capabilities", o.id, "", NoName)>>))
          \o <<Make(o.kind, o.id)>> \in Seq(T)
    BY <1>L, <2>3, <2>4, Zenon
  <2> QED BY <2>1, <2>5, <2>6, Zenon DEF CreateStmts
<1>4. ASSUME o.do # "create", ToNull(o) PROVE Stmts(o, b) \in Seq(T)
  <2> DEFINE n == From(o)
  <2>1. Stmts(o, b) = DeleteStmts(n, b)
    BY <1>4, Zenon DEF Stmts
  <2>2. n \in Places
    BY <1>1, <1>4, Reads DEF Allowed, JobAllowed, From, Places
  <2>3. Subtree(n) \cap Names \subseteq D
    BY <1>4 DEF Scope
  <2> HIDE DEF D, n
  <2>4. n \in Subtree(n) /\ Under(n) \subseteq Subtree(n) /\ Under(n) \subseteq Names
    BY DEF Subtree, Under
  <2>5. RemoveData(n, b) \in Seq(Local(D))
    BY <1>2, <2>2, <2>3, <2>4, LocalData
  <2>6. RemoveBytes(n, b) \in Local(D)
    <3>1. (IF b THEN Subtree(n) ELSE {n}) \cap Names \subseteq D
      BY <2>3, <2>4
    <3> HIDE DEF b
    <3> QED BY <1>1, <1>2, <2>2, <3>1, LocalStatements
  <2> QED BY <1>L, <2>1, <2>5, <2>6 DEF DeleteStmts
<1>5. ASSUME o.do \in {"move", "copy"}, ~ToNull(o) PROVE Stmts(o, b) \in Seq(T)
  <2> DEFINE f == From(o)
             g == To(o)
  <2>1. f \in Names /\ g \in Names /\ \A m \in Under(f) : Renamed(m, f, g) \in Names
    BY <1>5 DEF Fits
  <2>2. D = (Subtree(f) \cup Subtree(g)) \cap Names
    BY <1>5 DEF Scope
  <2>3. Stmts(o, b) \in {MoveStmts(f, g), CopyStmts(f, g)}
    BY <1>5, Zenon DEF Stmts
  <2> HIDE DEF D, f, g
  <2>4. f \in D /\ g \in D /\ f \in Places
    BY <2>1, <2>2 DEF Subtree, Places
  <2>5. \A m \in Under(f) : m \in D /\ Renamed(m, f, g) \in D
    <3> TAKE m \in Under(f)
    <3>1. m \in Subtree(f) /\ m \in Names
      BY DEF Subtree, Under
    <3>2. Renamed(m, f, g) \in Subtree(g)
      BY <2>1, <3>1, Renaming
    <3> QED BY <2>1, <2>2, <3>1, <3>2
  <2>6. /\ MoveBytes(f, g) \in T /\ CopyBytes(f, g) \in T /\ Children(f, g) \in T
    BY <1>2, <2>1, <2>2, <2>4, <2>5, LocalStatements
  <2>7. UpdateData(f, g) \in Seq(T) /\ CopyData(f, g) \in Seq(T)
    BY <1>2, <2>4, LocalData
  <2> HIDE DEF T
  <2>8. MoveStmts(f, g) \in Seq(T) /\ CopyStmts(f, g) \in Seq(T)
    BY <1>L, <2>6, <2>7, Zenon DEF MoveStmts, CopyStmts
  <2> QED BY <2>3, <2>8
<1> QED BY <1>1, <1>3, <1>4, <1>5 DEF ToNull

(* What happens to todo and found when a request works. *)
LEMMA TodoNext ==
  ASSUME Typed, NEW r \in Requests, Works(r)
  PROVE  /\ Head1(r) \in Stmt /\ todo[r] \in Seq(Stmt)
         /\ \E list : todo' = [todo EXCEPT ![r] = list]
         /\ \/ todo'[r] = Tail(todo[r]) /\ found' = found
            \/ todo' = todo /\ found' = found /\ Lose(r)
            \/ SelectLinks(r) \/ FindChildren(r) \/ ReadChild(r)
<1>D. todo \in [Requests -> Seq(Stmt)]
  BY DEF Typed
<1>1. todo[r] # <<>> /\ \E list : todo' = [todo EXCEPT ![r] = list]
  <2>1. \A rest : Advance(r, rest) => todo' = [todo EXCEPT ![r] = rest]
    BY DEF Advance
  <2>2. CASE Lose(r)
    <3>1. todo = [todo EXCEPT ![r] = todo[r]]
      BY <1>D
    <3> QED BY <2>1, <2>2, <3>1 DEF Lose, Doing
  <2>3. CASE SelectLinks(r)
    BY <2>1, <2>3 DEF SelectLinks, Doing
  <2>4. CASE ~Lose(r) /\ ~SelectLinks(r)
    BY <2>1, <2>4 DEF Works, Execute, FindChildren, ReadChild, MakeFile, MoveFiles, CopyFiles,
                      RemoveFiles, Doing
  <2> QED BY <2>2, <2>3, <2>4
<1>2. Head1(r) \in Stmt /\ todo[r] \in Seq(Stmt)
  BY <1>D, <1>1, Lists DEF Head1
<1>3. \A rest : Advance(r, rest) => todo'[r] = rest
  BY <1>D DEF Advance
<1>4. \/ todo'[r] = Tail(todo[r]) /\ found' = found
      \/ todo' = todo /\ found' = found /\ Lose(r)
      \/ SelectLinks(r) \/ FindChildren(r) \/ ReadChild(r)
  <2>1. CASE Lose(r)
    BY <1>3, <2>1 DEF Lose
  <2>2. CASE ~Lose(r)
    BY <1>3, <2>2 DEF Works, Execute, MakeFile, MoveFiles, CopyFiles, RemoveFiles
  <2> QED BY <2>1, <2>2
<1> QED BY <1>1, <1>2, <1>4

(* Requests that work stay inside their names. *)
LEMMA WithinWork ==
  ASSUME Typed, Within, NEW r \in Requests, Works(r) PROVE Within'
<1>D. /\ rows \subseteq Rows /\ todo \in [Requests -> Seq(Stmt)]
      /\ found \in [Requests -> SUBSET Names] /\ \A q \in Requests : scope[q] \subseteq Names
  BY DEF Typed, scope
<1>1. /\ pc[r] = "run" /\ todo[r] # <<>> /\ pc' = pc
      /\ \A q \in Requests : q # r => todo'[q] = todo[q] /\ found'[q] = found[q] /\ scope'[q] = scope[q]
      /\ \E late, spoilt : Alters(r, late, spoilt)
  BY WorkFacts
<1>2. PICK late : late \subseteq Names /\ scope'[r] = scope[r] \cup late
  BY <1>1 DEF Alters
<1> DEFINE D == scope[r]
           E == scope'[r]
<1>3. D \in SUBSET Names /\ E \in SUBSET Names /\ D \subseteq E
  BY <1>D, <1>2
<1>4. todo[r] \in Seq(Local(D)) /\ found[r] \subseteq D
  BY <1>1 DEF Within
<1>5. Seq(Local(D)) \subseteq Seq(Local(E)) /\ Local(D) \subseteq Local(E)
  BY <1>3, LocalGrows
<1>6. Head1(r) \in Local(D) /\ Tail(todo[r]) \in Seq(Local(E))
  BY <1>1, <1>4, <1>5, ListsOf DEF Head1
<1> SUFFICES todo'[r] \in Seq(Local(E)) /\ found'[r] \subseteq E
  <2> SUFFICES ASSUME NEW q \in Requests
               PROVE  IF pc[q] = "run" THEN todo'[q] \in Seq(Local(scope'[q])) /\ found'[q] \subseteq scope'[q]
                      ELSE found'[q] = {}
    BY <1>1 DEF Within, Local, Inside, Under, Subtree
  <2>1. CASE q = r
    BY <1>1, <2>1
  <2>2. CASE q # r
    BY <1>1, <2>2 DEF Within
  <2> QED BY <2>1, <2>2
<1> HIDE DEF D
<1>7. CASE todo'[r] = Tail(todo[r]) /\ found' = found
  BY <1>3, <1>4, <1>6, <1>7
<1>8. CASE todo' = todo /\ found' = found
  BY <1>3, <1>4, <1>5, <1>8
<1>9. CASE SelectLinks(r)
  <2> DEFINE s == Head1(r)
             links == found[r] \cup {w.id : w \in {v \in rows : v.t = "links" /\ v.target \in s.ids}}
             order == SetToSeq(links)
             e == [i \in 1..Len(order) |-> RemoveData(order[i], FALSE)]
             last == [i \in 1..Len(order) |-> RemoveBytes(order[i], FALSE)]
  <2>1. /\ before' = [before EXCEPT ![r] =
              [n \in scope[r] \cup (links \ scope[r]) |-> IF n \in links \ scope[r] THEN Stored(n) ELSE @[n]]]
        /\ \/ Advance(r, FlattenSeq(e) \o Tail(todo[r]) \o last) /\ found' = [found EXCEPT ![r] = {}]
           \/ Advance(r, Tail(todo[r])) /\ found' = [found EXCEPT ![r] = links]
    BY <1>9 DEF SelectLinks
  <2>2. links \subseteq E
    <3> HIDE DEF links
    <3>1. DOMAIN before = Requests
      BY DEF Typed
    <3> QED BY <2>1, <3>1 DEF scope, D
  <2>3. IsFiniteSet(links)
    <3> HIDE DEF links
    <3> QED BY <1>3, <2>2, FS_Subset, NamesAssumption
  <2>4. order \in Seq(links)
    <3> HIDE DEF links
    <3> QED BY <2>3, SetToSeqLists
  <2> HIDE DEF order
  <2>5. Len(order) \in Nat /\ \A i \in 1..Len(order) : order[i] \in links
    <3> HIDE DEF links
    <3> QED BY <2>4
  <2> HIDE DEF links
  <2>6. \A i \in 1..Len(order) : order[i] \in E /\ order[i] \in Places
    BY <1>3, <2>2, <2>5 DEF Places
  <2> HIDE DEF E
  <2>7. e \in [1..Len(order) -> Seq(Local(E))]
    BY <1>D, <1>3, <2>6, LocalData
  <2>8. FlattenSeq(e) \in Seq(Local(E))
    <3> DEFINE S == Seq(Local(E))
    <3>1. e \in [1..Len(order) -> S]
      BY <2>7
    <3> HIDE DEF S, e
    <3>2. e \in Seq(S)
      BY <2>5, <3>1, SeqDef
    <3> QED BY <3>2, FlattenSeqType DEF S
  <2>9. last \in Seq(Local(E))
    <3>1. \A n \in E : RemoveBytes(n, FALSE) \in Local(E)
      <4> TAKE n \in E
      <4>1. n \in Places /\ (IF FALSE THEN Subtree(n) ELSE {n}) \cap Names \subseteq E
        BY <1>3 DEF Places
      <4> QED BY <1>3, <4>1, LocalStatements
    <3>2. last \in [1..Len(order) -> Local(E)]
      BY <2>6, <3>1
    <3> QED BY <2>5, <3>2, SeqDef
  <2> HIDE DEF e, last
  <2>10. (FlattenSeq(e) \o Tail(todo[r])) \o last \in Seq(Local(E))
    BY <1>6, <2>8, <2>9, ListsOf
  <2>11. todo'[r] \in Seq(Local(E))
    BY <1>D, <1>6, <2>1, <2>10 DEF Advance
  <2>12. found'[r] = {} \/ found'[r] = links
    BY <1>D, <2>1
  <2> QED BY <2>2, <2>11, <2>12
<1>10. CASE FindChildren(r)
  <2> DEFINE s == Head1(r)
             S == {n \in Under(s.id) : IsStored(n)}
             order == SetToSeq(S)
             list == [i \in 1..Len(order) |-> Child(order[i], Renamed(order[i], s.id, s.to))]
  <2>1. s.do = "children" /\ Advance(r, list \o Tail(todo[r])) /\ found' = found
    BY <1>10 DEF FindChildren, Doing
  <2>2. \A m \in S : m \in E /\ Renamed(m, s.id, s.to) \in E
    BY <1>3, <1>6, <2>1 DEF Local, Inside
  <2>3. S \in SUBSET Names /\ IsFiniteSet(S)
    <3>1. S \in SUBSET Names
      BY DEF Under
    <3> HIDE DEF S
    <3> QED BY <3>1, FS_Subset, NamesAssumption
  <2> HIDE DEF S
  <2>4. order \in Seq(S)
    BY <2>3, SetToSeqLists
  <2> HIDE DEF order
  <2>5. Len(order) \in Nat /\ \A i \in 1..Len(order) : order[i] \in S
    BY <2>4
  <2>6. list \in [1..Len(order) -> Local(E)]
    <3>1. \A n, m \in E : Child(n, m) \in Local(E)
      BY <1>3, LocalStatements
    <3> HIDE DEF E
    <3> QED BY <2>2, <2>5, <3>1
  <2>7. list \in Seq(Local(E))
    BY <2>5, <2>6, SeqDef
  <2> HIDE DEF list
  <2>8. list \o Tail(todo[r]) \in Seq(Local(E))
    BY <1>6, <2>7, ListsOf
  <2> QED BY <1>3, <1>4, <1>D, <2>1, <2>8 DEF Advance
<1>11. CASE ReadChild(r)
  <2> DEFINE s == Head1(r)
             list == IF op[r].do = "move" THEN UpdateData(s.id, s.to) ELSE CopyData(s.id, s.to)
  <2>1. s.do = "child" /\ Advance(r, list \o Tail(todo[r])) /\ found' = found
    BY <1>11 DEF ReadChild, Doing
  <2>2. s.id \in E /\ s.to \in E
    BY <1>3, <1>6, <2>1 DEF Local, Inside
  <2>3. list \in Seq(Local(E))
    BY <1>D, <1>3, <2>2, LocalData
  <2> HIDE DEF list
  <2>4. list \o Tail(todo[r]) \in Seq(Local(E))
    BY <1>6, <2>3, ListsOf
  <2> QED BY <1>3, <1>4, <1>D, <2>1, <2>4 DEF Advance
<1> QED BY <1>7, <1>8, <1>9, <1>10, <1>11, TodoNext

(* So it stays inside of it, ... *)
LEMMA WithinBegin ==
  ASSUME Typed, Within, NEW r \in Requests, Begin(r) PROVE Within'
<1> DEFINE o == op[r]
<1>D. /\ rows \subseteq Rows /\ todo \in [Requests -> Seq(Stmt)] /\ o \in Ops
      /\ found \in [Requests -> SUBSET Names] /\ DOMAIN before = Requests
      /\ pc \in [Requests -> {"idle", "called", "run", "done", "refused", "failed"}]
  BY DEF Typed
<1>1. /\ pc[r] = "called" /\ pc' = [pc EXCEPT ![r] = "run"] /\ found' = found
      /\ Allowed(o) /\ Fits(o)
      /\ \E kind \in GetTypes(From(o)) \cup {"none"} :
           todo' = [todo EXCEPT ![r] = Stmts(o, kind = "container")]
      /\ before' = [before EXCEPT ![r] = [n \in Scope(o) |-> Stored(n)]]
  BY DEF Begin
<1>2. \A kind \in GetTypes(From(o)) \cup {"none"} :
        Stmts(o, kind = "container") \in Seq(Local(Scope(o)))
  BY <1>D, <1>1, LocalStmts
<1> HIDE DEF o
<1>3. scope'[r] = Scope(o) /\ \A q \in Requests : q # r => scope'[q] = scope[q]
  BY <1>D, <1>1 DEF scope
<1>4. todo'[r] \in Seq(Local(scope'[r])) /\ found'[r] = {}
  <2>1. todo'[r] \in Seq(Local(Scope(o)))
    BY <1>D, <1>1, <1>2
  <2> QED BY <1>1, <1>3, <2>1 DEF Within
<1>5. \A q \in Requests : q # r => pc'[q] = pc[q] /\ todo'[q] = todo[q] /\ found'[q] = found[q]
  BY <1>D, <1>1
<1> SUFFICES ASSUME NEW q \in Requests
             PROVE  IF pc'[q] = "run" THEN todo'[q] \in Seq(Local(scope'[q])) /\ found'[q] \subseteq scope'[q]
                    ELSE found'[q] = {}
  BY DEF Within, Local, Inside, Under, Subtree
<1>6. CASE q = r
  BY <1>1, <1>4, <1>6, <1>D
<1>7. CASE q # r
  BY <1>3, <1>5, <1>7 DEF Within
<1> QED BY <1>6, <1>7

(* ... until it ends. *)
LEMMA WithinEnd ==
  ASSUME Typed, Within, NEW r \in Requests, Ends(r) PROVE Within'
<1>1. /\ pc'[r] # "run" /\ (\A q \in Requests : q # r => pc'[q] = pc[q])
      /\ found'[r] = {}
      /\ \A q \in Requests : q # r => todo'[q] = todo[q] /\ found'[q] = found[q] /\ scope'[q] = scope[q]
  BY EndFacts
<1> SUFFICES ASSUME NEW q \in Requests
             PROVE  IF pc'[q] = "run" THEN todo'[q] \in Seq(Local(scope'[q])) /\ found'[q] \subseteq scope'[q]
                    ELSE found'[q] = {}
  BY DEF Within, Local, Inside, Under, Subtree
<1>2. CASE q = r
  BY <1>1, <1>2
<1>3. CASE q # r
  BY <1>1, <1>3 DEF Within
<1> QED BY <1>2, <1>3

(* A statement leaves the rows of other names as they are. *)
LEMMA RowsElsewhere ==
  ASSUME rows \subseteq Rows, NEW D \in SUBSET Names, NEW s \in Local(D), s.do \in Writes, NEW r,
         NEW n \in Names, n \notin D, NEW t
  PROVE  {w \in RowsAfter(s, r) : w.t = t /\ w.id = n} = RowsOf(t, n)
<1>1. s \in Stmt /\ Inside(s, D)
  BY DEF Local
<1>2. CASE s.do = "insert"
  <2> DEFINE x == Row(s.t, s.id, s.kind, s.target, r,
           Cardinality({w \in rows : w.t = s.t /\ w.id = s.id /\ w.by = r}))
  <2>1. RowsAfter(s, r) = rows \cup {x}
    BY <1>2 DEF RowsAfter
  <2>2. x.id \in D
    BY <1>1, <1>2 DEF Inside, Row
  <2> HIDE DEF x
  <2> QED BY <2>1, <2>2 DEF RowsOf
<1>3. CASE s.do = "delete"
  <2>1. n \notin s.ids
    BY <1>1, <1>3 DEF Inside
  <2> QED BY <1>3, <2>1 DEF RowsAfter, RowsOf
<1>4. ASSUME NEW f, RowsAfter(s, r) = {f[w] : w \in rows},
             \A w \in rows : f[w] = w \/ (f[w].id \in D /\ w.id \in D)
      PROVE  {w \in RowsAfter(s, r) : w.t = t /\ w.id = n} = RowsOf(t, n)
  BY <1>4 DEF RowsOf
<1>5. CASE s.do = "rename"
  <2> DEFINE f == [w \in rows |-> IF w.t = s.t /\ w.id = s.id THEN [w EXCEPT !.id = s.to] ELSE w]
  <2>1. RowsAfter(s, r) = {f[w] : w \in rows}
    BY <1>5 DEF RowsAfter
  <2>2. \A w \in rows : f[w] = w \/ (f[w].id \in D /\ w.id \in D)
    BY <1>1, <1>5 DEF Inside, Rows
  <2> HIDE DEF f
  <2> QED BY <1>4, <2>1, <2>2
<1>6. CASE s.do = "retarget"
  <2> DEFINE f == [w \in rows |-> IF w.t = "links" /\ w.id = s.id THEN [w EXCEPT !.target = s.target] ELSE w]
  <2>1. RowsAfter(s, r) = {f[w] : w \in rows}
    BY <1>6 DEF RowsAfter
  <2>2. \A w \in rows : f[w] = w \/ (f[w].id \in D /\ w.id \in D)
    BY <1>1, <1>6 DEF Inside, Rows
  <2> HIDE DEF f
  <2> QED BY <1>4, <2>1, <2>2
<1> QED BY <1>2, <1>3, <1>5, <1>6 DEF Writes

(* A directory that was missing above the names of a request. *)
Made(r, m) == /\ file[m] = NoFile /\ file'[m] = Put(r, m, "container") /\ rows' = rows
              /\ \E k \in scope[r] : IsStrictPrefix(m, k)

(* What a request that works leaves alone: the rows of names that are not its  *)
(* own, and the files there, but for the missing directories above its names.  *)
LEMMA Frame ==
  ASSUME Typed, Within, NEW r \in Requests, Works(r), NEW m \in Names, m \notin scope[r]
  PROVE  /\ \A t : RowsOf(t, m)' = RowsOf(t, m)
         /\ file'[m] = file[m] \/ Made(r, m)
<1> DEFINE D == scope[r]
           s == Head1(r)
<1>D. /\ rows \subseteq Rows /\ D \in SUBSET Names /\ pc[r] = "run" /\ todo[r] # <<>>
      /\ file = [n \in Names |-> file[n]]
  BY WorkFacts DEF Typed, scope
<1>S. s \in Local(D) /\ s \in Stmt /\ Inside(s, D)
  <2>1. todo[r] \in Seq(Local(D))
    BY <1>D DEF Within
  <2>2. s \in Local(D)
    BY <1>D, <2>1, ListsOf DEF Head1
  <2> QED BY <2>2 DEF Local
<1>P. ASSUME NEW f, NEW n \in D PROVE
        WithParents(f, n, r)[m] = IF IsStrictPrefix(m, n) /\ f[m] = NoFile THEN Put(r, m, "container") ELSE f[m]
  BY DEF WithParents
<1> HIDE DEF D, s
<1>1. CASE Execute(r) \/ Lose(r)
  <2>1. s.do \in Writes /\ (rows' = RowsAfter(s, r) \/ rows' = rows) /\ file' = file
    BY <1>1 DEF Execute, Lose, Doing, s
  <2>2. \A t : {w \in RowsAfter(s, r) : w.t = t /\ w.id = m} = RowsOf(t, m)
    BY <1>D, <1>S, <2>1, RowsElsewhere DEF D
  <2> QED BY <2>1, <2>2 DEF RowsOf
<1>2. CASE SelectLinks(r) \/ FindChildren(r) \/ ReadChild(r)
  BY <1>2 DEF SelectLinks, FindChildren, ReadChild, store, RowsOf
<1>3. ASSUME rows' = rows PROVE \A t : RowsOf(t, m)' = RowsOf(t, m)
  BY <1>3 DEF RowsOf
<1>4. CASE MakeFile(r)
  <2>1. /\ s.do = "make" /\ rows' = rows
        /\ file' = IF file[s.id] # NoFile THEN file
                   ELSE [WithParents(file, s.id, r) EXCEPT ![s.id] = Put(r, s.id, s.kind)]
    BY <1>4 DEF MakeFile, Doing, s
  <2>2. s.id \in D /\ s.id # m
    BY <1>S, <2>1 DEF Inside, D
  <2>3. \/ file'[m] = file[m]
        \/ file'[m] = Put(r, m, "container") /\ file[m] = NoFile /\ IsStrictPrefix(m, s.id)
    BY <1>P, <2>1, <2>2
  <2> QED BY <1>3, <2>1, <2>2, <2>3 DEF Made, D
<1>5. CASE MoveFiles(r)
  <2> DEFINE f == [n \in Names |->
             IF n \in Subtree(s.to) /\ Renamed(n, s.to, s.id) \in Names
               THEN file[Renamed(n, s.to, s.id)]
             ELSE IF n \in Subtree(s.id) THEN NoFile ELSE file[n]]
  <2>1. s.do = "movebytes" /\ rows' = rows /\ file' = WithParents(f, s.to, r)
    BY <1>5 DEF MoveFiles, Doing, s
  <2>2. s.to \in D /\ m \notin Subtree(s.to) /\ m \notin Subtree(s.id)
    BY <1>S, <2>1 DEF Inside, D
  <2>3. f[m] = file[m]
    BY <2>2
  <2> HIDE DEF f
  <2>4. \/ file'[m] = file[m]
        \/ file'[m] = Put(r, m, "container") /\ file[m] = NoFile /\ IsStrictPrefix(m, s.to)
    BY <1>P, <2>1, <2>2, <2>3
  <2> QED BY <1>3, <2>1, <2>2, <2>4 DEF Made, D
<1>6. CASE CopyFiles(r)
  <2> DEFINE f(led) == [n \in Names |->
               LET src == Renamed(n, s.to, s.id)
               IN IF n \in Subtree(s.to) /\ src \in Names /\ file[src] # NoFile
                  THEN Put(r, n, IF src \in DOMAIN led THEN led[src] ELSE file[src].kind)
                  ELSE file[n]]
  <2>1. s.do = "copybytes" /\ rows' = rows /\ \E led : file' = WithParents(f(led), s.to, r)
    BY <1>6 DEF CopyFiles, Doing, s
  <2>2. s.to \in D /\ m \notin Subtree(s.to)
    BY <1>S, <2>1 DEF Inside, D
  <2>3. \A led : f(led)[m] = file[m]
    BY <2>2
  <2> HIDE DEF f
  <2>4. \/ file'[m] = file[m]
        \/ file'[m] = Put(r, m, "container") /\ file[m] = NoFile /\ IsStrictPrefix(m, s.to)
    BY <1>P, <2>1, <2>2, <2>3
  <2> QED BY <1>3, <2>1, <2>2, <2>4 DEF Made, D
<1>7. CASE RemoveFiles(r)
  <2>1. /\ s.do = "removebytes" /\ rows' = rows
        /\ file' = IF ~s.container /\ \E n \in Under(s.id) : file[n] # NoFile THEN file
                   ELSE [n \in Names |-> IF n \in Subtree(s.id) THEN NoFile ELSE file[n]]
    BY <1>7 DEF RemoveFiles, Doing, s
  <2>2. (IF s.container THEN Subtree(s.id) ELSE {s.id}) \cap Names \subseteq D
    BY <1>S, <2>1 DEF Inside
  <2>3. file'[m] = file[m]
    BY <2>1, <2>2 DEF Subtree, D
  <2> QED BY <1>3, <2>1, <2>3
<1> QED BY <1>1, <1>2, <1>4, <1>5, <1>6, <1>7 DEF Works

(* Where everything starts, requests have nothing to stay inside of. *)
LEMMA SteadyInit == Init => Orderly /\ Within
<1> SUFFICES ASSUME Init PROVE Orderly /\ Within
  OBVIOUS
<1>1. Running = {} /\ sweeps = {}
  BY DEF Init, Running
<1>2. Within
  BY DEF Init, Within
<1> QED BY <1>1, <1>2 DEF Orderly, Whole, Apart, Sweepers

(* Steps that leave the lists alone keep requests inside. *)
LEMMA WithinStays ==
  ASSUME Within, scope' = scope, todo' = todo, found' = found,
         \A q \in Requests : pc'[q] = "run" <=> pc[q] = "run"
  PROVE  Within'
<1> SUFFICES ASSUME NEW q \in Requests
             PROVE  IF pc'[q] = "run" THEN todo'[q] \in Seq(Local(scope'[q])) /\ found'[q] \subseteq scope'[q]
                    ELSE found'[q] = {}
  BY DEF Within, Local, Inside, Under, Subtree
<1> QED BY DEF Within

(* Every step keeps requests inside, and those that meet known. *)
LEMMA SteadyStep == ASSUME Typed, Orderly, Within, [Next]_vars PROVE Orderly' /\ Within'
<1>1. ASSUME NEW r \in Requests, Works(r) PROVE Orderly' /\ Within'
  BY <1>1, OrderlyWork, WithinWork
<1>2. ASSUME NEW r \in Requests, Begin(r) PROVE Orderly' /\ Within'
  BY <1>2, OrderlyBegin, WithinBegin
<1>3. ASSUME NEW r \in Requests, Ends(r) PROVE Orderly' /\ Within'
  BY <1>3, OrderlyEnd, WithinEnd
<1>4. ASSUME NEW r \in Requests, Call(r) \/ Refuse(r) PROVE Orderly' /\ Within'
  <2>1. /\ pc \in [Requests -> {"idle", "called", "run", "done", "refused", "failed"}]
        /\ pc[r] # "run" /\ (pc' = [pc EXCEPT ![r] = "called"] \/ pc' = [pc EXCEPT ![r] = "refused"])
        /\ UNCHANGED <<rows, file, op, todo, found, before, needs, sweeps, unclear>>
    BY <1>4 DEF Call, Refuse, store, aux, Typed
  <2>2. \A q \in Requests : pc'[q] = "run" <=> pc[q] = "run"
    BY <2>1
  <2>3. scope' = scope /\ Running' = Running
    BY <2>1, <2>2 DEF scope, Running
  <2>4. Orderly'
    <3>1. \A q \in sweeps : pc'[q] = "run"
      BY <2>1, <2>2 DEF Orderly, Sweepers, Typed
    <3> QED BY <2>1, <2>3, <3>1 DEF Orderly, Whole, Apart, Sweepers, Meeting, Subtree, Under
  <2>5. Within'
    BY <2>1, <2>2, <2>3, WithinStays
  <2> QED BY <2>4, <2>5
<1>5. ASSUME UNCHANGED vars PROVE Orderly' /\ Within'
  <2>1. UNCHANGED <<rows, file, pc, op, todo, found, before, needs, sweeps, unclear>>
    BY <1>5 DEF vars, store, aux
  <2>2. scope' = scope /\ Running' = Running
    BY <2>1 DEF scope, Running
  <2>3. Orderly'
    BY <2>1, <2>2 DEF Orderly, Whole, Apart, Sweepers, Meeting, Subtree, Under
  <2>4. Within'
    BY <2>1, <2>2, WithinStays
  <2> QED BY <2>3, <2>4
<1>6. ASSUME Next PROVE \E r \in Requests : Works(r) \/ Begin(r) \/ Ends(r) \/ Call(r) \/ Refuse(r)
  BY <1>6 DEF Next, Step, Works, Ends
<1> QED BY <1>1, <1>2, <1>3, <1>4, <1>5, <1>6

(* So requests are, always. *)
LEMMA SteadyInvariant == Spec => [](Typed /\ Orderly /\ Within)
<1>1. Init => Typed /\ Orderly /\ Within
  BY InitTyped, SteadyInit
<1>2. (Typed /\ Orderly /\ Within) /\ [Next]_vars => (Typed /\ Orderly /\ Within)'
  BY TypedStep, SteadyStep
<1> QED BY <1>1, <1>2, PTL DEF Spec

(* The names a request does not have in its scope. *)
Others(r) == Names \ scope[r]

(* A step of a request leaves the rows of all other names alone, and their     *)
(* files, but for directories that are missing above its own names.            *)
OnlyOwn ==
  \A r \in Requests : Call(r) \/ Lose(r) \/ Step(r) =>
    \A m \in Others(r) : /\ \A t : RowsOf(t, m)' = RowsOf(t, m)
                         /\ file'[m] = file[m] \/ Made(r, m)

(* Whatever is created, deleted, moved or copied at the same time, a request   *)
(* changes what belongs to the names in its scope only (the statements that    *)
(* VOSpaceManager and TransferJob execute name no others).                     *)
THEOREM OwnNamesOnly == Spec => [][OnlyOwn]_vars
<1>1. ASSUME Typed, Within PROVE OnlyOwn
  <2> SUFFICES ASSUME NEW r \in Requests, Call(r) \/ Lose(r) \/ Step(r), NEW m \in Others(r)
               PROVE  /\ \A t : RowsOf(t, m)' = RowsOf(t, m)
                      /\ file'[m] = file[m] \/ Made(r, m)
    BY DEF OnlyOwn
  <2>1. CASE Works(r)
    BY <1>1, <2>1, Frame DEF Others
  <2>2. CASE Call(r) \/ Refuse(r) \/ Begin(r) \/ Ends(r)
    <3>1. rows' = rows /\ file' = file
      BY <1>1, <2>2, EndFacts DEF Call, Refuse, Begin, store
    <3> QED BY <3>1 DEF RowsOf
  <2> QED BY <2>1, <2>2 DEF Step, Works, Ends
<1> QED BY <1>1, SteadyInvariant, PTL

(* Requests that have a name in common. *)
Common == \A r, q \in Running : r # q /\ scope[r] \cap scope[q] # {} =>
            scope[r] \subseteq unclear /\ scope[q] \subseteq unclear

(* Requests that share a name know it: all their names are unclear, so that    *)
(* nothing is claimed of the outcome of requests that get in each other's way, *)
(* and every calm name is in the scope of none.                                *)
THEOREM MeetingsKnown == Spec => []Common
<1>1. Orderly => Common
  BY DEF Orderly, Apart, Meeting, Common
<1> QED BY <1>1, SteadyInvariant, PTL

-----------------------------------------------------------------------------
(* The invariant: what is there *)

(* The tables that make up a node (nothing is said of capabilities). *)
Tabs == {"nodes", "properties", "addl_props", "links"}
Single(S) == \E w \in S : S = {w}

(* There is a row or a file of that name. *)
Something(n) == (\E t \in Tabs : RowsOf(t, n) # {}) \/ file[n] # NoFile

(* A container, and nothing else. *)
Cont(n) == GetTypes(n) = {"container"} /\ file[n].kind = "container"

(* The rows and the file of a name are those of one node. *)
Sound(n) ==
  \E w \in RowsOf("nodes", n) :
    /\ RowsOf("nodes", n) = {w} /\ w.kind \in Kinds /\ Single(RowsOf("properties", n))
    /\ w.kind = "link" => Single(RowsOf("links", n))
    /\ w.kind # "link" => RowsOf("links", n) = {}
    /\ file[n] = [kind |-> w.kind, by |-> w.by]
Fine(n) == Something(n) => Sound(n)

(* Only a container has something below it. *)
Holds(n) == \A m \in Under(n) : Something(m) => Cont(n)

(* What contains a name that a request works on is a container, unless nobody  *)
(* can say what it is.                                                         *)
Hung == \A r \in Running : \A k \in scope[r] : \A m \in Names \ (scope[r] \cup unclear) :
          k \in Under(m) => Cont(m)

(* Names nobody is at. *)
CalmFine == \A n \in Calm : Fine(n) /\ Holds(n)

(* A good request that creates a node: what it has still to insert is not      *)
(* there, and the rest is.                                                     *)
NewAt(r) ==
  LET n == op[r].id
      kind == op[r].kind
      L == Items(todo[r])
  IN /\ op[r].do = "create" /\ scope[r] = Subtree(n)
     /\ \A m \in Under(n) : ~Something(m)
     /\ Distinct(todo[r])
     /\ \A s \in L :
          \/ s.do = "insert" /\ s = Insert(s.t, n, IF s.t = "nodes" THEN kind ELSE "",
                                           IF s.t = "links" THEN op[r].to ELSE NoName)
          \/ s = Make(kind, n)
     /\ IF Insert("nodes", n, kind, NoName) \in L THEN RowsOf("nodes", n) = {}
        ELSE \E w \in RowsOf("nodes", n) : RowsOf("nodes", n) = {w} /\ w.kind = kind /\ w.by = r
     /\ IF Insert("properties", n, "", NoName) \in L THEN RowsOf("properties", n) = {}
        ELSE Single(RowsOf("properties", n))
     /\ IF Insert("links", n, "", op[r].to) \in L THEN kind = "link" /\ RowsOf("links", n) = {}
        ELSE IF kind = "link" THEN Single(RowsOf("links", n)) ELSE RowsOf("links", n) = {}
     /\ file[n] = IF Make(kind, n) \in L THEN NoFile ELSE Put(r, n, kind)

(* A good request that changes a node in its place. *)
OverAt(r) ==
  LET n == op[r].id
  IN /\ op[r].do = "create" /\ scope[r] = {n}
     /\ Sound(n) /\ Holds(n)
     /\ \A s \in Items(todo[r]) : \/ s.do = "retarget" /\ s.id = n
                                  \/ s.do = "insert" /\ s.t = "addl_props" /\ s.id = n
                                  \/ s.do = "rename" /\ s.id = n /\ s.to = n

(* A good request that deletes.  Of each of its names it has still to delete   *)
(* what is there (Going), or will find it as a link that leads, over links, to *)
(* what it has deleted or will delete (Expected).                              *)
Deleting(r, t, m) == \E s \in Items(todo[r]) : s.do = "delete" /\ s.t = t /\ m \in s.ids
Removing(r, m) == \E s \in Items(todo[r]) :
  s.do = "removebytes" /\ m \in IF s.container THEN Subtree(s.id) ELSE {s.id}
Going(r, m) == /\ \A t \in Tabs : RowsOf(t, m) # {} => Deleting(r, t, m)
               /\ file[m] # NoFile => Removing(r, m)
PendSel(r) == {m \in Places : \E s \in Items(todo[r]) : s.do = "select" /\ m \in s.ids}
LeadsTo(l, S) == \E w \in RowsOf("links", l) : w.target \in S
Catches(r, X) == /\ found[r] \subseteq X
                 /\ \A l \in scope[r] : LeadsTo(l, PendSel(r) \cup X) => l \in X
Expected(r, m) == \A X \in SUBSET scope[r] : Catches(r, X) => m \in X
DelAt(r) ==
  /\ op[r].do # "create" /\ ToNull(op[r])
  /\ \A m \in scope[r] : Under(m) \subseteq scope[r]
  /\ Followed(todo[r])
  /\ found[r] # {} => \E s \in Items(todo[r]) : s.do = "select" /\ s.last
  /\ \A m \in scope[r] : Going(r, m) \/ Expected(r, m)
  /\ \A s \in Items(todo[r]) : s.do = "delete" => \A m \in s.ids \cap Names : Going(r, m)
  /\ \A l \in scope[r] : \A m \in Under(l) : file[m] # NoFile =>
       /\ RowsOf("links", l) = {} /\ l \notin found[r]
       /\ RemoveBytes(l, FALSE) \notin Items(todo[r])

(* A deletion that sweeps takes all that is below its container, even what     *)
(* nobody can say what it is.                                                  *)
SweepAt(r) ==
  /\ \A s \in Items(todo[r]) : s.do \in {"delete", "select", "removebytes"}
  /\ \A m \in Subtree(op[r].id) :
       /\ \A t \in Tabs : RowsOf(t, m) # {} => Deleting(r, t, m)
       /\ file[m] # NoFile => RemoveBytes(op[r].id, TRUE) \in Items(todo[r])

(* A good request that takes all that is at f, and below it, to g. *)
Leads(r, f, g) ==
  /\ f \in Names /\ g \in Names /\ g \notin Subtree(f)
  /\ \A m \in Subtree(f) : Renamed(m, f, g) \in Names
  /\ scope[r] = Subtree(f) \cup Subtree(g)

(* None of what it takes is a link. *)
NoLinks(f) == \A m \in Subtree(f) : \A w \in RowsOf("nodes", m) : w.kind # "link"

(* A name whose statements are still to be found in the list, or read. *)
Waits(L, f, g, m) == \/ Child(m, Renamed(m, f, g)) \in L
                     \/ m \in Under(f) /\ Children(f, g) \in L

(* Nothing is at g, or below it, that does not come from f. *)
OnlyNew(f, g) == \A k \in Subtree(g) : Something(k) => \E m \in Subtree(f) : k = Renamed(m, f, g)

(* A job that has done nothing yet. *)
JobBefore(r, f, g) ==
  /\ Leads(r, f, g) /\ IsStored(f) /\ NoLinks(f)
  /\ \A m \in scope[r] : Fine(m) /\ Holds(m)
  /\ todo[r] # <<>> /\ LastOne(Tail(todo[r]))

(* A job that moves: what has rows under the old name has still to be renamed; *)
(* the rows under both names are those of one node, whose file has been moved. *)
Both(t, m, k) == RowsOf(t, m) \cup RowsOf(t, k)

(* A statement of a move, and its list of them: as long as the children are not *)
(* found, all that is in it is about f itself.                                 *)
MoveItem(s, f, g) ==
  \/ s = Children(f, g)
  \/ \E m \in Under(f) : s = Child(m, Renamed(m, f, g))
  \/ \E m \in Subtree(f) : \/ s = Insert("addl_props", Renamed(m, f, g), "", NoName)
                           \/ \E t \in Moved : \/ s = Rename(t, m, Renamed(m, f, g))
                                               \/ s = Update(t, Renamed(m, f, g))
MoveList(L, f, g) ==
  /\ \A s \in L : MoveItem(s, f, g)
  /\ Children(f, g) \in L => \A s \in L : s = Children(f, g) \/ s.id \in {f, g}

(* The rows that are still under the old name are to be renamed. *)
MoveOwed(L, f, g, m) ==
  LET k == Renamed(m, f, g)
  IN /\ \A t \in Moved : RowsOf(t, m) # {} => Rename(t, m, k) \in L \/ Waits(L, f, g, m)
     /\ Insert("addl_props", k, "", NoName) \in L => Both("nodes", m, k) # {}

(* Nothing below f has its new name before the children are found. *)
Fresh(L, f, g, m) == Children(f, g) \in L /\ m \in Under(f) =>
                       \A t \in Moved : RowsOf(t, Renamed(m, f, g)) = {}

(* A name and its new name: between them they have the rows and the file of one *)
(* node, or of none.                                                           *)
Moves(m, k) ==
  /\ file[m] = NoFile /\ RowsOf("links", m) = {} /\ RowsOf("links", k) = {}
  /\ \/ (\A t \in Moved : Both(t, m, k) = {}) /\ file[k] = NoFile
     \/ \E w \in Both("nodes", m, k) :
          /\ Both("nodes", m, k) = {w} /\ w.kind \in Kinds \ {"link"}
          /\ Single(Both("properties", m, k))
          /\ file[k] = [kind |-> w.kind, by |-> w.by]

(* What contains something that moves is a container, under whichever name. *)
Carries(f, g, m) ==
  \A u \in Under(m) : Both("nodes", u, Renamed(u, f, g)) # {} =>
    \E w \in Both("nodes", m, Renamed(m, f, g)) : w.kind = "container"

(* A move that has the bytes still to move, and one that has moved them. *)
MoveBefore(r, f, g) ==
  /\ JobBefore(r, f, g)
  /\ Head(todo[r]) = MoveBytes(f, g) /\ MoveList(Items(Tail(todo[r])), f, g)
  /\ \A m \in Subtree(f) : MoveOwed(Items(Tail(todo[r])), f, g, m)
MoveAfter(r, f, g) ==
  /\ Leads(r, f, g) /\ Subtree(f) \cap Subtree(g) = {} /\ OnlyNew(f, g)
  /\ LastOne(todo[r]) /\ MoveList(Items(todo[r]), f, g)
  /\ \A m \in Subtree(f) : /\ MoveOwed(Items(todo[r]), f, g, m) /\ Fresh(Items(todo[r]), f, g, m)
                           /\ Moves(m, Renamed(m, f, g)) /\ Carries(f, g, m)
MoveAt(r) == /\ op[r].do = "move" /\ ~ToNull(op[r])
             /\ \E f, g \in Names : MoveBefore(r, f, g) \/ MoveAfter(r, f, g)

(* A job that copies: the rows that are not there have still to be inserted.   *)
(* Its statements, and its list of them.                                       *)
CopyItem(s, f, g) ==
  \/ s = Children(f, g)
  \/ \E m \in Under(f) : s = Child(m, Renamed(m, f, g))
  \/ s.do = "insert" /\ \E m \in Subtree(f) : s.id = Renamed(m, f, g)
CopyList(L, f, g) ==
  /\ \A s \in L : CopyItem(s, f, g)
  /\ Children(f, g) \in L => \A s \in L : s.do # "child"

(* What is inserted says what the node that is copied says. *)
CopyOwed(L, f, g, m) ==
  \A s \in L : s.do = "insert" /\ s.id = Renamed(m, f, g) =>
    /\ ~Waits(L, f, g, m)
    /\ \E w \in RowsOf("nodes", m) : \E t \in Moved : s = CopyRow(t, Renamed(m, f, g), w.kind)
Awaits(L, f, g, t, m, kind) == CopyRow(t, Renamed(m, f, g), kind) \in L \/ Waits(L, f, g, m)

(* The copy has its file, and the rows that are not still to be inserted. *)
Copies(r, L, f, g, m) ==
  LET k == Renamed(m, f, g)
  IN /\ RowsOf("links", k) = {}
     /\ RowsOf("nodes", m) = {} => ~Something(k)
     /\ \A w \in RowsOf("nodes", m) :
          /\ file[k] = Put(r, k, w.kind)
          /\ IF Awaits(L, f, g, "nodes", m, w.kind) THEN RowsOf("nodes", k) = {}
             ELSE \E v \in RowsOf("nodes", k) :
                    RowsOf("nodes", k) = {v} /\ v.kind = w.kind /\ v.by = r
          /\ IF Awaits(L, f, g, "properties", m, w.kind) THEN RowsOf("properties", k) = {}
             ELSE Single(RowsOf("properties", k))

(* A copy that has the bytes still to copy, and one that has copied them. *)
CopyBefore(r, f, g) ==
  /\ JobBefore(r, f, g) /\ \A k \in Subtree(g) : ~Something(k)
  /\ Head(todo[r]) = CopyBytes(f, g)
  /\ Distinct(Tail(todo[r])) /\ CopyList(Items(Tail(todo[r])), f, g)
  /\ \A m \in Subtree(f) :
       /\ CopyOwed(Items(Tail(todo[r])), f, g, m)
       /\ \A w \in RowsOf("nodes", m) :
            /\ Awaits(Items(Tail(todo[r])), f, g, "nodes", m, w.kind)
            /\ Awaits(Items(Tail(todo[r])), f, g, "properties", m, w.kind)
CopyAfter(r, f, g) ==
  /\ Leads(r, f, g) /\ Subtree(f) \cap Subtree(g) = {} /\ OnlyNew(f, g) /\ NoLinks(f)
  /\ LastOne(todo[r]) /\ Distinct(todo[r]) /\ CopyList(Items(todo[r]), f, g)
  /\ \A m \in Subtree(f) : /\ Fine(m) /\ Holds(m) /\ CopyOwed(Items(todo[r]), f, g, m)
                           /\ Copies(r, Items(todo[r]), f, g, m)
CopyAt(r) == /\ op[r].do = "copy" /\ ~ToNull(op[r])
             /\ \E f, g \in Names : CopyBefore(r, f, g) \/ CopyAfter(r, f, g)

(* How far a good request has come. *)
At(r) == NewAt(r) \/ OverAt(r) \/ DelAt(r) \/ MoveAt(r) \/ CopyAt(r)

(* Good requests and sweeping deletions are where they should be. *)
GoodFine == \A r \in Requests : Good(r) => At(r)
SweepsFine == \A r \in sweeps : SweepAt(r)

(* The inductive invariant. *)
SafeInv == /\ Typed /\ Orderly /\ Within
           /\ Hung /\ CalmFine /\ GoodFine /\ SweepsFine

-----------------------------------------------------------------------------
(* What stays *)

(* The rows and the file of a name stay as they are. *)
SameAt(m) == (\A t : RowsOf(t, m)' = RowsOf(t, m)) /\ file'[m] = file[m]

(* What is said of a name depends on its rows and its file only. *)
LEMMA SameMeans ==
  ASSUME NEW m \in Names, SameAt(m)
  PROVE  /\ Something(m)' <=> Something(m)
         /\ Cont(m)' <=> Cont(m)
         /\ Sound(m)' <=> Sound(m)
         /\ Fine(m)' <=> Fine(m)
<1>1. \A t : RowsOf(t, m)' = RowsOf(t, m)
  BY DEF SameAt
<1>2. file'[m] = file[m]
  BY DEF SameAt
<1>3. Something(m)' <=> Something(m)
  BY <1>1, <1>2 DEF Something
<1>4. m # Root
  BY Below
<1>5. Cont(m)' <=> Cont(m)
  BY <1>1, <1>2, <1>4 DEF Cont, GetTypes
<1>6. RowsOf("nodes", m)' = RowsOf("nodes", m) /\ RowsOf("properties", m)' = RowsOf("properties", m)
      /\ RowsOf("links", m)' = RowsOf("links", m)
  BY <1>1
<1>7. Sound(m)' <=> Sound(m)
  BY <1>2, <1>6 DEF Sound, Single
<1> QED BY <1>3, <1>5, <1>7 DEF Fine

(* What is there, and sound, is a node. *)
LEMMA ContIs ==
  ASSUME NEW m \in Names
  PROVE  /\ Cont(m) => Something(m) /\ file[m] # NoFile /\ RowsOf("nodes", m) # {}
         /\ Sound(m) => /\ Something(m) /\ RowsOf("nodes", m) # {}
                        /\ "container" \in GetTypes(m) => Cont(m)
                        /\ file[m] # NoFile
         /\ Cont(m) /\ Sound(m) => RowsOf("links", m) = {}
<1>1. m # Root /\ NoFile.kind = "none"
  BY Below DEF NoFile
<1>2. GetTypes(m) = {w.kind : w \in RowsOf("nodes", m)}
  BY <1>1 DEF GetTypes
<1>3. ASSUME Cont(m) PROVE Something(m) /\ file[m] # NoFile /\ RowsOf("nodes", m) # {}
  <2>1. file[m] # NoFile
    BY <1>1, <1>3 DEF Cont
  <2>2. RowsOf("nodes", m) # {}
    BY <1>2, <1>3 DEF Cont
  <2> QED BY <2>1, <2>2 DEF Something
<1>5. ASSUME Sound(m)
      PROVE  /\ Something(m) /\ RowsOf("nodes", m) # {} /\ ("container" \in GetTypes(m) => Cont(m))
             /\ file[m] # NoFile
  <2>1. PICK w \in RowsOf("nodes", m) :
          RowsOf("nodes", m) = {w} /\ w.kind \in Kinds /\ file[m] = [kind |-> w.kind, by |-> w.by]
    BY <1>5 DEF Sound
  <2>2. GetTypes(m) = {w.kind}
    BY <1>2, <2>1
  <2>3. "container" \in GetTypes(m) => Cont(m)
    BY <2>1, <2>2 DEF Cont
  <2>4. file[m] # NoFile
    BY <1>1, <2>1 DEF Kinds
  <2> QED BY <2>1, <2>3, <2>4 DEF Something, Tabs
<1>6. ASSUME Cont(m), Sound(m) PROVE RowsOf("links", m) = {}
  <2>1. PICK w \in RowsOf("nodes", m) :
          RowsOf("nodes", m) = {w} /\ (w.kind # "link" => RowsOf("links", m) = {})
    BY <1>6 DEF Sound
  <2>2. w.kind \in GetTypes(m)
    BY <1>2
  <2> QED BY <1>6, <2>1, <2>2 DEF Cont
<1> QED BY <1>3, <1>5, <1>6

-----------------------------------------------------------------------------
(* The names of a job *)

(* A name that has been moved has one name, and is below what it was below. *)
LEMMA LeadsNames ==
  ASSUME NEW r, NEW f, NEW g, Leads(r, f, g)
  PROVE  /\ f \in Names /\ g \in Names /\ f \in Subtree(f) /\ g \in Subtree(g)
         /\ Subtree(f) \subseteq Names /\ Subtree(g) \subseteq Names
         /\ Subtree(f) \subseteq scope[r] /\ Subtree(g) \subseteq scope[r]
         /\ \A m \in Subtree(f) : Under(m) \subseteq Subtree(f)
         /\ \A k \in Subtree(g) : Under(k) \subseteq Subtree(g)
         /\ \A k \in scope[r] : k \in Names /\ Under(k) \subseteq scope[r]
         /\ Renamed(f, f, g) = g /\ \A m \in Under(f) : m \in Subtree(f) /\ Renamed(m, f, g) # g /\ m # f
         /\ \A m \in Subtree(f) : Renamed(m, f, g) \in Subtree(g) /\ Renamed(Renamed(m, f, g), g, f) = m
         /\ \A m, u \in Subtree(f) : Renamed(m, f, g) = Renamed(u, f, g) => m = u
         /\ \A m \in Subtree(f) : \A u \in Under(m) : Renamed(u, f, g) \in Under(Renamed(m, f, g))
<1>1. /\ f \in Names /\ g \in Names /\ scope[r] = Subtree(f) \cup Subtree(g)
      /\ \A m \in Subtree(f) : Renamed(m, f, g) \in Names
  BY DEF Leads
<1>2. /\ f \in Subtree(f) /\ g \in Subtree(g) /\ f \in Places /\ g \in Places
      /\ Under(f) \subseteq Subtree(f)
  BY <1>1 DEF Subtree, Places
<1>3. Subtree(f) \subseteq Names /\ Subtree(g) \subseteq Names
  BY <1>1, Below DEF Subtree
<1>4. /\ \A m \in Subtree(f) : Under(m) \subseteq Subtree(f)
      /\ \A k \in Subtree(g) : Under(k) \subseteq Subtree(g)
  BY <1>2, Below DEF Subtree
<1>5. \A k \in scope[r] : k \in Names /\ Under(k) \subseteq scope[r]
  BY <1>1, <1>3, <1>4
<1>6. \A m \in Under(f) : m \in Subtree(f) /\ m # f
  BY <1>2, Below
<1>7. Renamed(f, f, g) = g /\ \A m \in Under(f) : Renamed(m, f, g) # g
  BY <1>1, Renaming
<1>8. \A m \in Subtree(f) : Renamed(m, f, g) \in Subtree(g) /\ Renamed(Renamed(m, f, g), g, f) = m
  BY <1>1, Renaming
<1>9. \A m, u \in Subtree(f) : Renamed(m, f, g) = Renamed(u, f, g) => m = u
  BY <1>1, Renaming
<1>10. \A m \in Subtree(f) : \A u \in Under(m) : Renamed(u, f, g) \in Under(Renamed(m, f, g))
  <2> TAKE m \in Subtree(f)
  <2> TAKE u \in Under(m)
  <2>1. u \in Subtree(f)
    BY <1>4
  <2> QED BY <1>1, <2>1, Renaming
<1> QED BY <1>1, <1>2, <1>3, <1>4, <1>5, <1>6, <1>7, <1>8, <1>9, <1>10

(* The names of a job are all that is below them. *)
LEMMA JobNames ==
  ASSUME NEW q, MoveAt(q) \/ CopyAt(q)
  PROVE  \A k \in scope[q] : k \in Names /\ Under(k) \subseteq scope[q]
<1>1. PICK f, g : Leads(q, f, g)
  BY DEF MoveAt, MoveBefore, MoveAfter, CopyAt, CopyBefore, CopyAfter, JobBefore
<1> QED BY <1>1, LeadsNames

(* Where nothing is yet, nothing comes from elsewhere. *)
LEMMA NamesApart ==
  ASSUME NEW r, NEW f, NEW g, Leads(r, f, g), f \notin Under(g)
  PROVE  /\ Subtree(f) \cap Subtree(g) = {}
         /\ \A m \in Subtree(f) \cup Subtree(g) : m \in Names /\ ~IsStrictPrefix(m, g)
         /\ \A k \in Subtree(g) : Renamed(k, g, f) \in Names =>
              \E m \in Subtree(f) : m = Renamed(k, g, f) /\ k = Renamed(m, f, g)
<1>1. /\ f \in Names /\ g \in Names /\ g \notin Subtree(f)
      /\ Subtree(f) \subseteq Names /\ Subtree(g) \subseteq Names
  BY LeadsNames DEF Leads
<1>2. ASSUME NEW m \in Subtree(f), m \in Subtree(g) PROVE FALSE
  <2>1. f \in Seq(Parts) /\ g \in Seq(Parts) /\ m \in Seq(Parts)
    BY <1>1, Below
  <2>2. m # g /\ f # g
    BY <1>1, <1>2 DEF Subtree
  <2>3. m # f
    BY <1>2, <2>2 DEF Subtree
  <2>4. IsStrictPrefix(f, m) /\ IsStrictPrefix(g, m)
    BY <1>2, <2>2, <2>3, Below DEF Subtree
  <2>5. IsStrictPrefix(f, g) \/ IsStrictPrefix(g, f)
    BY <2>1, <2>2, <2>4, PrefixOrder
  <2>6. g \in Under(f) \/ f \in Under(g)
    BY <1>1, <2>5, Below
  <2> QED BY <1>1, <2>6 DEF Subtree
<1>3. ASSUME NEW m \in Subtree(f) \cup Subtree(g), IsStrictPrefix(m, g) PROVE FALSE
  <2>1. m \in Names /\ g \in Under(m)
    BY <1>1, <1>3, Below
  <2>2. CASE m \in Subtree(f)
    BY <1>1, <2>1, <2>2, LeadsNames
  <2>3. CASE m \in Subtree(g)
    BY <1>1, <2>1, <2>3, Below DEF Subtree, Places
  <2> QED BY <2>2, <2>3
<1>4. ASSUME NEW k \in Subtree(g), Renamed(k, g, f) \in Names
      PROVE  \E m \in Subtree(f) : m = Renamed(k, g, f) /\ k = Renamed(m, f, g)
  BY <1>1, <1>4, Renaming DEF Places
<1> QED BY <1>1, <1>2, <1>3, <1>4

-----------------------------------------------------------------------------
(* Jobs whose names are not touched *)

(* What is said of the names of a job depends on their rows and files only. *)
LEMMA JobSame ==
  ASSUME NEW q, NEW f, NEW g, Leads(q, f, g), scope'[q] = scope[q], \A m \in scope[q] : SameAt(m)
  PROVE  /\ Leads(q, f, g)'
         /\ OnlyNew(f, g)' <=> OnlyNew(f, g)
         /\ NoLinks(f)' <=> NoLinks(f)
         /\ \A m \in scope[q] : (Fine(m)' <=> Fine(m)) /\ (Holds(m)' <=> Holds(m))
         /\ \A m \in scope[q] : Something(m)' <=> Something(m)
<1>1. /\ f \in Names /\ Subtree(f) \subseteq scope[q] /\ Subtree(g) \subseteq scope[q]
      /\ \A m \in scope[q] : m \in Names /\ Under(m) \subseteq scope[q]
  BY LeadsNames
<1>2. Leads(q, f, g)'
  BY DEF Leads, Subtree, Under
<1>3. \A m \in scope[q] : (Fine(m)' <=> Fine(m)) /\ (Something(m)' <=> Something(m)) /\ (Cont(m)' <=> Cont(m))
  BY <1>1, SameMeans
<1>4. \A m \in scope[q] : Holds(m)' <=> Holds(m)
  BY <1>1, <1>3 DEF Holds, Under
<1>5. NoLinks(f)' <=> NoLinks(f)
  <2>1. \A m \in Subtree(f) : RowsOf("nodes", m)' = RowsOf("nodes", m)
    BY <1>1 DEF SameAt
  <2> QED BY <2>1 DEF NoLinks, Subtree, Under
<1>6. OnlyNew(f, g)' <=> OnlyNew(f, g)
  BY <1>1, <1>3 DEF OnlyNew, Subtree, Under
<1> QED BY <1>2, <1>3, <1>4, <1>5, <1>6

(* So does how far a job has come that moves, ... *)
LEMMA MoveSame ==
  ASSUME NEW f, NEW g, NEW L,
         \A m \in Subtree(f) : SameAt(m) /\ SameAt(Renamed(m, f, g)), NEW m \in Subtree(f), Under(m) \subseteq Subtree(f)
  PROVE  /\ MoveOwed(L, f, g, m) => MoveOwed(L, f, g, m)'
         /\ Fresh(L, f, g, m) => Fresh(L, f, g, m)'
         /\ Moves(m, Renamed(m, f, g)) => Moves(m, Renamed(m, f, g))'
         /\ Carries(f, g, m) => Carries(f, g, m)'
<1>1. \A u \in Subtree(f) : \A t : /\ RowsOf(t, u)' = RowsOf(t, u)
                                   /\ RowsOf(t, Renamed(u, f, g))' = RowsOf(t, Renamed(u, f, g))
  BY DEF SameAt
<1>2. file'[m] = file[m] /\ file'[Renamed(m, f, g)] = file[Renamed(m, f, g)]
  BY DEF SameAt
<1>3. \A u \in Subtree(f) : \A t : Both(t, u, Renamed(u, f, g))' = Both(t, u, Renamed(u, f, g))
  BY <1>1 DEF Both
<1>4. MoveOwed(L, f, g, m) => MoveOwed(L, f, g, m)'
  BY <1>1, <1>3 DEF MoveOwed, Waits, Under
<1>5. Fresh(L, f, g, m) => Fresh(L, f, g, m)'
  BY <1>1 DEF Fresh, Under
<1>6. Carries(f, g, m) => Carries(f, g, m)'
  BY <1>3 DEF Carries, Under
<1>7. Moves(m, Renamed(m, f, g)) => Moves(m, Renamed(m, f, g))'
  <2>k. PICK k : k = Renamed(m, f, g)
    OBVIOUS
  <2>1. /\ \A t : Both(t, m, k)' = Both(t, m, k)
        /\ RowsOf("links", m)' = RowsOf("links", m) /\ RowsOf("links", k)' = RowsOf("links", k)
        /\ file'[m] = file[m] /\ file'[k] = file[k]
    BY <1>1, <1>2, <1>3, <2>k
  <2>2. Both("nodes", m, k)' = Both("nodes", m, k) /\ Both("properties", m, k)' = Both("properties", m, k)
    BY <2>1
  <2>3. Moves(m, k) => Moves(m, k)'
    BY <2>1, <2>2 DEF Moves, Single
  <2> QED BY <2>3, <2>k
<1> QED BY <1>4, <1>5, <1>6, <1>7

(* ... and one that copies. *)
LEMMA CopySame ==
  ASSUME NEW f, NEW g, NEW L, NEW m, SameAt(m), SameAt(Renamed(m, f, g)), Renamed(m, f, g) \in Names, NEW r
  PROVE  /\ CopyOwed(L, f, g, m) => CopyOwed(L, f, g, m)'
         /\ Copies(r, L, f, g, m) => Copies(r, L, f, g, m)'
<1>k. PICK k : k = Renamed(m, f, g)
  OBVIOUS
<1>1. /\ \A t : RowsOf(t, m)' = RowsOf(t, m) /\ RowsOf(t, k)' = RowsOf(t, k)
      /\ file'[k] = file[k] /\ (Something(k)' <=> Something(k))
  BY <1>k, SameMeans DEF SameAt
<1>2. RowsOf("nodes", m)' = RowsOf("nodes", m)
  BY <1>1
<1>3. CopyOwed(L, f, g, m) => CopyOwed(L, f, g, m)'
  BY <1>2 DEF CopyOwed, Waits, Under
<1>4. /\ RowsOf("links", k)' = RowsOf("links", k) /\ RowsOf("nodes", k)' = RowsOf("nodes", k)
      /\ RowsOf("properties", k)' = RowsOf("properties", k)
  BY <1>1
<1>5. \A t, kind : Awaits(L, f, g, t, m, kind)' <=> Awaits(L, f, g, t, m, kind)
  BY DEF Awaits, Waits, Under
<1>6. Single(RowsOf("properties", k))' <=> Single(RowsOf("properties", k))
  BY <1>4 DEF Single
<1>7. Copies(r, L, f, g, m) => Copies(r, L, f, g, m)'
  <2> SUFFICES ASSUME Copies(r, L, f, g, m)
               PROVE  /\ RowsOf("links", k)' = {}
                      /\ RowsOf("nodes", m)' = {} => ~Something(k)'
                      /\ \A w \in RowsOf("nodes", m)' :
                           /\ file'[k] = Put(r, k, w.kind)
                           /\ IF Awaits(L, f, g, "nodes", m, w.kind)' THEN RowsOf("nodes", k)' = {}
                              ELSE \E v \in RowsOf("nodes", k)' :
                                     RowsOf("nodes", k)' = {v} /\ v.kind = w.kind /\ v.by = r
                           /\ IF Awaits(L, f, g, "properties", m, w.kind)' THEN RowsOf("properties", k)' = {}
                              ELSE Single(RowsOf("properties", k))'
    BY <1>k DEF Copies, Put
  <2>1. /\ RowsOf("links", k) = {}
        /\ RowsOf("nodes", m) = {} => ~Something(k)
        /\ \A w \in RowsOf("nodes", m) :
             /\ file[k] = Put(r, k, w.kind)
             /\ IF Awaits(L, f, g, "nodes", m, w.kind) THEN RowsOf("nodes", k) = {}
                ELSE \E v \in RowsOf("nodes", k) :
                       RowsOf("nodes", k) = {v} /\ v.kind = w.kind /\ v.by = r
             /\ IF Awaits(L, f, g, "properties", m, w.kind) THEN RowsOf("properties", k) = {}
                ELSE Single(RowsOf("properties", k))
    BY <1>k DEF Copies
  <2> QED BY <1>1, <1>2, <1>4, <1>5, <1>6, <2>1
<1> QED BY <1>3, <1>7

(* A job that has done nothing has still done nothing. *)
LEMMA BeforeSame ==
  ASSUME NEW q, NEW f, NEW g, JobBefore(q, f, g), todo'[q] = todo[q], scope'[q] = scope[q],
         \A m \in scope[q] : SameAt(m)
  PROVE  JobBefore(q, f, g)'
<1>1. Leads(q, f, g) /\ f \in Names /\ f \in scope[q] /\ f # Root
  <2>1. Leads(q, f, g)
    BY DEF JobBefore
  <2>2. f \in Names /\ f \in scope[q]
    BY <2>1, LeadsNames
  <2> QED BY <2>1, <2>2, Below
<1>2. /\ Leads(q, f, g)' /\ (NoLinks(f)' <=> NoLinks(f))
      /\ \A m \in scope[q] : (Fine(m)' <=> Fine(m)) /\ (Holds(m)' <=> Holds(m))
  BY <1>1, JobSame
<1>3. IsStored(f)' <=> IsStored(f)
  BY <1>1 DEF IsStored, SameAt
<1>4. \A m \in scope'[q] : Fine(m)' /\ Holds(m)'
  BY <1>2 DEF JobBefore
<1>5. todo'[q] # <<>> /\ LastOne(Tail(todo'[q]))
  BY DEF JobBefore
<1>6. IsStored(f)' /\ NoLinks(f)'
  BY <1>2, <1>3 DEF JobBefore
<1> QED BY <1>2, <1>4, <1>5, <1>6 DEF JobBefore

(* A job whose names are not touched stays as far as it is, if it moves, ... *)
LEMMA MoveLasts ==
  ASSUME NEW q, NEW f \in Names, NEW g \in Names, MoveBefore(q, f, g) \/ MoveAfter(q, f, g),
         todo'[q] = todo[q], scope'[q] = scope[q], \A m \in scope[q] : SameAt(m)
  PROVE  /\ MoveBefore(q, f, g) => MoveBefore(q, f, g)'
         /\ MoveAfter(q, f, g) => MoveAfter(q, f, g)'
<1>2. Leads(q, f, g)
  BY DEF MoveBefore, MoveAfter, JobBefore
<1>3. /\ Subtree(f) \subseteq scope[q] /\ \A m \in Subtree(f) : Under(m) \subseteq Subtree(f)
      /\ \A m \in Subtree(f) : Renamed(m, f, g) \in scope[q]
  BY <1>2, LeadsNames
<1>4. \A L : \A m \in Subtree(f) :
        /\ MoveOwed(L, f, g, m) => MoveOwed(L, f, g, m)'
        /\ Fresh(L, f, g, m) => Fresh(L, f, g, m)'
        /\ Moves(m, Renamed(m, f, g)) => Moves(m, Renamed(m, f, g))'
        /\ Carries(f, g, m) => Carries(f, g, m)'
  <2> TAKE L
  <2> TAKE m \in Subtree(f)
  <2>1. \A u \in Subtree(f) : SameAt(u) /\ SameAt(Renamed(u, f, g))
    BY <1>3
  <2>2. Under(m) \subseteq Subtree(f)
    BY <1>3
  <2> QED BY <2>1, <2>2, MoveSame
<1>5. ASSUME MoveBefore(q, f, g) PROVE MoveBefore(q, f, g)'
  <2>1. JobBefore(q, f, g)'
    BY <1>5, BeforeSame DEF MoveBefore
  <2>L. PICK L : L = Items(Tail(todo[q]))
    OBVIOUS
  <2>2. \A m \in Subtree(f) : MoveOwed(L, f, g, m)'
    BY <1>4, <1>5, <2>L DEF MoveBefore
  <2>3. (\A m \in Subtree(f) : MoveOwed(Items(Tail(todo[q])), f, g, m))'
    BY <2>2, <2>L DEF Subtree, Under, MoveOwed, Waits
  <2>4. Head(todo'[q]) = MoveBytes(f, g) /\ MoveList(Items(Tail(todo'[q])), f, g)
    BY <1>5 DEF MoveBefore
  <2>5. MoveList(Items(Tail(todo[q])), f, g)'
    BY <2>4 DEF MoveList, MoveItem, Subtree, Under
  <2> QED BY <2>1, <2>3, <2>4, <2>5 DEF MoveBefore
<1>6. ASSUME MoveAfter(q, f, g) PROVE MoveAfter(q, f, g)'
  <2>1. Leads(q, f, g)' /\ OnlyNew(f, g)'
    BY <1>2, <1>6, JobSame DEF MoveAfter
  <2>L. PICK L : L = Items(todo[q]) /\ L = Items(todo'[q])
    OBVIOUS
  <2>2. \A m \in Subtree(f) : /\ MoveOwed(L, f, g, m)' /\ Fresh(L, f, g, m)'
                              /\ Moves(m, Renamed(m, f, g))' /\ Carries(f, g, m)'
    BY <1>4, <1>6, <2>L DEF MoveAfter
  <2>3. Subtree(f) \cap Subtree(g) = {} /\ LastOne(todo'[q]) /\ MoveList(Items(todo'[q]), f, g)
    BY <1>6 DEF MoveAfter
  <2> QED BY <2>1, <2>2, <2>3, <2>L DEF MoveAfter
<1> QED BY <1>5, <1>6

(* ... and if it copies. *)
LEMMA CopyLasts ==
  ASSUME NEW q, NEW f \in Names, NEW g \in Names, CopyBefore(q, f, g) \/ CopyAfter(q, f, g),
         todo'[q] = todo[q], scope'[q] = scope[q], \A m \in scope[q] : SameAt(m)
  PROVE  /\ CopyBefore(q, f, g) => CopyBefore(q, f, g)'
         /\ CopyAfter(q, f, g) => CopyAfter(q, f, g)'
<1>2. Leads(q, f, g)
  BY DEF CopyBefore, CopyAfter, JobBefore
<1>3. /\ Subtree(f) \subseteq scope[q] /\ Subtree(g) \subseteq scope[q]
      /\ \A m \in Subtree(f) : Renamed(m, f, g) \in scope[q] /\ Renamed(m, f, g) \in Names
  BY <1>2, LeadsNames
<1>4. \A L : \A m \in Subtree(f) :
        /\ CopyOwed(L, f, g, m) => CopyOwed(L, f, g, m)'
        /\ Copies(q, L, f, g, m) => Copies(q, L, f, g, m)'
  BY <1>3, CopySame
<1>5. ASSUME CopyBefore(q, f, g) PROVE CopyBefore(q, f, g)'
  <2>1. JobBefore(q, f, g)' /\ \A k \in Subtree(g) : ~Something(k)'
    BY <1>2, <1>3, <1>5, BeforeSame, JobSame DEF CopyBefore
  <2>L. PICK L : L = Items(Tail(todo[q])) /\ L = Items(Tail(todo'[q]))
    OBVIOUS
  <2>2. \A m \in Subtree(f) : CopyOwed(L, f, g, m)'
    BY <1>4, <1>5, <2>L DEF CopyBefore
  <2>3. \A m \in Subtree(f) : \A w \in RowsOf("nodes", m)' :
          Awaits(L, f, g, "nodes", m, w.kind) /\ Awaits(L, f, g, "properties", m, w.kind)
    <3>1. \A m \in Subtree(f) : RowsOf("nodes", m)' = RowsOf("nodes", m)
      BY <1>3 DEF SameAt
    <3> QED BY <1>5, <2>L, <3>1 DEF CopyBefore
  <2>4. /\ Head(todo'[q]) = CopyBytes(f, g) /\ Distinct(Tail(todo'[q]))
        /\ CopyList(Items(Tail(todo'[q])), f, g)
    BY <1>5 DEF CopyBefore
  <2> QED BY <2>1, <2>2, <2>3, <2>4, <2>L DEF CopyBefore
<1>6. ASSUME CopyAfter(q, f, g) PROVE CopyAfter(q, f, g)'
  <2>1. Leads(q, f, g)' /\ OnlyNew(f, g)' /\ NoLinks(f)' /\ \A m \in Subtree(f) : Fine(m)' /\ Holds(m)'
    BY <1>2, <1>3, <1>6, JobSame DEF CopyAfter
  <2>L. PICK L : L = Items(todo[q]) /\ L = Items(todo'[q])
    OBVIOUS
  <2>2. \A m \in Subtree(f) : CopyOwed(L, f, g, m)' /\ Copies(q, L, f, g, m)'
    BY <1>4, <1>6, <2>L DEF CopyAfter
  <2>3. /\ Subtree(f) \cap Subtree(g) = {} /\ LastOne(todo'[q]) /\ Distinct(todo'[q])
        /\ CopyList(Items(todo'[q]), f, g)
    BY <1>6 DEF CopyAfter
  <2> QED BY <2>1, <2>2, <2>3, <2>L DEF CopyAfter
<1> QED BY <1>5, <1>6

(* So jobs stay jobs. *)
LEMMA JobStays ==
  ASSUME NEW q, op' = op, todo'[q] = todo[q], scope'[q] = scope[q], \A m \in scope[q] : SameAt(m)
  PROVE  /\ MoveAt(q) => MoveAt(q)'
         /\ CopyAt(q) => CopyAt(q)'
<1>1. ASSUME MoveAt(q) PROVE MoveAt(q)'
  <2>1. PICK f \in Names, g \in Names : MoveBefore(q, f, g) \/ MoveAfter(q, f, g)
    BY <1>1 DEF MoveAt
  <2>2. (MoveBefore(q, f, g) \/ MoveAfter(q, f, g))'
    BY <2>1, MoveLasts
  <2>3. \E a, b \in Names : (MoveBefore(q, a, b) \/ MoveAfter(q, a, b))'
    BY <2>2
  <2> QED BY <1>1, <2>3 DEF MoveAt
<1>2. ASSUME CopyAt(q) PROVE CopyAt(q)'
  <2>1. PICK f \in Names, g \in Names : CopyBefore(q, f, g) \/ CopyAfter(q, f, g)
    BY <1>2 DEF CopyAt
  <2>2. (CopyBefore(q, f, g) \/ CopyAfter(q, f, g))'
    BY <2>1, CopyLasts
  <2>3. \E a, b \in Names : (CopyBefore(q, a, b) \/ CopyAfter(q, a, b))'
    BY <2>2
  <2> QED BY <1>2, <2>3 DEF CopyAt
<1> QED BY <1>1, <1>2

-----------------------------------------------------------------------------
(* What does not change *)

(* Nobody is at a name that is neither calm nor unclear but a good request, and *)
(* if that does not hold all that is below the name, too, the name is a node.   *)
LEMMA SomethingAbove ==
  ASSUME Typed, Orderly, CalmFine, GoodFine,
         NEW m \in Names, m \notin unclear, NEW k \in Under(m), Something(k)
  PROVE  Cont(m) \/ \E q \in Running : m \in scope[q] /\ k \in scope[q]
<1>1. CASE m \in Calm
  BY <1>1 DEF CalmFine, Holds
<1>2. CASE m \notin Calm
  <2>1. PICK q \in Running : m \in scope[q]
    BY <1>2 DEF Calm, Busy
  <2>2. q \in Requests /\ At(q)
    BY <2>1 DEF GoodFine, Good, Running
  <2>3. ASSUME NewAt(q) PROVE k \in scope[q]
    <3>1. scope[q] = Subtree(op[q].id) /\ op[q].id \in Names
      <4>1. op[q] \in Op
        BY <2>2, OpsAssumption DEF Typed
      <4>2. scope[q] = Subtree(op[q].id)
        BY <2>3 DEF NewAt
      <4> QED BY <4>1, <4>2 DEF Op
    <3>2. Under(m) \subseteq Subtree(op[q].id)
      BY <2>1, <3>1, Below DEF Subtree, Places
    <3> QED BY <3>1, <3>2
  <2>4. ASSUME OverAt(q) PROVE Cont(m)
    BY <2>1, <2>4 DEF OverAt, Holds
  <2>5. ASSUME DelAt(q) PROVE k \in scope[q]
    BY <2>1, <2>5 DEF DelAt
  <2>6. ASSUME MoveAt(q) \/ CopyAt(q) PROVE k \in scope[q]
    BY <2>1, <2>6, JobNames
  <2> QED BY <2>1, <2>2, <2>3, <2>4, <2>5, <2>6 DEF At
<1> QED BY <1>1, <1>2

(* A request that works changes nothing but its own names and what is unclear. *)
LEMMA Elsewhere ==
  ASSUME Typed, Within, Hung, NEW r \in Requests, Works(r), NEW m \in Names, m \notin scope[r], m \notin unclear
  PROVE  SameAt(m)
<1>1. (\A t : RowsOf(t, m)' = RowsOf(t, m)) /\ (file'[m] = file[m] \/ Made(r, m))
  BY Frame
<1>2. ASSUME Made(r, m) PROVE FALSE
  <2>1. PICK k \in scope[r] : IsStrictPrefix(m, k) /\ file[m] = NoFile
    BY <1>2 DEF Made
  <2>2. r \in Running /\ k \in Under(m)
    BY <2>1, WorkFacts, Below DEF Typed, Running, scope
  <2>3. Cont(m)
    BY <2>1, <2>2 DEF Hung
  <2> QED BY <2>1, <2>3, ContIs
<1> QED BY <1>1, <1>2 DEF SameAt

(* What is below a name that is not its own stays in order. *)
LEMMA HoldsStays ==
  ASSUME Typed, Within, Hung, NEW r \in Requests, Works(r), NEW n \in Names, n \notin scope[r], n \notin unclear,
         Holds(n)
  PROVE  Holds(n)'
<1> SUFFICES ASSUME NEW m \in Under(n), Something(m)' PROVE Cont(n)'
  BY DEF Holds, Under
<1>0. r \in Running /\ m \in Names /\ \A k \in scope[r] : k \in Names
  BY WorkFacts, Below DEF Running, Typed, scope
<1>1. \/ m \in scope[r]
      \/ (\A t : RowsOf(t, m)' = RowsOf(t, m)) /\ (file'[m] = file[m] \/ Made(r, m))
  BY <1>0, Frame
<1>2. Cont(n)
  <2>1. CASE m \in scope[r]
    BY <1>0, <2>1 DEF Hung
  <2>2. CASE m \notin scope[r] /\ file'[m] = file[m]
    <3>1. SameAt(m)
      BY <1>1, <2>2 DEF SameAt
    <3>2. Something(m)
      BY <1>0, <3>1, SameMeans
    <3> QED BY <3>2 DEF Holds
  <2>3. CASE Made(r, m)
    <3>1. PICK k \in scope[r] : IsStrictPrefix(m, k)
      BY <2>3 DEF Made
    <3>2. k \in Under(m) /\ Under(m) \subseteq Under(n)
      BY <1>0, <3>1, Below DEF Places
    <3> QED BY <1>0, <3>2 DEF Hung
  <2> QED BY <1>1, <2>1, <2>2, <2>3
<1> QED BY <1>2, Elsewhere, SameMeans

-----------------------------------------------------------------------------
(* Requests whose names are not touched *)

(* What a running request has still to do. *)
LEMMA ItemsInside ==
  ASSUME Within, NEW q \in Requests, pc[q] = "run", NEW s \in Items(todo[q])
  PROVE  s \in Stmt /\ Inside(s, scope[q])
<1>1. todo[q] \in Seq(Local(scope[q]))
  BY DEF Within
<1>2. PICK i \in 1..Len(todo[q]) : s = todo[q][i]
  BY DEF Items
<1>3. todo[q][i] \in Local(scope[q])
  BY <1>1
<1> QED BY <1>2, <1>3 DEF Local

(* What a good request has done so far depends on its names only. *)
LEMMA NewStays ==
  ASSUME Typed, NEW q \in Requests, NewAt(q), op' = op, todo'[q] = todo[q], scope'[q] = scope[q],
         \A m \in scope[q] : SameAt(m)
  PROVE  NewAt(q)'
<1> DEFINE n == op[q].id
<1>1. op[q] \in Op
  BY OpsAssumption DEF Typed
<1>2. n \in Names /\ n \in scope[q] /\ \A m \in Under(n) : m \in Names /\ m \in scope[q]
  BY <1>1 DEF Op, NewAt, Subtree, Under
<1>3. (\A t : RowsOf(t, n)' = RowsOf(t, n)) /\ file'[n] = file[n]
  BY <1>2 DEF SameAt
<1>4. \A m \in Under(n) : ~Something(m) /\ (Something(m)' <=> Something(m))
  BY <1>2, SameMeans DEF NewAt
<1>5. /\ RowsOf("nodes", n)' = RowsOf("nodes", n)
      /\ RowsOf("properties", n)' = RowsOf("properties", n)
      /\ RowsOf("links", n)' = RowsOf("links", n)
  BY <1>3
<1>6. (\A m \in Under(n) : ~Something(m))'
  BY <1>4 DEF Under
<1> QED BY <1>3, <1>5, <1>6 DEF NewAt, Subtree, Under, Single

(* A change in place stays as far as it is, ... *)
LEMMA OverStays ==
  ASSUME Typed, NEW q \in Requests, OverAt(q), op' = op, todo'[q] = todo[q], scope'[q] = scope[q],
         SameAt(op[q].id), Holds(op[q].id)'
  PROVE  OverAt(q)'
<1>1. op[q] \in Op
  BY OpsAssumption DEF Typed
<1>2. Sound(op[q].id)' <=> Sound(op[q].id)
  BY <1>1, SameMeans DEF Op
<1> QED BY <1>2 DEF OverAt

(* ... and so does a deletion. *)
LEMMA DelStays ==
  ASSUME Typed, Within, NEW q \in Requests, pc[q] = "run", DelAt(q), op' = op, todo'[q] = todo[q], found'[q] = found[q],
         scope'[q] = scope[q], \A m \in scope[q] : SameAt(m)
  PROVE  DelAt(q)'
<1>1. scope[q] \subseteq Names /\ \A l \in scope[q] : Under(l) \subseteq scope[q]
  BY DEF Typed, scope, DelAt
<1>2. \A m \in scope[q] : (\A t : RowsOf(t, m)' = RowsOf(t, m)) /\ file'[m] = file[m]
  BY DEF SameAt
<1>3. \A t, m : Deleting(q, t, m)' <=> Deleting(q, t, m)
  BY DEF Deleting
<1>4. \A m : Removing(q, m)' <=> Removing(q, m)
  BY DEF Removing, Subtree, Under
<1>5. \A m \in scope[q] : Going(q, m)' <=> Going(q, m)
  BY <1>2, <1>3, <1>4 DEF Going
<1>6. \A l \in scope[q] : \A S : LeadsTo(l, S)' <=> LeadsTo(l, S)
  BY <1>2 DEF LeadsTo
<1>7. PendSel(q)' = PendSel(q)
  BY DEF PendSel, Places
<1>8. \A X : Catches(q, X)' <=> Catches(q, X)
  BY <1>6, <1>7 DEF Catches
<1>9. \A m : Expected(q, m)' <=> Expected(q, m)
  BY <1>8 DEF Expected
<1>10. \A s \in Items(todo[q]) : s.do = "delete" => \A m \in s.ids \cap Names : m \in scope[q]
  BY ItemsInside DEF Inside
<1>11. (\A m \in scope[q] : Under(m) \subseteq scope[q])'
  BY <1>1 DEF Under
<1>12. (\A m \in scope[q] : Going(q, m) \/ Expected(q, m))'
  BY <1>5, <1>9 DEF DelAt
<1>13. (\A s \in Items(todo[q]) : s.do = "delete" => \A m \in s.ids \cap Names : Going(q, m))'
  BY <1>5, <1>10 DEF DelAt
<1>14. (\A l \in scope[q] : \A m \in Under(l) : file[m] # NoFile =>
         /\ RowsOf("links", l) = {} /\ l \notin found[q]
         /\ RemoveBytes(l, FALSE) \notin Items(todo[q]))'
  <2> SUFFICES ASSUME NEW l \in scope[q], NEW m \in Under(l), file'[m] # NoFile
               PROVE  /\ RowsOf("links", l)' = {} /\ l \notin found'[q]
                      /\ RemoveBytes(l, FALSE) \notin Items(todo'[q])
    BY DEF Under
  <2>1. m \in scope[q] /\ file[m] # NoFile
    BY <1>1, <1>2
  <2>2. /\ RowsOf("links", l) = {} /\ l \notin found[q]
        /\ RemoveBytes(l, FALSE) \notin Items(todo[q])
    BY <2>1 DEF DelAt
  <2> QED BY <1>2, <2>2
<1> QED BY <1>11, <1>12, <1>13, <1>14 DEF DelAt, ToNull

-----------------------------------------------------------------------------
(* What single statements do *)

(* The rows of a name after a statement. *)
RowsNext(s, r, t, n) == {w \in RowsAfter(s, r) : w.t = t /\ w.id = n}

(* A row more, ... *)
LEMMA InsertDoes ==
  ASSUME NEW s, s.do = "insert", NEW r, NEW t, NEW n
  PROVE  RowsNext(s, r, t, n) =
           IF s.t = t /\ s.id = n
           THEN RowsOf(t, n) \cup {Row(s.t, s.id, s.kind, s.target, r,
                  Cardinality({w \in rows : w.t = s.t /\ w.id = s.id /\ w.by = r}))}
           ELSE RowsOf(t, n)
<1> DEFINE x == Row(s.t, s.id, s.kind, s.target, r,
                  Cardinality({w \in rows : w.t = s.t /\ w.id = s.id /\ w.by = r}))
<1>1. RowsAfter(s, r) = rows \cup {x}
  BY DEF RowsAfter
<1>2. x.t = s.t /\ x.id = s.id
  BY DEF Row
<1> HIDE DEF x
<1>3. RowsNext(s, r, t, n) = IF s.t = t /\ s.id = n THEN RowsOf(t, n) \cup {x} ELSE RowsOf(t, n)
  BY <1>1, <1>2 DEF RowsNext, RowsOf
<1> QED BY <1>3 DEF x

(* ... none left, ... *)
LEMMA DeleteDoes ==
  ASSUME NEW s, s.do = "delete", NEW r, NEW t, NEW n
  PROVE  RowsNext(s, r, t, n) = IF s.t = t /\ n \in s.ids THEN {} ELSE RowsOf(t, n)
<1>1. RowsAfter(s, r) = {w \in rows : ~(w.t = s.t /\ w.id \in s.ids)}
  BY DEF RowsAfter
<1> QED BY <1>1 DEF RowsNext, RowsOf

(* ... the same ones, when only values change, ... *)
LEMMA RenameDoes ==
  ASSUME NEW s, s.do = "rename", s.to = s.id, rows \subseteq Rows, NEW r, NEW t, NEW n
  PROVE  RowsNext(s, r, t, n) = RowsOf(t, n)
<1>1. RowsAfter(s, r) = {IF w.t = s.t /\ w.id = s.id THEN [w EXCEPT !.id = s.to] ELSE w : w \in rows}
  BY DEF RowsAfter
<1>2. \A w \in rows : (IF w.t = s.t /\ w.id = s.id THEN [w EXCEPT !.id = s.to] ELSE w) = w
  BY DEF Rows
<1>3. RowsAfter(s, r) = rows
  BY <1>1, <1>2
<1> QED BY <1>3 DEF RowsNext, RowsOf

(* ... as many as there were. *)
LEMMA RetargetDoes ==
  ASSUME NEW s, s.do = "retarget", rows \subseteq Rows, NEW r, NEW n
  PROVE  /\ \A t : t # "links" => RowsNext(s, r, t, n) = RowsOf(t, n)
         /\ Single(RowsOf("links", n)) => Single(RowsNext(s, r, "links", n))
         /\ RowsOf("links", n) = {} => RowsNext(s, r, "links", n) = {}
<1> DEFINE f == [w \in rows |-> IF w.t = "links" /\ w.id = s.id THEN [w EXCEPT !.target = s.target] ELSE w]
<1>1. RowsAfter(s, r) = {f[w] : w \in rows}
  BY DEF RowsAfter
<1>2. \A w \in rows : f[w].t = w.t /\ f[w].id = w.id /\ (w.t # "links" => f[w] = w)
  BY DEF Rows
<1> HIDE DEF f
<1>3. \A t : RowsNext(s, r, t, n) = {f[w] : w \in RowsOf(t, n)}
  BY <1>1, <1>2 DEF RowsNext, RowsOf
<1>4. \A t : t # "links" => {f[w] : w \in RowsOf(t, n)} = RowsOf(t, n)
  BY <1>2 DEF RowsOf
<1>5. ASSUME Single(RowsOf("links", n)) PROVE Single(RowsNext(s, r, "links", n))
  <2>1. PICK w \in RowsOf("links", n) : RowsOf("links", n) = {w}
    BY <1>5 DEF Single
  <2>2. RowsNext(s, r, "links", n) = {f[w]}
    BY <1>3, <2>1
  <2> QED BY <2>2 DEF Single
<1>6. RowsOf("links", n) = {} => RowsNext(s, r, "links", n) = {}
  BY <1>3
<1> QED BY <1>3, <1>4, <1>5, <1>6

(* What executing and losing do to the rows and the list. *)
LEMMA ExecuteDoes ==
  ASSUME Typed, NEW r \in Requests, Execute(r) \/ Lose(r)
  PROVE  /\ Head1(r).do \in Writes /\ file' = file /\ found' = found
         /\ \/ /\ \A t, n : RowsOf(t, n)' = RowsNext(Head1(r), r, t, n)
               /\ \/ todo'[r] = Tail(todo[r])
                  \/ todo'[r] = todo[r] /\ (Head1(r).do = "insert" => scope[r] \subseteq unclear' /\ r \notin sweeps')
                  \/ scope[r] \subseteq unclear' /\ r \notin sweeps'
            \/ /\ \A t, n : RowsOf(t, n)' = RowsOf(t, n)
               /\ todo'[r] = todo[r] \/ (scope[r] \subseteq unclear' /\ r \notin sweeps')
<1>1. Head1(r).do \in Writes /\ file' = file /\ found' = found
  BY DEF Execute, Lose, Doing
<1>2. /\ rows' = RowsAfter(Head1(r), r) => \A t, n : RowsOf(t, n)' = RowsNext(Head1(r), r, t, n)
      /\ rows' = rows => \A t, n : RowsOf(t, n)' = RowsOf(t, n)
  BY DEF RowsOf, RowsNext
<1>3. todo \in [Requests -> Seq(Stmt)] /\ tries \in [Requests -> 1..Retries] /\ Retries \in Nat
  BY BoundsAssumption DEF Typed
<1>4. \A rest : Advance(r, rest) => todo'[r] = rest
  BY <1>3 DEF Advance
<1>5. CASE Execute(r)
  <2>1. rows' = RowsAfter(Head1(r), r) /\ todo'[r] = Tail(todo[r])
    BY <1>4, <1>5 DEF Execute
  <2> QED BY <1>1, <1>2, <2>1
<1>6. CASE Lose(r)
  <2>1. PICK executed \in BOOLEAN :
          /\ rows' = IF executed THEN RowsAfter(Head1(r), r) ELSE rows
          /\ IF IF executed THEN Head1(r).do = "insert" ELSE tries[r] = 1
             THEN unclear' = unclear \cup scope[r] /\ sweeps' = sweeps \ {r}
             ELSE UNCHANGED <<unclear, sweeps>>
    BY <1>6 DEF Lose
  <2>2. IF tries[r] > 1 THEN todo' = todo ELSE todo'[r] = Tail(todo[r]) /\ tries[r] = 1
    <3>1. ~(tries[r] > 1) => tries[r] = 1
      BY <1>3
    <3> QED BY <1>4, <1>6, <3>1 DEF Lose
  <2>3. CASE executed
    <3>1. \A t, n : RowsOf(t, n)' = RowsNext(Head1(r), r, t, n)
      BY <1>2, <2>1, <2>3
    <3>2. Head1(r).do = "insert" => scope[r] \subseteq unclear' /\ r \notin sweeps'
      BY <2>1, <2>3
    <3> QED BY <1>1, <2>2, <3>1, <3>2
  <2>4. CASE ~executed
    <3>1. \A t, n : RowsOf(t, n)' = RowsOf(t, n)
      BY <1>2, <2>1, <2>4
    <3>2. tries[r] = 1 => scope[r] \subseteq unclear' /\ r \notin sweeps'
      BY <2>1, <2>4
    <3> QED BY <1>1, <2>2, <3>1, <3>2
  <2> QED BY <2>3, <2>4
<1> QED BY <1>5, <1>6

(* Whoever works does what is first in its list. *)
LEMMA FirstFirst ==
  ASSUME Typed, NEW r \in Requests, Works(r)
  PROVE  /\ Head1(r) \in Items(todo[r]) /\ Items(Tail(todo[r])) \subseteq Items(todo[r])
         /\ Items(todo[r]) = {Head1(r)} \cup Items(Tail(todo[r]))
         /\ Head1(r).do \in Writes => Execute(r) \/ Lose(r)
         /\ Head1(r).do = "make" => MakeFile(r)
         /\ Head1(r).do = "select" => SelectLinks(r)
         /\ Head1(r).do = "removebytes" => RemoveFiles(r)
<1>1. todo[r] # <<>> /\ todo[r] \in Seq(Stmt)
  BY WorkFacts DEF Typed
<1>2. Items(todo[r]) = {Head1(r)} \cup Items(Tail(todo[r]))
  BY <1>1, ItemsTail DEF Head1
<1>3. /\ Execute(r) \/ Lose(r) => Head1(r).do \in Writes
      /\ SelectLinks(r) => Head1(r).do = "select"
      /\ FindChildren(r) => Head1(r).do = "children"
      /\ ReadChild(r) => Head1(r).do = "child"
      /\ MakeFile(r) => Head1(r).do = "make"
      /\ MoveFiles(r) => Head1(r).do = "movebytes"
      /\ CopyFiles(r) => Head1(r).do = "copybytes"
      /\ RemoveFiles(r) => Head1(r).do = "removebytes"
  BY DEF Execute, Lose, SelectLinks, FindChildren, ReadChild, MakeFile, MoveFiles, CopyFiles,
         RemoveFiles, Doing
<1> QED BY <1>2, <1>3 DEF Works, Writes

(* A request that changes a node in its place leaves a node there. *)
LEMMA OverWorks ==
  ASSUME Typed, Within, NEW r \in Requests, Works(r), OverAt(r), ~(scope[r] \subseteq unclear')
  PROVE  OverAt(r)' /\ \A m \in scope[r] : Cont(m)' <=> Cont(m)
<1>n. PICK n : n = op[r].id
  OBVIOUS
<1>s. PICK s : s = Head1(r)
  OBVIOUS
<1>1. scope[r] = {n} /\ Sound(n) /\ Holds(n)
  BY <1>n DEF OverAt
<1>0. /\ n \in Names /\ rows \subseteq Rows /\ op' = op
      /\ \A m \in Under(n) : m \in Names /\ m \notin scope[r]
  <2>1. op[r] \in Op /\ rows \subseteq Rows /\ op' = op
    BY WorkFacts, OpsAssumption DEF Typed
  <2> QED BY <1>n, <1>1, <2>1, Below DEF Op, Places
<1>2. s.id = n /\ (s.do = "retarget" \/ (s.do = "insert" /\ s.t = "addl_props") \/ (s.do = "rename" /\ s.to = s.id))
  BY <1>n, <1>s, FirstFirst DEF OverAt
<1>3. Execute(r) \/ Lose(r)
  BY <1>2, <1>s, FirstFirst DEF Writes
<1>4. /\ file' = file
      /\ todo'[r] = todo[r] \/ todo'[r] = Tail(todo[r])
      /\ \/ \A t, m : RowsOf(t, m)' = RowsNext(s, r, t, m)
         \/ \A t, m : RowsOf(t, m)' = RowsOf(t, m)
  BY <1>3, <1>s, ExecuteDoes
<1>5. \A m \in Under(n) : SameAt(m)
  <2> TAKE m \in Under(n)
  <2>1. \A t : RowsOf(t, m)' = RowsOf(t, m)
    BY <1>0, Frame
  <2> QED BY <1>4, <2>1 DEF SameAt
<1>6. /\ RowsNext(s, r, "nodes", n) = RowsOf("nodes", n)
      /\ RowsNext(s, r, "properties", n) = RowsOf("properties", n)
      /\ Single(RowsOf("links", n)) => Single(RowsNext(s, r, "links", n))
      /\ RowsOf("links", n) = {} => RowsNext(s, r, "links", n) = {}
  <2>1. CASE s.do = "retarget"
    <3>1. \A t : t # "links" => RowsNext(s, r, t, n) = RowsOf(t, n)
      BY <1>0, <2>1, RetargetDoes
    <3>2. /\ Single(RowsOf("links", n)) => Single(RowsNext(s, r, "links", n))
          /\ RowsOf("links", n) = {} => RowsNext(s, r, "links", n) = {}
      BY <1>0, <2>1, RetargetDoes
    <3> QED BY <3>1, <3>2
  <2>2. CASE s.do = "insert"
    BY <1>2, <2>2, InsertDoes
  <2>3. CASE s.do = "rename"
    BY <1>0, <1>2, <2>3, RenameDoes
  <2> QED BY <1>2, <2>1, <2>2, <2>3
<1>7. /\ RowsOf("nodes", n)' = RowsOf("nodes", n)
      /\ RowsOf("properties", n)' = RowsOf("properties", n)
      /\ Single(RowsOf("links", n)) => Single(RowsOf("links", n)')
      /\ RowsOf("links", n) = {} => RowsOf("links", n)' = {}
  <2>1. CASE \A t, m : RowsOf(t, m)' = RowsNext(s, r, t, m)
    <3>1. \A t : RowsOf(t, n)' = RowsNext(s, r, t, n)
      BY <2>1
    <3>2. /\ RowsOf("nodes", n)' = RowsNext(s, r, "nodes", n)
          /\ RowsOf("properties", n)' = RowsNext(s, r, "properties", n)
          /\ RowsOf("links", n)' = RowsNext(s, r, "links", n)
      BY <3>1
    <3> QED BY <1>6, <3>2
  <2>2. CASE \A t, m : RowsOf(t, m)' = RowsOf(t, m)
    BY <2>2
  <2> QED BY <1>4, <2>1, <2>2
<1>8. Sound(n)'
  <2>1. PICK w \in RowsOf("nodes", n) :
          /\ RowsOf("nodes", n) = {w} /\ w.kind \in Kinds /\ Single(RowsOf("properties", n))
          /\ w.kind = "link" => Single(RowsOf("links", n))
          /\ w.kind # "link" => RowsOf("links", n) = {}
          /\ file[n] = [kind |-> w.kind, by |-> w.by]
    BY <1>1 DEF Sound
  <2>2. /\ w \in RowsOf("nodes", n)' /\ RowsOf("nodes", n)' = {w} /\ w.kind \in Kinds /\ Single(RowsOf("properties", n)')
        /\ w.kind = "link" => Single(RowsOf("links", n)')
        /\ w.kind # "link" => RowsOf("links", n)' = {}
        /\ file'[n] = [kind |-> w.kind, by |-> w.by]
    BY <1>4, <1>7, <2>1
  <2> QED BY <1>0, <2>2 DEF Sound, Single
<1>9. Cont(n)' <=> Cont(n)
  <2>1. n # Root
    BY <1>0, Below
  <2> QED BY <1>0, <1>4, <1>7, <2>1 DEF Cont, GetTypes
<1>10. Holds(n)'
  <2> SUFFICES ASSUME NEW m \in Under(n), Something(m)' PROVE Cont(n)'
    BY <1>0 DEF Holds, Under
  <2> QED BY <1>0, <1>1, <1>5, <1>9, SameMeans DEF Holds
<1>11. Items(todo'[r]) \subseteq Items(todo[r])
  BY <1>4, FirstFirst
<1>12. scope'[r] = {n}
  <2>1. before' = before
    BY <1>3 DEF Execute, Lose, aux
  <2> QED BY <1>1, <2>1 DEF scope
<1> QED BY <1>n, <1>0, <1>1, <1>8, <1>9, <1>10, <1>11, <1>12 DEF OverAt

-----------------------------------------------------------------------------
(* While a request works, the other names and requests stay in order *)

(* Names nobody is at stay in order while a request works on others. *)
LEMMA CalmWorks ==
  ASSUME Typed, Within, Hung, CalmFine, NEW r \in Requests, Works(r) PROVE CalmFine'
<1>1. /\ r \in Running /\ Running' = Running /\ unclear \subseteq unclear'
      /\ \A q \in Requests : scope[q] \subseteq scope'[q]
  <2>1. PICK late, spoilt : Alters(r, late, spoilt)
    BY WorkFacts
  <2> QED BY <2>1, WorkFacts DEF Running, Alters
<1>2. ASSUME NEW n \in Calm' PROVE n \in Calm /\ n \in Names /\ n \notin scope[r] /\ n \notin unclear
  BY <1>1, <1>2 DEF Calm, Busy, Running
<1>3. ASSUME NEW n \in Calm' PROVE Fine(n)' /\ Holds(n)'
  <2>1. Fine(n) /\ Holds(n)
    BY <1>2, <1>3 DEF CalmFine
  <2> QED BY <1>2, <1>3, <2>1, Elsewhere, SameMeans, HoldsStays
<1> QED BY <1>3 DEF CalmFine

(* Good requests that are at work below the same name meet. *)
LEMMA HungWorks ==
  ASSUME Typed, Orderly, Within, Hung, CalmFine, GoodFine, NEW r \in Requests, Works(r) PROVE Hung'
<1>1. /\ r \in Running /\ Running' = Running /\ rows \subseteq Rows
      /\ \A q \in Requests : q # r => scope'[q] = scope[q]
  BY WorkFacts DEF Running, Typed
<1>2. PICK late, spoilt : Alters(r, late, spoilt)
  BY WorkFacts
<1>3. /\ late # {} => scope[r] \cup late \subseteq unclear'
      /\ scope'[r] = scope[r] \cup late /\ unclear \subseteq unclear' /\ late \subseteq Names
      /\ \A q \in Running \ {r} : scope[q] \cap late # {} => scope[q] \subseteq unclear'
  BY <1>2 DEF Alters, Met
<1>4. \A q \in Running : q \in Requests /\ scope[q] \subseteq Names
  BY DEF Running, Typed, scope
<1> SUFFICES ASSUME NEW q \in Running, NEW k \in scope'[q], NEW m \in Names \ (scope'[q] \cup unclear'),
                    k \in Under(m)
             PROVE  Cont(m)'
  BY <1>1 DEF Hung, Under
<1>5. m \notin unclear /\ m \notin scope[q]
  BY <1>1, <1>3, <1>4
<1>6. CASE k \in scope[q]
  <2>1. Cont(m)
    BY <1>5, <1>6 DEF Hung
  <2>2. CASE m \notin scope[r]
    BY <1>5, <2>1, <2>2, Elsewhere, SameMeans
  <2>3. CASE m \in scope[r]
    <3>1. q # r /\ Good(r)
      BY <1>1, <1>5, <2>3 DEF Good, Running
    <3>2. ASSUME k \in scope[r] PROVE FALSE
      BY <1>1, <1>5, <1>6, <2>3, <3>1, <3>2 DEF Orderly, Apart, Meeting
    <3>3. ASSUME NewAt(r) PROVE k \in scope[r]
      <4>1. scope[r] = Subtree(op[r].id) /\ op[r] \in Op
        BY <3>3, OpsAssumption DEF NewAt, Typed
      <4>2. Under(m) \subseteq Subtree(op[r].id)
        BY <2>3, <4>1, Below DEF Subtree, Places, Op
      <4> QED BY <4>1, <4>2
    <3>4. ASSUME DelAt(r) PROVE k \in scope[r]
      BY <2>3, <3>4 DEF DelAt
    <3>5. ASSUME MoveAt(r) \/ CopyAt(r) PROVE k \in scope[r]
      BY <2>3, <3>5, JobNames
    <3>6. OverAt(r)
      BY <3>1, <3>2, <3>3, <3>4, <3>5 DEF GoodFine, At
    <3>7. ~(scope[r] \subseteq unclear')
      BY <2>3
    <3> QED BY <2>1, <2>3, <3>6, <3>7, OverWorks
  <2> QED BY <2>2, <2>3
<1>7. CASE k \notin scope[q]
  <2>1. q = r /\ k \in late
    BY <1>1, <1>3, <1>4, <1>7
  <2>2. SelectLinks(r)
    <3>1. ASSUME ~SelectLinks(r) PROVE before' = before
      BY <3>1 DEF Works, Execute, Lose, FindChildren, ReadChild, MakeFile, MoveFiles, CopyFiles,
                  RemoveFiles, aux
    <3> QED BY <1>7, <2>1, <3>1 DEF scope
  <2>3. Something(k) /\ rows' = rows /\ file' = file
    <3> DEFINE links == found[r] \cup {w.id : w \in {v \in rows : v.t = "links" /\ v.target \in Head1(r).ids}}
    <3>1. /\ before' = [before EXCEPT ![r] = [n \in scope[r] \cup (links \ scope[r]) |->
                              IF n \in links \ scope[r] THEN Stored(n) ELSE @[n]]]
          /\ rows' = rows /\ file' = file
      BY <2>2 DEF SelectLinks, store
    <3>2. k \in links
      <4> HIDE DEF links
      <4>1. DOMAIN before = Requests
        BY DEF Typed
      <4> QED BY <1>7, <2>1, <3>1, <4>1 DEF scope
    <3>3. found[r] \subseteq scope[r]
      BY <1>1 DEF Within, Running
    <3>4. RowsOf("links", k) # {}
      BY <1>7, <2>1, <3>2, <3>3 DEF RowsOf
    <3> QED BY <3>1, <3>4 DEF Something, Tabs
  <2>4. Cont(m) \/ \E u \in Running : m \in scope[u] /\ k \in scope[u]
    BY <1>5, <2>3, SomethingAbove
  <2>5. ASSUME NEW u \in Running, m \in scope[u], k \in scope[u] PROVE FALSE
    BY <1>3, <1>5, <1>7, <2>1, <2>5
  <2>6. SameAt(m)
    BY <2>3 DEF SameAt, RowsOf
  <2> QED BY <2>4, <2>5, <2>6, SameMeans
<1> QED BY <1>6, <1>7

(* The other good requests do not notice. *)
LEMMA OthersWork ==
  ASSUME Typed, Orderly, Within, Hung, GoodFine, NEW r \in Requests, Works(r),
         NEW q \in Requests, q # r, Good(q)'
  PROVE  At(q)'
<1>1. /\ r \in Running /\ pc' = pc /\ op' = op
      /\ todo'[q] = todo[q] /\ found'[q] = found[q] /\ scope'[q] = scope[q]
  BY WorkFacts DEF Running
<1>2. unclear \subseteq unclear'
  <2>1. PICK late, spoilt : Alters(r, late, spoilt)
    BY WorkFacts
  <2> QED BY <2>1 DEF Alters
<1>3. Good(q) /\ q \in Running /\ pc[q] = "run"
  BY <1>1, <1>2 DEF Good, Running
<1>4. scope[q] \cap scope[r] = {} /\ scope[q] \cap unclear = {} /\ scope[q] \subseteq Names
  BY <1>1, <1>3 DEF Orderly, Whole, Apart, Meeting, Good, Typed, scope
<1>5. \A m \in scope[q] : m \in Names /\ SameAt(m)
  BY <1>4, Elsewhere
<1>6. ASSUME OverAt(q) PROVE OverAt(q)'
  <2>1. op[q].id \in scope[q] /\ Holds(op[q].id)
    BY <1>6 DEF OverAt
  <2>2. PICK n : n = op[q].id
    OBVIOUS
  <2>3. Holds(n)'
    BY <1>4, <2>1, <2>2, HoldsStays
  <2>4. Holds(op[q].id)'
    BY <1>1, <2>2, <2>3
  <2> QED BY <1>1, <1>5, <1>6, <2>1, <2>4, OverStays
<1>7. NewAt(q) => NewAt(q)'
  BY <1>1, <1>5, NewStays
<1>8. DelAt(q) => DelAt(q)'
  BY <1>1, <1>3, <1>5, DelStays
<1>9. /\ MoveAt(q) => MoveAt(q)'
      /\ CopyAt(q) => CopyAt(q)'
  BY <1>1, <1>5, JobStays
<1>10. At(q)
  BY <1>3 DEF GoodFine
<1> QED BY <1>6, <1>7, <1>8, <1>9, <1>10 DEF At

-----------------------------------------------------------------------------
(* What good requests do themselves *)

(* A request that stays good comes to no names but its own. *)
LEMMA GoodWorks ==
  ASSUME Typed, NEW r \in Requests, Works(r), ~(scope'[r] \subseteq unclear')
  PROVE  /\ scope'[r] = scope[r] /\ ~(scope[r] \subseteq unclear)
         /\ ~(scope[r] \subseteq unclear')
         /\ SelectLinks(r) =>
              found[r] \cup {w.id : w \in {v \in rows : v.t = "links" /\ v.target \in Head1(r).ids}} \subseteq scope[r]
<1>1. PICK late, spoilt : Alters(r, late, spoilt)
  BY WorkFacts
<1>2. late = {} /\ scope'[r] = scope[r] \cup late /\ unclear \subseteq unclear'
  BY <1>1 DEF Alters
<1>3. ASSUME SelectLinks(r)
      PROVE found[r] \cup {w.id : w \in {v \in rows : v.t = "links" /\ v.target \in Head1(r).ids}} \subseteq scope[r]
  <2> DEFINE links == found[r] \cup {w.id : w \in {v \in rows : v.t = "links" /\ v.target \in Head1(r).ids}}
  <2>1. before' = [before EXCEPT ![r] = [n \in scope[r] \cup (links \ scope[r]) |->
                              IF n \in links \ scope[r] THEN Stored(n) ELSE @[n]]]
    BY <1>3 DEF SelectLinks
  <2> HIDE DEF links
  <2>2. DOMAIN before = Requests
    BY DEF Typed
  <2>3. scope'[r] = scope[r] \cup (links \ scope[r])
    BY <2>1, <2>2 DEF scope
  <2>4. links \subseteq scope[r]
    BY <1>2, <2>3
  <2> QED BY <2>4 DEF links
<1> QED BY <1>2, <1>3

(* A good request that has deleted rows. *)
LEMMA DelDeletes ==
  ASSUME Typed, Within, NEW r \in Requests, Works(r), DelAt(r), ~(scope'[r] \subseteq unclear'),
         Head1(r).do = "delete"
  PROVE  DelAt(r)'
<1>s. PICK s : s = Head1(r)
  OBVIOUS
<1>L. PICK L : L = Items(todo'[r])
  OBVIOUS
<1>D. PICK D : D = scope[r]
  OBVIOUS
<1>1. /\ scope'[r] = D /\ scope[r] = D /\ D \subseteq Names /\ op' = op /\ pc[r] = "run" /\ ~(D \subseteq unclear')
      /\ todo[r] \in Seq(Stmt) /\ todo[r] # <<>>
  <2>1. D \subseteq Names /\ todo[r] \in Seq(Stmt)
    BY <1>D DEF Typed, scope
  <2> QED BY <1>D, <2>1, GoodWorks, WorkFacts
<1>2. Execute(r) \/ Lose(r)
  BY FirstFirst DEF Writes
<1>3. /\ file' = file /\ found' = found
      /\ \/ /\ \A t, n : RowsOf(t, n)' = RowsNext(s, r, t, n)
            /\ todo'[r] = Tail(todo[r]) \/ todo'[r] = todo[r]
         \/ /\ \A t, n : RowsOf(t, n)' = RowsOf(t, n)
            /\ todo'[r] = todo[r]
  BY <1>1, <1>2, <1>s, ExecuteDoes
<1>4. CASE (\A t, n : RowsOf(t, n)' = RowsOf(t, n)) /\ todo'[r] = todo[r]
  <2>1. \A m \in scope[r] : SameAt(m)
    BY <1>3, <1>4 DEF SameAt
  <2>2. found'[r] = found[r] /\ scope'[r] = scope[r]
    BY <1>1, <1>3
  <2> QED BY <1>1, <1>4, <2>1, <2>2, DelStays
<1>5. CASE /\ \A t, n : RowsOf(t, n)' = RowsNext(s, r, t, n)
           /\ todo'[r] = Tail(todo[r]) \/ todo'[r] = todo[r]
  <2>S. PICK S : S = s.ids
    OBVIOUS
  <2>1. /\ Items(todo[r]) = {s} \cup L /\ L \subseteq Items(todo[r]) /\ s \in Items(todo[r])
        /\ Followed(todo'[r]) /\ s.do = "delete"
        /\ \E x \in L : x.do = "select" /\ S \subseteq x.ids
    <3>1. Items(todo[r]) = {s} \cup Items(Tail(todo[r]))
      BY <1>1, <1>s, ItemsTail DEF Head1
    <3>2. Followed(todo[r]) /\ Followed(Tail(todo[r]))
      BY <1>1, ItemsTail DEF DelAt
    <3>3. \E x \in Items(Tail(todo[r])) : x.do = "select" /\ S \subseteq x.ids
      BY <1>1, <1>s, <2>S, <3>2, ItemsTail DEF Head1
    <3> QED BY <1>5, <1>L, <1>s, <3>1, <3>2, <3>3
  <2>2. \A t, n : RowsOf(t, n)' = IF s.t = t /\ n \in S THEN {} ELSE RowsOf(t, n)
    <3> TAKE t, n
    <3>1. RowsOf(t, n)' = RowsNext(s, r, t, n)
      BY <1>5
    <3> QED BY <2>1, <2>S, <3>1, DeleteDoes
  <2>3. \A m \in D : Going(r, m) => Going(r, m)'
    <3> SUFFICES ASSUME NEW m \in D, Going(r, m) PROVE Going(r, m)'
      OBVIOUS
    <3>1. ASSUME NEW t \in Tabs, RowsOf(t, m)' # {} PROVE Deleting(r, t, m)'
      <4>1. ~(s.t = t /\ m \in S) /\ RowsOf(t, m) # {}
        BY <2>2, <3>1
      <4>2. PICK x \in Items(todo[r]) : x.do = "delete" /\ x.t = t /\ m \in x.ids
        BY <4>1 DEF Going, Deleting
      <4>3. x \in L
        BY <2>1, <2>S, <4>1, <4>2
      <4> QED BY <1>L, <4>2, <4>3 DEF Deleting
    <3>2. ASSUME file'[m] # NoFile PROVE Removing(r, m)'
      <4>1. PICK x \in Items(todo[r]) :
              x.do = "removebytes" /\ m \in IF x.container THEN Subtree(x.id) ELSE {x.id}
        BY <1>3, <3>2 DEF Going, Removing
      <4>2. x \in L
        BY <2>1, <4>1
      <4> QED BY <1>L, <4>1, <4>2 DEF Removing, Subtree, Under
    <3> QED BY <3>1, <3>2 DEF Going
  <2>4. PendSel(r)' = PendSel(r) /\ S \cap D \subseteq PendSel(r)
    <3>1. PendSel(r)' = {m \in Places : \E x \in L : x.do = "select" /\ m \in x.ids}
      BY <1>L DEF PendSel, Places
    <3>2. PendSel(r)' = PendSel(r)
      BY <2>1, <3>1 DEF PendSel
    <3>3. S \cap D \subseteq Places
      BY <1>1 DEF Places
    <3> QED BY <2>1, <3>1, <3>2, <3>3
  <2>5. \A m \in D : m \in S => Going(r, m)
    BY <1>1, <2>1, <2>S DEF DelAt
  <2>6. \A m \in D : Expected(r, m) => Going(r, m)' \/ Expected(r, m)'
    <3> SUFFICES ASSUME NEW m \in D, Expected(r, m), m \notin S PROVE Expected(r, m)'
      BY <2>3, <2>5
    <3> SUFFICES ASSUME NEW X \in SUBSET D, Catches(r, X)' PROVE m \in X
      BY <1>1 DEF Expected
    <3> DEFINE Y == X \cup (S \cap D)
    <3>1. Catches(r, Y)
      <4>1. found[r] \subseteq Y
        BY <1>3 DEF Catches
      <4>2. ASSUME NEW l \in D, LeadsTo(l, PendSel(r) \cup Y), l \notin S PROVE l \in Y
        <5>1. PendSel(r) \cup Y = PendSel(r) \cup X
          BY <2>4
        <5>2. RowsOf("links", l)' = RowsOf("links", l)
          BY <2>2, <4>2
        <5>3. LeadsTo(l, PendSel(r) \cup X)'
          BY <2>4, <4>2, <5>1, <5>2 DEF LeadsTo
        <5>4. l \in X
          BY <1>1, <2>4, <5>3 DEF Catches
        <5> QED BY <5>4
      <4> HIDE DEF Y
      <4>3. \A l \in D : LeadsTo(l, PendSel(r) \cup Y) => l \in Y
        BY <4>2 DEF Y
      <4> QED BY <1>1, <4>1, <4>3 DEF Catches
    <3>2. Y \in SUBSET scope[r]
      BY <1>1
    <3>3. m \in Y
      BY <3>1, <3>2 DEF Expected
    <3> QED BY <3>3
  <2>7. (\A m \in scope[r] : Going(r, m) \/ Expected(r, m))'
    BY <1>1, <2>3, <2>6 DEF DelAt
  <2>8. (\A x \in Items(todo[r]) : x.do = "delete" => \A m \in x.ids \cap Names : Going(r, m))'
    <3> SUFFICES ASSUME NEW x \in L, x.do = "delete", NEW m \in x.ids \cap Names PROVE Going(r, m)'
      BY <1>L
    <3>1. x \in Items(todo[r]) /\ Going(r, m)
      BY <2>1 DEF DelAt
    <3>2. m \in D
      BY <1>1, <3>1, ItemsInside DEF Inside
    <3> QED BY <2>3, <3>1, <3>2
  <2>9. (\A l \in scope[r] : \A m \in Under(l) : file[m] # NoFile =>
          /\ RowsOf("links", l) = {} /\ l \notin found[r]
          /\ RemoveBytes(l, FALSE) \notin Items(todo[r]))'
    <3> SUFFICES ASSUME NEW l \in D, NEW m \in Under(l), file'[m] # NoFile
                 PROVE  /\ RowsOf("links", l)' = {} /\ l \notin found'[r]
                        /\ RemoveBytes(l, FALSE) \notin L
      BY <1>L, <1>1 DEF Under
    <3>1. RowsOf("links", l) = {} /\ l \notin found[r] /\ RemoveBytes(l, FALSE) \notin Items(todo[r])
      BY <1>1, <1>3 DEF DelAt
    <3> QED BY <1>3, <2>1, <2>2, <3>1
  <2>10. (\A m \in scope[r] : Under(m) \subseteq scope[r])'
    BY <1>1 DEF DelAt, Under
  <2>11. (found[r] # {} => \E x \in Items(todo[r]) : x.do = "select" /\ x.last)'
    BY <1>3, <1>L, <2>1 DEF DelAt
  <2> QED BY <1>1, <2>1, <2>7, <2>8, <2>9, <2>10, <2>11 DEF DelAt, ToNull
<1> QED BY <1>3, <1>4, <1>5

(* A good request that has looked for links to what it has deleted. *)
LEMMA DelSelects ==
  ASSUME Typed, Within, NEW r \in Requests, Works(r), DelAt(r), ~(scope'[r] \subseteq unclear'),
         Head1(r).do = "select"
  PROVE  DelAt(r)'
<1>s. PICK s : s = Head1(r)
  OBVIOUS
<1>u. PICK u : u = Tail(todo[r])
  OBVIOUS
<1>D. PICK D : D = scope[r]
  OBVIOUS
<1>k. PICK links : links = found[r] \cup {w.id : w \in {v \in rows : v.t = "links" /\ v.target \in s.ids}}
  OBVIOUS
<1>1. /\ scope'[r] = D /\ scope[r] = D /\ D \subseteq Names /\ op' = op /\ pc[r] = "run"
      /\ todo[r] \in Seq(Stmt) /\ todo[r] # <<>> /\ rows \subseteq Rows
  <2>1. D \subseteq Names /\ todo[r] \in Seq(Stmt) /\ rows \subseteq Rows
    BY <1>D DEF Typed, scope
  <2> QED BY <1>D, <2>1, GoodWorks, WorkFacts
<1>2. SelectLinks(r)
  BY FirstFirst
<1>3. links \subseteq D /\ links \in SUBSET Names
  <2>1. links \subseteq D
    BY <1>2, <1>D, <1>k, <1>s, GoodWorks
  <2> QED BY <1>1, <2>1
<1>4. /\ s.do = "select" /\ s \in Items(todo[r]) /\ Items(todo[r]) = {s} \cup Items(u)
      /\ u \in Seq(Stmt) /\ Followed(u)
      /\ ~s.last => \E x \in Items(u) : x.do = "select" /\ x.last
  <2>1. Items(todo[r]) = {s} \cup Items(u)
    BY <1>1, <1>s, <1>u, ItemsTail DEF Head1
  <2>2. Followed(todo[r])
    BY DEF DelAt
  <2>3. Followed(u) /\ (~s.last => \E x \in Items(u) : x.do = "select" /\ x.last)
    BY <1>1, <1>s, <1>u, <2>2, ItemsTail DEF Head1
  <2> QED BY <1>1, <1>s, <1>u, <2>1, <2>3, Lists
<1>5. /\ rows' = rows /\ file' = file
      /\ IF s.last THEN /\ todo'[r] = LinkDeletes(links) \o u \o LinkRemoves(links)
                        /\ found'[r] = {}
         ELSE todo'[r] = u /\ found'[r] = links
  <2>1. /\ todo \in [Requests -> Seq(Stmt)] /\ DOMAIN found = Requests
    BY DEF Typed
  <2>2. \A rest : Advance(r, rest) => todo'[r] = rest
    BY <2>1 DEF Advance
  <2>3. rows' = rows /\ file' = file
    BY <1>2 DEF SelectLinks, store
  <2>4. IF s.last THEN /\ Advance(r, LinkDeletes(links) \o u \o LinkRemoves(links))
                       /\ found' = [found EXCEPT ![r] = {}]
        ELSE Advance(r, u) /\ found' = [found EXCEPT ![r] = links]
    BY <1>2, <1>k, <1>s, <1>u, Zenon DEF SelectLinks, LinkDeletes, LinkRemoves
  <2>5. \A set : found' = [found EXCEPT ![r] = set] => found'[r] = set
    BY <2>1
  <2> QED BY <2>2, <2>3, <2>4, <2>5
<1>6. \A t, m : RowsOf(t, m)' = RowsOf(t, m)
  BY <1>5 DEF RowsOf
<1>7. /\ links \subseteq D /\ found[r] \subseteq links
      /\ \A l \in D : LeadsTo(l, s.ids) => l \in links
      /\ \A l : l \in links => l \in found[r] \/ RowsOf("links", l) # {}
  BY <1>3, <1>k DEF LeadsTo, RowsOf
<1>8. (\A m \in scope[r] : Under(m) \subseteq scope[r])'
  BY <1>1 DEF DelAt, Under
<1>P. \A m \in PendSel(r) : m \in s.ids \/ \E x \in Items(u) : x.do = "select" /\ m \in x.ids
  BY <1>4 DEF PendSel
<1>G. ASSUME Items(u) \subseteq Items(todo'[r]) PROVE \A m \in D : Going(r, m) => Going(r, m)'
  <2> SUFFICES ASSUME NEW m \in D, Going(r, m) PROVE Going(r, m)'
    OBVIOUS
  <2>1. ASSUME NEW t \in Tabs, RowsOf(t, m)' # {} PROVE Deleting(r, t, m)'
    <3>1. PICK x \in Items(todo[r]) : x.do = "delete" /\ x.t = t /\ m \in x.ids
      BY <1>6, <2>1 DEF Going, Deleting
    <3>2. x \in Items(u)
      BY <1>4, <3>1
    <3> QED BY <1>G, <3>1, <3>2 DEF Deleting
  <2>2. ASSUME file'[m] # NoFile PROVE Removing(r, m)'
    <3>1. PICK x \in Items(todo[r]) :
            x.do = "removebytes" /\ m \in IF x.container THEN Subtree(x.id) ELSE {x.id}
      BY <1>5, <2>2 DEF Going, Removing
    <3>2. x \in Items(u)
      BY <1>4, <3>1
    <3> QED BY <1>G, <3>1, <3>2 DEF Removing, Subtree, Under
  <2> QED BY <2>1, <2>2 DEF Going
(* What is expected is caught now, or still expected. *)
<1>E. ASSUME Items(u) \subseteq Items(todo'[r]),
             \A l \in links : l \in PendSel(r)' \/ l \in found'[r],
             NEW m \in D, Expected(r, m), m \notin links \/ found'[r] = links
      PROVE  Expected(r, m)'
  <2> SUFFICES ASSUME NEW X \in SUBSET D, Catches(r, X)' PROVE m \in X
    BY <1>1 DEF Expected
  <2> DEFINE Y == X \cup links
  <2>1. \A k \in Places : k \in PendSel(r) => k \in s.ids \/ k \in PendSel(r)'
    BY <1>E, <1>P DEF PendSel, Places
  <2>2. Catches(r, Y)
    <3>1. found[r] \subseteq Y
      BY <1>7
    <3>2. ASSUME NEW l \in D, LeadsTo(l, PendSel(r) \cup Y) PROVE l \in Y
      <4>1. PICK w \in RowsOf("links", l) : w.target \in PendSel(r) \cup Y
        BY <3>2 DEF LeadsTo
      <4>2. w.target \in s.ids \/ w.target \in PendSel(r)' \cup X
        <5>1. CASE w.target \in PendSel(r)
          BY <2>1, <5>1 DEF PendSel
        <5>2. CASE w.target \in links
          BY <1>E, <5>2 DEF Catches
        <5> QED BY <4>1, <5>1, <5>2
      <4>3. CASE w.target \in s.ids
        BY <1>7, <4>3 DEF LeadsTo
      <4>4. CASE w.target \in PendSel(r)' \cup X
        <5>1. LeadsTo(l, PendSel(r) \cup X)'
          BY <1>6, <4>1, <4>4 DEF LeadsTo
        <5> QED BY <1>1, <5>1 DEF Catches
      <4> QED BY <4>2, <4>3, <4>4
    <3> HIDE DEF Y
    <3> QED BY <1>1, <3>1, <3>2 DEF Catches
  <2>3. m \in Y
    <3>1. Y \in SUBSET scope[r]
      BY <1>1, <1>7
    <3> QED BY <1>E, <2>2, <3>1 DEF Expected
  <2> QED BY <1>E, <2>3 DEF Catches
<1>9. CASE ~s.last
  <2>1. todo'[r] = u /\ found'[r] = links
    BY <1>5, <1>9
  <2>2. \A m \in D : (Going(r, m) => Going(r, m)') /\ (Expected(r, m) => Expected(r, m)')
    BY <1>E, <1>G, <2>1
  <2>3. (\A m \in scope[r] : Going(r, m) \/ Expected(r, m))'
    BY <1>1, <2>2 DEF DelAt
  <2>4. (\A x \in Items(todo[r]) : x.do = "delete" => \A m \in x.ids \cap Names : Going(r, m))'
    <3> SUFFICES ASSUME NEW x \in Items(u), x.do = "delete", NEW m \in x.ids \cap Names PROVE Going(r, m)'
      BY <2>1
    <3>1. x \in Items(todo[r]) /\ Going(r, m)
      BY <1>4 DEF DelAt
    <3>2. m \in D
      BY <1>1, <3>1, ItemsInside DEF Inside
    <3> QED BY <2>2, <3>1, <3>2
  <2>5. (\A l \in scope[r] : \A m \in Under(l) : file[m] # NoFile =>
          /\ RowsOf("links", l) = {} /\ l \notin found[r]
          /\ RemoveBytes(l, FALSE) \notin Items(todo[r]))'
    <3> SUFFICES ASSUME NEW l \in D, NEW m \in Under(l), file'[m] # NoFile
                 PROVE  /\ RowsOf("links", l)' = {} /\ l \notin found'[r]
                        /\ RemoveBytes(l, FALSE) \notin Items(u)
      BY <2>1, <1>1 DEF Under
    <3>1. RowsOf("links", l) = {} /\ l \notin found[r] /\ RemoveBytes(l, FALSE) \notin Items(todo[r])
      BY <1>1, <1>5 DEF DelAt
    <3> QED BY <1>4, <1>6, <1>7, <2>1, <3>1
  <2> QED BY <1>1, <1>4, <1>8, <1>9, <2>1, <2>3, <2>4, <2>5 DEF DelAt, ToNull
<1>10. CASE s.last
  <2>d. PICK d : d = LinkDeletes(links)
    OBVIOUS
  <2>f. PICK f : f = LinkRemoves(links)
    OBVIOUS
  <2>1. /\ d \in Seq(Stmt) /\ Followed(d) /\ f \in Seq(Stmt) /\ Followed(f)
        /\ \A x : x \in Items(d) <=>
              \E l \in links : x = Select({l}, TRUE) \/ \E t \in TableNames : x = Delete(t, {l})
        /\ Items(f) = {RemoveBytes(l, FALSE) : l \in links}
    BY <1>3, <2>d, <2>f, LinkLists
  <2>2. todo'[r] = (d \o u) \o f /\ found'[r] = {}
    BY <1>5, <1>10, <2>d, <2>f
  <2>e. PICK e : e = d \o u
    OBVIOUS
  <2>3. e \in Seq(Stmt) /\ Items(e) = Items(d) \cup Items(u) /\ Followed(e)
    <3>1. e \in Seq(Stmt)
      BY <1>4, <2>1, <2>e, Lists
    <3>2. d \in Seq(Stmt) /\ u \in Seq(Stmt) /\ Followed(d) /\ Followed(u)
      BY <1>4, <2>1
    <3> QED BY <2>e, <3>1, <3>2, ItemsConcat
  <2>4. Items(todo'[r]) = Items(d) \cup Items(u) \cup Items(f) /\ Followed(todo'[r])
    <3>1. e \in Seq(Stmt) /\ f \in Seq(Stmt) /\ Followed(e) /\ Followed(f)
      BY <2>1, <2>3
    <3>2. Items(e \o f) = Items(e) \cup Items(f) /\ Followed(e \o f)
      BY <3>1, ItemsConcat
    <3> QED BY <2>2, <2>3, <2>e, <3>2
  <2>5. \A l \in links : Select({l}, TRUE) \in Items(todo'[r]) /\ RemoveBytes(l, FALSE) \in Items(todo'[r])
                         /\ \A t \in TableNames : Delete(t, {l}) \in Items(todo'[r])
    BY <2>1, <2>4
  <2>6. \A l \in links : l \in PendSel(r)' /\ Going(r, l)'
    <3> TAKE l \in links
    <3>1. l \in PendSel(r)'
      BY <1>3, <2>5 DEF PendSel, Places, Select
    <3>2. \A t \in TableNames : Deleting(r, t, l)'
      BY <2>5 DEF Deleting, Delete
    <3>3. Removing(r, l)'
      <4>1. /\ RemoveBytes(l, FALSE).do = "removebytes" /\ RemoveBytes(l, FALSE).id = l
            /\ RemoveBytes(l, FALSE).container = FALSE
        BY DEF RemoveBytes
      <4> QED BY <2>5, <4>1 DEF Removing
    <3>4. Tabs \subseteq TableNames
      BY DEF Tabs, TableNames
    <3> QED BY <3>1, <3>2, <3>3, <3>4 DEF Going
  <2>7. \A m \in D : (Going(r, m) => Going(r, m)') /\ (Expected(r, m) => Going(r, m)' \/ Expected(r, m)')
    BY <1>E, <1>G, <2>4, <2>6
  <2>8. (\A m \in scope[r] : Going(r, m) \/ Expected(r, m))'
    BY <1>1, <2>7 DEF DelAt
  <2>9. (\A x \in Items(todo[r]) : x.do = "delete" => \A m \in x.ids \cap Names : Going(r, m))'
    <3> SUFFICES ASSUME NEW x \in Items(todo'[r]), x.do = "delete", NEW m \in x.ids \cap Names
                 PROVE  Going(r, m)'
      OBVIOUS
    <3>1. CASE x \in Items(u)
      <4>1. x \in Items(todo[r]) /\ Going(r, m)
        BY <1>4, <3>1 DEF DelAt
      <4>2. m \in D
        BY <1>1, <4>1, ItemsInside DEF Inside
      <4> QED BY <2>7, <4>1, <4>2
    <3>2. CASE x \in Items(d)
      <4>1. PICK l \in links : x = Select({l}, TRUE) \/ \E t \in TableNames : x = Delete(t, {l})
        BY <2>1, <3>2
      <4>2. m = l
        BY <4>1 DEF Select, Delete
      <4> QED BY <2>6, <4>2
    <3>3. CASE x \in Items(f)
      BY <2>1, <3>3 DEF RemoveBytes
    <3> QED BY <2>4, <3>1, <3>2, <3>3
  <2>10. (\A l \in scope[r] : \A m \in Under(l) : file[m] # NoFile =>
           /\ RowsOf("links", l) = {} /\ l \notin found[r]
           /\ RemoveBytes(l, FALSE) \notin Items(todo[r]))'
    <3> SUFFICES ASSUME NEW l \in D, NEW m \in Under(l), file'[m] # NoFile
                 PROVE  RowsOf("links", l)' = {} /\ RemoveBytes(l, FALSE) \notin Items(todo'[r])
      BY <2>2, <1>1 DEF Under
    <3>1. RowsOf("links", l) = {} /\ l \notin found[r] /\ RemoveBytes(l, FALSE) \notin Items(todo[r])
      BY <1>1, <1>5 DEF DelAt
    <3>2. RemoveBytes(l, FALSE) \notin Items(d)
      BY <2>1 DEF RemoveBytes, Select, Delete
    <3>3. RemoveBytes(l, FALSE) \notin Items(f)
      <4>1. l \notin links
        BY <1>7, <3>1
      <4>2. \A k : RemoveBytes(l, FALSE) = RemoveBytes(k, FALSE) => l = k
        BY DEF RemoveBytes
      <4> QED BY <2>1, <4>1, <4>2
    <3> QED BY <1>4, <1>6, <2>4, <3>1, <3>2, <3>3
  <2> QED BY <1>1, <1>8, <2>2, <2>4, <2>8, <2>9, <2>10 DEF DelAt, ToNull
<1> QED BY <1>9, <1>10

(* A good request that has removed files. *)
LEMMA DelRemoves ==
  ASSUME Typed, Within, NEW r \in Requests, Works(r), DelAt(r), ~(scope'[r] \subseteq unclear'),
         Head1(r).do = "removebytes"
  PROVE  DelAt(r)'
<1>s. PICK s : s = Head1(r)
  OBVIOUS
<1>u. PICK u : u = Tail(todo[r])
  OBVIOUS
<1>D. PICK D : D = scope[r]
  OBVIOUS
<1>1. /\ scope'[r] = D /\ scope[r] = D /\ D \subseteq Names /\ op' = op /\ pc[r] = "run"
      /\ todo[r] \in Seq(Stmt) /\ todo[r] # <<>> /\ file = [n \in Names |-> file[n]]
  <2>1. D \subseteq Names /\ todo[r] \in Seq(Stmt) /\ file = [n \in Names |-> file[n]]
    BY <1>D DEF Typed, scope
  <2> QED BY <1>D, <2>1, GoodWorks, WorkFacts
<1>2. RemoveFiles(r)
  BY FirstFirst
<1>4. /\ s.do = "removebytes" /\ s \in Items(todo[r]) /\ Items(todo[r]) = {s} \cup Items(u)
      /\ Followed(u)
  <2>1. Items(todo[r]) = {s} \cup Items(u)
    BY <1>1, <1>s, <1>u, ItemsTail DEF Head1
  <2>2. Followed(todo[r])
    BY DEF DelAt
  <2> QED BY <1>1, <1>s, <1>u, <2>1, <2>2, ItemsTail
<1>5. /\ rows' = rows /\ todo'[r] = u /\ found' = found
      /\ file' = IF ~s.container /\ \E m \in Under(s.id) : file[m] # NoFile THEN file
                 ELSE [m \in Names |-> IF m \in Subtree(s.id) THEN NoFile ELSE file[m]]
  <2>1. todo \in [Requests -> Seq(Stmt)]
    BY DEF Typed
  <2>2. \A rest : Advance(r, rest) => todo'[r] = rest
    BY <2>1 DEF Advance
  <2>3. Advance(r, u)
    BY <1>2, <1>u DEF RemoveFiles
  <2> QED BY <1>2, <1>s, <2>2, <2>3 DEF RemoveFiles
<1>6. \A t, m : RowsOf(t, m)' = RowsOf(t, m)
  BY <1>5 DEF RowsOf
<1>7. \A m \in Names : file'[m] # NoFile => file[m] # NoFile
  BY <1>5
<1>8. \A m \in D : file'[m] # NoFile => m \notin (IF s.container THEN Subtree(s.id) ELSE {s.id})
  <2> SUFFICES ASSUME NEW m \in D, file'[m] # NoFile,
                      m \in (IF s.container THEN Subtree(s.id) ELSE {s.id})
               PROVE  FALSE
    OBVIOUS
  <2>1. m \in Subtree(s.id) /\ m \in Names
    BY <1>1 DEF Subtree
  <2>2. ~s.container /\ \E k \in Under(s.id) : file[k] # NoFile
    BY <1>5, <2>1
  <2>3. m = s.id /\ \E k \in Under(m) : file[k] # NoFile
    BY <2>2
  <2>4. RemoveBytes(m, FALSE) \notin Items(todo[r])
    BY <1>1, <2>3 DEF DelAt
  <2>5. s = RemoveBytes(m, FALSE)
    <3>1. s \in Stmt /\ s.do = "removebytes"
      BY <1>4, ItemsInside, <1>1
    <3>2. s \in RemoveS
      BY <3>1 DEF Stmt, Inserts, Deletes, Renames, Retargets, Selects, ChildrenS, ChildS, Makes, MoveS, CopyS, RemoveS
    <3>3. s.container = FALSE
      BY <2>2, <3>2 DEF RemoveS
    <3> QED BY <2>3, <3>2, <3>3 DEF RemoveS, RemoveBytes
  <2> QED BY <1>4, <2>4, <2>5
<1>9. \A m \in D : Going(r, m) => Going(r, m)'
  <2> SUFFICES ASSUME NEW m \in D, Going(r, m) PROVE Going(r, m)'
    OBVIOUS
  <2>1. ASSUME NEW t \in Tabs, RowsOf(t, m)' # {} PROVE Deleting(r, t, m)'
    <3>1. PICK x \in Items(todo[r]) : x.do = "delete" /\ x.t = t /\ m \in x.ids
      BY <1>6, <2>1 DEF Going, Deleting
    <3>2. x \in Items(u)
      BY <1>4, <3>1
    <3> QED BY <1>5, <3>1, <3>2 DEF Deleting
  <2>2. ASSUME file'[m] # NoFile PROVE Removing(r, m)'
    <3>1. PICK x \in Items(todo[r]) :
            x.do = "removebytes" /\ m \in IF x.container THEN Subtree(x.id) ELSE {x.id}
      BY <1>1, <1>7, <2>2 DEF Going, Removing
    <3>2. x # s
      BY <1>8, <2>2, <3>1
    <3>3. x \in Items(u)
      BY <1>4, <3>2
    <3> QED BY <1>5, <3>1, <3>3 DEF Removing, Subtree, Under
  <2> QED BY <2>1, <2>2 DEF Going
<1>10. PendSel(r)' = PendSel(r)
  BY <1>4, <1>5 DEF PendSel, Places
<1>11. \A m \in D : Expected(r, m) => Expected(r, m)'
  <2> SUFFICES ASSUME NEW m \in D, Expected(r, m), NEW X \in SUBSET D, Catches(r, X)' PROVE m \in X
    BY <1>1 DEF Expected
  <2>1. \A l \in D : LeadsTo(l, PendSel(r) \cup X) => LeadsTo(l, PendSel(r) \cup X)'
    BY <1>6, <1>10 DEF LeadsTo
  <2>2. Catches(r, X)
    BY <1>1, <1>5, <2>1 DEF Catches
  <2> QED BY <1>1, <2>2 DEF Expected
<1>12. (\A m \in scope[r] : Going(r, m) \/ Expected(r, m))'
  BY <1>1, <1>9, <1>11 DEF DelAt
<1>13. (\A x \in Items(todo[r]) : x.do = "delete" => \A m \in x.ids \cap Names : Going(r, m))'
  <2> SUFFICES ASSUME NEW x \in Items(u), x.do = "delete", NEW m \in x.ids \cap Names PROVE Going(r, m)'
    BY <1>5
  <2>1. x \in Items(todo[r]) /\ Going(r, m)
    BY <1>4 DEF DelAt
  <2>2. m \in D
    BY <1>1, <2>1, ItemsInside DEF Inside
  <2> QED BY <1>9, <2>1, <2>2
<1>14. (\A l \in scope[r] : \A m \in Under(l) : file[m] # NoFile =>
         /\ RowsOf("links", l) = {} /\ l \notin found[r]
         /\ RemoveBytes(l, FALSE) \notin Items(todo[r]))'
  <2> SUFFICES ASSUME NEW l \in D, NEW m \in Under(l), file'[m] # NoFile
               PROVE  /\ RowsOf("links", l)' = {} /\ l \notin found'[r]
                      /\ RemoveBytes(l, FALSE) \notin Items(u)
    BY <1>1, <1>5 DEF Under
  <2>1. file[m] # NoFile
    BY <1>7 DEF Under
  <2>2. RowsOf("links", l) = {} /\ l \notin found[r] /\ RemoveBytes(l, FALSE) \notin Items(todo[r])
    BY <1>1, <2>1 DEF DelAt
  <2> QED BY <1>4, <1>5, <1>6, <2>2
<1>15. (\A m \in scope[r] : Under(m) \subseteq scope[r])'
  BY <1>1 DEF DelAt, Under
<1>16. (found[r] # {} => \E x \in Items(todo[r]) : x.do = "select" /\ x.last)'
  BY <1>4, <1>5 DEF DelAt
<1> QED BY <1>1, <1>4, <1>5, <1>12, <1>13, <1>14, <1>15, <1>16 DEF DelAt, ToNull

(* A deletion works on. *)
LEMMA DelWorks ==
  ASSUME Typed, Within, NEW r \in Requests, Works(r), DelAt(r), ~(scope'[r] \subseteq unclear')
  PROVE  DelAt(r)'
<1>1. Head1(r).do \in {"delete", "select", "removebytes"}
  <2>1. Followed(todo[r]) /\ todo[r] \in Seq(Stmt) /\ todo[r] # <<>>
    BY WorkFacts DEF Typed, DelAt
  <2> QED BY <2>1, ItemsTail DEF Head1
<1> QED BY <1>1, DelDeletes, DelSelects, DelRemoves

(* A good request that has inserted a row, or made a file. *)
LEMMA NewWorks ==
  ASSUME Typed, Within, NEW r \in Requests, Works(r), NewAt(r), ~(scope'[r] \subseteq unclear')
  PROVE  NewAt(r)'
<1>s. PICK s : s = Head1(r)
  OBVIOUS
<1>n. PICK n, kind, to : n = op[r].id /\ kind = op[r].kind /\ to = op[r].to
  OBVIOUS
<1>D. PICK D : D = scope[r]
  OBVIOUS
<1>L. PICK L, M : L = Items(todo[r]) /\ M = Items(todo'[r])
  OBVIOUS
<1>1. /\ scope'[r] = D /\ scope[r] = D /\ op' = op /\ ~(D \subseteq unclear')
      /\ todo[r] \in Seq(Stmt) /\ todo[r] # <<>>
  <2>1. todo[r] \in Seq(Stmt)
    BY DEF Typed
  <2> QED BY <1>D, <2>1, GoodWorks, WorkFacts
<1>2. n \in Names /\ n \notin Under(n) /\ Under(n) \subseteq Names /\ D = Subtree(n)
  <2>1. op[r] \in Op
    BY OpsAssumption DEF Typed
  <2>2. n \in Names
    BY <2>1, <1>n DEF Op
  <2>3. D = Subtree(n)
    BY <1>D, <1>n DEF NewAt
  <2> QED BY <2>2, <2>3, Below DEF Places
<1>3. /\ op[r].do = "create"
      /\ \A m \in Under(n) : ~Something(m)
      /\ Distinct(todo[r])
      /\ \A x \in L :
           \/ x.do = "insert" /\ x = Insert(x.t, n, IF x.t = "nodes" THEN kind ELSE "",
                                            IF x.t = "links" THEN to ELSE NoName)
           \/ x = Make(kind, n)
      /\ IF Insert("nodes", n, kind, NoName) \in L THEN RowsOf("nodes", n) = {}
         ELSE \E w \in RowsOf("nodes", n) : RowsOf("nodes", n) = {w} /\ w.kind = kind /\ w.by = r
      /\ IF Insert("properties", n, "", NoName) \in L THEN RowsOf("properties", n) = {}
         ELSE Single(RowsOf("properties", n))
      /\ IF Insert("links", n, "", to) \in L THEN kind = "link" /\ RowsOf("links", n) = {}
         ELSE IF kind = "link" THEN Single(RowsOf("links", n)) ELSE RowsOf("links", n) = {}
      /\ file[n] = IF Make(kind, n) \in L THEN NoFile ELSE Put(r, n, kind)
  BY <1>n, <1>L DEF NewAt
<1>4. /\ L = {s} \cup Items(Tail(todo[r])) /\ s \notin Items(Tail(todo[r]))
      /\ Distinct(Tail(todo[r])) /\ s \in L
  <2>1. Items(todo[r]) = {s} \cup Items(Tail(todo[r]))
    BY <1>1, <1>s, ItemsTail DEF Head1
  <2>2. Distinct(todo[r])
    BY <1>3
  <2>3. Distinct(Tail(todo[r])) /\ s \notin Items(Tail(todo[r]))
    BY <1>1, <1>s, <2>2, ItemsTail DEF Head1
  <2> QED BY <1>L, <2>1, <2>3
<1>N. /\ Insert("nodes", n, kind, NoName).do = "insert" /\ Insert("nodes", n, kind, NoName).t = "nodes"
      /\ Make(kind, n).do = "make"
  BY DEF Insert, Make
<1>P. Insert("properties", n, "", NoName).do = "insert" /\ Insert("properties", n, "", NoName).t = "properties"
  BY DEF Insert
<1>K. Insert("links", n, "", to).do = "insert" /\ Insert("links", n, "", to).t = "links"
  BY DEF Insert
<1>5. ASSUME /\ \A m \in Under(n) : ~Something(m)'
             /\ Distinct(todo'[r])
             /\ M \subseteq L
             /\ IF Insert("nodes", n, kind, NoName) \in M THEN RowsOf("nodes", n)' = {}
                ELSE \E w \in RowsOf("nodes", n)' : RowsOf("nodes", n)' = {w} /\ w.kind = kind /\ w.by = r
             /\ IF Insert("properties", n, "", NoName) \in M THEN RowsOf("properties", n)' = {}
                ELSE Single(RowsOf("properties", n)')
             /\ IF Insert("links", n, "", to) \in M THEN kind = "link" /\ RowsOf("links", n)' = {}
                ELSE IF kind = "link" THEN Single(RowsOf("links", n)') ELSE RowsOf("links", n)' = {}
             /\ file'[n] = IF Make(kind, n) \in M THEN NoFile ELSE Put(r, n, kind)
      PROVE  NewAt(r)'
  <2>1. \A x \in M :
          \/ x.do = "insert" /\ x = Insert(x.t, n, IF x.t = "nodes" THEN kind ELSE "",
                                           IF x.t = "links" THEN to ELSE NoName)
          \/ x = Make(kind, n)
    BY <1>3, <1>5
  <2>2. /\ op'[r] = op[r] /\ op[r].do = "create" /\ scope'[r] = Subtree(n)
    BY <1>1, <1>2, <1>3
  <2>3. Single(RowsOf("properties", n)') <=> Single(RowsOf("properties", n))'
    BY DEF Single
  <2>4. Single(RowsOf("links", n)') <=> Single(RowsOf("links", n))'
    BY DEF Single
  <2> HIDE DEF Single
  <2> QED BY <1>5, <1>n, <1>L, <2>1, <2>2, <2>3, <2>4 DEF NewAt, Subtree, Under
<1>6. CASE s.do = "insert"
  <2>1. Execute(r) \/ Lose(r)
    BY <1>6, <1>s, FirstFirst DEF Writes
  <2>2. /\ file' = file
        /\ \/ (\A t, m : RowsOf(t, m)' = RowsNext(s, r, t, m)) /\ todo'[r] = Tail(todo[r])
           \/ (\A t, m : RowsOf(t, m)' = RowsOf(t, m)) /\ todo'[r] = todo[r]
    BY <1>1, <1>6, <1>s, <2>1, ExecuteDoes
  <2>3. CASE (\A t, m : RowsOf(t, m)' = RowsOf(t, m)) /\ todo'[r] = todo[r]
    <3>1. \A m \in scope[r] : SameAt(m)
      BY <2>2, <2>3 DEF SameAt
    <3> QED BY <1>1, <2>3, <3>1, NewStays
  <2>4. CASE (\A t, m : RowsOf(t, m)' = RowsNext(s, r, t, m)) /\ todo'[r] = Tail(todo[r])
    <3>1. M = Items(Tail(todo[r]))
      BY <1>L, <2>4
    <3>2. s = Insert(s.t, n, IF s.t = "nodes" THEN kind ELSE "", IF s.t = "links" THEN to ELSE NoName)
      <4>1. s # Make(kind, n)
        BY <1>6, <1>N
      <4> QED BY <1>3, <1>4, <4>1
    <3>t. PICK t0 : t0 = s.t
      OBVIOUS
    <3>3. s.id = n /\ s.t = t0 /\ s.kind = (IF t0 = "nodes" THEN kind ELSE "")
      <4>1. PICK k0, m0 : /\ k0 = (IF t0 = "nodes" THEN kind ELSE "")
                          /\ m0 = (IF t0 = "links" THEN to ELSE NoName)
        OBVIOUS
      <4>2. s = Insert(t0, n, k0, m0)
        BY <3>2, <3>t, <4>1, Zenon
      <4>3. s.id = n /\ s.t = t0 /\ s.kind = k0
        BY <4>2 DEF Insert
      <4> QED BY <4>1, <4>3
    <3>x. PICK x : x = Row(s.t, s.id, s.kind, s.target, r,
                          Cardinality({w \in rows : w.t = s.t /\ w.id = s.id /\ w.by = r}))
      OBVIOUS
    <3>4. \A t, m : RowsOf(t, m)' = IF t0 = t /\ n = m THEN RowsOf(t, m) \cup {x} ELSE RowsOf(t, m)
      <4> TAKE t, m
      <4>1. RowsOf(t, m)' = RowsNext(s, r, t, m)
        BY <2>4
      <4>2. RowsNext(s, r, t, m) = IF s.t = t /\ s.id = m THEN RowsOf(t, m) \cup {x} ELSE RowsOf(t, m)
        BY <1>6, <3>x, InsertDoes
      <4> QED BY <3>3, <4>1, <4>2
    <3>5. x.kind = s.kind /\ x.by = r
      BY <3>x DEF Row
    <3>6. \A m \in Under(n) : ~Something(m)'
      <4> TAKE m \in Under(n)
      <4>1. \A t : RowsOf(t, m)' = RowsOf(t, m)
        BY <1>2, <3>4
      <4> QED BY <1>2, <1>3, <2>2, <4>1, SameMeans DEF SameAt
    <3>7. M \subseteq L /\ \A y : y \in M <=> y \in L /\ y # s
      BY <1>4, <3>1
    <3>8. Make(kind, n) \in M <=> Make(kind, n) \in L
      BY <1>6, <3>7 DEF Make
    <3>9. IF Insert("nodes", n, kind, NoName) \in M THEN RowsOf("nodes", n)' = {}
          ELSE \E w \in RowsOf("nodes", n)' : RowsOf("nodes", n)' = {w} /\ w.kind = kind /\ w.by = r
      <4>1. CASE t0 = "nodes"
        <5>1. s = Insert("nodes", n, kind, NoName)
          BY <3>2, <3>t, <4>1
        <5>2. RowsOf("nodes", n) = {} /\ Insert("nodes", n, kind, NoName) \notin M
          BY <1>3, <1>4, <3>7, <5>1
        <5>3. RowsOf("nodes", n)' = {x}
          BY <3>4, <4>1, <5>2
        <5> QED BY <3>3, <3>5, <4>1, <5>2, <5>3
      <4>2. CASE t0 # "nodes"
        <5>1. s # Insert("nodes", n, kind, NoName)
          BY <1>N, <3>t, <4>2
        <5>2. RowsOf("nodes", n)' = RowsOf("nodes", n)
          BY <3>4, <4>2
        <5> QED BY <1>3, <3>7, <5>1, <5>2
      <4> QED BY <4>1, <4>2
    <3>10. IF Insert("properties", n, "", NoName) \in M THEN RowsOf("properties", n)' = {}
           ELSE Single(RowsOf("properties", n)')
      <4>1. CASE t0 = "properties"
        <5>1. s = Insert("properties", n, "", NoName)
          BY <3>2, <3>t, <4>1
        <5>2. RowsOf("properties", n) = {} /\ Insert("properties", n, "", NoName) \notin M
          BY <1>3, <1>4, <3>7, <5>1
        <5>3. RowsOf("properties", n)' = {x}
          BY <3>4, <4>1, <5>2
        <5> QED BY <5>2, <5>3 DEF Single
      <4>2. CASE t0 # "properties"
        <5>1. s # Insert("properties", n, "", NoName)
          BY <1>P, <3>t, <4>2
        <5>2. RowsOf("properties", n)' = RowsOf("properties", n)
          BY <3>4, <4>2
        <5> QED BY <1>3, <3>7, <5>1, <5>2
      <4> QED BY <4>1, <4>2
    <3>11. IF Insert("links", n, "", to) \in M THEN kind = "link" /\ RowsOf("links", n)' = {}
           ELSE IF kind = "link" THEN Single(RowsOf("links", n)') ELSE RowsOf("links", n)' = {}
      <4>1. CASE t0 = "links"
        <5>1. s = Insert("links", n, "", to)
          BY <3>2, <3>t, <4>1
        <5>2. RowsOf("links", n) = {} /\ kind = "link" /\ Insert("links", n, "", to) \notin M
          BY <1>3, <1>4, <3>7, <5>1
        <5>3. RowsOf("links", n)' = {x}
          BY <3>4, <4>1, <5>2
        <5> QED BY <5>2, <5>3 DEF Single
      <4>2. CASE t0 # "links"
        <5>1. s # Insert("links", n, "", to)
          BY <1>K, <3>t, <4>2
        <5>2. RowsOf("links", n)' = RowsOf("links", n)
          BY <3>4, <4>2
        <5> QED BY <1>3, <3>7, <5>1, <5>2
      <4> QED BY <4>1, <4>2
    <3>12. file'[n] = IF Make(kind, n) \in M THEN NoFile ELSE Put(r, n, kind)
      BY <1>3, <2>2, <3>8
    <3>13. Distinct(todo'[r])
      BY <1>4, <2>4
    <3> HIDE DEF Single, Something
    <3> QED BY <1>5, <3>6, <3>7, <3>9, <3>10, <3>11, <3>12, <3>13
  <2> QED BY <2>2, <2>3, <2>4
<1>7. CASE s.do # "insert"
  <2>1. s = Make(kind, n)
    BY <1>3, <1>4, <1>7
  <2>2. s.do = "make" /\ s.id = n /\ s.kind = kind
    BY <2>1 DEF Make
  <2>3. MakeFile(r)
    BY <1>s, <2>2, FirstFirst
  <2>4. file[n] = NoFile
    BY <1>3, <1>4, <2>1
  <2>5. /\ rows' = rows /\ todo'[r] = Tail(todo[r])
        /\ file' = [WithParents(file, n, r) EXCEPT ![n] = Put(r, n, kind)]
    <3>1. todo \in [Requests -> Seq(Stmt)]
      BY DEF Typed
    <3>2. \A rest : Advance(r, rest) => todo'[r] = rest
      BY <3>1 DEF Advance
    <3> QED BY <1>s, <2>2, <2>3, <2>4, <3>2 DEF MakeFile
  <2>6. M = Items(Tail(todo[r])) /\ M \subseteq L /\ \A y : y \in M <=> y \in L /\ y # s
    BY <1>4, <1>L, <2>5
  <2>7. \A t, m : RowsOf(t, m)' = RowsOf(t, m)
    BY <2>5 DEF RowsOf
  <2>8. file'[n] = Put(r, n, kind) /\ \A m \in Under(n) : file'[m] = file[m]
    <3>1. \A m \in Under(n) : ~IsStrictPrefix(m, n) /\ m # n /\ m \in Names
      BY <1>2, Below, PrefixOrder
    <3>2. \A m \in Names : ~IsStrictPrefix(m, n) => WithParents(file, n, r)[m] = file[m]
      BY DEF WithParents
    <3>3. WithParents(file, n, r) = [m \in Names |-> WithParents(file, n, r)[m]]
      BY DEF WithParents
    <3> HIDE DEF WithParents
    <3> QED BY <1>2, <2>5, <3>1, <3>2, <3>3
  <2>9. \A m \in Under(n) : ~Something(m)'
    BY <1>2, <1>3, <2>7, <2>8, SameMeans DEF SameAt
  <2>10. /\ Insert("nodes", n, kind, NoName) # s /\ Insert("properties", n, "", NoName) # s
         /\ Insert("links", n, "", to) # s
    BY <1>7, <1>N, <1>P, <1>K
  <2>11. Make(kind, n) \notin M /\ Distinct(todo'[r])
    BY <1>4, <2>1, <2>5, <2>6
  <2>12. /\ RowsOf("nodes", n)' = RowsOf("nodes", n) /\ RowsOf("properties", n)' = RowsOf("properties", n)
         /\ RowsOf("links", n)' = RowsOf("links", n)
    BY <2>7
  <2>13. Insert("nodes", n, kind, NoName) \in M <=> Insert("nodes", n, kind, NoName) \in L
    BY <2>6, <2>10
  <2>14. Insert("properties", n, "", NoName) \in M <=> Insert("properties", n, "", NoName) \in L
    BY <2>6, <2>10
  <2>15. Insert("links", n, "", to) \in M <=> Insert("links", n, "", to) \in L
    BY <2>6, <2>10
  <2>16. IF Insert("nodes", n, kind, NoName) \in M THEN RowsOf("nodes", n)' = {}
         ELSE \E w \in RowsOf("nodes", n)' : RowsOf("nodes", n)' = {w} /\ w.kind = kind /\ w.by = r
    BY <1>3, <2>12, <2>13
  <2>17. IF Insert("properties", n, "", NoName) \in M THEN RowsOf("properties", n)' = {}
         ELSE Single(RowsOf("properties", n)')
    BY <1>3, <2>12, <2>14
  <2>18. IF Insert("links", n, "", to) \in M THEN kind = "link" /\ RowsOf("links", n)' = {}
         ELSE IF kind = "link" THEN Single(RowsOf("links", n)') ELSE RowsOf("links", n)' = {}
    BY <1>3, <2>12, <2>15
  <2> HIDE DEF Single, Something
  <2> QED BY <1>5, <2>6, <2>8, <2>9, <2>11, <2>16, <2>17, <2>18
<1> QED BY <1>6, <1>7

-----------------------------------------------------------------------------
(* Jobs that move or copy the bytes *)

(* What a job that copies has to do. *)
LEMMA CopyItemIs ==
  ASSUME NEW s, NEW f, NEW g, CopyItem(s, f, g)
  PROVE  /\ s.do \in {"children", "child", "insert"}
         /\ s.do = "children" => s = Children(f, g)
         /\ s.do = "child" => \E m \in Under(f) : s = Child(m, Renamed(m, f, g))
         /\ s.do = "insert" => \E m \in Subtree(f) : s.id = Renamed(m, f, g)
<1>1. CASE s = Children(f, g)
  BY <1>1 DEF Children
<1>2. ASSUME NEW m \in Under(f), s = Child(m, Renamed(m, f, g)) PROVE s.do = "child"
  BY <1>2 DEF Child
<1> QED BY <1>1, <1>2 DEF CopyItem

(* What a job that moves has to do. *)
LEMMA MoveItemIs ==
  ASSUME NEW s, NEW f, NEW g, MoveItem(s, f, g)
  PROVE  /\ s.do \in {"children", "child", "insert", "rename"}
         /\ s.do = "children" => s = Children(f, g)
         /\ s.do = "child" => \E m \in Under(f) : s = Child(m, Renamed(m, f, g))
<1>1. CASE s = Children(f, g)
  BY <1>1 DEF Children
<1>2. ASSUME NEW m \in Under(f), s = Child(m, Renamed(m, f, g)) PROVE s.do = "child"
  BY <1>2 DEF Child
<1>3. ASSUME NEW m, s = Insert("addl_props", Renamed(m, f, g), "", NoName) PROVE s.do = "insert"
  BY <1>3 DEF Insert
<1>4. ASSUME NEW m, NEW t, s = Rename(t, m, Renamed(m, f, g)) \/ s = Update(t, Renamed(m, f, g))
      PROVE  s.do = "rename"
  BY <1>4 DEF Rename, Update
<1> QED BY <1>1, <1>2, <1>3, <1>4 DEF MoveItem

(* What a job does that is neither a statement nor a removal. *)
LEMMA FirstJob ==
  ASSUME Typed, NEW r \in Requests, Works(r),
         Head1(r).do \in {"children", "child", "movebytes", "copybytes"}
  PROVE  /\ Head1(r).do = "children" => FindChildren(r)
         /\ Head1(r).do = "child" => ReadChild(r)
         /\ Head1(r).do = "movebytes" => MoveFiles(r) /\ todo'[r] = Tail(todo[r])
         /\ Head1(r).do = "copybytes" => CopyFiles(r) /\ todo'[r] = Tail(todo[r])
         /\ \A t, n : RowsOf(t, n)' = RowsOf(t, n)
         /\ \A rest : Advance(r, rest) => todo'[r] = rest
<1>1. /\ Execute(r) \/ Lose(r) => Head1(r).do \in Writes
      /\ SelectLinks(r) => Head1(r).do = "select"
      /\ FindChildren(r) => Head1(r).do = "children"
      /\ ReadChild(r) => Head1(r).do = "child"
      /\ MakeFile(r) => Head1(r).do = "make"
      /\ MoveFiles(r) => Head1(r).do = "movebytes"
      /\ CopyFiles(r) => Head1(r).do = "copybytes"
      /\ RemoveFiles(r) => Head1(r).do = "removebytes"
  BY DEF Execute, Lose, SelectLinks, FindChildren, ReadChild, MakeFile, MoveFiles, CopyFiles,
         RemoveFiles, Doing
<1>2. /\ Head1(r).do = "children" => FindChildren(r)
      /\ Head1(r).do = "child" => ReadChild(r)
      /\ Head1(r).do = "movebytes" => MoveFiles(r)
      /\ Head1(r).do = "copybytes" => CopyFiles(r)
  BY <1>1 DEF Works, Writes
<1>3. todo \in [Requests -> Seq(Stmt)]
  BY DEF Typed
<1>4. \A rest : Advance(r, rest) => todo'[r] = rest
  BY <1>3 DEF Advance
<1>5. rows' = rows
  BY <1>2 DEF FindChildren, ReadChild, MoveFiles, CopyFiles, store
<1>6. \A t, n : RowsOf(t, n)' = RowsOf(t, n)
  BY <1>5 DEF RowsOf
<1>7. MoveFiles(r) \/ CopyFiles(r) => todo'[r] = Tail(todo[r])
  BY <1>4 DEF MoveFiles, CopyFiles
<1> QED BY <1>2, <1>4, <1>6, <1>7

(* Bytes are moved to where nothing is. *)
LEMMA MoveFree ==
  ASSUME Typed, NEW r \in Requests, Works(r), NEW f, NEW g, MoveBefore(r, f, g)
  PROVE  /\ MoveFiles(r) /\ todo'[r] = Tail(todo[r]) /\ \A t, n : RowsOf(t, n)' = RowsOf(t, n)
         /\ \A k \in Subtree(g) : ~Something(k)
<1>1. Leads(r, f, g) /\ \A m \in scope[r] : Fine(m) /\ Holds(m)
  BY DEF MoveBefore, JobBefore
<1>2. g \in Names /\ g \in Subtree(g) /\ Subtree(g) \subseteq Names /\ Subtree(g) \subseteq scope[r]
  BY <1>1, LeadsNames
<1>3. Head1(r).do = "movebytes" /\ Head1(r).to = g
  BY DEF MoveBefore, MoveBytes, Head1
<1>4. MoveFiles(r) /\ todo'[r] = Tail(todo[r]) /\ \A t, n : RowsOf(t, n)' = RowsOf(t, n)
  BY <1>3, FirstJob
<1>5. file[g] = NoFile
  BY <1>3, <1>4 DEF MoveFiles, Movable
<1>6. ~Something(g)
  BY <1>1, <1>2, <1>5, ContIs DEF Fine
<1>7. \A k \in Under(g) : ~Something(k)
  BY <1>1, <1>2, <1>6, ContIs DEF Holds
<1> QED BY <1>4, <1>6, <1>7 DEF Subtree

(* A job that has moved the files has the rows still to rename. *)
LEMMA MoveBegun ==
  ASSUME Typed, NEW r \in Requests, Works(r), NEW f, NEW g, MoveBefore(r, f, g), scope'[r] = scope[r]
  PROVE  MoveAfter(r, f, g)'
<1>1. /\ Leads(r, f, g) /\ IsStored(f) /\ NoLinks(f)
      /\ \A m \in scope[r] : Fine(m) /\ Holds(m)
      /\ todo[r] # <<>> /\ LastOne(Tail(todo[r]))
  BY DEF MoveBefore, JobBefore
<1>2. /\ f \in Names /\ g \in Names /\ f \in Subtree(f) /\ g \in Subtree(g)
      /\ Subtree(f) \subseteq Names /\ Subtree(g) \subseteq Names
      /\ Subtree(f) \subseteq scope[r] /\ Subtree(g) \subseteq scope[r]
      /\ \A m \in Subtree(f) : Under(m) \subseteq Subtree(f)
      /\ \A m \in Subtree(f) : Renamed(m, f, g) \in Subtree(g) /\ Renamed(Renamed(m, f, g), g, f) = m
  BY <1>1, LeadsNames
<1>3. Head1(r).do = "movebytes" /\ Head1(r).id = f /\ Head1(r).to = g
  BY DEF MoveBefore, MoveBytes, Head1
<1>4. MoveFiles(r) /\ todo'[r] = Tail(todo[r]) /\ \A t, n : RowsOf(t, n)' = RowsOf(t, n)
  BY MoveFree
<1>6. \A k \in Subtree(g) : ~Something(k)
  BY MoveFree
<1>7. f \notin Under(g)
  <2>1. f # Root
    BY <1>2, Below
  <2>2. Something(f)
    BY <1>1, <2>1 DEF IsStored, Something, Tabs
  <2> QED BY <1>6, <2>2 DEF Subtree
<1>8. /\ Subtree(f) \cap Subtree(g) = {}
      /\ \A m \in Subtree(f) \cup Subtree(g) : m \in Names /\ ~IsStrictPrefix(m, g)
      /\ \A k \in Subtree(g) : Renamed(k, g, f) \in Names =>
           \E m \in Subtree(f) : m = Renamed(k, g, f) /\ k = Renamed(m, f, g)
  BY <1>1, <1>7, NamesApart
<1>9. /\ \A m \in Subtree(f) : file'[m] = NoFile
      /\ \A k \in Subtree(g) : file'[k] = IF Renamed(k, g, f) \in Names THEN file[Renamed(k, g, f)] ELSE file[k]
  <2> DEFINE F == [m \in Names |->
             IF m \in Subtree(g) /\ Renamed(m, g, f) \in Names
               THEN file[Renamed(m, g, f)]
             ELSE IF m \in Subtree(f) THEN NoFile ELSE file[m]]
  <2>1. file' = WithParents(F, g, r)
    BY <1>3, <1>4 DEF MoveFiles
  <2>2. \A m \in Names : ~IsStrictPrefix(m, g) => WithParents(F, g, r)[m] = F[m]
    BY DEF WithParents
  <2>3. \A m \in Subtree(f) \cup Subtree(g) : file'[m] = F[m]
    <3> HIDE DEF F
    <3> QED BY <1>8, <2>1, <2>2
  <2> QED BY <1>8, <2>3
<1>10. \A m \in Subtree(f) : file'[Renamed(m, f, g)] = file[m]
  BY <1>2, <1>9
<1>L. PICK L : L = Items(todo'[r])
  OBVIOUS
<1>11. /\ MoveList(L, f, g) /\ LastOne(todo'[r])
       /\ \A m \in Subtree(f) : MoveOwed(L, f, g, m)
  BY <1>1, <1>4, <1>L DEF MoveBefore
<1>12. OnlyNew(f, g)'
  <2> SUFFICES ASSUME NEW k \in Subtree(g), Something(k)' PROVE \E m \in Subtree(f) : k = Renamed(m, f, g)
    BY DEF OnlyNew, Subtree, Under
  <2>1. file'[k] # NoFile /\ file[k] = NoFile
    BY <1>4, <1>6 DEF Something
  <2>2. Renamed(k, g, f) \in Names
    BY <1>9, <2>1
  <2> QED BY <1>8, <2>2
<1>13. ASSUME NEW m \in Subtree(f)
       PROVE  /\ MoveOwed(L, f, g, m)' /\ Fresh(L, f, g, m)'
              /\ Moves(m, Renamed(m, f, g))' /\ Carries(f, g, m)'
  <2>k. PICK k : k = Renamed(m, f, g)
    OBVIOUS
  <2>1. k \in Subtree(g) /\ ~Something(k) /\ Fine(m) /\ Holds(m) /\ m \in Names
    BY <1>1, <1>2, <1>6, <2>k
  <2>2. \A t \in Tabs : \A u \in Subtree(f) :
          RowsOf(t, Renamed(u, f, g)) = {} /\ Both(t, u, Renamed(u, f, g)) = RowsOf(t, u)
    BY <1>2, <1>6 DEF Something, Both
  <2>3. \A t, u, v : Both(t, u, v)' = Both(t, u, v)
    BY <1>4 DEF Both
  <2>4. MoveOwed(L, f, g, m)'
    BY <1>4, <1>11, <2>3 DEF MoveOwed, Waits, Under
  <2>5. Fresh(L, f, g, m)'
    <3>1. \A t \in Moved : RowsOf(t, k)' = {}
      BY <1>4, <2>1 DEF Moved, Something, Tabs
    <3> QED BY <3>1, <2>k DEF Fresh, Under
  <2>6. Carries(f, g, m)'
    <3> SUFFICES ASSUME NEW u \in Under(m), Both("nodes", u, Renamed(u, f, g))' # {}
                 PROVE  \E w \in Both("nodes", m, Renamed(m, f, g))' : w.kind = "container"
      BY DEF Carries, Under
    <3>1. RowsOf("nodes", u) # {}
      BY <1>2, <2>2, <2>3 DEF Tabs
    <3>2. Cont(m)
      BY <2>1, <3>1 DEF Something, Tabs, Holds
    <3>3. \E w \in RowsOf("nodes", m) : w.kind = "container"
      <4>1. m # Root
        BY <2>1, Below
      <4> QED BY <3>2, <4>1 DEF Cont, GetTypes
    <3> QED BY <2>2, <2>3, <3>3 DEF Tabs
  <2>7. /\ file'[m] = NoFile /\ file'[k] = file[m]
        /\ RowsOf("links", k)' = {} /\ Both("nodes", m, k)' = RowsOf("nodes", m)
        /\ Both("properties", m, k)' = RowsOf("properties", m)
        /\ Both("addl_props", m, k)' = RowsOf("addl_props", m)
    BY <1>4, <1>9, <1>10, <2>2, <2>3, <2>k DEF Tabs
  <2>8. CASE ~Something(m)
    <3>1. /\ \A t \in Moved : Both(t, m, k)' = {}
          /\ file[m] = NoFile /\ RowsOf("links", m)' = {}
      BY <1>4, <2>7, <2>8 DEF Something, Tabs, Moved
    <3>2. Moves(m, k)'
      BY <2>7, <3>1 DEF Moves
    <3> QED BY <2>4, <2>5, <2>6, <2>k, <3>2
  <2>9. CASE Something(m)
    <3>1. PICK w \in RowsOf("nodes", m) :
            /\ RowsOf("nodes", m) = {w} /\ w.kind \in Kinds /\ Single(RowsOf("properties", m))
            /\ w.kind # "link" => RowsOf("links", m) = {}
            /\ file[m] = [kind |-> w.kind, by |-> w.by]
      BY <2>1, <2>9 DEF Fine, Sound
    <3>2. w.kind \in Kinds \ {"link"} /\ RowsOf("links", m)' = {}
      BY <1>1, <1>4, <3>1 DEF NoLinks
    <3>3. w \in Both("nodes", m, k)' /\ Both("nodes", m, k)' = {w} /\ Single(Both("properties", m, k)')
      BY <2>7, <3>1
    <3>4. Single(Both("properties", m, k))'
      BY <3>3 DEF Single
    <3>5. Moves(m, k)'
      BY <2>7, <3>1, <3>2, <3>3, <3>4 DEF Moves
    <3> QED BY <2>4, <2>5, <2>6, <2>k, <3>5
  <2> QED BY <2>8, <2>9
<1>14. Leads(r, f, g)'
  BY <1>1 DEF Leads, Subtree, Under
<1>15. (Subtree(f) \cap Subtree(g) = {})'
  BY <1>8 DEF Subtree, Under
<1> QED BY <1>11, <1>12, <1>13, <1>14, <1>15, <1>L DEF MoveAfter

(* A job that has copied the files has the rows still to insert. *)
LEMMA CopyBegun ==
  ASSUME Typed, NEW r \in Requests, Works(r), NEW f, NEW g, CopyBefore(r, f, g), scope'[r] = scope[r]
  PROVE  CopyAfter(r, f, g)'
<1>1. /\ Leads(r, f, g) /\ IsStored(f) /\ NoLinks(f)
      /\ \A m \in scope[r] : Fine(m) /\ Holds(m)
      /\ todo[r] # <<>> /\ LastOne(Tail(todo[r])) /\ \A k \in Subtree(g) : ~Something(k)
  BY DEF CopyBefore, JobBefore
<1>2. /\ f \in Names /\ g \in Names /\ f \in Subtree(f) /\ g \in Subtree(g)
      /\ Subtree(f) \subseteq Names /\ Subtree(g) \subseteq Names
      /\ Subtree(f) \subseteq scope[r] /\ Subtree(g) \subseteq scope[r]
      /\ \A m \in Subtree(f) : Under(m) \subseteq Subtree(f)
      /\ \A m \in Subtree(f) : Renamed(m, f, g) \in Subtree(g) /\ Renamed(Renamed(m, f, g), g, f) = m
  BY <1>1, LeadsNames
<1>3. Head1(r).do = "copybytes" /\ Head1(r).id = f /\ Head1(r).to = g
  BY DEF CopyBefore, CopyBytes, Head1
<1>4. CopyFiles(r) /\ todo'[r] = Tail(todo[r]) /\ \A t, n : RowsOf(t, n)' = RowsOf(t, n)
  BY <1>3, FirstJob
<1>5. f \notin Under(g)
  <2>1. f # Root
    BY <1>2, Below
  <2>2. Something(f)
    BY <1>1, <2>1 DEF IsStored, Something, Tabs
  <2> QED BY <1>1, <2>2 DEF Subtree
<1>6. /\ Subtree(f) \cap Subtree(g) = {}
      /\ \A m \in Subtree(f) \cup Subtree(g) : m \in Names /\ ~IsStrictPrefix(m, g)
      /\ \A k \in Subtree(g) : Renamed(k, g, f) \in Names =>
           \E m \in Subtree(f) : m = Renamed(k, g, f) /\ k = Renamed(m, f, g)
  BY <1>1, <1>5, NamesApart
<1>7. \A m \in Subtree(f) : file[m].kind # "link"
  <2> TAKE m \in Subtree(f)
  <2>1. Fine(m)
    BY <1>1, <1>2
  <2>2. CASE Sound(m)
    <3>1. PICK w \in RowsOf("nodes", m) : file[m] = [kind |-> w.kind, by |-> w.by]
      BY <2>2 DEF Sound
    <3>2. w.kind # "link"
      BY <1>1 DEF NoLinks
    <3> QED BY <3>1, <3>2
  <2>3. CASE ~Something(m)
    BY <2>3 DEF Something, NoFile
  <2> QED BY <2>1, <2>2, <2>3 DEF Fine
<1>8. /\ \A m \in Subtree(f) : file'[m] = file[m]
      /\ \A k \in Subtree(g) :
           file'[k] = IF Renamed(k, g, f) \in Names /\ file[Renamed(k, g, f)] # NoFile
                      THEN Put(r, k, file[Renamed(k, g, f)].kind) ELSE file[k]
  <2>1. PICK led \in [{m \in Subtree(f) : file[m].kind = "link"} -> {"container", "data"}] :
          file' = WithParents(
            [m \in Names |->
               LET src == Renamed(m, g, f)
               IN IF m \in Subtree(g) /\ src \in Names /\ file[src] # NoFile
                  THEN Put(r, m, IF src \in DOMAIN led THEN led[src] ELSE file[src].kind)
                  ELSE file[m]], g, r)
    BY <1>3, <1>4 DEF CopyFiles
  <2>2. DOMAIN led = {}
    BY <1>7
  <2> DEFINE F == [m \in Names |->
               LET src == Renamed(m, g, f)
               IN IF m \in Subtree(g) /\ src \in Names /\ file[src] # NoFile
                  THEN Put(r, m, IF src \in DOMAIN led THEN led[src] ELSE file[src].kind)
                  ELSE file[m]]
  <2>3. \A m \in Names :
          F[m] = IF m \in Subtree(g) /\ Renamed(m, g, f) \in Names /\ file[Renamed(m, g, f)] # NoFile
                 THEN Put(r, m, file[Renamed(m, g, f)].kind) ELSE file[m]
    BY <2>2
  <2>4. file' = WithParents(F, g, r)
    BY <2>1
  <2>5. \A m \in Names : ~IsStrictPrefix(m, g) => WithParents(F, g, r)[m] = F[m]
    BY DEF WithParents
  <2> HIDE DEF F
  <2>6. \A m \in Subtree(f) \cup Subtree(g) : file'[m] = F[m]
    BY <1>6, <2>4, <2>5
  <2> QED BY <1>6, <2>3, <2>6
<1>L. PICK L : L = Items(todo'[r])
  OBVIOUS
<1>9. /\ CopyList(L, f, g) /\ LastOne(todo'[r]) /\ Distinct(todo'[r])
      /\ \A m \in Subtree(f) :
           /\ CopyOwed(L, f, g, m)
           /\ \A w \in RowsOf("nodes", m) :
                Awaits(L, f, g, "nodes", m, w.kind) /\ Awaits(L, f, g, "properties", m, w.kind)
  BY <1>1, <1>4, <1>L DEF CopyBefore
<1>10. \A m \in Subtree(f) : SameAt(m) /\ m \in Names
  BY <1>2, <1>4, <1>8 DEF SameAt
<1>11. \A m \in Subtree(f) : Fine(m)' /\ Holds(m)'
  <2> TAKE m \in Subtree(f)
  <2>1. Fine(m) /\ Holds(m)
    BY <1>1, <1>2
  <2>2. \A u \in Subtree(f) : (Fine(u)' <=> Fine(u)) /\ (Something(u)' <=> Something(u)) /\ (Cont(u)' <=> Cont(u))
    BY <1>10, SameMeans
  <2>3. Holds(m)'
    BY <1>2, <2>1, <2>2 DEF Holds, Under
  <2> QED BY <2>1, <2>2, <2>3
<1>12. OnlyNew(f, g)'
  <2> SUFFICES ASSUME NEW k \in Subtree(g), Something(k)' PROVE \E m \in Subtree(f) : k = Renamed(m, f, g)
    BY DEF OnlyNew, Subtree, Under
  <2>1. file'[k] # NoFile /\ file[k] = NoFile
    BY <1>1, <1>4 DEF Something
  <2>2. Renamed(k, g, f) \in Names
    BY <1>8, <2>1
  <2> QED BY <1>6, <2>2
<1>13. ASSUME NEW m \in Subtree(f) PROVE CopyOwed(L, f, g, m)' /\ Copies(r, L, f, g, m)'
  <2>k. PICK k : k = Renamed(m, f, g)
    OBVIOUS
  <2>0. RowsOf("nodes", m)' = RowsOf("nodes", m)
    BY <1>4
  <2>1. CopyOwed(L, f, g, m)'
    <3>1. CopyOwed(L, f, g, m)
      BY <1>9
    <3> QED BY <2>0, <3>1 DEF CopyOwed, Waits, Under
  <2>2. k \in Subtree(g) /\ ~Something(k) /\ Fine(m) /\ Renamed(k, g, f) = m /\ m \in Names
    BY <1>1, <1>2, <2>k
  <2>3. /\ RowsOf("links", k)' = {} /\ RowsOf("nodes", k)' = {} /\ RowsOf("properties", k)' = {}
        /\ \A t \in Tabs : RowsOf(t, k)' = {}
        /\ file[k] = NoFile
    BY <1>4, <2>2 DEF Something, Tabs
  <2>4. file'[k] = IF file[m] # NoFile THEN Put(r, k, file[m].kind) ELSE NoFile
    BY <1>8, <2>2, <2>3
  <2>5. RowsOf("nodes", m)' = {} => ~Something(k)'
    <3>1. RowsOf("nodes", m) = {} => ~Something(m)
      BY <2>2 DEF Fine, Sound
    <3> QED BY <2>0, <2>3, <2>4, <3>1 DEF Something
  <2>6. ASSUME NEW w \in RowsOf("nodes", m)
        PROVE  /\ file'[k] = Put(r, k, w.kind)
               /\ Awaits(L, f, g, "nodes", m, w.kind) /\ Awaits(L, f, g, "properties", m, w.kind)
    <3>1. Something(m)
      BY DEF Something, Tabs
    <3>2. PICK v \in RowsOf("nodes", m) :
            RowsOf("nodes", m) = {v} /\ v.kind \in Kinds /\ file[m] = [kind |-> v.kind, by |-> v.by]
      BY <2>2, <3>1 DEF Fine, Sound
    <3>3. w = v
      BY <3>2
    <3>4. file[m] # NoFile /\ file[m].kind = w.kind
      BY <3>2, <3>3 DEF NoFile, Kinds
    <3> QED BY <1>9, <2>4, <3>4
  <2>7. Copies(r, L, f, g, m)'
    <3>1. \A t, kind : Awaits(L, f, g, t, m, kind)' <=> Awaits(L, f, g, t, m, kind)
      BY DEF Awaits, Waits, Under
    <3>2. /\ RowsOf("links", Renamed(m, f, g))' = {}
          /\ RowsOf("nodes", m)' = {} => ~Something(Renamed(m, f, g))'
          /\ \A w \in RowsOf("nodes", m)' :
               /\ file'[Renamed(m, f, g)] = Put(r, Renamed(m, f, g), w.kind)
               /\ Awaits(L, f, g, "nodes", m, w.kind)' /\ Awaits(L, f, g, "properties", m, w.kind)'
               /\ RowsOf("nodes", Renamed(m, f, g))' = {} /\ RowsOf("properties", Renamed(m, f, g))' = {}
      BY <2>0, <2>3, <2>5, <2>6, <2>k, <3>1
    <3> QED BY <3>2 DEF Copies, Put
  <2> QED BY <2>1, <2>7
<1>14. Leads(r, f, g)'
  BY <1>1 DEF Leads, Subtree, Under
<1>15. (Subtree(f) \cap Subtree(g) = {})'
  BY <1>6 DEF Subtree, Under
<1>16. NoLinks(f)'
  BY <1>1, <1>4 DEF NoLinks, Subtree, Under
<1> QED BY <1>9, <1>11, <1>12, <1>13, <1>14, <1>15, <1>16, <1>L DEF CopyAfter

(* The children that are found, each of them once. *)
LEMMA FoundChildren ==
  ASSUME Typed, NEW r \in Requests, FindChildren(r), NEW f \in Names, NEW g,
         Head1(r) = Children(f, g), Tail(todo[r]) = <<>>
  PROVE  /\ \A s : s \in Items(todo'[r]) <=>
                     \E n \in Under(f) : IsStored(n) /\ s = Child(n, Renamed(n, f, g))
         /\ Distinct(todo'[r])
<1> DEFINE S == {n \in Under(f) : IsStored(n)}
           order == SetToSeq(S)
           e == [i \in 1..Len(order) |-> Child(order[i], Renamed(order[i], f, g))]
<1>1. IsFiniteSet(S)
  <2>1. S \subseteq Names
    BY Below
  <2> HIDE DEF S
  <2> QED BY <2>1, FS_Subset, NamesAssumption
<1>2. /\ order \in Seq(S) /\ Len(order) \in Nat
      /\ \A x \in S : \E i \in 1..Len(order) : order[i] = x
      /\ \A i, j \in 1..Len(order) : order[i] = order[j] => i = j
      /\ \A i \in 1..Len(order) : order[i] \in S
  <2> HIDE DEF S
  <2> QED BY <1>1, SetToSeqLists
<1>3. todo'[r] = e \o <<>>
  <2>1. todo \in [Requests -> Seq(Stmt)]
    BY DEF Typed
  <2>2. Head1(r).id = f /\ Head1(r).to = g
    BY DEF Children
  <2>3. Advance(r, e \o <<>>)
    BY <2>2 DEF FindChildren
  <2> HIDE DEF e
  <2> QED BY <2>1, <2>3 DEF Advance
<1> HIDE DEF order
<1>4. Len(e) = Len(order) /\ \A i \in 1..Len(order) : e[i] = Child(order[i], Renamed(order[i], f, g))
  BY <1>2
<1>5. todo'[r] = e
  <2>1. \E T : e \in Seq(T)
    <3> DEFINE T == {Child(order[i], Renamed(order[i], f, g)) : i \in 1..Len(order)}
    <3>1. \A i \in 1..Len(order) : Child(order[i], Renamed(order[i], f, g)) \in T
      OBVIOUS
    <3> HIDE DEF T
    <3>2. e \in [1..Len(order) -> T]
      BY <3>1
    <3>3. e \in Seq(T)
      BY <1>2, <3>2, SeqDef
    <3> QED BY <3>3
  <2> HIDE DEF e
  <2> QED BY <1>3, <2>1, ConcatEmptySeq
<1> HIDE DEF e, S
<1>6. \A s : s \in Items(e) <=> \E i \in 1..Len(order) : s = e[i]
  BY <1>4 DEF Items
<1>7. \A s : s \in Items(e) <=> \E n \in S : s = Child(n, Renamed(n, f, g))
  BY <1>2, <1>4, <1>6
<1>8. Distinct(e)
  <2> SUFFICES ASSUME NEW i \in 1..Len(order), NEW j \in 1..Len(order), e[i] = e[j] PROVE i = j
    BY <1>4 DEF Distinct
  <2>1. Child(order[i], Renamed(order[i], f, g)).id = Child(order[j], Renamed(order[j], f, g)).id
    BY <1>4
  <2>2. order[i] = order[j]
    BY <2>1 DEF Child
  <2> QED BY <1>2, <2>2
<1> QED BY <1>5, <1>7, <1>8 DEF S

-----------------------------------------------------------------------------
(* Jobs that move *)

(* The same rows under another name. *)
Like(S, T) == \E h : T = {h[w] : w \in S} /\ \A w \in S : h[w].kind = w.kind /\ h[w].by = w.by

(* There are as many, and they say the same. *)
LEMMA LikeMeans ==
  ASSUME NEW S, NEW T, Like(S, T)
  PROVE  /\ S = {} <=> T = {}
         /\ Single(S) => Single(T)
         /\ \A w : S = {w} => \E v \in T : T = {v} /\ v.kind = w.kind /\ v.by = w.by
         /\ \A k : (\E w \in S : w.kind = k) => \E v \in T : v.kind = k
<1>1. PICK h : T = {h[w] : w \in S} /\ \A w \in S : h[w].kind = w.kind /\ h[w].by = w.by
  BY DEF Like
<1>2. \A w : S = {w} => \E v \in T : T = {v} /\ v.kind = w.kind /\ v.by = w.by
  <2> SUFFICES ASSUME NEW w, S = {w} PROVE \E v \in T : T = {v} /\ v.kind = w.kind /\ v.by = w.by
    OBVIOUS
  <2>1. T = {h[w]} /\ h[w] \in T /\ h[w].kind = w.kind /\ h[w].by = w.by
    BY <1>1
  <2> QED BY <2>1
<1>3. S = {} <=> T = {}
  BY <1>1
<1>4. \A k : (\E w \in S : w.kind = k) => \E v \in T : v.kind = k
  BY <1>1
<1>5. Single(S) => Single(T)
  BY <1>2 DEF Single
<1> QED BY <1>2, <1>3, <1>4, <1>5

(* Nothing is more like a set of rows than itself. *)
LEMMA LikeSame == \A S : Like(S, S)
<1> TAKE S
<1>1. PICK h : h = [w \in S |-> w]
  OBVIOUS
<1>2. \A w \in S : h[w] = w
  BY <1>1
<1>3. S = {h[w] : w \in S}
  BY <1>2
<1> QED BY <1>2, <1>3 DEF Like

(* The rows of one name become those of another. *)
LEMMA RenameMoves ==
  ASSUME NEW s, s.do = "rename", s.to # s.id, rows \subseteq Rows, NEW r
  PROVE  /\ \A t, n : t # s.t \/ n \notin {s.id, s.to} => RowsNext(s, r, t, n) = RowsOf(t, n)
         /\ RowsNext(s, r, s.t, s.id) = {}
         /\ Like(RowsOf(s.t, s.id) \cup RowsOf(s.t, s.to), RowsNext(s, r, s.t, s.to))
<1> DEFINE h == [w \in rows |-> IF w.t = s.t /\ w.id = s.id THEN [w EXCEPT !.id = s.to] ELSE w]
<1>1. RowsAfter(s, r) = {h[w] : w \in rows}
  BY DEF RowsAfter
<1>2. \A w \in rows : /\ h[w].t = w.t /\ h[w].kind = w.kind /\ h[w].by = w.by
                      /\ h[w].id = IF w.t = s.t /\ w.id = s.id THEN s.to ELSE w.id
                      /\ ~(w.t = s.t /\ w.id = s.id) => h[w] = w
  BY DEF Rows
<1> HIDE DEF h
<1>3. RowsNext(s, r, s.t, s.id) = {}
  BY <1>1, <1>2 DEF RowsNext
<1>4. \A t, n : t # s.t \/ n \notin {s.id, s.to} => RowsNext(s, r, t, n) = RowsOf(t, n)
  BY <1>1, <1>2 DEF RowsNext, RowsOf
<1>5. Like(RowsOf(s.t, s.id) \cup RowsOf(s.t, s.to), RowsNext(s, r, s.t, s.to))
  <2>S. PICK S : S = RowsOf(s.t, s.id) \cup RowsOf(s.t, s.to)
    OBVIOUS
  <2>1. S = {w \in rows : w.t = s.t /\ w.id \in {s.id, s.to}}
    BY <2>S DEF RowsOf
  <2>2. RowsNext(s, r, s.t, s.to) = {h[w] : w \in S}
    BY <1>1, <1>2, <2>1 DEF RowsNext
  <2>3. \A w \in S : h[w].kind = w.kind /\ h[w].by = w.by
    BY <1>2, <2>1
  <2>4. Like(S, RowsNext(s, r, s.t, s.to))
    BY <2>2, <2>3 DEF Like
  <2> QED BY <2>4, <2>S
<1> QED BY <1>3, <1>4, <1>5

(* A statement changes what is at one name and what comes from there. *)
LEMMA MoveKeeps ==
  ASSUME NEW r, NEW f, NEW g, MoveAfter(r, f, g), scope'[r] = scope[r], file' = file,
         NEW s \in Items(todo[r]), s.do # "children", s.do # "child", LastOne(todo'[r]),
         Items(todo'[r]) \subseteq Items(todo[r]), Items(todo[r]) \subseteq Items(todo'[r]) \cup {s},
         NEW o \in Subtree(f), s.id \in {o, Renamed(o, f, g)},
         \A k \in Subtree(g) : k # Renamed(o, f, g) => SameAt(k),
         \A m \in Subtree(f) :
           /\ Like(Both("nodes", m, Renamed(m, f, g)), Both("nodes", m, Renamed(m, f, g))')
           /\ Like(Both("properties", m, Renamed(m, f, g)), Both("properties", m, Renamed(m, f, g))')
           /\ Both("addl_props", m, Renamed(m, f, g))' # {} =>
                Both("addl_props", m, Renamed(m, f, g)) # {} \/ Both("nodes", m, Renamed(m, f, g)) # {}
           /\ RowsOf("links", m)' = RowsOf("links", m)
           /\ RowsOf("links", Renamed(m, f, g))' = RowsOf("links", Renamed(m, f, g))
           /\ \A t \in Moved : RowsOf(t, m)' # {} => RowsOf(t, m) # {} /\ Rename(t, m, Renamed(m, f, g)) # s
  PROVE  MoveAfter(r, f, g)'
<1>1. /\ Leads(r, f, g) /\ Subtree(f) \cap Subtree(g) = {} /\ OnlyNew(f, g)
      /\ MoveList(Items(todo[r]), f, g)
      /\ \A m \in Subtree(f) : /\ MoveOwed(Items(todo[r]), f, g, m) /\ Fresh(Items(todo[r]), f, g, m)
                               /\ Moves(m, Renamed(m, f, g)) /\ Carries(f, g, m)
  BY DEF MoveAfter
<1>2. /\ f \in Subtree(f) /\ g \in Subtree(g) /\ Subtree(g) \subseteq Names
      /\ Renamed(f, f, g) = g
      /\ \A m \in Under(f) : m \in Subtree(f) /\ Renamed(m, f, g) # g
      /\ \A m \in Subtree(f) : Renamed(m, f, g) \in Subtree(g) /\ Under(m) \subseteq Subtree(f)
      /\ \A m, u \in Subtree(f) : Renamed(m, f, g) = Renamed(u, f, g) => m = u
  BY <1>1, LeadsNames
<1>L. PICK L, M : L = Items(todo[r]) /\ M = Items(todo'[r])
  OBVIOUS
<1>3. M \subseteq L /\ L \subseteq M \cup {s} /\ s \in L
  BY <1>L
<1>4. Leads(r, f, g)' /\ (Subtree(f) \cap Subtree(g) = {})'
  BY <1>1 DEF Leads, Subtree, Under
<1>5. OnlyNew(f, g)'
  <2> SUFFICES ASSUME NEW k \in Subtree(g), Something(k)' PROVE \E m \in Subtree(f) : k = Renamed(m, f, g)
    BY DEF OnlyNew, Subtree, Under
  <2>1. CASE k # Renamed(o, f, g)
    <3>1. Something(k)
      BY <1>2, <2>1, SameMeans
    <3> QED BY <1>1, <3>1 DEF OnlyNew
  <2> QED BY <2>1
<1>6. MoveList(M, f, g)
  BY <1>1, <1>3, <1>L DEF MoveList
<1>7. \A m \in Subtree(f) : Waits(L, f, g, m) => Waits(M, f, g, m)
  <2>1. \A m : Child(m, Renamed(m, f, g)).do = "child" /\ Children(f, g).do = "children"
    BY DEF Child, Children
  <2> QED BY <1>3, <2>1 DEF Waits
<1>8. ASSUME NEW m \in Subtree(f) PROVE MoveOwed(M, f, g, m)'
  <2>k. PICK k : k = Renamed(m, f, g)
    OBVIOUS
  <2>1. \A t \in Moved : RowsOf(t, m)' # {} => Rename(t, m, k) \in M \/ Waits(M, f, g, m)
    <3> SUFFICES ASSUME NEW t \in Moved, RowsOf(t, m)' # {}, ~Waits(M, f, g, m) PROVE Rename(t, m, k) \in M
      OBVIOUS
    <3>1. RowsOf(t, m) # {} /\ Rename(t, m, k) # s
      BY <2>k
    <3>2. Rename(t, m, k) \in L
      BY <1>1, <1>7, <1>L, <2>k, <3>1 DEF MoveOwed
    <3> QED BY <1>3, <3>1, <3>2
  <2>2. Insert("addl_props", k, "", NoName) \in M => Both("nodes", m, k)' # {}
    <3>1. Insert("addl_props", k, "", NoName) \in M => Both("nodes", m, k) # {}
      BY <1>1, <1>3, <1>L, <2>k DEF MoveOwed
    <3> QED BY <3>1, <2>k, LikeMeans
  <2> QED BY <2>1, <2>2, <2>k DEF MoveOwed, Waits, Under
<1>9. ASSUME NEW m \in Subtree(f) PROVE Fresh(M, f, g, m)'
  <2> SUFFICES ASSUME Children(f, g) \in M, m \in Under(f), NEW t \in Moved
               PROVE  RowsOf(t, Renamed(m, f, g))' = {}
    BY DEF Fresh, Under
  <2>1. s.id \in {f, g}
    <3>1. Children(f, g).do = "children"
      BY DEF Children
    <3> QED BY <1>1, <1>3, <1>L, <3>1 DEF MoveList
  <2>2. Renamed(o, f, g) = g
    BY <1>1, <1>2, <2>1
  <2>3. SameAt(Renamed(m, f, g))
    BY <1>2, <2>2
  <2>4. RowsOf(t, Renamed(m, f, g)) = {}
    BY <1>1, <1>3, <1>L DEF Fresh
  <2> QED BY <2>3, <2>4 DEF SameAt
<1>10. ASSUME NEW m \in Subtree(f) PROVE Moves(m, Renamed(m, f, g))'
  <2>k. PICK k : k = Renamed(m, f, g)
    OBVIOUS
  <2>b. PICK bn, bp, ba : /\ bn = Both("nodes", m, k) /\ bp = Both("properties", m, k)
                          /\ ba = Both("addl_props", m, k)
    OBVIOUS
  <2>1. /\ Like(bn, Both("nodes", m, k)') /\ Like(bp, Both("properties", m, k)')
        /\ Both("addl_props", m, k)' # {} => ba # {} \/ bn # {}
        /\ RowsOf("links", m)' = RowsOf("links", m) /\ RowsOf("links", k)' = RowsOf("links", k)
    BY <2>k, <2>b
  <2>2. Moves(m, k)
    BY <1>1, <2>k
  <2>3. /\ file'[m] = NoFile /\ file'[k] = file[k] /\ RowsOf("links", m)' = {} /\ RowsOf("links", k)' = {}
    BY <2>1, <2>2 DEF Moves
  <2>4. CASE (\A t \in Moved : Both(t, m, k) = {}) /\ file[k] = NoFile
    <3>1. bn = {} /\ bp = {} /\ ba = {}
      BY <2>4, <2>b DEF Moved
    <3>2. Both("nodes", m, k)' = {} /\ Both("properties", m, k)' = {} /\ Both("addl_props", m, k)' = {}
      BY <2>1, <3>1, LikeMeans
    <3>3. \A t \in Moved : Both(t, m, k)' = {}
      BY <3>2 DEF Moved
    <3>4. Moves(m, k)'
      BY <2>3, <2>4, <3>3 DEF Moves
    <3> QED BY <2>k, <3>4
  <2>5. ASSUME NEW w \in bn, bn = {w}, w.kind \in Kinds \ {"link"}, Single(bp),
               file[k] = [kind |-> w.kind, by |-> w.by]
        PROVE  Moves(m, k)'
    <3>1. \E v \in Both("nodes", m, k)' : Both("nodes", m, k)' = {v} /\ v.kind = w.kind /\ v.by = w.by
      BY <2>1, <2>5, LikeMeans
    <3>2. Single(Both("properties", m, k)')
      BY <2>1, <2>5, LikeMeans
    <3>3. Single(Both("properties", m, k))'
      BY <3>2 DEF Single
    <3>4. \E v \in Both("nodes", m, k)' :
            /\ Both("nodes", m, k)' = {v} /\ v.kind \in Kinds \ {"link"}
            /\ file'[k] = [kind |-> v.kind, by |-> v.by]
      BY <2>3, <2>5, <3>1
    <3> QED BY <2>3, <3>3, <3>4 DEF Moves
  <2>6. Moves(m, k)'
    BY <2>2, <2>4, <2>5, <2>b, <2>k DEF Moves
  <2> QED BY <2>6, <2>k
<1>11. ASSUME NEW m \in Subtree(f) PROVE Carries(f, g, m)'
  <2> SUFFICES ASSUME NEW u \in Under(m), Both("nodes", u, Renamed(u, f, g))' # {}
               PROVE  \E w \in Both("nodes", m, Renamed(m, f, g))' : w.kind = "container"
    BY DEF Carries, Under
  <2>1. u \in Subtree(f)
    BY <1>2
  <2>2. Both("nodes", u, Renamed(u, f, g)) # {}
    BY <2>1, LikeMeans
  <2>3. \E w \in Both("nodes", m, Renamed(m, f, g)) : w.kind = "container"
    BY <1>1, <2>2 DEF Carries
  <2>b. PICK bn : bn = Both("nodes", m, Renamed(m, f, g))
    OBVIOUS
  <2>4. Like(bn, Both("nodes", m, Renamed(m, f, g))') /\ \E w \in bn : w.kind = "container"
    BY <2>3, <2>b
  <2>t. PICK T : T = Both("nodes", m, Renamed(m, f, g))'
    OBVIOUS
  <2>5. \A k : (\E w \in bn : w.kind = k) => \E v \in T : v.kind = k
    <3>1. Like(bn, T)
      BY <2>b, <2>t
    <3> QED BY <3>1, LikeMeans
  <2> QED BY <2>4, <2>5, <2>t
<1> QED BY <1>4, <1>5, <1>6, <1>8, <1>9, <1>10, <1>11, <1>L DEF MoveAfter

(* The nodes of what is moved go with it. *)
NodesGo(f, g) ==
  \A m \in Subtree(f) : Like(Both("nodes", m, Renamed(m, f, g)), Both("nodes", m, Renamed(m, f, g))')

(* A statement of a job that moves is executed once or more, or not yet. *)
LEMMA MoveWrites ==
  ASSUME Typed, NEW r \in Requests, Works(r), NEW f, NEW g, MoveAfter(r, f, g),
         ~(scope'[r] \subseteq unclear'), Head1(r).do \in Writes
  PROVE  (MoveAfter(r, f, g)' /\ NodesGo(f, g)) \/ (todo'[r] = todo[r] /\ \A m \in scope[r] : SameAt(m))
<1>s. PICK s : s = Head1(r)
  OBVIOUS
<1>1. /\ scope'[r] = scope[r] /\ ~(scope[r] \subseteq unclear')
      /\ todo[r] \in Seq(Stmt) /\ todo[r] # <<>> /\ rows \subseteq Rows
  <2>1. todo[r] \in Seq(Stmt) /\ rows \subseteq Rows
    BY DEF Typed
  <2> QED BY <2>1, GoodWorks, WorkFacts
<1>2. /\ s \in Items(todo[r]) /\ Items(todo[r]) = {s} \cup Items(Tail(todo[r]))
      /\ Execute(r) \/ Lose(r)
  BY <1>s, FirstFirst
<1>3. /\ file' = file
      /\ \/ /\ \A t, n : RowsOf(t, n)' = RowsNext(s, r, t, n)
            /\ todo'[r] = Tail(todo[r]) \/ (todo'[r] = todo[r] /\ s.do # "insert")
         \/ (\A t, n : RowsOf(t, n)' = RowsOf(t, n)) /\ todo'[r] = todo[r]
  BY <1>1, <1>2, <1>s, ExecuteDoes
<1>4. /\ Leads(r, f, g) /\ Subtree(f) \cap Subtree(g) = {} /\ LastOne(todo[r])
      /\ MoveList(Items(todo[r]), f, g)
      /\ \A m \in Subtree(f) : MoveOwed(Items(todo[r]), f, g, m)
  BY DEF MoveAfter
<1>5. /\ \A m \in Subtree(f) : Renamed(m, f, g) \in Subtree(g)
      /\ \A m, u \in Subtree(f) : Renamed(m, f, g) = Renamed(u, f, g) => m = u
      /\ Under(f) \subseteq Subtree(f)
  BY <1>4, LeadsNames
<1>6. CASE (\A t, n : RowsOf(t, n)' = RowsOf(t, n)) /\ todo'[r] = todo[r]
  BY <1>3, <1>6 DEF SameAt
<1>7. CASE /\ \A t, n : RowsOf(t, n)' = RowsNext(s, r, t, n)
           /\ todo'[r] = Tail(todo[r]) \/ (todo'[r] = todo[r] /\ s.do # "insert")
  <2>1. /\ LastOne(todo'[r]) /\ Items(todo'[r]) \subseteq Items(todo[r])
        /\ Items(todo[r]) \subseteq Items(todo'[r]) \cup {s}
    <3>1. LastOne(Tail(todo[r]))
      BY <1>1, <1>4, LastTail
    <3> QED BY <1>2, <1>4, <1>7, <3>1
  <2>2. s.do # "children" /\ s.do # "child"
    BY <1>s DEF Writes
  <2>3. PICK o \in Subtree(f) :
          \/ s = Insert("addl_props", Renamed(o, f, g), "", NoName)
          \/ \E t \in Moved : \/ s = Rename(t, o, Renamed(o, f, g))
                              \/ s = Update(t, Renamed(o, f, g))
    <3>1. \A m : Child(m, Renamed(m, f, g)).do = "child"
      BY DEF Child
    <3>2. Children(f, g).do = "children"
      BY DEF Children
    <3>3. MoveItem(s, f, g)
      BY <1>2, <1>4 DEF MoveList
    <3> QED BY <2>2, <3>1, <3>2, <3>3 DEF MoveItem
  <2>k. PICK k : k = Renamed(o, f, g)
    OBVIOUS
  <2>4. /\ k \in Subtree(g) /\ k \notin Subtree(f) /\ o \notin Subtree(g) /\ o # k
        /\ \A m \in Subtree(f) : m # k /\ Renamed(m, f, g) # o
        /\ \A m \in Subtree(f) : m # o => Renamed(m, f, g) # k
    BY <1>4, <1>5, <2>k
  <2>5. ASSUME s.id \in {o, k},
               \A n \in Subtree(g) : n # k => SameAt(n),
               \A m \in Subtree(f) :
                 /\ Like(Both("nodes", m, Renamed(m, f, g)), Both("nodes", m, Renamed(m, f, g))')
                 /\ Like(Both("properties", m, Renamed(m, f, g)), Both("properties", m, Renamed(m, f, g))')
                 /\ Both("addl_props", m, Renamed(m, f, g))' # {} =>
                      Both("addl_props", m, Renamed(m, f, g)) # {} \/ Both("nodes", m, Renamed(m, f, g)) # {}
                 /\ RowsOf("links", m)' = RowsOf("links", m)
                 /\ RowsOf("links", Renamed(m, f, g))' = RowsOf("links", Renamed(m, f, g))
                 /\ \A t \in Moved : RowsOf(t, m)' # {} => RowsOf(t, m) # {} /\ Rename(t, m, Renamed(m, f, g)) # s
        PROVE  MoveAfter(r, f, g)' /\ NodesGo(f, g)
    BY <1>1, <1>2, <1>3, <2>1, <2>2, <2>5, <2>k, MoveKeeps DEF NodesGo
  <2>6. CASE s = Insert("addl_props", k, "", NoName)
    <3>1. s.do = "insert" /\ s.id = k /\ s.t = "addl_props"
      BY <2>6 DEF Insert
    <3>2. \A t, n : ~(t = "addl_props" /\ n = k) => RowsOf(t, n)' = RowsOf(t, n)
      <4> TAKE t, n
      <4>1. s.do = "insert"
        BY <3>1
      <4>2. ~(s.t = t /\ s.id = n) => RowsNext(s, r, t, n) = RowsOf(t, n)
        BY <4>1, InsertDoes
      <4> QED BY <1>7, <3>1, <4>2
    <3>3. \A n \in Subtree(g) : n # k => SameAt(n)
      BY <1>3, <3>2 DEF SameAt
    <3>4. ASSUME NEW m \in Subtree(f)
          PROVE  /\ Like(Both("nodes", m, Renamed(m, f, g)), Both("nodes", m, Renamed(m, f, g))')
                 /\ Like(Both("properties", m, Renamed(m, f, g)), Both("properties", m, Renamed(m, f, g))')
                 /\ Both("addl_props", m, Renamed(m, f, g))' # {} =>
                      Both("addl_props", m, Renamed(m, f, g)) # {} \/ Both("nodes", m, Renamed(m, f, g)) # {}
                 /\ RowsOf("links", m)' = RowsOf("links", m)
                 /\ RowsOf("links", Renamed(m, f, g))' = RowsOf("links", Renamed(m, f, g))
                 /\ \A t \in Moved : RowsOf(t, m)' # {} => RowsOf(t, m) # {} /\ Rename(t, m, Renamed(m, f, g)) # s
      <4>1. \A t, v : Both(t, m, v)' = RowsOf(t, m)' \cup RowsOf(t, v)'
        BY DEF Both
      <4>2. /\ Both("nodes", m, Renamed(m, f, g))' = Both("nodes", m, Renamed(m, f, g))
            /\ Both("properties", m, Renamed(m, f, g))' = Both("properties", m, Renamed(m, f, g))
            /\ RowsOf("links", m)' = RowsOf("links", m)
            /\ RowsOf("links", Renamed(m, f, g))' = RowsOf("links", Renamed(m, f, g))
        BY <3>2 DEF Both
      <4>3. m # o => Both("addl_props", m, Renamed(m, f, g))' = Both("addl_props", m, Renamed(m, f, g))
        BY <2>4, <3>2 DEF Both
      <4>4. m = o => Both("nodes", m, Renamed(m, f, g)) # {}
        BY <1>2, <1>4, <2>6, <2>k DEF MoveOwed
      <4>5. \A t \in Moved : RowsOf(t, m)' = RowsOf(t, m) /\ Rename(t, m, Renamed(m, f, g)) # s
        <5>1. \A t : RowsOf(t, m)' = RowsOf(t, m)
          BY <2>4, <3>2
        <5>2. \A t : Rename(t, m, Renamed(m, f, g)).do = "rename"
          BY DEF Rename
        <5> QED BY <3>1, <5>1, <5>2
      <4> QED BY <4>2, <4>3, <4>4, <4>5, LikeSame
    <3> QED BY <2>5, <3>1, <3>3, <3>4
  <2>7. ASSUME NEW t0 \in Moved, s = Update(t0, k) PROVE MoveAfter(r, f, g)' /\ NodesGo(f, g)
    <3>1. s.do = "rename" /\ s.id = k /\ s.to = k
      BY <2>7 DEF Update, Rename
    <3>2. \A t, n : RowsOf(t, n)' = RowsOf(t, n)
      BY <1>1, <1>7, <3>1, RenameDoes
    <3>3. \A n \in Subtree(g) : n # k => SameAt(n)
      BY <1>3, <3>2 DEF SameAt
    <3>4. ASSUME NEW m \in Subtree(f)
          PROVE  /\ Like(Both("nodes", m, Renamed(m, f, g)), Both("nodes", m, Renamed(m, f, g))')
                 /\ Like(Both("properties", m, Renamed(m, f, g)), Both("properties", m, Renamed(m, f, g))')
                 /\ Both("addl_props", m, Renamed(m, f, g))' # {} =>
                      Both("addl_props", m, Renamed(m, f, g)) # {} \/ Both("nodes", m, Renamed(m, f, g)) # {}
                 /\ RowsOf("links", m)' = RowsOf("links", m)
                 /\ RowsOf("links", Renamed(m, f, g))' = RowsOf("links", Renamed(m, f, g))
                 /\ \A t \in Moved : RowsOf(t, m)' # {} => RowsOf(t, m) # {} /\ Rename(t, m, Renamed(m, f, g)) # s
      <4>1. \A t : Both(t, m, Renamed(m, f, g))' = Both(t, m, Renamed(m, f, g))
        BY <3>2 DEF Both
      <4>2. \A t : Rename(t, m, Renamed(m, f, g)).id = m
        BY DEF Rename
      <4>3. \A t \in Moved : RowsOf(t, m)' = RowsOf(t, m) /\ Rename(t, m, Renamed(m, f, g)) # s
        BY <2>4, <3>1, <3>2, <4>2
      <4>4. /\ RowsOf("links", m)' = RowsOf("links", m)
            /\ RowsOf("links", Renamed(m, f, g))' = RowsOf("links", Renamed(m, f, g))
        BY <3>2
      <4> QED BY <4>1, <4>3, <4>4, LikeSame
    <3> QED BY <2>5, <3>1, <3>3, <3>4
  <2>8. ASSUME NEW t0 \in Moved, s = Rename(t0, o, k) PROVE MoveAfter(r, f, g)' /\ NodesGo(f, g)
    <3>1. s.do = "rename" /\ s.id = o /\ s.to = k /\ s.t = t0
      BY <2>8 DEF Rename
    <3>2. \A t, n : t # t0 \/ n \notin {o, k} => RowsOf(t, n)' = RowsOf(t, n)
      <4>1. s.do = "rename" /\ s.to # s.id /\ rows \subseteq Rows
        BY <1>1, <2>4, <3>1
      <4>2. \A t, n : t # s.t \/ n \notin {s.id, s.to} => RowsNext(s, r, t, n) = RowsOf(t, n)
        BY <4>1, RenameMoves
      <4> QED BY <1>7, <3>1, <4>2
    <3>3. RowsOf(t0, o)' = {} /\ Like(Both(t0, o, k), RowsOf(t0, k)')
      <4>1. /\ RowsNext(s, r, s.t, s.id) = {}
            /\ Like(RowsOf(s.t, s.id) \cup RowsOf(s.t, s.to), RowsNext(s, r, s.t, s.to))
        BY <1>1, <2>4, <3>1, RenameMoves
      <4> QED BY <1>7, <3>1, <4>1 DEF Both
    <3>4. Like(Both(t0, o, k), Both(t0, o, k)')
      <4>1. Both(t0, o, k)' = RowsOf(t0, o)' \cup RowsOf(t0, k)'
        BY DEF Both
      <4>2. Both(t0, o, k)' = RowsOf(t0, k)'
        BY <3>3, <4>1
      <4> QED BY <3>3, <4>2
    <3>5. \A n \in Subtree(g) : n # k => SameAt(n)
      BY <1>3, <2>4, <3>2 DEF SameAt
    <3>6. ASSUME NEW m \in Subtree(f)
          PROVE  /\ Like(Both("nodes", m, Renamed(m, f, g)), Both("nodes", m, Renamed(m, f, g))')
                 /\ Like(Both("properties", m, Renamed(m, f, g)), Both("properties", m, Renamed(m, f, g))')
                 /\ Both("addl_props", m, Renamed(m, f, g))' # {} =>
                      Both("addl_props", m, Renamed(m, f, g)) # {} \/ Both("nodes", m, Renamed(m, f, g)) # {}
                 /\ RowsOf("links", m)' = RowsOf("links", m)
                 /\ RowsOf("links", Renamed(m, f, g))' = RowsOf("links", Renamed(m, f, g))
                 /\ \A t \in Moved : RowsOf(t, m)' # {} => RowsOf(t, m) # {} /\ Rename(t, m, Renamed(m, f, g)) # s
      <4>1. \A t : t # t0 \/ m # o => Both(t, m, Renamed(m, f, g))' = Both(t, m, Renamed(m, f, g))
        BY <2>4, <3>2 DEF Both
      <4>2. \A t : Like(Both(t, m, Renamed(m, f, g)), Both(t, m, Renamed(m, f, g))')
        <5> TAKE t
        <5>1. CASE t = t0 /\ m = o
          BY <2>k, <3>4, <5>1
        <5>2. CASE t # t0 \/ m # o
          <6>1. Both(t, m, Renamed(m, f, g))' = Both(t, m, Renamed(m, f, g))
            BY <4>1, <5>2
          <6> QED BY <6>1, LikeSame
        <5> QED BY <5>1, <5>2
      <4>3. \A t \in Moved : RowsOf(t, m)' # {} => RowsOf(t, m) # {} /\ Rename(t, m, Renamed(m, f, g)) # s
        <5> TAKE t \in Moved
        <5>1. Rename(t, m, Renamed(m, f, g)).id = m /\ Rename(t, m, Renamed(m, f, g)).t = t
          BY DEF Rename
        <5>2. t # t0 \/ m # o => RowsOf(t, m)' = RowsOf(t, m)
          BY <2>4, <3>2
        <5> QED BY <3>1, <3>3, <5>1, <5>2
      <4>4. /\ RowsOf("links", m)' = RowsOf("links", m)
            /\ RowsOf("links", Renamed(m, f, g))' = RowsOf("links", Renamed(m, f, g))
        BY <3>2 DEF Moved
      <4>5. Both("addl_props", m, Renamed(m, f, g))' # {} => Both("addl_props", m, Renamed(m, f, g)) # {}
        <5>1. PICK S, T : S = Both("addl_props", m, Renamed(m, f, g)) /\ T = Both("addl_props", m, Renamed(m, f, g))'
          OBVIOUS
        <5>2. Like(S, T)
          BY <4>2, <5>1
        <5> QED BY <5>1, <5>2, LikeMeans
      <4> QED BY <4>2, <4>3, <4>4, <4>5
    <3> QED BY <2>5, <3>1, <3>5, <3>6
  <2>9. \/ s = Insert("addl_props", k, "", NoName)
        \/ \E t \in Moved : s = Rename(t, o, k) \/ s = Update(t, k)
    BY <2>3, <2>k
  <2>10. CASE \E t \in Moved : s = Rename(t, o, k) \/ s = Update(t, k)
    <3>1. PICK t \in Moved : s = Rename(t, o, k) \/ s = Update(t, k)
      BY <2>10
    <3> QED BY <2>7, <2>8, <3>1
  <2> QED BY <2>6, <2>9, <2>10
<1> QED BY <1>3, <1>6, <1>7

(* A job that moves finds children, and reads each of them later. *)
LEMMA MoveFinds ==
  ASSUME Typed, NEW r \in Requests, Works(r), NEW f, NEW g, MoveAfter(r, f, g),
         scope'[r] = scope[r], Head1(r).do = "children"
  PROVE  MoveAfter(r, f, g)'
<1>1. /\ Leads(r, f, g) /\ Subtree(f) \cap Subtree(g) = {} /\ OnlyNew(f, g)
      /\ LastOne(todo[r]) /\ MoveList(Items(todo[r]), f, g)
      /\ \A m \in Subtree(f) : /\ MoveOwed(Items(todo[r]), f, g, m) /\ Fresh(Items(todo[r]), f, g, m)
                               /\ Moves(m, Renamed(m, f, g)) /\ Carries(f, g, m)
  BY DEF MoveAfter
<1>2. /\ f \in Names /\ f \in Subtree(f) /\ Subtree(f) \subseteq Names /\ Subtree(f) \subseteq scope[r]
      /\ Subtree(g) \subseteq scope[r]
      /\ \A m \in Subtree(f) : Renamed(m, f, g) \in Subtree(g) /\ Under(m) \subseteq Subtree(f)
  BY <1>1, LeadsNames
<1>d. /\ Children(f, g).do = "children" /\ \A m, k : Child(m, k).do = "child"
      /\ \A t, m, k : Rename(t, m, k).do = "rename" /\ Update(t, k).do = "rename"
      /\ \A k : Insert("addl_props", k, "", NoName).do = "insert"
  BY DEF Children, Child, Rename, Update, Insert
<1>3. Head1(r) = Children(f, g)
  <2>1. MoveItem(Head1(r), f, g)
    BY <1>1, FirstFirst DEF MoveList
  <2> QED BY <1>d, <2>1 DEF MoveItem
<1>4. /\ FindChildren(r) /\ \A t, n : RowsOf(t, n)' = RowsOf(t, n)
  BY FirstJob
<1>5. file' = file
  BY <1>4 DEF FindChildren, store
<1>6. Tail(todo[r]) = <<>> /\ Items(todo[r]) = {Children(f, g)}
  <2>1. todo[r] \in Seq(Stmt) /\ todo[r] # <<>>
    BY WorkFacts DEF Typed
  <2>2. Head(todo[r]).do = "children"
    BY DEF Head1
  <2>3. Tail(todo[r]) = <<>>
    BY <1>1, <2>1, <2>2, LastTail
  <2> QED BY <1>3, <2>3, FirstFirst, ItemsSmall
<1>L. PICK L, M : L = Items(todo[r]) /\ M = Items(todo'[r])
  OBVIOUS
<1>7. \A s : s \in M <=> \E n \in Under(f) : IsStored(n) /\ s = Child(n, Renamed(n, f, g))
  BY <1>2, <1>3, <1>4, <1>6, <1>L, FoundChildren
<1>e. \A s \in M : s.do = "child"
  <2> TAKE s \in M
  <2>1. PICK n \in Under(f) : s = Child(n, Renamed(n, f, g))
    BY <1>7
  <2> QED BY <2>1 DEF Child
<1>8. LastOne(todo'[r])
  <2>1. \A i \in 1..Len(todo'[r]) : todo'[r][i] \in M
    BY <1>L DEF Items
  <2> QED BY <1>e, <2>1 DEF LastOne
<1>9. MoveList(M, f, g)
  <2>1. \A s \in M : MoveItem(s, f, g)
    BY <1>7 DEF MoveItem
  <2>2. Children(f, g) \notin M
    BY <1>d, <1>e
  <2> QED BY <2>1, <2>2 DEF MoveList
<1>10. \A m \in scope[r] : SameAt(m)
  BY <1>4, <1>5 DEF SameAt
<1>11. ASSUME NEW m \in Subtree(f)
       PROVE  /\ MoveOwed(M, f, g, m)' /\ Fresh(M, f, g, m)'
              /\ Moves(m, Renamed(m, f, g))' /\ Carries(f, g, m)'
  <2>k. PICK k : k = Renamed(m, f, g)
    OBVIOUS
  <2>1. Moves(m, Renamed(m, f, g))' /\ Carries(f, g, m)'
    <3>1. \A u \in Subtree(f) : SameAt(u) /\ SameAt(Renamed(u, f, g))
      BY <1>2, <1>10
    <3>2. Under(m) \subseteq Subtree(f)
      BY <1>2
    <3>3. /\ Moves(m, Renamed(m, f, g)) => Moves(m, Renamed(m, f, g))'
          /\ Carries(f, g, m) => Carries(f, g, m)'
      BY <3>1, <3>2, MoveSame
    <3> QED BY <1>1, <3>3
  <2>2. Fresh(M, f, g, m)'
    <3>1. Children(f, g) \notin M
      BY <1>d, <1>e
    <3> QED BY <3>1 DEF Fresh, Under
  <2>3. ASSUME NEW t \in Moved, RowsOf(t, m) # {} PROVE Waits(M, f, g, m)
    <3>1. m \in Under(f)
      <4>1. Rename(t, m, k) \in L \/ Waits(L, f, g, m)
        BY <1>1, <1>L, <2>3, <2>k DEF MoveOwed
      <4> QED BY <1>6, <1>L, <1>d, <4>1 DEF Waits
    <3>2. RowsOf("nodes", m) # {}
      <4>1. RowsOf("nodes", k) = {}
        BY <1>1, <1>6, <2>k, <3>1 DEF Fresh, Moved
      <4>2. Both(t, m, k) # {}
        BY <2>3 DEF Both
      <4>3. Both("nodes", m, k) # {}
        BY <1>1, <2>3, <2>k, <4>2 DEF Moves
      <4> QED BY <4>1, <4>3 DEF Both
    <3> QED BY <1>7, <3>1, <3>2 DEF Waits, IsStored
  <2>4. MoveOwed(M, f, g, m)'
    <3>1. Insert("addl_props", k, "", NoName) \notin M
      BY <1>d, <1>e
    <3> QED BY <1>4, <2>3, <2>k, <3>1 DEF MoveOwed, Waits, Under
  <2> QED BY <2>1, <2>2, <2>4
<1>12. Leads(r, f, g)' /\ OnlyNew(f, g)'
  BY <1>1, <1>10, JobSame
<1>13. (Subtree(f) \cap Subtree(g) = {})'
  BY <1>1 DEF Subtree, Under
<1> QED BY <1>8, <1>9, <1>11, <1>12, <1>13, <1>L DEF MoveAfter

(* A job that moves reads a child, and has the rows of the child to rename. *)
LEMMA MoveReads ==
  ASSUME Typed, NEW r \in Requests, Works(r), NEW f, NEW g, MoveAfter(r, f, g), op[r].do = "move",
         scope'[r] = scope[r], Head1(r).do = "child"
  PROVE  MoveAfter(r, f, g)'
<1>1. /\ Leads(r, f, g) /\ Subtree(f) \cap Subtree(g) = {} /\ OnlyNew(f, g)
      /\ LastOne(todo[r]) /\ MoveList(Items(todo[r]), f, g)
      /\ \A m \in Subtree(f) : /\ MoveOwed(Items(todo[r]), f, g, m) /\ Fresh(Items(todo[r]), f, g, m)
                               /\ Moves(m, Renamed(m, f, g)) /\ Carries(f, g, m)
  BY DEF MoveAfter
<1>2. /\ f \in Names /\ f \in Subtree(f) /\ Subtree(f) \subseteq Names /\ Subtree(f) \subseteq scope[r]
      /\ Subtree(g) \subseteq scope[r] /\ g \in Subtree(g)
      /\ \A m \in Subtree(f) : Renamed(m, f, g) \in Subtree(g) /\ Under(m) \subseteq Subtree(f)
      /\ \A m \in Subtree(f) : Renamed(m, f, g) \in Names
      /\ \A m, u \in Subtree(f) : Renamed(m, f, g) = Renamed(u, f, g) => m = u
      /\ \A m \in Under(f) : m \in Subtree(f) /\ m # f
  BY <1>1, LeadsNames
<1>d. /\ Children(f, g).do = "children" /\ \A m, k : Child(m, k).do = "child" /\ Child(m, k).id = m
      /\ \A t, m, k : Rename(t, m, k).do = "rename" /\ Update(t, k).do = "rename"
      /\ \A k : Insert("addl_props", k, "", NoName).do = "insert" /\ Insert("addl_props", k, "", NoName).id = k
      /\ \A t, m, k : Rename(t, m, k).id = m /\ Rename(t, m, k).to = k
      /\ \A t, k : Update(t, k).id = k
      /\ \A m, k : Child(m, k).to = k
  BY DEF Children, Child, Rename, Update, Insert
<1>s. PICK s, L, M : s = Head1(r) /\ L = Items(todo[r]) /\ M = Items(todo'[r])
  OBVIOUS
<1>3. PICK o \in Under(f) : s = Child(o, Renamed(o, f, g))
  <2>1. MoveItem(s, f, g)
    BY <1>1, <1>s, FirstFirst DEF MoveList
  <2>2. s.do = "child"
    BY <1>s
  <2> QED BY <2>1, <2>2, MoveItemIs
<1>k. PICK k : k = Renamed(o, f, g)
  OBVIOUS
<1>4. /\ ReadChild(r) /\ \A t, n : RowsOf(t, n)' = RowsOf(t, n)
      /\ \A rest : Advance(r, rest) => todo'[r] = rest
  BY FirstJob
<1>5. file' = file /\ IsStored(o) /\ todo'[r] = UpdateData(o, k) \o Tail(todo[r])
  <2>1. s.id = o /\ s.to = k
    BY <1>3, <1>k DEF Child
  <2> QED BY <1>4, <1>s, <2>1 DEF ReadChild, store
<1>6. o \in Subtree(f) /\ o \in Names /\ k \in Names /\ o # f /\ o # g /\ o \in Places
  BY <1>1, <1>2, <1>k DEF Places
<1>7. RowsOf("nodes", o) # {} /\ GetType(o) # "link"
  <2>1. o # Root
    BY <1>6, Below
  <2>2. RowsOf("nodes", o) # {} /\ GetTypes(o) = {w.kind : w \in RowsOf("nodes", o)}
    BY <1>5, <2>1 DEF IsStored, GetTypes
  <2>3. Moves(o, k)
    BY <1>1, <1>6, <1>k
  <2>4. Both("nodes", o, k) # {}
    BY <2>2 DEF Both
  <2>5. PICK w \in Both("nodes", o, k) : Both("nodes", o, k) = {w} /\ w.kind # "link"
    <3>1. "nodes" \in Moved
      BY DEF Moved
    <3> QED BY <2>3, <2>4, <3>1 DEF Moves
  <2>6. GetTypes(o) = {w.kind}
    <3>1. RowsOf("nodes", o) = {w}
      BY <2>2, <2>5 DEF Both
    <3> QED BY <2>2, <3>1
  <2> QED BY <2>2, <2>5, <2>6 DEF GetType
<1>U. PICK U : U = UpdateData(o, k)
  OBVIOUS
<1>8. /\ U \in Seq(Stmt)
      /\ \A x \in Items(U) :
           \/ x = Insert("addl_props", k, "", NoName)
           \/ \E t \in Moved : x = Update(t, k) \/ x = Rename(t, o, k)
      /\ \A t \in Moved : Rename(t, o, k) \in Items(U)
  <2>1. rows \subseteq Rows
    BY DEF Typed
  <2> QED BY <1>6, <1>7, <1>U, <2>1, UpdateItems
<1>e. \A x \in Items(U) : x.do # "children"
  <2> TAKE x \in Items(U)
  <2>1. CASE x = Insert("addl_props", k, "", NoName)
    BY <2>1 DEF Insert
  <2>2. ASSUME NEW t \in Moved, x = Update(t, k) \/ x = Rename(t, o, k) PROVE x.do # "children"
    BY <2>2 DEF Update, Rename
  <2> QED BY <1>8, <2>1, <2>2
<1>9. /\ L = {s} \cup Items(Tail(todo[r])) /\ M = Items(U) \cup Items(Tail(todo[r]))
      /\ LastOne(todo'[r])
  <2>1. todo[r] \in Seq(Stmt) /\ todo[r] # <<>>
    BY WorkFacts DEF Typed
  <2> HIDE DEF Stmt
  <2>2. Tail(todo[r]) \in Seq(Stmt) /\ LastOne(Tail(todo[r]))
    BY <1>1, <2>1, Lists, LastTail
  <2>3. \A x \in Items(U) : x.do # "children"
    BY <1>e
  <2>4. LastOne(U \o Tail(todo[r]))
    BY <1>8, <2>2, <2>3, LastFront
  <2>5. Items(U \o Tail(todo[r])) = Items(U) \cup Items(Tail(todo[r]))
    <3>1. U \in Seq(Stmt)
      BY <1>8
    <3>v. PICK v : v = Tail(todo[r])
      OBVIOUS
    <3>2. v \in Seq(Stmt)
      BY <2>2, <3>v
    <3>3. Items(U \o v) = Items(U) \cup Items(v)
      BY <3>1, <3>2, ItemsConcat
    <3> QED BY <3>3, <3>v
  <2> QED BY <1>5, <1>U, <1>s, <2>4, <2>5, FirstFirst
<1>10. Children(f, g) \notin L /\ Children(f, g) \notin M
  <2>1. Children(f, g) \notin L
    <3>1. s \in L /\ s # Children(f, g) /\ s.id = o
      BY <1>3, <1>9 DEF Child, Children
    <3> QED BY <1>1, <1>6, <1>s, <3>1 DEF MoveList
  <2>2. \A x \in Items(U) : x.do # "children"
    BY <1>e
  <2> QED BY <1>9, <1>d, <2>1, <2>2
<1>11. MoveList(M, f, g)
  <2>1. \A x \in Items(U) : MoveItem(x, f, g)
    BY <1>6, <1>8, <1>k DEF MoveItem
  <2>2. \A x \in Items(Tail(todo[r])) : MoveItem(x, f, g)
    BY <1>1, <1>9, <1>s DEF MoveList
  <2> QED BY <1>9, <1>10, <2>1, <2>2 DEF MoveList
<1>12. \A m \in scope[r] : SameAt(m)
  BY <1>4, <1>5 DEF SameAt
<1>13. ASSUME NEW m \in Subtree(f)
       PROVE  /\ MoveOwed(M, f, g, m)' /\ Fresh(M, f, g, m)'
              /\ Moves(m, Renamed(m, f, g))' /\ Carries(f, g, m)'
  <2>j. PICK j : j = Renamed(m, f, g)
    OBVIOUS
  <2>1. Moves(m, Renamed(m, f, g))' /\ Carries(f, g, m)'
    <3>1. \A u \in Subtree(f) : SameAt(u) /\ SameAt(Renamed(u, f, g))
      BY <1>2, <1>12
    <3>2. Under(m) \subseteq Subtree(f)
      BY <1>2
    <3>3. /\ Moves(m, Renamed(m, f, g)) => Moves(m, Renamed(m, f, g))'
          /\ Carries(f, g, m) => Carries(f, g, m)'
      BY <3>1, <3>2, MoveSame
    <3> QED BY <1>1, <3>3
  <2>2. Fresh(M, f, g, m)'
    BY <1>10 DEF Fresh, Under
  <2>3. ASSUME NEW t \in Moved, RowsOf(t, m) # {} PROVE Rename(t, m, j) \in M \/ Waits(M, f, g, m)
    <3>1. Rename(t, m, j) \in L \/ Waits(L, f, g, m)
      BY <1>1, <1>s, <2>3, <2>j DEF MoveOwed
    <3>2. CASE Rename(t, m, j) \in L
      <4>1. Rename(t, m, j) # s
        BY <1>3 DEF Child, Rename
      <4> QED BY <1>9, <3>2, <4>1
    <3>3. CASE Waits(L, f, g, m)
      <4>1. Child(m, j) \in L
        BY <1>10, <2>j, <3>3 DEF Waits
      <4>2. CASE Child(m, j) = s
        <5>1. m = o
          BY <1>3, <4>2 DEF Child
        <5> QED BY <1>8, <1>9, <1>k, <2>j, <5>1
      <4>3. CASE Child(m, j) # s
        <5>1. Child(m, j) \in M
          BY <1>9, <4>1, <4>3
        <5> QED BY <2>j, <5>1 DEF Waits
      <4> QED BY <4>2, <4>3
    <3> QED BY <3>1, <3>2, <3>3
  <2>4. Insert("addl_props", j, "", NoName) \in M => Both("nodes", m, j) # {}
    <3>1. CASE Insert("addl_props", j, "", NoName) \in L
      BY <1>1, <1>s, <2>j, <3>1 DEF MoveOwed
    <3>2. CASE Insert("addl_props", j, "", NoName) \in Items(U)
      <4>1. j = k
        <5>1. \A t \in Moved : /\ Insert("addl_props", j, "", NoName) # Update(t, k)
                               /\ Insert("addl_props", j, "", NoName) # Rename(t, o, k)
          BY DEF Insert, Update, Rename
        <5>2. Insert("addl_props", j, "", NoName) = Insert("addl_props", k, "", NoName)
          BY <1>8, <3>2, <5>1
        <5> QED BY <5>2 DEF Insert
      <4>2. m = o
        BY <1>2, <1>6, <1>k, <2>j, <4>1
      <4> QED BY <1>7, <4>2 DEF Both
    <3> QED BY <1>9, <3>1, <3>2
  <2>5. MoveOwed(M, f, g, m)'
    <3>1. Both("nodes", m, j)' = Both("nodes", m, j)
      BY <1>4 DEF Both
    <3> QED BY <1>4, <2>3, <2>4, <2>j, <3>1 DEF MoveOwed, Waits, Under
  <2> QED BY <2>1, <2>2, <2>5
<1>14. Leads(r, f, g)' /\ OnlyNew(f, g)'
  BY <1>1, <1>12, JobSame
<1>15. (Subtree(f) \cap Subtree(g) = {})'
  BY <1>1 DEF Subtree, Under
<1> QED BY <1>9, <1>11, <1>13, <1>14, <1>15, <1>s DEF MoveAfter

(* A good request that has begun to move goes on with it. *)
LEMMA MoveGoesOn ==
  ASSUME Typed, NEW r \in Requests, Works(r), ~(scope'[r] \subseteq unclear'), op[r].do = "move",
         NEW f \in Names, NEW g \in Names, MoveBefore(r, f, g) \/ MoveAfter(r, f, g)
  PROVE  MoveAfter(r, f, g)'
<1>2. scope'[r] = scope[r]
  BY GoodWorks
<1>4. CASE MoveBefore(r, f, g)
  BY <1>2, <1>4, MoveBegun
<1>5. CASE MoveAfter(r, f, g)
  <2>1. Head1(r).do \in Writes \cup {"children", "child"}
    <3>1. MoveItem(Head1(r), f, g)
      BY <1>5, FirstFirst DEF MoveAfter, MoveList
    <3>2. ASSUME NEW s, MoveItem(s, f, g) PROVE s.do \in {"insert", "rename", "children", "child"}
      BY <3>2, MoveItemIs
    <3> QED BY <3>1, <3>2 DEF Writes
  <2>2. CASE Head1(r).do \in Writes
    <3>1. MoveAfter(r, f, g)' \/ (todo'[r] = todo[r] /\ \A m \in scope[r] : SameAt(m))
      BY <1>5, <2>2, MoveWrites
    <3>2. CASE todo'[r] = todo[r] /\ \A m \in scope[r] : SameAt(m)
      BY <1>2, <1>5, <3>2, MoveLasts
    <3> QED BY <3>1, <3>2
  <2>3. CASE Head1(r).do = "children"
    BY <1>2, <1>5, <2>3, MoveFinds
  <2>4. CASE Head1(r).do = "child"
    BY <1>2, <1>5, <2>4, MoveReads
  <2> QED BY <2>1, <2>2, <2>3, <2>4
<1> QED BY <1>4, <1>5

(* A good request that moves stays one. *)
LEMMA MoveWorks ==
  ASSUME Typed, NEW r \in Requests, Works(r), MoveAt(r), ~(scope'[r] \subseteq unclear')
  PROVE  MoveAt(r)'
<1>1. PICK f \in Names, g \in Names : MoveBefore(r, f, g) \/ MoveAfter(r, f, g)
  BY DEF MoveAt
<1>2. op' = op /\ op[r].do = "move" /\ ~ToNull(op[r])
  BY WorkFacts DEF MoveAt
<1>3. MoveAfter(r, f, g)'
  BY <1>1, <1>2, MoveGoesOn
<1> QED BY <1>2, <1>3 DEF MoveAt, ToNull

-----------------------------------------------------------------------------
(* Jobs that copy *)

(* It depends on what still has to be inserted for a name what is there. *)
LEMMA CopiesAlike ==
  ASSUME NEW r, NEW L, NEW M, NEW f, NEW g, NEW m, Copies(r, L, f, g, m),
         \A w \in RowsOf("nodes", m) : \A t \in {"nodes", "properties"} :
           Awaits(M, f, g, t, m, w.kind) <=> Awaits(L, f, g, t, m, w.kind)
  PROVE  Copies(r, M, f, g, m)
<1>k. PICK k : k = Renamed(m, f, g)
  OBVIOUS
<1>1. ASSUME NEW w \in RowsOf("nodes", m)
      PROVE  /\ file[k] = Put(r, k, w.kind)
             /\ IF Awaits(M, f, g, "nodes", m, w.kind) THEN RowsOf("nodes", k) = {}
                ELSE \E v \in RowsOf("nodes", k) :
                       RowsOf("nodes", k) = {v} /\ v.kind = w.kind /\ v.by = r
             /\ IF Awaits(M, f, g, "properties", m, w.kind) THEN RowsOf("properties", k) = {}
                ELSE Single(RowsOf("properties", k))
  <2>1. /\ Awaits(M, f, g, "nodes", m, w.kind) <=> Awaits(L, f, g, "nodes", m, w.kind)
        /\ Awaits(M, f, g, "properties", m, w.kind) <=> Awaits(L, f, g, "properties", m, w.kind)
    OBVIOUS
  <2>2. /\ file[k] = Put(r, k, w.kind)
        /\ IF Awaits(L, f, g, "nodes", m, w.kind) THEN RowsOf("nodes", k) = {}
           ELSE \E v \in RowsOf("nodes", k) :
                  RowsOf("nodes", k) = {v} /\ v.kind = w.kind /\ v.by = r
        /\ IF Awaits(L, f, g, "properties", m, w.kind) THEN RowsOf("properties", k) = {}
           ELSE Single(RowsOf("properties", k))
    BY <1>k DEF Copies
  <2> QED BY <2>1, <2>2
<1>2. RowsOf("links", k) = {} /\ (RowsOf("nodes", m) = {} => ~Something(k))
  BY <1>k DEF Copies
<1> QED BY <1>1, <1>2, <1>k DEF Copies

(* A statement of a job that copies is executed, or not yet. *)
LEMMA CopyWrites ==
  ASSUME Typed, NEW r \in Requests, Works(r), NEW f, NEW g, CopyAfter(r, f, g),
         ~(scope'[r] \subseteq unclear'), Head1(r).do \in Writes
  PROVE  /\ \A m \in Subtree(f) : RowsOf("nodes", m)' = RowsOf("nodes", m)
         /\ CopyAfter(r, f, g)' \/ (todo'[r] = todo[r] /\ \A m \in scope[r] : SameAt(m))
<1>s. PICK s, L, M : s = Head1(r) /\ L = Items(todo[r]) /\ M = Items(Tail(todo[r]))
  OBVIOUS
<1>1. /\ scope'[r] = scope[r] /\ ~(scope[r] \subseteq unclear')
      /\ todo[r] \in Seq(Stmt) /\ todo[r] # <<>> /\ rows \subseteq Rows
  <2>1. todo[r] \in Seq(Stmt) /\ rows \subseteq Rows
    BY DEF Typed
  <2> QED BY <2>1, GoodWorks, WorkFacts
<1>2. s \in L /\ L = {s} \cup M /\ (Execute(r) \/ Lose(r))
  BY <1>s, FirstFirst
<1>4. /\ Leads(r, f, g) /\ Subtree(f) \cap Subtree(g) = {} /\ OnlyNew(f, g) /\ NoLinks(f)
      /\ LastOne(todo[r]) /\ Distinct(todo[r]) /\ CopyList(L, f, g)
      /\ \A m \in Subtree(f) : /\ Fine(m) /\ Holds(m) /\ CopyOwed(L, f, g, m)
                               /\ Copies(r, L, f, g, m)
  BY <1>s DEF CopyAfter
<1>5. /\ f \in Names /\ g \in Names /\ Subtree(f) \subseteq Names /\ Subtree(g) \subseteq Names
      /\ \A m \in Subtree(f) : Renamed(m, f, g) \in Subtree(g) /\ Under(m) \subseteq Subtree(f)
      /\ \A m, u \in Subtree(f) : Renamed(m, f, g) = Renamed(u, f, g) => m = u
  BY <1>4, LeadsNames
<1>6. s.do = "insert" /\ \E m \in Subtree(f) : s.id = Renamed(m, f, g)
  <2>1. CopyItem(s, f, g)
    BY <1>2, <1>4 DEF CopyList
  <2>2. s.do \in Writes
    BY <1>s
  <2> QED BY <2>1, <2>2, CopyItemIs DEF Writes
<1>3. /\ file' = file
      /\ \/ (\A t, n : RowsOf(t, n)' = RowsNext(s, r, t, n)) /\ todo'[r] = Tail(todo[r])
         \/ (\A t, n : RowsOf(t, n)' = RowsOf(t, n)) /\ todo'[r] = todo[r]
  BY <1>1, <1>2, <1>6, <1>s, ExecuteDoes
<1>7. CASE (\A t, n : RowsOf(t, n)' = RowsOf(t, n)) /\ todo'[r] = todo[r]
  BY <1>3, <1>7 DEF SameAt
<1>8. CASE (\A t, n : RowsOf(t, n)' = RowsNext(s, r, t, n)) /\ todo'[r] = Tail(todo[r])
  <2>1. LastOne(todo'[r]) /\ Distinct(todo'[r]) /\ s \notin M /\ M = Items(todo'[r])
    <3>1. LastOne(Tail(todo[r]))
      BY <1>1, <1>4, LastTail
    <3>2. Distinct(Tail(todo[r])) /\ Head(todo[r]) \notin Items(Tail(todo[r]))
      BY <1>1, <1>4, ItemsTail
    <3> QED BY <1>s, <1>8, <3>1, <3>2 DEF Head1
  <2>2. PICK o \in Subtree(f) : s.id = Renamed(o, f, g)
    BY <1>6
  <2>k. PICK k : k = Renamed(o, f, g)
    OBVIOUS
  <2>3. /\ ~Waits(L, f, g, o)
        /\ \E w \in RowsOf("nodes", o) : \E t \in Moved : s = CopyRow(t, k, w.kind)
    <3>1. CopyOwed(L, f, g, o) /\ s \in L /\ s.do = "insert" /\ s.id = Renamed(o, f, g)
      BY <1>2, <1>4, <1>6, <2>2
    <3> QED BY <2>k, <3>1 DEF CopyOwed
  <2>4. PICK w0 \in RowsOf("nodes", o) : \E t \in Moved : s = CopyRow(t, k, w0.kind)
    BY <2>3
  <2>5. PICK t0 \in Moved : s = CopyRow(t0, k, w0.kind)
    BY <2>4
  <2>6. RowsOf("nodes", o) = {w0}
    <3>1. Fine(o) /\ Something(o)
      BY <1>4 DEF Something, Tabs
    <3>2. Sound(o)
      BY <3>1 DEF Fine
    <3>3. PICK v : RowsOf("nodes", o) = {v}
      BY <3>2 DEF Sound
    <3> QED BY <3>3
  <2>7. /\ k \in Subtree(g) /\ k \notin Subtree(f) /\ o \in Names /\ k \in Names
        /\ \A m \in Subtree(f) : m # o => Renamed(m, f, g) # k
        /\ s.t = t0 /\ s.id = k /\ (t0 = "nodes" => s.kind = w0.kind)
    BY <1>4, <1>5, <2>2, <2>5, <2>k, CopyRowIs
  <2>8. \A t, n : ~(t = t0 /\ n = k) => RowsOf(t, n)' = RowsOf(t, n)
    <3> TAKE t, n
    <3>1. ~(s.t = t /\ s.id = n) => RowsNext(s, r, t, n) = RowsOf(t, n)
      BY <1>6, InsertDoes
    <3> QED BY <1>8, <2>7, <3>1
  <2>9. PICK x : RowsOf(t0, k)' = RowsOf(t0, k) \cup {x} /\ x.kind = s.kind /\ x.by = r
    <3>1. PICK x : x = Row(s.t, s.id, s.kind, s.target, r,
                         Cardinality({w \in rows : w.t = s.t /\ w.id = s.id /\ w.by = r}))
      OBVIOUS
    <3>2. RowsNext(s, r, s.t, s.id) = RowsOf(s.t, s.id) \cup {x}
      BY <1>6, <3>1, InsertDoes
    <3>3. RowsOf(t0, k)' = RowsOf(t0, k) \cup {x}
      BY <1>8, <2>7, <3>2
    <3>4. x.kind = s.kind /\ x.by = r
      BY <3>1 DEF Row
    <3> QED BY <3>3, <3>4
  <2>10. \A n \in Subtree(f) \cup Subtree(g) : n # k => SameAt(n)
    BY <1>3, <2>8 DEF SameAt
  <2>11. \A m \in Subtree(f) : SameAt(m) /\ Fine(m)' /\ Holds(m)'
    <3>1. \A u \in Subtree(f) : SameAt(u) /\ u \in Names
      BY <1>5, <2>7, <2>10
    <3>2. \A u \in Subtree(f) : (Fine(u)' <=> Fine(u)) /\ (Something(u)' <=> Something(u)) /\ (Cont(u)' <=> Cont(u))
      BY <3>1, SameMeans
    <3> TAKE m \in Subtree(f)
    <3>3. Fine(m) /\ Holds(m)
      BY <1>4
    <3>4. Holds(m)'
      BY <1>5, <3>2, <3>3 DEF Holds, Under
    <3> QED BY <3>1, <3>2, <3>3, <3>4
  <2>12. OnlyNew(f, g)'
    <3> SUFFICES ASSUME NEW n \in Subtree(g), Something(n)' PROVE \E m \in Subtree(f) : n = Renamed(m, f, g)
      BY DEF OnlyNew, Subtree, Under
    <3>1. CASE n = k
      BY <2>k, <3>1
    <3>2. CASE n # k
      <4>1. Something(n)' <=> Something(n)
        BY <1>5, <2>10, <3>2, SameMeans
      <4> QED BY <1>4, <4>1 DEF OnlyNew
    <3> QED BY <3>1, <3>2
  <2>13. CopyList(M, f, g)'
    <3>1. CopyList(M, f, g)
      BY <1>2, <1>4 DEF CopyList
    <3> QED BY <3>1 DEF CopyList, CopyItem, Subtree, Under
  <2>14. \A m \in Subtree(f) : Waits(M, f, g, m) <=> Waits(L, f, g, m)
    <3> TAKE m \in Subtree(f)
    <3>1. Child(m, Renamed(m, f, g)) # s /\ Children(f, g) # s
      BY <1>6 DEF Child, Children
    <3> QED BY <1>2, <3>1 DEF Waits
  <2>15. ASSUME NEW m \in Subtree(f) PROVE CopyOwed(M, f, g, m)' /\ Copies(r, M, f, g, m)'
    <3>1. CopyOwed(M, f, g, m)'
      <4>1. CopyOwed(M, f, g, m)
        BY <1>2, <1>4, <2>14 DEF CopyOwed
      <4>2. RowsOf("nodes", m)' = RowsOf("nodes", m)
        BY <2>11 DEF SameAt
      <4> QED BY <4>1, <4>2 DEF CopyOwed, Waits, Under
    <3>2. CASE m # o
      <4>1. \A w \in RowsOf("nodes", m) : \A t \in {"nodes", "properties"} :
              Awaits(M, f, g, t, m, w.kind) <=> Awaits(L, f, g, t, m, w.kind)
        <5> TAKE w \in RowsOf("nodes", m)
        <5> TAKE t \in {"nodes", "properties"}
        <5>1. CopyRow(t, Renamed(m, f, g), w.kind) # s
          BY <2>7, <3>2, CopyRowIs
        <5> QED BY <1>2, <2>14, <5>1 DEF Awaits
      <4>2. Copies(r, M, f, g, m)
        BY <1>4, <4>1, CopiesAlike
      <4>3. SameAt(m) /\ SameAt(Renamed(m, f, g)) /\ Renamed(m, f, g) \in Names
        BY <1>5, <2>7, <2>10, <2>11, <3>2
      <4> QED BY <3>1, <4>2, <4>3, CopySame
    <3>3. CASE m = o
      <4>1. /\ RowsOf("links", k) = {} /\ file[k] = Put(r, k, w0.kind)
            /\ IF Awaits(L, f, g, "nodes", o, w0.kind) THEN RowsOf("nodes", k) = {}
               ELSE \E v \in RowsOf("nodes", k) :
                      RowsOf("nodes", k) = {v} /\ v.kind = w0.kind /\ v.by = r
            /\ IF Awaits(L, f, g, "properties", o, w0.kind) THEN RowsOf("properties", k) = {}
               ELSE Single(RowsOf("properties", k))
        BY <1>4, <2>6, <2>k DEF Copies
      <4>2. \A t : /\ Awaits(L, f, g, t, o, w0.kind) <=> CopyRow(t, k, w0.kind) \in L
                   /\ Awaits(M, f, g, t, o, w0.kind) <=> CopyRow(t, k, w0.kind) \in M
        BY <2>3, <2>14, <2>k DEF Awaits
      <4>3. \A t : t # t0 => CopyRow(t, k, w0.kind) # s
        BY <2>7, CopyRowIs
      <4>4. RowsOf("nodes", o)' = {w0} /\ RowsOf("links", k)' = {} /\ file'[k] = file[k]
        <5>1. t0 # "links"
          BY DEF Moved
        <5>2. RowsOf("nodes", o)' = {w0}
          BY <2>6, <2>7, <2>8
        <5> QED BY <1>3, <2>8, <4>1, <5>1, <5>2
      <4>5. IF Awaits(M, f, g, "nodes", o, w0.kind) THEN RowsOf("nodes", k)' = {}
            ELSE \E v \in RowsOf("nodes", k)' :
                   RowsOf("nodes", k)' = {v} /\ v.kind = w0.kind /\ v.by = r
        <5>1. CASE t0 = "nodes"
          <6>1. RowsOf("nodes", k)' = {x} /\ x.kind = w0.kind /\ x.by = r
            BY <1>2, <2>5, <2>7, <2>9, <4>1, <4>2, <5>1
          <6>2. ~Awaits(M, f, g, "nodes", o, w0.kind)
            BY <2>1, <2>5, <4>2, <5>1
          <6> QED BY <6>1, <6>2
        <5>2. CASE t0 # "nodes"
          <6>1. RowsOf("nodes", k)' = RowsOf("nodes", k)
            BY <2>8, <5>2
          <6>2. Awaits(M, f, g, "nodes", o, w0.kind) <=> Awaits(L, f, g, "nodes", o, w0.kind)
            BY <1>2, <4>2, <4>3, <5>2
          <6> QED BY <4>1, <6>1, <6>2
        <5> QED BY <5>1, <5>2
      <4>6. IF Awaits(M, f, g, "properties", o, w0.kind) THEN RowsOf("properties", k)' = {}
            ELSE Single(RowsOf("properties", k)')
        <5>1. CASE t0 = "properties"
          <6>1. RowsOf("properties", k)' = {x}
            BY <1>2, <2>5, <2>9, <4>1, <4>2, <5>1
          <6>2. ~Awaits(M, f, g, "properties", o, w0.kind)
            BY <2>1, <2>5, <4>2, <5>1
          <6> QED BY <6>1, <6>2 DEF Single
        <5>2. CASE t0 # "properties"
          <6>1. RowsOf("properties", k)' = RowsOf("properties", k)
            BY <2>8, <5>2
          <6>2. Awaits(M, f, g, "properties", o, w0.kind) <=> Awaits(L, f, g, "properties", o, w0.kind)
            BY <1>2, <4>2, <4>3, <5>2
          <6> QED BY <4>1, <6>1, <6>2
        <5> QED BY <5>1, <5>2
      <4>7. \A t, kind : Awaits(M, f, g, t, o, kind)' <=> Awaits(M, f, g, t, o, kind)
        BY DEF Awaits, Waits, Under
      <4>8. Copies(r, M, f, g, o)'
        <5>1. /\ RowsOf("links", k)' = {} /\ RowsOf("nodes", o)' # {}
              /\ \A w \in RowsOf("nodes", o)' :
                   /\ file'[k] = Put(r, k, w.kind)
                   /\ IF Awaits(M, f, g, "nodes", o, w.kind)' THEN RowsOf("nodes", k)' = {}
                      ELSE \E v \in RowsOf("nodes", k)' :
                             RowsOf("nodes", k)' = {v} /\ v.kind = w.kind /\ v.by = r
                   /\ IF Awaits(M, f, g, "properties", o, w.kind)' THEN RowsOf("properties", k)' = {}
                      ELSE Single(RowsOf("properties", k))'
          <6>1. Single(RowsOf("properties", k))' <=> Single(RowsOf("properties", k)')
            BY DEF Single
          <6> QED BY <4>1, <4>4, <4>5, <4>6, <4>7, <6>1
        <5> QED BY <5>1, <2>k DEF Copies, Put
      <4> QED BY <3>1, <3>3, <4>8
    <3> QED BY <3>1, <3>2, <3>3
  <2>16. Leads(r, f, g)' /\ NoLinks(f)' /\ (Subtree(f) \cap Subtree(g) = {})'
    <3>1. Leads(r, f, g)'
      BY <1>1, <1>4 DEF Leads, Subtree, Under
    <3>2. \A m \in Subtree(f) : RowsOf("nodes", m)' = RowsOf("nodes", m)
      BY <2>11 DEF SameAt
    <3>3. NoLinks(f)'
      BY <1>4, <3>2 DEF NoLinks, Subtree, Under
    <3> QED BY <1>4, <3>1, <3>3 DEF Subtree, Under
  <2>17. \A m \in Subtree(f) : RowsOf("nodes", m)' = RowsOf("nodes", m)
    BY <2>11 DEF SameAt
  <2>18. CopyAfter(r, f, g)'
    BY <2>1, <2>11, <2>12, <2>13, <2>15, <2>16 DEF CopyAfter
  <2> QED BY <2>17, <2>18
<1> QED BY <1>3, <1>7, <1>8

(* A job that copies finds children, and reads each of them later. *)
LEMMA CopyFinds ==
  ASSUME Typed, NEW r \in Requests, Works(r), NEW f, NEW g, CopyAfter(r, f, g),
         scope'[r] = scope[r], Head1(r).do = "children"
  PROVE  CopyAfter(r, f, g)'
<1>L. PICK L, M : L = Items(todo[r]) /\ M = Items(todo'[r])
  OBVIOUS
<1>1. /\ Leads(r, f, g) /\ Subtree(f) \cap Subtree(g) = {} /\ OnlyNew(f, g) /\ NoLinks(f)
      /\ LastOne(todo[r]) /\ Distinct(todo[r]) /\ CopyList(L, f, g)
      /\ \A m \in Subtree(f) : /\ Fine(m) /\ Holds(m) /\ CopyOwed(L, f, g, m)
                               /\ Copies(r, L, f, g, m)
  BY <1>L DEF CopyAfter
<1>2. /\ f \in Names /\ f \in Subtree(f) /\ Subtree(f) \subseteq Names /\ Subtree(f) \subseteq scope[r]
      /\ Subtree(g) \subseteq scope[r] /\ Subtree(g) \subseteq Names
      /\ \A m \in Subtree(f) : Renamed(m, f, g) \in Subtree(g) /\ Under(m) \subseteq Subtree(f)
  BY <1>1, LeadsNames
<1>3. Head1(r) = Children(f, g)
  <2>1. CopyItem(Head1(r), f, g)
    BY <1>1, <1>L, FirstFirst DEF CopyList
  <2> QED BY <2>1, CopyItemIs
<1>4. FindChildren(r) /\ \A t, n : RowsOf(t, n)' = RowsOf(t, n)
  BY FirstJob
<1>5. file' = file
  BY <1>4 DEF FindChildren, store
<1>6. Tail(todo[r]) = <<>> /\ L = {Children(f, g)}
  <2>1. todo[r] \in Seq(Stmt) /\ todo[r] # <<>>
    BY WorkFacts DEF Typed
  <2>2. Head(todo[r]).do = "children"
    BY DEF Head1
  <2>3. Tail(todo[r]) = <<>>
    BY <1>1, <2>1, <2>2, LastTail
  <2> QED BY <1>3, <1>L, <2>3, FirstFirst, ItemsSmall
<1>7. /\ \A s : s \in M <=> \E n \in Under(f) : IsStored(n) /\ s = Child(n, Renamed(n, f, g))
      /\ Distinct(todo'[r])
  <2>1. \A s : s \in M <=> \E n \in Under(f) : IsStored(n) /\ s = Child(n, Renamed(n, f, g))
    BY <1>2, <1>3, <1>4, <1>6, <1>L, FoundChildren
  <2>2. Distinct(todo'[r])
    BY <1>2, <1>3, <1>4, <1>6, FoundChildren
  <2> QED BY <2>1, <2>2
<1>e. \A s \in M : s.do = "child"
  <2> TAKE s \in M
  <2>1. PICK n \in Under(f) : s = Child(n, Renamed(n, f, g))
    BY <1>7
  <2> QED BY <2>1 DEF Child
<1>8. LastOne(todo'[r])
  <2>1. \A i \in 1..Len(todo'[r]) : todo'[r][i] \in M
    BY <1>L DEF Items
  <2> QED BY <1>e, <2>1 DEF LastOne
<1>c. Children(f, g) \notin M
  BY <1>e DEF Children
<1>9. CopyList(M, f, g)'
  <2>1. \A s \in M : CopyItem(s, f, g)
    BY <1>7 DEF CopyItem
  <2>2. CopyList(M, f, g)
    BY <1>c, <2>1 DEF CopyList
  <2> QED BY <2>2 DEF CopyList, CopyItem, Subtree, Under
<1>10. \A m \in scope[r] : SameAt(m)
  BY <1>4, <1>5 DEF SameAt
<1>11. ASSUME NEW m \in Subtree(f) PROVE CopyOwed(M, f, g, m)' /\ Copies(r, M, f, g, m)'
  <2>1. CopyOwed(M, f, g, m)
    BY <1>e DEF CopyOwed
  <2>2. \A t, kind : CopyRow(t, Renamed(m, f, g), kind) \notin L /\ CopyRow(t, Renamed(m, f, g), kind) \notin M
    <3> TAKE t, kind
    <3>1. CopyRow(t, Renamed(m, f, g), kind).do = "insert" /\ Children(f, g).do = "children"
      BY CopyRowIs DEF Children
    <3> QED BY <1>6, <1>e, <3>1
  <2>3. Waits(L, f, g, m) <=> m \in Under(f)
    <3>1. Child(m, Renamed(m, f, g)) # Children(f, g)
      BY DEF Child, Children
    <3> QED BY <1>6, <3>1 DEF Waits
  <2>4. IsStored(m) => (Waits(M, f, g, m) <=> m \in Under(f))
    <3>1. ASSUME NEW n \in Under(f), Child(m, Renamed(m, f, g)) = Child(n, Renamed(n, f, g)) PROVE m \in Under(f)
      BY <3>1 DEF Child
    <3> QED BY <1>7, <1>c, <3>1 DEF Waits
  <2>5. \A w \in RowsOf("nodes", m) : \A t \in {"nodes", "properties"} :
          Awaits(M, f, g, t, m, w.kind) <=> Awaits(L, f, g, t, m, w.kind)
    <3> TAKE w \in RowsOf("nodes", m)
    <3>1. IsStored(m)
      BY DEF IsStored
    <3> QED BY <2>2, <2>3, <2>4, <3>1 DEF Awaits
  <2>6. Copies(r, M, f, g, m)
    BY <1>1, <2>5, CopiesAlike
  <2>7. SameAt(m) /\ SameAt(Renamed(m, f, g)) /\ Renamed(m, f, g) \in Names
    BY <1>2, <1>10
  <2> QED BY <2>1, <2>6, <2>7, CopySame
<1>12. /\ Leads(r, f, g)' /\ OnlyNew(f, g)' /\ NoLinks(f)'
       /\ \A m \in Subtree(f) : Fine(m)' /\ Holds(m)'
  BY <1>1, <1>2, <1>10, JobSame
<1>13. (Subtree(f) \cap Subtree(g) = {})'
  BY <1>1 DEF Subtree, Under
<1> QED BY <1>7, <1>8, <1>9, <1>11, <1>12, <1>13, <1>L DEF CopyAfter

(* A job that copies reads a child, and has its rows to insert. *)
LEMMA CopyReads ==
  ASSUME Typed, NEW r \in Requests, Works(r), NEW f, NEW g, CopyAfter(r, f, g), op[r].do = "copy",
         scope'[r] = scope[r], Head1(r).do = "child"
  PROVE  CopyAfter(r, f, g)'
<1>L. PICK s, L, M, N1 : /\ s = Head1(r) /\ L = Items(todo[r]) /\ M = Items(todo'[r])
                         /\ N1 = Items(Tail(todo[r]))
  OBVIOUS
<1>1. /\ Leads(r, f, g) /\ Subtree(f) \cap Subtree(g) = {} /\ OnlyNew(f, g) /\ NoLinks(f)
      /\ LastOne(todo[r]) /\ Distinct(todo[r]) /\ CopyList(L, f, g)
      /\ \A m \in Subtree(f) : /\ Fine(m) /\ Holds(m) /\ CopyOwed(L, f, g, m)
                               /\ Copies(r, L, f, g, m)
  BY <1>L DEF CopyAfter
<1>2. /\ f \in Names /\ f \in Subtree(f) /\ Subtree(f) \subseteq Names /\ Subtree(f) \subseteq scope[r]
      /\ Subtree(g) \subseteq scope[r] /\ Subtree(g) \subseteq Names
      /\ \A m \in Subtree(f) : Renamed(m, f, g) \in Subtree(g)
      /\ \A m, u \in Subtree(f) : Renamed(m, f, g) = Renamed(u, f, g) => m = u
      /\ \A m \in Under(f) : m \in Subtree(f)
  BY <1>1, LeadsNames
<1>3. PICK o \in Under(f) : s = Child(o, Renamed(o, f, g))
  <2>1. CopyItem(s, f, g)
    BY <1>1, <1>L, FirstFirst DEF CopyList
  <2> QED BY <1>L, <2>1, CopyItemIs
<1>k. PICK k : k = Renamed(o, f, g)
  OBVIOUS
<1>4. /\ ReadChild(r) /\ \A t, n : RowsOf(t, n)' = RowsOf(t, n)
      /\ \A rest : Advance(r, rest) => todo'[r] = rest
  BY FirstJob
<1>D. PICK D : D = StoreData(k, GetType(o), GetTarget(o), RowsOf("addl_props", o) # {})
  OBVIOUS
<1>5. file' = file /\ IsStored(o) /\ todo'[r] = D \o Tail(todo[r]) /\ s.id = o /\ s.do = "child"
  <2>1. s.id = o /\ s.to = k /\ s.do = "child"
    BY <1>3, <1>k DEF Child
  <2>2. CopyData(o, k) = D
    BY <1>D, Zenon DEF CopyData
  <2> QED BY <1>4, <1>L, <2>1, <2>2 DEF ReadChild, store
<1>6. o \in Subtree(f) /\ o \in Names /\ k \in Names /\ k \in Subtree(g) /\ o # Root
  BY <1>2, <1>k, Below
<1>7. PICK w0 \in RowsOf("nodes", o) : RowsOf("nodes", o) = {w0} /\ w0.kind # "link" /\ GetType(o) = w0.kind
  <2>1. RowsOf("nodes", o) # {}
    BY <1>5, <1>6 DEF IsStored
  <2>2. Sound(o)
    BY <1>1, <1>6, <2>1 DEF Fine, Something, Tabs
  <2>3. PICK w0 \in RowsOf("nodes", o) : RowsOf("nodes", o) = {w0}
    BY <2>2 DEF Sound
  <2>4. w0.kind # "link"
    BY <1>1, <1>6 DEF NoLinks
  <2>5. GetTypes(o) = {w0.kind}
    BY <1>6, <2>3 DEF GetTypes
  <2>6. GetType(o) = w0.kind
    BY <2>5 DEF GetType
  <2> QED BY <2>3, <2>4, <2>6
<1>8. /\ D \in Seq(Stmt) /\ Distinct(D)
      /\ \A x \in Items(D) : \E t \in Moved : x = CopyRow(t, k, w0.kind)
      /\ CopyRow("nodes", k, w0.kind) \in Items(D)
      /\ CopyRow("properties", k, w0.kind) \in Items(D)
  <2>1. rows \subseteq Rows
    BY DEF Typed
  <2>2. GetType(o) \in RowKinds /\ GetTarget(o) \in Targets /\ GetType(o) # "link"
    BY <1>7, <2>1, Reads
  <2>3. PICK addl : addl = (RowsOf("addl_props", o) # {})
    OBVIOUS
  <2>4. D = StoreData(k, w0.kind, GetTarget(o), addl)
    BY <1>7, <1>D, <2>3
  <2> QED BY <1>6, <1>7, <2>2, <2>4, StoreItems
<1>e. \A x \in Items(D) : x.do = "insert" /\ x.id = k
  <2> TAKE x \in Items(D)
  <2>1. PICK t \in Moved : x = CopyRow(t, k, w0.kind)
    BY <1>8
  <2> QED BY <2>1, CopyRowIs
<1>9. ~Waits(L, f, g, o) => FALSE
  BY <1>3, <1>L, FirstFirst DEF Waits
<1>10. /\ todo[r] \in Seq(Stmt) /\ todo[r] # <<>> /\ L = {s} \cup N1 /\ s \notin N1
       /\ Tail(todo[r]) \in Seq(Stmt) /\ LastOne(Tail(todo[r])) /\ Distinct(Tail(todo[r]))
  <2>1. todo[r] \in Seq(Stmt) /\ todo[r] # <<>>
    BY WorkFacts DEF Typed
  <2> HIDE DEF Stmt
  <2>2. Tail(todo[r]) \in Seq(Stmt) /\ LastOne(Tail(todo[r]))
    BY <1>1, <2>1, Lists, LastTail
  <2>3. Distinct(Tail(todo[r])) /\ Head(todo[r]) \notin Items(Tail(todo[r]))
    BY <1>1, <2>1, ItemsTail
  <2>4. L = {s} \cup N1 /\ s \notin N1
    BY <1>L, <2>3, FirstFirst DEF Head1
  <2> QED BY <2>1, <2>2, <2>3, <2>4
<1>11. Items(D) \cap N1 = {}
  <2> SUFFICES ASSUME NEW x \in Items(D), x \in N1 PROVE FALSE
    OBVIOUS
  <2>1. x \in L /\ x.do = "insert" /\ x.id = Renamed(o, f, g)
    BY <1>e, <1>k, <1>10
  <2>2. CopyOwed(L, f, g, o)
    BY <1>1, <1>6
  <2>3. ~Waits(L, f, g, o)
    BY <2>1, <2>2 DEF CopyOwed
  <2> QED BY <1>9, <2>3
<1>12. M = Items(D) \cup N1 /\ LastOne(todo'[r]) /\ Distinct(todo'[r])
  <2> HIDE DEF Stmt
  <2>1. \A x \in Items(D) : x.do # "children"
    BY <1>e
  <2>v. PICK v : v = Tail(todo[r])
    OBVIOUS
  <2>2. v \in Seq(Stmt) /\ LastOne(v) /\ Distinct(v) /\ Items(D) \cap Items(v) = {}
        /\ D \in Seq(Stmt) /\ Distinct(D)
    BY <1>8, <1>10, <1>11, <1>L, <2>v
  <2>3. LastOne(D \o v)
    BY <2>1, <2>2, LastFront
  <2>4. Distinct(D \o v) /\ Items(D \o v) = Items(D) \cup Items(v)
    BY <2>2, DistinctConcat
  <2> QED BY <1>5, <1>L, <2>3, <2>4, <2>v
<1>13. Children(f, g) \notin L /\ Children(f, g) \notin M
  <2>1. Children(f, g) \notin L
    BY <1>1, <1>5, <1>10 DEF CopyList
  <2>2. Children(f, g) \notin Items(D)
    BY <1>e DEF Children
  <2> QED BY <1>10, <1>12, <2>1, <2>2
<1>14. CopyList(M, f, g)'
  <2>1. \A x \in Items(D) : CopyItem(x, f, g)
    BY <1>e, <1>6, <1>k DEF CopyItem
  <2>2. \A x \in N1 : CopyItem(x, f, g)
    BY <1>1, <1>10 DEF CopyList
  <2>3. CopyList(M, f, g)
    BY <1>12, <1>13, <2>1, <2>2 DEF CopyList
  <2> QED BY <2>3 DEF CopyList, CopyItem, Subtree, Under
<1>15. \A m \in scope[r] : SameAt(m)
  BY <1>4, <1>5 DEF SameAt
<1>16. ASSUME NEW m \in Subtree(f) PROVE CopyOwed(M, f, g, m)' /\ Copies(r, M, f, g, m)'
  <2>j. PICK j : j = Renamed(m, f, g)
    OBVIOUS
  <2>1. Child(m, j) \notin Items(D) /\ (Child(m, j) = s => m = o) /\ (Child(m, j) # s => m # o)
    <3>1. Child(m, j).do = "child" /\ Child(m, j).id = m
      BY DEF Child
    <3>2. m = o => Child(m, j) = s
      BY <1>3, <2>j
    <3> QED BY <1>5, <1>e, <3>1, <3>2
  <2>2. /\ Waits(L, f, g, m) <=> Child(m, j) \in L
        /\ Waits(M, f, g, m) <=> Child(m, j) \in M
    BY <1>13, <2>j DEF Waits
  <2>3. CopyOwed(M, f, g, m)
    <3> SUFFICES ASSUME NEW x \in M, x.do = "insert", x.id = j
                 PROVE  /\ ~Waits(M, f, g, m)
                        /\ \E w \in RowsOf("nodes", m) : \E t \in Moved : x = CopyRow(t, j, w.kind)
      BY <2>j DEF CopyOwed
    <3>1. CASE x \in Items(D)
      <4>1. m = o
        BY <1>2, <1>6, <1>e, <1>k, <2>j, <3>1
      <4>2. Child(m, j) \notin M
        BY <1>3, <1>10, <1>12, <2>1, <2>j, <4>1
      <4> QED BY <1>8, <1>k, <2>2, <2>j, <3>1, <4>1, <4>2
    <3>2. CASE x \in N1
      <4>1. /\ ~Waits(L, f, g, m)
            /\ \E w \in RowsOf("nodes", m) : \E t \in Moved : x = CopyRow(t, j, w.kind)
        <5>1. x \in L /\ CopyOwed(L, f, g, m)
          BY <1>1, <1>10, <3>2
        <5> QED BY <2>j, <5>1 DEF CopyOwed
      <4> QED BY <1>10, <1>12, <2>1, <2>2, <4>1
    <3> QED BY <1>12, <3>1, <3>2
  <2>4. ASSUME NEW w \in RowsOf("nodes", m), NEW t \in {"nodes", "properties"}
        PROVE  Awaits(M, f, g, t, m, w.kind) <=> Awaits(L, f, g, t, m, w.kind)
    <3>x. PICK x : x = CopyRow(t, j, w.kind)
      OBVIOUS
    <3>0. x.do = "insert" /\ x.id = j
      BY <3>x, CopyRowIs
    <3>1. /\ Awaits(M, f, g, t, m, w.kind) <=> x \in M \/ Child(m, j) \in M
          /\ Awaits(L, f, g, t, m, w.kind) <=> x \in L \/ Child(m, j) \in L
      BY <2>2, <2>j, <3>x DEF Awaits
    <3>2. CASE m = o
      <4>1. w = w0 /\ j = k
        BY <1>7, <1>k, <2>j, <3>2
      <4>2. x \in Items(D)
        BY <1>8, <3>x, <4>1
      <4>3. Child(m, j) \in L
        BY <1>3, <1>10, <2>j, <3>2
      <4> QED BY <1>12, <3>1, <4>2, <4>3
    <3>3. CASE m # o
      <4>1. j # k
        BY <1>2, <1>6, <1>k, <2>j, <3>3
      <4>2. x \notin Items(D) /\ x # s /\ Child(m, j) # s
        BY <1>5, <1>e, <2>1, <3>0, <3>3, <4>1
      <4> QED BY <1>10, <1>12, <2>1, <3>1, <4>2
    <3> QED BY <3>2, <3>3
  <2>5. Copies(r, M, f, g, m)
    BY <1>1, <2>4, CopiesAlike
  <2>6. SameAt(m) /\ SameAt(Renamed(m, f, g)) /\ Renamed(m, f, g) \in Names
    BY <1>2, <1>15
  <2> QED BY <2>3, <2>5, <2>6, CopySame
<1>17. /\ Leads(r, f, g)' /\ OnlyNew(f, g)' /\ NoLinks(f)'
       /\ \A m \in Subtree(f) : Fine(m)' /\ Holds(m)'
  BY <1>1, <1>2, <1>15, JobSame
<1>18. (Subtree(f) \cap Subtree(g) = {})'
  BY <1>1 DEF Subtree, Under
<1> QED BY <1>12, <1>14, <1>16, <1>17, <1>18, <1>L DEF CopyAfter

(* A good request that has begun to copy goes on with it. *)
LEMMA CopyGoesOn ==
  ASSUME Typed, NEW r \in Requests, Works(r), ~(scope'[r] \subseteq unclear'), op[r].do = "copy",
         NEW f \in Names, NEW g \in Names, CopyBefore(r, f, g) \/ CopyAfter(r, f, g)
  PROVE  CopyAfter(r, f, g)'
<1>2. scope'[r] = scope[r]
  BY GoodWorks
<1>4. CASE CopyBefore(r, f, g)
  BY <1>2, <1>4, CopyBegun
<1>5. CASE CopyAfter(r, f, g)
  <2>1. Head1(r).do \in Writes \cup {"children", "child"}
    <3>1. CopyItem(Head1(r), f, g)
      BY <1>5, FirstFirst DEF CopyAfter, CopyList
    <3>2. ASSUME NEW s, CopyItem(s, f, g) PROVE s.do \in {"insert", "children", "child"}
      BY <3>2, CopyItemIs
    <3> QED BY <3>1, <3>2 DEF Writes
  <2>2. CASE Head1(r).do \in Writes
    <3>1. CopyAfter(r, f, g)' \/ (todo'[r] = todo[r] /\ \A m \in scope[r] : SameAt(m))
      BY <1>5, <2>2, CopyWrites
    <3>2. CASE todo'[r] = todo[r] /\ \A m \in scope[r] : SameAt(m)
      BY <1>2, <1>5, <3>2, CopyLasts
    <3> QED BY <3>1, <3>2
  <2>3. CASE Head1(r).do = "children"
    BY <1>2, <1>5, <2>3, CopyFinds
  <2>4. CASE Head1(r).do = "child"
    BY <1>2, <1>5, <2>4, CopyReads
  <2> QED BY <2>1, <2>2, <2>3, <2>4
<1> QED BY <1>4, <1>5

(* A good request that copies stays one. *)
LEMMA CopyWorks ==
  ASSUME Typed, NEW r \in Requests, Works(r), CopyAt(r), ~(scope'[r] \subseteq unclear')
  PROVE  CopyAt(r)'
<1>1. PICK f \in Names, g \in Names : CopyBefore(r, f, g) \/ CopyAfter(r, f, g)
  BY DEF CopyAt
<1>2. op' = op /\ op[r].do = "copy" /\ ~ToNull(op[r])
  BY WorkFacts DEF CopyAt
<1>3. CopyAfter(r, f, g)'
  BY <1>1, <1>2, CopyGoesOn
<1> QED BY <1>2, <1>3 DEF CopyAt, ToNull

-----------------------------------------------------------------------------
(* The end of a job *)

(* A job that has moved all rows leaves nothing under the old names and whole  *)
(* nodes under the new ones.                                                   *)
LEMMA MoveEnds ==
  ASSUME Typed, NEW r \in Requests, NEW f \in Names, NEW g \in Names, MoveAfter(r, f, g), todo[r] = <<>>,
         NEW n \in scope[r]
  PROVE  Fine(n) /\ Holds(n)
<1>1. /\ Leads(r, f, g) /\ OnlyNew(f, g) /\ Items(todo[r]) = {}
      /\ \A m \in Subtree(f) : MoveOwed({}, f, g, m) /\ Moves(m, Renamed(m, f, g)) /\ Carries(f, g, m)
  BY ItemsSmall DEF MoveAfter
<1>2. /\ scope[r] = Subtree(f) \cup Subtree(g) /\ Subtree(g) \subseteq Names
      /\ \A m \in Subtree(f) : Under(m) \subseteq Subtree(f) /\ Renamed(m, f, g) \in Names
      /\ \A k \in Subtree(g) : Under(k) \subseteq Subtree(g)
  BY <1>1, LeadsNames DEF Leads
<1>3. \A m \in Subtree(f) : ~Something(m) /\ \A t \in Moved : Both(t, m, Renamed(m, f, g)) = RowsOf(t, Renamed(m, f, g))
  <2> TAKE m \in Subtree(f)
  <2>1. \A t \in Moved : RowsOf(t, m) = {}
    BY <1>1 DEF MoveOwed, Waits
  <2>2. RowsOf("links", m) = {} /\ file[m] = NoFile
    BY <1>1 DEF Moves
  <2> QED BY <2>1, <2>2 DEF Something, Tabs, Moved, Both
<1>4. ASSUME NEW k \in Subtree(g), Something(k)
      PROVE  \E m \in Subtree(f) : k = Renamed(m, f, g) /\ Sound(k) /\ Both("nodes", m, k) # {}
  <2>1. PICK m \in Subtree(f) : k = Renamed(m, f, g)
    BY <1>1, <1>4 DEF OnlyNew
  <2>2. Moves(m, k) /\ \A t \in Moved : Both(t, m, k) = RowsOf(t, k)
    BY <1>1, <1>3, <2>1
  <2>3. ~((\A t \in Moved : Both(t, m, k) = {}) /\ file[k] = NoFile)
    BY <1>4, <2>2 DEF Moves, Something, Tabs, Moved
  <2>4. PICK w \in Both("nodes", m, k) :
          /\ Both("nodes", m, k) = {w} /\ w.kind \in Kinds \ {"link"}
          /\ Single(Both("properties", m, k))
          /\ file[k] = [kind |-> w.kind, by |-> w.by]
    BY <2>2, <2>3 DEF Moves
  <2>5. Both("nodes", m, k) = RowsOf("nodes", k) /\ Both("properties", m, k) = RowsOf("properties", k)
        /\ RowsOf("links", k) = {}
    BY <2>2 DEF Moved, Moves
  <2>6. Sound(k)
    BY <2>4, <2>5 DEF Sound
  <2> QED BY <2>1, <2>4, <2>6
<1>5. CASE n \in Subtree(f)
  BY <1>2, <1>3, <1>5 DEF Fine, Holds
<1>6. CASE n \in Subtree(g)
  <2>1. Fine(n)
    BY <1>4, <1>6 DEF Fine
  <2>2. ASSUME NEW j \in Under(n), Something(j) PROVE Cont(n)
    <3>1. PICK u \in Subtree(f) : j = Renamed(u, f, g) /\ Both("nodes", u, j) # {}
      BY <1>2, <1>4, <1>6, <2>2
    <3>2. PICK m \in Subtree(f) : n = Renamed(m, f, g) /\ u \in Under(m)
      BY <1>2, <1>6, <2>2, <3>1, RenamedBack
    <3>3. Carries(f, g, m) /\ Moves(m, n) /\ Both("nodes", m, n) = RowsOf("nodes", n)
      BY <1>1, <1>3, <3>2 DEF Moved
    <3>4. PICK w \in RowsOf("nodes", n) : w.kind = "container"
      BY <3>1, <3>2, <3>3 DEF Carries
    <3>5. n \in Names /\ Something(n)
      BY <1>2, <1>6, <3>4 DEF Something, Tabs
    <3>6. Sound(n)
      BY <1>4, <1>6, <3>5
    <3>7. "container" \in GetTypes(n)
      BY <3>4, <3>5, Below DEF GetTypes
    <3> QED BY <3>5, <3>6, <3>7, ContIs
  <2> QED BY <2>1, <2>2 DEF Holds
<1> QED BY <1>2, <1>5, <1>6

(* A job that has inserted all rows has made nodes like those it has copied. *)
LEMMA CopyEnds ==
  ASSUME Typed, NEW r \in Requests, NEW f \in Names, NEW g \in Names, CopyAfter(r, f, g), todo[r] = <<>>,
         NEW n \in scope[r]
  PROVE  Fine(n) /\ Holds(n)
<1>1. /\ Leads(r, f, g) /\ OnlyNew(f, g) /\ Items(todo[r]) = {} /\ NoLinks(f)
      /\ \A m \in Subtree(f) : Fine(m) /\ Holds(m) /\ Copies(r, {}, f, g, m)
  BY ItemsSmall DEF CopyAfter
<1>2. /\ scope[r] = Subtree(f) \cup Subtree(g) /\ Subtree(g) \subseteq Names
      /\ \A m \in Subtree(f) : Renamed(m, f, g) \in Names
      /\ \A k \in Subtree(g) : Under(k) \subseteq Subtree(g)
  BY <1>1, LeadsNames DEF Leads
<1>3. ASSUME NEW k \in Subtree(g), Something(k)
      PROVE  \E m \in Subtree(f) : /\ k = Renamed(m, f, g) /\ Sound(k) /\ RowsOf("nodes", m) # {}
  <2>1. PICK m \in Subtree(f) : k = Renamed(m, f, g)
    BY <1>1, <1>3 DEF OnlyNew
  <2>2. RowsOf("nodes", m) # {} /\ RowsOf("links", k) = {}
    BY <1>1, <1>3, <2>1 DEF Copies
  <2>3. PICK w \in RowsOf("nodes", m) : w.kind \in Kinds /\ w.kind # "link"
    <3>1. Something(m)
      BY <2>2 DEF Something, Tabs
    <3>2. Sound(m)
      BY <1>1, <3>1 DEF Fine
    <3> QED BY <1>1, <3>2 DEF Sound, NoLinks
  <2>4. ~Awaits({}, f, g, "nodes", m, w.kind) /\ ~Awaits({}, f, g, "properties", m, w.kind)
    BY DEF Awaits, Waits
  <2>5. /\ file[k] = Put(r, k, w.kind) /\ Single(RowsOf("properties", k))
        /\ \E v \in RowsOf("nodes", k) : RowsOf("nodes", k) = {v} /\ v.kind = w.kind /\ v.by = r
    BY <1>1, <2>1, <2>4 DEF Copies
  <2>6. Sound(k)
    <3>1. PICK v \in RowsOf("nodes", k) : RowsOf("nodes", k) = {v} /\ v.kind = w.kind /\ v.by = r
      BY <2>5
    <3>2. file[k] = [kind |-> v.kind, by |-> v.by]
      BY <2>5, <3>1 DEF Put
    <3> QED BY <2>2, <2>3, <2>5, <3>1, <3>2 DEF Sound
  <2> QED BY <2>1, <2>2, <2>6
<1>4. CASE n \in Subtree(f)
  BY <1>1, <1>4
<1>5. CASE n \in Subtree(g)
  <2>1. Fine(n)
    BY <1>3, <1>5 DEF Fine
  <2>2. ASSUME NEW j \in Under(n), Something(j) PROVE Cont(n)
    <3>1. PICK u \in Subtree(f) : j = Renamed(u, f, g) /\ RowsOf("nodes", u) # {}
      BY <1>2, <1>3, <1>5, <2>2
    <3>2. PICK m \in Subtree(f) : n = Renamed(m, f, g) /\ u \in Under(m)
      BY <1>2, <1>5, <2>2, <3>1, RenamedBack
    <3>3. m \in Names /\ m # Root /\ n \in Names /\ n # Root
      BY <1>1, <1>2, <1>5, LeadsNames, Below
    <3>4. Cont(m)
      <4>1. Something(u)
        BY <3>1 DEF Something, Tabs
      <4> QED BY <1>1, <3>2, <4>1 DEF Holds
    <3>5. PICK w \in RowsOf("nodes", m) : w.kind = "container"
      BY <3>3, <3>4 DEF Cont, GetTypes
    <3>6. ~Awaits({}, f, g, "nodes", m, w.kind)
      BY DEF Awaits, Waits
    <3>7. PICK v \in RowsOf("nodes", n) : RowsOf("nodes", n) = {v} /\ v.kind = w.kind
      BY <1>1, <3>2, <3>6 DEF Copies
    <3>8. "container" \in GetTypes(n) /\ Something(n)
      BY <3>3, <3>5, <3>7 DEF GetTypes, Something, Tabs
    <3>9. Sound(n)
      BY <1>3, <1>5, <3>8
    <3> QED BY <3>3, <3>8, <3>9, ContIs
  <2> QED BY <2>1, <2>2 DEF Holds
<1> QED BY <1>2, <1>4, <1>5

(* A job leaves its names in order when it has nothing more to do, and when it *)
(* cannot move or copy the bytes.                                              *)
LEMMA JobEnds ==
  ASSUME Typed, NEW r \in Requests, MoveAt(r) \/ CopyAt(r),
         todo[r] = <<>> \/ Head1(r).do \in {"movebytes", "copybytes"}, NEW n \in scope[r]
  PROVE  Fine(n) /\ Holds(n)
<1>1. PICK f \in Names, g \in Names :
        MoveBefore(r, f, g) \/ MoveAfter(r, f, g) \/ CopyBefore(r, f, g) \/ CopyAfter(r, f, g)
  BY DEF MoveAt, CopyAt
<1>2. CASE MoveBefore(r, f, g) \/ CopyBefore(r, f, g)
  BY <1>2 DEF MoveBefore, CopyBefore, JobBefore
<1>3. CASE (MoveAfter(r, f, g) \/ CopyAfter(r, f, g)) /\ todo[r] = <<>>
  BY <1>3, MoveEnds, CopyEnds
<1>4. CASE (MoveAfter(r, f, g) \/ CopyAfter(r, f, g)) /\ todo[r] # <<>>
  <2>1. todo[r] \in Seq(Stmt)
    BY DEF Typed
  <2>2. Head1(r) \in Items(todo[r])
    BY <1>4, <2>1, ItemsTail DEF Head1
  <2>3. MoveItem(Head1(r), f, g) \/ CopyItem(Head1(r), f, g)
    BY <1>4, <2>2 DEF MoveAfter, CopyAfter, MoveList, CopyList
  <2>4. ASSUME NEW s, MoveItem(s, f, g) \/ CopyItem(s, f, g) PROVE s.do \notin {"movebytes", "copybytes"}
    BY <2>4, MoveItemIs, CopyItemIs
  <2> QED BY <1>4, <2>3, <2>4
<1> QED BY <1>1, <1>2, <1>3, <1>4

-----------------------------------------------------------------------------
(* Every request *)

(* Whoever works and stays good is where it should be. *)
LEMMA OwnWork ==
  ASSUME Typed, Orderly, Within, GoodFine, NEW r \in Requests, Works(r), Good(r)'
  PROVE  At(r)'
<1>1. ~(scope'[r] \subseteq unclear')
  BY DEF Good
<1>2. At(r)
  BY <1>1, GoodWorks, WorkFacts DEF GoodFine, Good
<1>3. OverAt(r) => OverAt(r)'
  <2>1. ~(scope[r] \subseteq unclear')
    BY <1>1, GoodWorks
  <2> QED BY <2>1, OverWorks
<1>4. /\ MoveAt(r) => MoveAt(r)'
      /\ CopyAt(r) => CopyAt(r)'
  BY <1>1, MoveWorks, CopyWorks
<1> QED BY <1>1, <1>2, <1>3, <1>4, NewWorks, DelWorks DEF At

-----------------------------------------------------------------------------
(* Deletions that sweep *)

(* Where a deletion sweeps are names of the store. *)
LEMMA SweptNames ==
  ASSUME Typed, Orderly, NEW q \in sweeps
  PROVE  /\ q \in Requests /\ q \in Running /\ op[q].id \in Names
         /\ Subtree(op[q].id) \subseteq Names /\ Subtree(op[q].id) \subseteq scope[q]
         /\ \A m \in Subtree(op[q].id) : Under(m) \subseteq Subtree(op[q].id)
<1>1. q \in Requests /\ op[q] \in Op
  BY OpsAssumption DEF Typed
<1>2. op[q].id \in Names
  BY <1>1 DEF Op
<1>3. q \in Running /\ Subtree(op[q].id) \subseteq scope[q]
  BY <1>1 DEF Orderly, Sweepers, Running
<1> QED BY <1>1, <1>2, <1>3, Below DEF Subtree, Places

(* Nobody else gets in the way of a deletion that sweeps. *)
LEMMA SweepsOthers ==
  ASSUME Typed, Orderly, Within, NEW r \in Requests, Works(r), NEW q \in sweeps, q # r, SweepAt(q)
  PROVE  SweepAt(q)'
<1>n. PICK n : n = op[q].id
  OBVIOUS
<1>1. /\ q \in Requests /\ q \in Running /\ n \in Names
      /\ Subtree(n) \subseteq Names /\ Subtree(n) \subseteq scope[q]
      /\ \A m \in Subtree(n) : Under(m) \subseteq Subtree(n)
  BY <1>n, SweptNames
<1>2. r \in Running /\ op' = op /\ todo'[q] = todo[q] /\ scope[r] \subseteq Names
  BY <1>1, WorkFacts DEF Running, Typed, scope
<1>3. scope[q] \cap scope[r] = {}
  BY <1>1, <1>2 DEF Orderly, Apart, Meeting
<1>4. \A m \in Subtree(n) : SameAt(m)
  <2> TAKE m \in Subtree(n)
  <2>1. m \in Names /\ m \notin scope[r]
    BY <1>1, <1>3
  <2>2. (\A t : RowsOf(t, m)' = RowsOf(t, m)) /\ (file'[m] = file[m] \/ Made(r, m))
    BY <2>1, Frame
  <2>3. ASSUME Made(r, m) PROVE FALSE
    <3>1. PICK k \in scope[r] : IsStrictPrefix(m, k)
      BY <2>3 DEF Made
    <3>2. k \in Under(m)
      BY <1>2, <3>1, Below
    <3> QED BY <1>1, <1>3, <3>2
  <2> QED BY <2>2, <2>3 DEF SameAt
<1>5. \A t, m : Deleting(q, t, m)' <=> Deleting(q, t, m)
  BY <1>2 DEF Deleting
<1>6. \A m \in Subtree(n) : /\ \A t : RowsOf(t, m)' = RowsOf(t, m)
                            /\ file'[m] = file[m]
  BY <1>4 DEF SameAt
<1>7. /\ \A s \in Items(todo[q]) : s.do \in {"delete", "select", "removebytes"}
      /\ \A m \in Subtree(n) :
           /\ \A t \in Tabs : RowsOf(t, m) # {} => Deleting(q, t, m)
           /\ file[m] # NoFile => RemoveBytes(n, TRUE) \in Items(todo[q])
  BY <1>n DEF SweepAt
<1> QED BY <1>n, <1>2, <1>5, <1>6, <1>7 DEF SweepAt, Subtree, Under

(* A deletion that sweeps does so step by step. *)
LEMMA SweepsOwn ==
  ASSUME Typed, Orderly, Within, NEW r \in Requests, Works(r), r \in sweeps', SweepAt(r)
  PROVE  SweepAt(r)'
<1>n. PICK n : n = op[r].id
  OBVIOUS
<1>s. PICK s : s = Head1(r)
  OBVIOUS
<1>L. PICK L : L = Items(todo'[r])
  OBVIOUS
<1>1. /\ r \in sweeps /\ op' = op /\ todo[r] # <<>> /\ todo[r] \in Seq(Stmt) /\ rows \subseteq Rows
      /\ found[r] \in SUBSET Names /\ todo \in [Requests -> Seq(Stmt)]
  <2>1. PICK late, spoilt : Alters(r, late, spoilt)
    BY WorkFacts
  <2> QED BY <2>1, WorkFacts DEF Alters, Typed
<1>2. n \in Names /\ Subtree(n) \subseteq Names
  BY <1>1, <1>n, SweptNames
<1>3. /\ \A x \in Items(todo[r]) : x.do \in {"delete", "select", "removebytes"}
      /\ \A m \in Subtree(n) :
           /\ \A t \in Tabs : RowsOf(t, m) # {} => Deleting(r, t, m)
           /\ file[m] # NoFile => RemoveBytes(n, TRUE) \in Items(todo[r])
  BY <1>n DEF SweepAt
<1>4. Items(todo[r]) = {s} \cup Items(Tail(todo[r])) /\ s \in Items(todo[r])
  BY <1>1, <1>s, ItemsTail DEF Head1
<1>5. ASSUME /\ \A x \in L : x.do \in {"delete", "select", "removebytes"}
             /\ \A m \in Subtree(n) :
                  /\ \A t \in Tabs : RowsOf(t, m)' # {} => \E x \in L : x.do = "delete" /\ x.t = t /\ m \in x.ids
                  /\ file'[m] # NoFile => RemoveBytes(n, TRUE) \in L
      PROVE  SweepAt(r)'
  <2>1. op'[r].id = n
    BY <1>1, <1>n
  <2>2. \A t, m : Deleting(r, t, m)' <=> \E x \in L : x.do = "delete" /\ x.t = t /\ m \in x.ids
    BY <1>L DEF Deleting
  <2>3. \A m \in Subtree(n) :
          /\ \A t \in Tabs : RowsOf(t, m)' # {} => Deleting(r, t, m)'
          /\ file'[m] # NoFile => RemoveBytes(n, TRUE) \in Items(todo'[r])
    <3> TAKE m \in Subtree(n)
    <3>1. ASSUME NEW t \in Tabs, RowsOf(t, m)' # {} PROVE Deleting(r, t, m)'
      <4>1. \E x \in L : x.do = "delete" /\ x.t = t /\ m \in x.ids
        BY <1>5, <3>1
      <4>2. Deleting(r, t, m)' <=> \E x \in L : x.do = "delete" /\ x.t = t /\ m \in x.ids
        BY <2>2
      <4> QED BY <4>1, <4>2
    <3>2. file'[m] # NoFile => RemoveBytes(n, TRUE) \in Items(todo'[r])
      BY <1>5, <1>L
    <3> QED BY <3>1, <3>2
  <2>4. \A x \in Items(todo'[r]) : x.do \in {"delete", "select", "removebytes"}
    BY <1>5, <1>L
  <2> QED BY <2>1, <2>3, <2>4 DEF SweepAt, Subtree, Under
<1>A. \A rest : Advance(r, rest) => todo'[r] = rest
  BY <1>1 DEF Advance
<1>6. CASE s.do = "delete"
  <2>1. Execute(r) \/ Lose(r)
    BY <1>6, <1>s, FirstFirst DEF Writes
  <2>2. /\ file' = file
        /\ \/ /\ \A t, m : RowsOf(t, m)' = RowsNext(s, r, t, m)
              /\ todo'[r] = Tail(todo[r]) \/ todo'[r] = todo[r]
           \/ /\ \A t, m : RowsOf(t, m)' = RowsOf(t, m)
              /\ todo'[r] = todo[r]
    BY <1>s, <2>1, ExecuteDoes
  <2>3. \A t, m : RowsNext(s, r, t, m) = IF s.t = t /\ m \in s.ids THEN {} ELSE RowsOf(t, m)
    BY <1>6, DeleteDoes
  <2>4. \A x \in Items(todo[r]) : x = s \/ x \in L
    BY <1>4, <1>L, <2>2
  <2>5. L \subseteq Items(todo[r])
    BY <1>4, <1>L, <2>2
  <2>6. ASSUME NEW m \in Subtree(n), NEW t \in Tabs, RowsOf(t, m)' # {}
        PROVE  \E x \in L : x.do = "delete" /\ x.t = t /\ m \in x.ids
    <3>1. RowsOf(t, m)' = RowsNext(s, r, t, m) \/ (RowsOf(t, m)' = RowsOf(t, m) /\ todo'[r] = todo[r])
      BY <2>2
    <3>2. RowsOf(t, m) # {} /\ (~(s.t = t /\ m \in s.ids) \/ todo'[r] = todo[r])
      BY <2>3, <2>6, <3>1
    <3>3. PICK x \in Items(todo[r]) : x.do = "delete" /\ x.t = t /\ m \in x.ids
      BY <1>3, <3>2 DEF Deleting
    <3>4. x \in L
      BY <1>L, <2>4, <3>2, <3>3
    <3> QED BY <3>3, <3>4
  <2>7. ASSUME NEW m \in Subtree(n), file'[m] # NoFile PROVE RemoveBytes(n, TRUE) \in L
    <3>1. RemoveBytes(n, TRUE) \in Items(todo[r])
      BY <1>3, <2>2, <2>7
    <3>2. RemoveBytes(n, TRUE).do = "removebytes"
      BY DEF RemoveBytes
    <3> QED BY <1>6, <2>4, <3>1, <3>2
  <2> QED BY <1>3, <1>5, <2>5, <2>6, <2>7
<1>7. CASE s.do = "select"
  <2>k. PICK links : links = found[r] \cup {w.id : w \in {v \in rows : v.t = "links" /\ v.target \in s.ids}}
    OBVIOUS
  <2>1. links \in SUBSET Names
    BY <1>1, <2>k DEF Rows
  <2>2. SelectLinks(r)
    BY <1>7, <1>s, FirstFirst
  <2>3. rows' = rows /\ file' = file
    BY <2>2 DEF SelectLinks, store
  <2>4. todo'[r] = Tail(todo[r]) \/ todo'[r] = LinkDeletes(links) \o Tail(todo[r]) \o LinkRemoves(links)
    <3>1. \/ Advance(r, LinkDeletes(links) \o Tail(todo[r]) \o LinkRemoves(links))
          \/ Advance(r, Tail(todo[r]))
      BY <1>s, <2>2, <2>k, Zenon DEF SelectLinks, LinkDeletes, LinkRemoves
    <3> QED BY <1>A, <3>1
  <2>5. /\ Items(Tail(todo[r])) \subseteq L
        /\ \A x \in L : x \in Items(Tail(todo[r])) \/ x.do \in {"delete", "select", "removebytes"}
    <3>1. CASE todo'[r] = Tail(todo[r])
      BY <1>L, <3>1
    <3>2. CASE todo'[r] = LinkDeletes(links) \o Tail(todo[r]) \o LinkRemoves(links)
      <4>u. PICK d, u, f : d = LinkDeletes(links) /\ u = Tail(todo[r]) /\ f = LinkRemoves(links)
        OBVIOUS
      <4>1. /\ d \in Seq(Stmt) /\ f \in Seq(Stmt)
            /\ \A x \in Items(d) : \E l \in links : x = Select({l}, TRUE) \/ \E t \in TableNames : x = Delete(t, {l})
            /\ \A x \in Items(f) : \E l \in links : x = RemoveBytes(l, FALSE)
        BY <2>1, <4>u, LinkLists
      <4>2. \A x \in Items(d) \cup Items(f) : x.do \in {"delete", "select", "removebytes"}
        BY <4>1 DEF Select, Delete, RemoveBytes
      <4>3. u \in Seq(Stmt)
        BY <1>1, <4>u, Lists
      <4>e. PICK e : e = d \o u
        OBVIOUS
      <4>4. e \in Seq(Stmt)
        BY <4>1, <4>3, <4>e, Lists
      <4>5. Items(e) = Items(d) \cup Items(u)
        BY <4>1, <4>3, <4>e, ItemsConcat
      <4>6. Items(e \o f) = Items(e) \cup Items(f)
        BY <4>1, <4>4, ItemsConcat
      <4>7. L = Items(d) \cup Items(u) \cup Items(f)
        BY <1>L, <3>2, <4>u, <4>e, <4>5, <4>6
      <4> QED BY <4>2, <4>7, <4>u
    <3> QED BY <2>4, <3>1, <3>2
  <2>6. ASSUME NEW m \in Subtree(n), NEW t \in Tabs, RowsOf(t, m)' # {}
        PROVE  \E x \in L : x.do = "delete" /\ x.t = t /\ m \in x.ids
    <3>1. RowsOf(t, m) # {}
      BY <2>3, <2>6 DEF RowsOf
    <3>2. PICK x \in Items(todo[r]) : x.do = "delete" /\ x.t = t /\ m \in x.ids
      BY <1>3, <3>1 DEF Deleting
    <3> QED BY <1>4, <1>7, <2>5, <3>2
  <2>7. ASSUME NEW m \in Subtree(n), file'[m] # NoFile PROVE RemoveBytes(n, TRUE) \in L
    <3>1. RemoveBytes(n, TRUE) \in Items(todo[r])
      BY <1>3, <2>3, <2>7
    <3>2. RemoveBytes(n, TRUE).do = "removebytes"
      BY DEF RemoveBytes
    <3> QED BY <1>4, <1>7, <2>5, <3>1, <3>2
  <2> QED BY <1>3, <1>4, <1>5, <2>5, <2>6, <2>7
<1>8. CASE s.do = "removebytes"
  <2>1. RemoveFiles(r)
    BY <1>8, <1>s, FirstFirst
  <2>2. /\ rows' = rows /\ todo'[r] = Tail(todo[r])
        /\ file' = IF ~s.container /\ \E m \in Under(s.id) : file[m] # NoFile THEN file
                   ELSE [m \in Names |-> IF m \in Subtree(s.id) THEN NoFile ELSE file[m]]
    BY <1>A, <1>s, <2>1 DEF RemoveFiles
  <2>3. L = Items(Tail(todo[r])) /\ file = [m \in Names |-> file[m]]
    BY <1>L, <2>2 DEF Typed
  <2>4. ASSUME NEW m \in Subtree(n), NEW t \in Tabs, RowsOf(t, m)' # {}
        PROVE  \E x \in L : x.do = "delete" /\ x.t = t /\ m \in x.ids
    <3>1. RowsOf(t, m) # {}
      BY <2>2, <2>4 DEF RowsOf
    <3>2. PICK x \in Items(todo[r]) : x.do = "delete" /\ x.t = t /\ m \in x.ids
      BY <1>3, <3>1 DEF Deleting
    <3> QED BY <1>4, <1>8, <2>3, <3>2
  <2>5. ASSUME NEW m \in Subtree(n), file'[m] # NoFile PROVE RemoveBytes(n, TRUE) \in L
    <3>1. m \in Names /\ file[m] # NoFile
      BY <1>2, <2>2, <2>5
    <3>2. RemoveBytes(n, TRUE) \in Items(todo[r])
      BY <1>3, <3>1
    <3>3. s # RemoveBytes(n, TRUE)
      <4>1. RemoveBytes(n, TRUE).container = TRUE /\ RemoveBytes(n, TRUE).id = n
        BY DEF RemoveBytes
      <4> QED BY <2>2, <2>5, <3>1, <4>1
    <3> QED BY <1>4, <2>3, <3>2, <3>3
  <2> QED BY <1>3, <1>4, <1>5, <2>3, <2>4, <2>5
<1> QED BY <1>3, <1>4, <1>6, <1>7, <1>8

(* So do the deletions that sweep, whoever works. *)
LEMMA SweepsWork ==
  ASSUME Typed, Orderly, Within, SweepsFine, NEW r \in Requests, Works(r) PROVE SweepsFine'
<1>1. PICK late, spoilt : Alters(r, late, spoilt)
  BY WorkFacts
<1>2. sweeps' \subseteq sweeps
  BY <1>1 DEF Alters
<1> SUFFICES ASSUME NEW q \in sweeps' PROVE SweepAt(q)'
  BY DEF SweepsFine
<1>3. SweepAt(q)
  BY <1>2 DEF SweepsFine
<1> QED BY <1>2, <1>3, SweepsOthers, SweepsOwn

-----------------------------------------------------------------------------
(* Where the loops of resolveLinks go *)

(* Counting on to h, ... *)
LEMMA CountUp ==
  ASSUME NEW h \in Nat, NEW T \in SUBSET (0..h), 0 \in T, \A k \in 1..h : k - 1 \in T => k \in T
  PROVE  T = 0..h
<1> SUFFICES ASSUME (0..h) \ T # {} PROVE FALSE
  OBVIOUS
<1>1. PICK x \in (0..h) \ T : \A y \in (0..h) \ T : x <= y
  <2>1. (0..h) \ T \subseteq Nat
    OBVIOUS
  <2> QED BY <2>1, Least
<1>2. x \in 1..h /\ x - 1 \in 0..h /\ ~(x <= x - 1)
  BY <1>1
<1> QED BY <1>1, <1>2

(* ... and back from it. *)
LEMMA CountDown ==
  ASSUME NEW h \in Nat, NEW T \in SUBSET (0..h), h \in T, \A k \in 1..h : k \in T => k - 1 \in T
  PROVE  T = 0..h
<1>1. PICK U : U = {j \in 0..h : h - j \in T}
  OBVIOUS
<1>2. U \in SUBSET (0..h) /\ 0 \in U
  BY <1>1
<1>3. ASSUME NEW k \in 1..h, k - 1 \in U PROVE k \in U
  <2>1. h - (k - 1) \in T
    BY <1>1, <1>3
  <2>2. h - (k - 1) \in 1..h /\ (h - (k - 1)) - 1 = h - k /\ k \in 0..h
    OBVIOUS
  <2> QED BY <1>1, <2>1, <2>2
<1>4. U = 0..h
  BY <1>2, <1>3, CountUp
<1>5. ASSUME NEW k \in 0..h PROVE k \in T
  <2>1. h - k \in 0..h /\ h - (h - k) = k
    OBVIOUS
  <2> QED BY <1>1, <1>4, <2>1
<1> QED BY <1>5

(* What names, and the targets of links, are made of. *)
Paths == Seq(Parts \cup {""})

(* The rounds of a loop that begins at n and does not leave S. *)
Closed(S, go) == \A m \in S : go[m] \in S
Turns(S, n, go, h, f) ==
  /\ f[0] = {n}
  /\ \A k \in 1..h : f[k-1] \subseteq S => \A x : x \in f[k] <=> \E m \in f[k-1] : x = go[m]
Turned(S, n, go, h, f) ==
  /\ Turns(S, n, go, h, f) /\ f = [k \in 0..h |-> f[k]]
  /\ \A k \in 0..h : f[k] \subseteq S

(* They exist, ... *)
LEMMA Rounds ==
  ASSUME NEW S, NEW n \in S, NEW go, Closed(S, go), NEW h \in Nat
  PROVE  \E f : Turned(S, n, go, h, f)
<1>0. \A m \in S : go[m] \in S
  BY DEF Closed
<1> DEFINE Ok(j) == \E f : /\ f = [k \in 0..j |-> IF k = 0 THEN {n} ELSE {go[m] : m \in f[k-1]}]
                           /\ \A k \in 0..j : f[k] \subseteq S
           T == {j \in Nat : ~Ok(j)}
<1>1. Ok(0)
  <2> DEFINE f == [k \in 0..0 |-> {n}]
  <2>1. f = [k \in 0..0 |-> IF k = 0 THEN {n} ELSE {go[m] : m \in f[k-1]}]
    BY SMT
  <2>2. \A k \in 0..0 : f[k] \subseteq S
    OBVIOUS
  <2> HIDE DEF f
  <2> QED BY <2>1, <2>2
<1>2. ASSUME NEW j \in Nat, Ok(j) PROVE Ok(j + 1)
  <2>1. PICK f : /\ f = [k \in 0..j |-> IF k = 0 THEN {n} ELSE {go[m] : m \in f[k-1]}]
                 /\ \A k \in 0..j : f[k] \subseteq S
    BY <1>2
  <2> DEFINE more == {go[m] : m \in f[j]}
             e == [k \in 0..(j + 1) |-> IF k = j + 1 THEN more ELSE f[k]]
  <2>2. more \subseteq S
    BY <1>0, <2>1
  <2>3. e[j + 1] = more /\ \A k \in 0..j : e[k] = f[k]
    BY SMT
  <2>4. \A k \in 0..(j + 1) : k \in 0..j \/ k = j + 1
    BY SMT
  <2>5. \A k \in 0..(j + 1) : e[k] \subseteq S
    BY <2>1, <2>2, <2>3, <2>4
  <2>6. \A k \in 0..j : k # 0 => k - 1 \in 0..j
    BY SMT
  <2>7. ASSUME NEW k \in 0..(j + 1)
        PROVE  e[k] = IF k = 0 THEN {n} ELSE {go[m] : m \in e[k-1]}
    <3>1. CASE k = j + 1
      <4>1. k # 0 /\ k - 1 = j /\ j \in 0..j
        BY <3>1, SMT
      <4> HIDE DEF e
      <4> QED BY <2>3, <3>1, <4>1 DEF more
    <3>2. CASE k \in 0..j
      <4>1. f[k] = IF k = 0 THEN {n} ELSE {go[m] : m \in f[k-1]}
        BY <2>1, <3>2
      <4> HIDE DEF e
      <4> QED BY <2>3, <2>6, <3>2, <4>1
    <3> QED BY <2>4, <3>1, <3>2
  <2>8. e = [k \in 0..(j + 1) |-> e[k]]
    OBVIOUS
  <2> HIDE DEF e
  <2>9. e = [k \in 0..(j + 1) |-> IF k = 0 THEN {n} ELSE {go[m] : m \in e[k-1]}]
    BY <2>7, <2>8
  <2> QED BY <2>5, <2>9
<1> HIDE DEF Ok
<1>3. T = {}
  <2> SUFFICES ASSUME T # {} PROVE FALSE
    OBVIOUS
  <2>1. PICK x \in T : \A y \in T : x <= y
    BY Least
  <2>2. x \in Nat /\ x # 0 /\ ~Ok(x)
    BY <1>1
  <2>3. x - 1 \in Nat /\ ~(x <= x - 1) /\ (x - 1) + 1 = x
    BY <2>2, SMT
  <2>4. Ok(x - 1)
    BY <2>1, <2>3
  <2> QED BY <1>2, <2>2, <2>3, <2>4
<1>4. PICK f : /\ f = [k \in 0..h |-> IF k = 0 THEN {n} ELSE {go[m] : m \in f[k-1]}]
               /\ \A k \in 0..h : f[k] \subseteq S
  BY <1>3 DEF Ok
<1>5. f = [k \in 0..h |-> f[k]] /\ f[0] = {n}
  <2>1. 0 \in 0..h
    OBVIOUS
  <2> QED BY <1>4, <2>1
<1>6. ASSUME NEW k \in 1..h PROVE f[k] = {go[m] : m \in f[k-1]}
  <2>1. k \in 0..h /\ k # 0
    OBVIOUS
  <2> QED BY <1>4, <2>1
<1>7. \A k \in 1..h : \A x : x \in f[k] <=> \E m \in f[k-1] : x = go[m]
  BY <1>6
<1>8. Turns(S, n, go, h, f)
  BY <1>5, <1>7, Zenon DEF Turns
<1> QED BY <1>4, <1>5, <1>8, Zenon DEF Turned

(* ... and each of them is at one place. *)
LEMMA RoundsOne ==
  ASSUME NEW S, NEW n \in S, NEW go, Closed(S, go), NEW h \in Nat, NEW f, Turns(S, n, go, h, f)
  PROVE  \E c \in [0..h -> S] : /\ c[0] = n /\ \A k \in 1..h : c[k] = go[c[k-1]]
                                /\ \A k \in 0..h : f[k] = {c[k]}
<1>0. \A m \in S : go[m] \in S
  BY DEF Closed
<1> DEFINE Ok(k) == \E x \in S : f[k] = {x}
           T == {k \in 0..h : ~Ok(k)}
<1>1. ASSUME NEW k \in 1..h, NEW x \in S, f[k - 1] = {x} PROVE f[k] = {go[x]}
  <2>1. PICK A : A = f[k - 1]
    OBVIOUS
  <2>2. A = {x} /\ A \subseteq S /\ \A y : y \in f[k] <=> \E m \in A : y = go[m]
    BY <1>1, <2>1 DEF Turns
  <2> QED BY <2>2
<1>2. T = {}
  <2> SUFFICES ASSUME T # {} PROVE FALSE
    OBVIOUS
  <2>0. T \subseteq Nat
    BY SMT
  <2>1. PICK x \in T : \A y \in T : x <= y
    BY <2>0, Least
  <2>2. x \in 1..h
    <3>1. Ok(0)
      BY DEF Turns
    <3> HIDE DEF Ok
    <3> QED BY <3>1, SMT
  <2> HIDE DEF Ok
  <2>3. x - 1 \in 0..h /\ ~(x <= x - 1)
    BY <2>2, SMT
  <2>4. Ok(x - 1)
    BY <2>1, <2>3
  <2>5. Ok(x)
    BY <1>0, <1>1, <2>2, <2>4 DEF Ok
  <2> QED BY <2>5
<1>3. \A k \in 0..h : \E x \in S : f[k] = {x}
  BY <1>2
<1> DEFINE c == [k \in 0..h |-> CHOOSE x \in S : f[k] = {x}]
<1>4. \A k \in 0..h : c[k] \in S /\ f[k] = {c[k]}
  BY <1>3
<1>5. c \in [0..h -> S]
  BY <1>4
<1> HIDE DEF c
<1>6. c[0] = n
  <2>1. 0 \in 0..h
    OBVIOUS
  <2> QED BY <1>4, <2>1 DEF Turns
<1>7. ASSUME NEW k \in 1..h PROVE c[k] = go[c[k-1]]
  <2>1. k \in 0..h /\ k - 1 \in 0..h
    OBVIOUS
  <2>2. f[k] = {go[c[k-1]]}
    BY <1>1, <1>4, <2>1
  <2> QED BY <1>4, <2>1, <2>2
<1> QED BY <1>4, <1>5, <1>6, <1>7

(* Hops is a number. *)
LEMMA HopsNumber == Hops \in Nat /\ Cardinality(Names) \in Nat
BY NamesAssumption, FS_CardinalityType DEF Hops

(* The rounds of the first loop of resolveLinks. *)
LEMMA HopCourse ==
  ASSUME NEW S, NEW l \in S, \A m \in S : Hop(m) \in S
  PROVE  \E c \in [0..Hops -> S] : /\ c[0] = l /\ \A k \in 1..Hops : c[k] = Hop(c[k-1])
                                   /\ LinkEnd(l) = c[Hops]
<1> DEFINE go == [m \in S |-> Hop(m)]
<1>2. Closed(S, go) /\ \A m \in S : go[m] = Hop(m)
  BY DEF Closed
<1> HIDE DEF go
<1>h. Hops \in Nat
  BY HopsNumber
<1>3. \E f : f = [k \in 0..Hops |-> IF k = 0 THEN {l} ELSE {Hop(m) : m \in f[k-1]}]
  <2>1. PICK f : Turned(S, l, go, Hops, f)
    BY <1>2, <1>h, Rounds
  <2>2. \A k \in 0..Hops : k # 0 => k \in 1..Hops /\ k - 1 \in 0..Hops
    BY <1>h
  <2>3. \A k \in 0..Hops : k # 0 => f[k] = {Hop(m) : m \in f[k-1]}
    <3> TAKE k \in 0..Hops
    <3> HAVE k # 0
    <3>1. PICK A : A = f[k - 1] /\ A \subseteq S
      BY <2>1, <2>2 DEF Turned
    <3>2. \A x : x \in f[k] <=> \E m \in A : x = go[m]
      <4>1. k \in 1..Hops /\ f[k - 1] \subseteq S
        BY <2>2, <3>1
      <4>2. \A x : x \in f[k] <=> \E m \in f[k-1] : x = go[m]
        BY <2>1, <4>1 DEF Turned, Turns
      <4> QED BY <3>1, <4>2
    <3>3. f[k] = {Hop(m) : m \in A}
      BY <1>2, <3>1, <3>2
    <3> QED BY <3>1, <3>3
  <2>4. \A k \in 0..Hops : f[k] = IF k = 0 THEN {l} ELSE {Hop(m) : m \in f[k-1]}
    BY <2>1, <2>3 DEF Turned, Turns
  <2>5. f = [k \in 0..Hops |-> IF k = 0 THEN {l} ELSE {Hop(m) : m \in f[k-1]}]
    BY <2>1, <2>4 DEF Turned
  <2> QED BY <2>5
<1>4. PICK f : /\ f = [k \in 0..Hops |-> IF k = 0 THEN {l} ELSE {Hop(m) : m \in f[k-1]}]
               /\ LinkEnd(l) = CHOOSE m \in f[Hops] : TRUE
  BY <1>3, Zenon DEF LinkEnd, After, Course
<1>5. Turns(S, l, go, Hops, f)
  <2>1. f[0] = {l}
    BY <1>4, <1>h
  <2>2. ASSUME NEW k \in 1..Hops, f[k-1] \subseteq S PROVE \A x : x \in f[k] <=> \E m \in f[k-1] : x = go[m]
    <3>1. k \in 0..Hops /\ k # 0
      BY <1>h
    <3>2. f[k] = {Hop(m) : m \in f[k-1]}
      BY <1>4, <3>1
    <3> QED BY <1>2, <2>2, <3>2
  <2> QED BY <2>1, <2>2 DEF Turns
<1>6. PICK c \in [0..Hops -> S] : /\ c[0] = l /\ \A k \in 1..Hops : c[k] = go[c[k-1]]
                                  /\ \A k \in 0..Hops : f[k] = {c[k]}
  BY <1>2, <1>5, <1>h, RoundsOne
<1>7. ASSUME NEW k \in 1..Hops PROVE c[k] = Hop(c[k-1])
  <2>1. k - 1 \in 0..Hops
    BY <1>h
  <2> QED BY <1>2, <1>6, <2>1
<1>8. LinkEnd(l) = c[Hops]
  <2>1. Hops \in 0..Hops
    BY <1>h
  <2> QED BY <1>4, <1>6, <2>1
<1> QED BY <1>6, <1>7, <1>8

(* And those of the second one: c tells where it is. *)
CourseIs(S, n, c) ==
  /\ c \in [0..Hops -> S] /\ c[0] = n /\ \A k \in 1..Hops : c[k] = Canonical(c[k-1])
  /\ \A k \in 0..Hops : Course(n, Canonical)[k] = {c[k]}
  /\ ResolveLinks(n) = c[Hops]

(* There is such a c. *)
LEMMA CanonicalCourse ==
  ASSUME NEW S, NEW n \in S, \A m \in S : Canonical(m) \in S
  PROVE  \E c : CourseIs(S, n, c)
<1> DEFINE go == [m \in S |-> Canonical(m)]
<1>2. Closed(S, go) /\ \A m \in S : go[m] = Canonical(m)
  BY DEF Closed
<1> HIDE DEF go
<1>h. Hops \in Nat
  BY HopsNumber
<1>3. \E f : f = [k \in 0..Hops |-> IF k = 0 THEN {n} ELSE {Canonical(m) : m \in f[k-1]}]
  <2>1. PICK f : Turned(S, n, go, Hops, f)
    BY <1>2, <1>h, Rounds
  <2>2. \A k \in 0..Hops : k # 0 => k \in 1..Hops /\ k - 1 \in 0..Hops
    BY <1>h
  <2>3. \A k \in 0..Hops : k # 0 => f[k] = {Canonical(m) : m \in f[k-1]}
    <3> TAKE k \in 0..Hops
    <3> HAVE k # 0
    <3>1. PICK A : A = f[k - 1] /\ A \subseteq S
      BY <2>1, <2>2 DEF Turned
    <3>2. \A x : x \in f[k] <=> \E m \in A : x = go[m]
      <4>1. k \in 1..Hops /\ f[k - 1] \subseteq S
        BY <2>2, <3>1
      <4>2. \A x : x \in f[k] <=> \E m \in f[k-1] : x = go[m]
        BY <2>1, <4>1 DEF Turned, Turns
      <4> QED BY <3>1, <4>2
    <3>3. f[k] = {Canonical(m) : m \in A}
      BY <1>2, <3>1, <3>2
    <3> QED BY <3>1, <3>3
  <2>4. \A k \in 0..Hops : f[k] = IF k = 0 THEN {n} ELSE {Canonical(m) : m \in f[k-1]}
    BY <2>1, <2>3 DEF Turned, Turns
  <2>5. f = [k \in 0..Hops |-> IF k = 0 THEN {n} ELSE {Canonical(m) : m \in f[k-1]}]
    BY <2>1, <2>4 DEF Turned
  <2> QED BY <2>5
<1>4. PICK f : /\ f = [k \in 0..Hops |-> IF k = 0 THEN {n} ELSE {Canonical(m) : m \in f[k-1]}]
               /\ f = Course(n, Canonical)
  BY <1>3, Zenon DEF Course
<1>5. Turns(S, n, go, Hops, f)
  <2>1. f[0] = {n}
    BY <1>4, <1>h
  <2>2. ASSUME NEW k \in 1..Hops, f[k-1] \subseteq S PROVE \A x : x \in f[k] <=> \E m \in f[k-1] : x = go[m]
    <3>1. k \in 0..Hops /\ k # 0
      BY <1>h
    <3>2. f[k] = {Canonical(m) : m \in f[k-1]}
      BY <1>4, <3>1
    <3> QED BY <1>2, <2>2, <3>2
  <2> QED BY <2>1, <2>2 DEF Turns
<1>6. PICK c \in [0..Hops -> S] : /\ c[0] = n /\ \A k \in 1..Hops : c[k] = go[c[k-1]]
                                  /\ \A k \in 0..Hops : f[k] = {c[k]}
  BY <1>2, <1>5, <1>h, RoundsOne
<1>7. ASSUME NEW k \in 1..Hops PROVE c[k] = Canonical(c[k-1])
  <2>1. k - 1 \in 0..Hops
    BY <1>h
  <2> QED BY <1>2, <1>6, <2>1
<1>8. ResolveLinks(n) = c[Hops]
  <2>1. Hops \in 0..Hops
    BY <1>h
  <2>2. ResolveLinks(n) = CHOOSE m \in f[Hops] : TRUE
    BY <1>4, Zenon DEF ResolveLinks, After
  <2> QED BY <1>6, <2>1, <2>2
<1>9. \A k \in 0..Hops : Course(n, Canonical)[k] = {c[k]}
  BY <1>4, <1>6
<1> QED BY <1>6, <1>7, <1>8, <1>9, Zenon DEF CourseIs

(* A chain of links ends at a name, or at what is none. *)
LEMMA EndsThere ==
  ASSUME Typed, NEW l \in Paths PROVE LinkEnd(l) \in Paths
<1>1. ASSUME NEW m \in Paths PROVE Hop(m) \in Paths
  <2>1. CASE ~IsLink(m) \/ RowsOf("links", m) = {}
    <3>1. NoTarget \in Paths
      <4>1. "" \in Parts \cup {""}
        OBVIOUS
      <4> QED BY <4>1, ListsOf DEF NoTarget, Paths
    <3> QED BY <2>1, <3>1 DEF Hop, GetTarget
  <2>2. CASE RowsOf("links", m) # {}
    <3>1. PICK w \in RowsOf("links", m) : GetTarget(m) = w.target
      <4>1. GetTarget(m) \in {w.target : w \in RowsOf("links", m)}
        BY <2>2 DEF GetTarget
      <4> QED BY <4>1
    <3>2. w.target \in Targets
      BY DEF Typed, Rows, RowsOf
    <3>3. Names \subseteq Paths /\ NoName \in Paths /\ NoTarget \in Paths
      <4>1. Names \subseteq Seq(Parts)
        BY NamesAssumption
      <4>2. Seq(Parts) \subseteq Seq(Parts \cup {""})
        <5> SUFFICES ASSUME NEW s \in Seq(Parts) PROVE s \in Seq(Parts \cup {""})
          OBVIOUS
        <5>1. Len(s) \in Nat /\ s \in [1..Len(s) -> Parts \cup {""}]
          BY LenProperties
        <5> QED BY SeqMonotonic
      <4>3. NoName \in Seq(Parts \cup {""}) /\ NoTarget \in Seq(Parts \cup {""})
        <5>1. "" \in Parts \cup {""}
          OBVIOUS
        <5> QED BY <5>1, ListsOf DEF NoName, NoTarget
      <4> QED BY <4>1, <4>2, <4>3 DEF Paths
    <3> QED BY <3>1, <3>2, <3>3 DEF Hop, Targets
  <2> QED BY <2>1, <2>2
<1>2. PICK c \in [0..Hops -> Paths] : LinkEnd(l) = c[Hops]
  BY <1>1, HopCourse
<1>3. Hops \in 0..Hops
  BY HopsNumber
<1> QED BY <1>2, <1>3

(* A part of a sequence. *)
LEMMA Piece ==
  ASSUME NEW X, NEW s \in Seq(X), NEW a \in Nat \ {0}, NEW b \in 0..Len(s)
  PROVE  SubSeq(s, a, b) \in Seq(X) /\ Len(SubSeq(s, a, b)) = IF a <= b THEN b - a + 1 ELSE 0
<1>1. PICK h : h = Len(s) /\ h \in Nat
  BY LenProperties
<1>2. \A j \in 1..h : s[j] \in X
  BY <1>1, ElementOfSeq
<1>3. a \in Int /\ b \in Int
  BY <1>1
<1>4. \A j \in a..b : j \in 1..h
  <2>1. a >= 1 /\ b <= h
    BY <1>1
  <2> QED BY <1>1, <1>3, <2>1
<1>5. \A j \in a..b : s[j] \in X
  BY <1>2, <1>4, Zenon
<1> QED BY <1>3, <1>5, SubSeqProperties

(* What is left of a name where the nodes that are there end. *)
LEMMA AnchorIs ==
  ASSUME NEW n \in Paths, n # Root
  PROVE  /\ Anchor(n) \in Paths /\ Len(Anchor(n)) \in 0..(Len(n) - 1)
         /\ SubSeq(n, Len(Anchor(n)) + 1, Len(n)) \in Paths
         /\ SubSeq(n, Len(Anchor(n)) + 1, Len(n)) # Root
         /\ Len(SubSeq(n, Len(Anchor(n)) + 1, Len(n))) = Len(n) - Len(Anchor(n))
         /\ Anchor(n) = SubSeq(n, 1, Len(Anchor(n)))
         /\ \A j \in (Len(Anchor(n)) + 1)..(Len(n) - 1) : ~IsStored(SubSeq(n, 1, j))
<1>1. Len(n) \in Nat \ {0}
  BY EmptySeq DEF Paths, Root
<1> DEFINE Best(i) == /\ IsStored(SubSeq(n, 1, i))
                      /\ \A j \in (i + 1)..(Len(n) - 1) : ~IsStored(SubSeq(n, 1, j))
           T == {j \in 0..(Len(n) - 1) : IsStored(SubSeq(n, 1, Len(n) - 1 - j))}
<1>2. \E i \in 0..(Len(n) - 1) : Best(i)
  <2>1. SubSeq(n, 1, 0) = Root
    BY SubSeqEmpty DEF Root
  <2>2. Len(n) - 1 \in T
    BY <1>1, <2>1 DEF IsStored
  <2>3. PICK x \in T : \A y \in T : x <= y
    <3>1. T \subseteq Nat
      BY <1>1
    <3> HIDE DEF T
    <3> QED BY <2>2, <3>1, Least
  <2>4. PICK i : i = Len(n) - 1 - x
    OBVIOUS
  <2>5. i \in 0..(Len(n) - 1) /\ IsStored(SubSeq(n, 1, i))
    BY <1>1, <2>3, <2>4
  <2>6. ASSUME NEW j \in (i + 1)..(Len(n) - 1) PROVE ~IsStored(SubSeq(n, 1, j))
    <3>1. PICK y : y = Len(n) - 1 - j
      OBVIOUS
    <3>2. y \in 0..(Len(n) - 1) /\ ~(x <= y) /\ j = Len(n) - 1 - y
      BY <1>1, <2>3, <2>4, <2>5, <3>1
    <3>3. y \notin T
      BY <2>3, <3>2
    <3> QED BY <3>2, <3>3
  <2> QED BY <2>5, <2>6
<1>3. PICK i \in 0..(Len(n) - 1) : Anchor(n) = SubSeq(n, 1, i) /\ Best(i)
  <2>1. PICK i : i = CHOOSE j \in 0..(Len(n) - 1) : Best(j)
    OBVIOUS
  <2>2. i \in 0..(Len(n) - 1)
    BY <1>2, <2>1
  <2>3. Anchor(n) = SubSeq(n, 1, i)
    BY <2>1 DEF Anchor
  <2>4. Best(i)
    <3> HIDE DEF Best
    <3> QED BY <1>2, <2>1
  <2> QED BY <2>2, <2>3, <2>4
<1>x. PICK X : Paths = Seq(X)
  BY DEF Paths
<1>4. Anchor(n) \in Paths /\ Len(Anchor(n)) = i
  <2>1. i \in 0..Len(n) /\ (IF 1 <= i THEN i - 1 + 1 ELSE 0) = i
    BY <1>1, <1>3
  <2>2. SubSeq(n, 1, i) \in Seq(X) /\ Len(SubSeq(n, 1, i)) = IF 1 <= i THEN i - 1 + 1 ELSE 0
    <3>1. n \in Seq(X) /\ 1 \in Nat \ {0}
      BY <1>x
    <3> QED BY <2>1, <3>1, Piece, Zenon
  <2> QED BY <1>3, <1>x, <2>1, <2>2
<1>5. /\ SubSeq(n, i + 1, Len(n)) \in Paths
      /\ Len(SubSeq(n, i + 1, Len(n))) = Len(n) - i
  <2>k. PICK a, b : a = i + 1 /\ b = Len(n)
    OBVIOUS
  <2>1. a \in Nat \ {0} /\ b \in 0..Len(n) /\ (IF a <= b THEN b - a + 1 ELSE 0) = Len(n) - i
    BY <1>1, <1>3, <2>k
  <2>2. SubSeq(n, a, b) \in Seq(X) /\ Len(SubSeq(n, a, b)) = IF a <= b THEN b - a + 1 ELSE 0
    <3>1. n \in Seq(X)
      BY <1>x, Zenon
    <3> QED BY <2>1, <3>1, Piece, Zenon
  <2> QED BY <2>1, <2>2, <2>k, <1>x
<1>6. SubSeq(n, i + 1, Len(n)) # Root
  <2>1. Len(Root) = 0
    BY EmptySeq DEF Root
  <2>2. Len(n) - i # 0
    BY <1>1, <1>3
  <2>3. PICK s : s = SubSeq(n, i + 1, Len(n))
    OBVIOUS
  <2> QED BY <1>5, <2>1, <2>2, <2>3, Zenon
<1> QED BY <1>1, <1>3, <1>4, <1>5, <1>6, Zenon

(* A name is resolved to a name: what is below the last node that is there is  *)
(* kept, and so it is never the root.                                          *)
LEMMA CanonicalStays ==
  ASSUME Typed, NEW m \in Paths \ {Root} PROVE Canonical(m) \in Paths \ {Root}
<1>1. CASE ~OverLink(m)
  BY <1>1 DEF Canonical
<1>2. CASE OverLink(m)
  <2>1. PICK a, b, c : a = Anchor(m) /\ b = LinkEnd(Anchor(m)) /\ c = SubSeq(m, Len(Anchor(m)) + 1, Len(m))
    OBVIOUS
  <2>2. b \in Paths /\ c \in Paths /\ c # Root
    BY <2>1, AnchorIs, EndsThere
  <2>3. Canonical(m) = b \o c
    BY <1>2, <2>1 DEF Canonical, Renamed
  <2>4. b \o c \in Paths /\ b \o c # Root
    <3>1. PICK X : Paths = Seq(X)
      BY DEF Paths
    <3>2. b \in Seq(X) /\ c \in Seq(X) /\ c # <<>>
      BY <2>2, <3>1 DEF Root
    <3>3. b \o c \in Seq(X) /\ b \o c # <<>>
      BY <3>2, ConcatProperties, ConcatEqualIffEmpty
    <3> QED BY <3>1, <3>3 DEF Root
  <2> QED BY <2>3, <2>4
<1> QED BY <1>1, <1>2

(* Names are made of what paths are made of. *)
LEMMA NamesPaths == ASSUME NEW n \in Names PROVE n \in Paths \ {Root}
<1>1. n \in Seq(Parts) /\ n # Root
  BY NamesAssumption DEF Root
<1>2. n \in Seq(Parts \cup {""})
  BY <1>1, SeqMonotonic
<1> QED BY <1>1, <1>2 DEF Paths

(* So is the end of the second loop. *)
LEMMA ResolvesBelow ==
  ASSUME Typed, NEW n \in Names PROVE ResolveLinks(n) # Root
<1>1. PICK S : S = Paths \ {Root}
  OBVIOUS
<1>2. n \in S /\ \A m \in S : Canonical(m) \in S
  BY <1>1, NamesPaths, CanonicalStays
<1>3. PICK c : CourseIs(S, n, c)
  BY <1>2, CanonicalCourse
<1>4. c \in [0..Hops -> S] /\ ResolveLinks(n) = c[Hops]
  BY <1>3, Zenon DEF CourseIs
<1>5. Hops \in 0..Hops
  BY HopsNumber
<1> QED BY <1>1, <1>4, <1>5

(* There are no more parts to a name than there are names. *)
LEMMA NameLength == ASSUME NEW n \in Names PROVE Len(n) <= Cardinality(Names)
<1>n. \A m \in Names : m \in Seq(Parts) /\ Len(m) \in Nat \ {0}
  <2> TAKE m \in Names
  <2>1. m \in Seq(Parts) /\ m # <<>>
    BY NamesAssumption
  <2> QED BY <2>1, EmptySeq
<1>h. PICK h : h = Len(n) - 1
  OBVIOUS
<1>1. h \in Nat /\ Len(n) = h + 1
  BY <1>h, <1>n
<1>2. \A k \in 0..h : \E m \in Names : Len(m) = k + 1
  <2>1. PICK T : T = {k \in 0..h : \E m \in Names : Len(m) = k + 1}
    OBVIOUS
  <2>2. T \in SUBSET (0..h) /\ h \in T
    BY <1>1, <2>1
  <2>3. ASSUME NEW k \in 1..h, k \in T PROVE k - 1 \in T
    <3>1. PICK m \in Names : Len(m) = k + 1
      BY <2>1, <2>3
    <3>2. m \in Seq(Parts) /\ Len(m) > 1
      BY <1>n, <3>1
    <3>3. Front(m) \in Names
      BY <3>2, NamesAssumption
    <3>4. Front(m) = SubSeq(m, 1, Len(m) - 1)
      BY DEF Front
    <3>5. Len(SubSeq(m, 1, k)) = k
      <4>1. 1 \in Nat \ {0} /\ k \in 0..Len(m) /\ (IF 1 <= k THEN k - 1 + 1 ELSE 0) = k
        BY <3>1
      <4>2. Len(SubSeq(m, 1, k)) = IF 1 <= k THEN k - 1 + 1 ELSE 0
        BY <3>2, <4>1, Piece
      <4> QED BY <4>1, <4>2
    <3>6. Len(m) - 1 = k /\ (k - 1) + 1 = k /\ k - 1 \in 0..h
      BY <1>1, <3>1
    <3>7. \E w \in Names : Len(w) = (k - 1) + 1
      BY <3>3, <3>4, <3>5, <3>6
    <3> QED BY <2>1, <3>6, <3>7
  <2>4. T = 0..h
    BY <1>1, <2>2, <2>3, CountDown
  <2> QED BY <2>1, <2>4
<1>3. PICK f \in [0..h -> Names] : \A k \in 0..h : Len(f[k]) = k + 1
  <2> DEFINE f == [k \in 0..h |-> CHOOSE m \in Names : Len(m) = k + 1]
  <2>1. \A k \in 0..h : f[k] \in Names /\ Len(f[k]) = k + 1
    BY <1>2
  <2>2. f \in [0..h -> Names]
    BY <2>1
  <2> HIDE DEF f
  <2> QED BY <2>1, <2>2
<1> SUFFICES ASSUME ~(Len(n) <= Cardinality(Names)) PROVE FALSE
  OBVIOUS
<1>4. IsFiniteSet(0..h) /\ Cardinality(0..h) = h + 1
  BY <1>1, FS_Interval
<1>5. IsFiniteSet(Names) /\ Cardinality(Names) < h + 1
  BY <1>1, NamesAssumption, HopsNumber
<1>6. PICK x, y \in 0..h : x # y /\ f[x] = f[y]
  BY <1>4, <1>5, FS_PigeonHole
<1> QED BY <1>1, <1>3, <1>6

(* Who is unclear is blurred, and so are the links that lead to who is. *)
LEMMA BlurredHas ==
  ASSUME Typed
  PROVE  /\ unclear \subseteq Blurred /\ Blurred \subseteq Names
         /\ \A m \in Names : LinkRow(m) \in Blurred => m \in Blurred
<1>g. PICK goes : goes = [n \in Names |-> LinkRow(n)]
  OBVIOUS
<1>w. PICK W : W = WithLinks(unclear, LinkRow)
  OBVIOUS
<1>1. W = Reach(unclear, goes)
  BY <1>g, <1>w DEF WithLinks, Reach
<1>2. Reach(unclear, goes) \subseteq Names
  BY LinksLeast
<1>3. \A m \in Names : m \in unclear \/ goes[m] \in unclear \cup Reach(unclear, goes)
                         => m \in Reach(unclear, goes)
  BY LinksLeast
<1>4. unclear \subseteq Names
  BY DEF Typed
<1>5. W = Blurred
  BY <1>w, Zenon DEF Blurred
<1>6. unclear \subseteq W /\ W \subseteq Names /\ \A m \in Names : LinkRow(m) \in W => m \in W
  BY <1>1, <1>2, <1>3, <1>4, <1>g
<1> QED BY <1>5, <1>6
=============================================================================
