--------------------------- MODULE NodeStore_safety ---------------------------
(***************************************************************************)
(* Proofs that NodeStore keeps the rows and files of its nodes together,   *)
(* that each operation takes effect as one step of a tree of nodes, and    *)
(* that resolveLinks returns, for any names, requests, trees and losses.   *)
(***************************************************************************)
EXTENDS NodeStore_proofs

-----------------------------------------------------------------------------
(* The end of a request *)

(* A good request leaves its names in order when it has nothing more to do. *)
LEMMA AtEnds ==
  ASSUME Typed, NEW r \in Requests, At(r), todo[r] = <<>>, NEW n \in scope[r]
  PROVE  Fine(n) /\ Holds(n)
<1>1. Items(todo[r]) = {} /\ op[r] \in Op /\ n \in Names
  BY ItemsSmall, OpsAssumption DEF Typed, scope
<1>2. CASE NewAt(r)
  <2>k. PICK k, kind : k = op[r].id /\ kind = op[r].kind
    OBVIOUS
  <2>1. /\ k \in Names /\ kind \in Kinds
        /\ scope[r] = Subtree(k) /\ \A m \in Under(k) : ~Something(m)
    BY <1>1, <1>2, <2>k DEF NewAt, Op
  <2>2. /\ \E w \in RowsOf("nodes", k) : RowsOf("nodes", k) = {w} /\ w.kind = kind /\ w.by = r
        /\ Single(RowsOf("properties", k))
        /\ IF kind = "link" THEN Single(RowsOf("links", k)) ELSE RowsOf("links", k) = {}
        /\ file[k] = Put(r, k, kind)
    BY <1>1, <1>2, <2>k DEF NewAt
  <2>3. Sound(k)
    <3>1. PICK w \in RowsOf("nodes", k) : RowsOf("nodes", k) = {w} /\ w.kind = kind /\ w.by = r
      BY <2>2
    <3>2. file[k] = [kind |-> w.kind, by |-> w.by]
      BY <2>2, <3>1 DEF Put
    <3> QED BY <2>1, <2>2, <3>1, <3>2 DEF Sound
  <2>4. Under(n) \subseteq Under(k) /\ (n = k \/ n \in Under(k))
    BY <2>1, Below DEF Subtree, Places
  <2> QED BY <2>1, <2>3, <2>4 DEF Fine, Holds
<1>3. CASE OverAt(r)
  BY <1>3 DEF OverAt, Fine
<1>4. CASE DelAt(r)
  <2>1. found[r] = {} /\ PendSel(r) = {}
    BY <1>1, <1>4 DEF DelAt, PendSel
  <2>2. Catches(r, {})
    BY <2>1 DEF Catches, LeadsTo
  <2>3. \A m \in scope[r] : ~Expected(r, m)
    BY <2>2 DEF Expected
  <2>4. \A m \in scope[r] : ~Something(m)
    <3> TAKE m \in scope[r]
    <3>1. Going(r, m)
      BY <1>4, <2>3 DEF DelAt
    <3> QED BY <1>1, <3>1 DEF Going, Deleting, Removing, Something
  <2>5. Under(n) \subseteq scope[r]
    BY <1>4 DEF DelAt
  <2> QED BY <2>4, <2>5 DEF Fine, Holds
<1>5. CASE MoveAt(r) \/ CopyAt(r)
  BY <1>5, JobEnds
<1> QED BY <1>2, <1>3, <1>4, <1>5 DEF At

(* What a sweeping deletion leaves is nothing. *)
LEMMA SweepEnds ==
  ASSUME Typed, Orderly, NEW r \in sweeps, SweepAt(r), todo[r] = <<>>, NEW n \in Subtree(op[r].id)
  PROVE  Fine(n) /\ Holds(n)
<1>1. Items(todo[r]) = {} /\ Under(n) \subseteq Subtree(op[r].id)
  BY ItemsSmall, SweptNames
<1>2. \A m \in Subtree(op[r].id) : ~Something(m)
  BY <1>1 DEF SweepAt, Deleting, Something
<1> QED BY <1>1, <1>2 DEF Fine, Holds

(* What is said of names and requests does not change while the store and what *)
(* requests have still to do stay as they are.                                 *)
LEMMA AllStays ==
  ASSUME Typed, rows' = rows, file' = file
  PROVE  /\ \A m : SameAt(m)
         /\ \A m \in Names : /\ Cont(m)' <=> Cont(m)
                             /\ Fine(m)' <=> Fine(m)
                             /\ Holds(m)' <=> Holds(m)
<1>1. \A m : SameAt(m)
  BY DEF SameAt, RowsOf
<1>2. \A m \in Names : /\ Cont(m)' <=> Cont(m)
                       /\ Fine(m)' <=> Fine(m)
                       /\ Something(m)' <=> Something(m)
  BY <1>1, SameMeans
<1>3. \A m \in Names : Holds(m)' <=> Holds(m)
  <2> TAKE m \in Names
  <2>1. Under(m) \subseteq Names
    BY Below
  <2> QED BY <1>2, <2>1 DEF Holds, Under
<1> QED BY <1>1, <1>2, <1>3

(* A request stays as far as it is when nothing of it is changed. *)
LEMMA RequestStays ==
  ASSUME Typed, Within, rows' = rows, file' = file, op' = op,
         NEW q \in Requests, pc[q] = "run", todo'[q] = todo[q], found'[q] = found[q], scope'[q] = scope[q]
  PROVE  /\ At(q) => At(q)'
         /\ SweepAt(q) => SweepAt(q)'
<1>1. \A m : SameAt(m)
  BY AllStays
<1>2. OverAt(q) => OverAt(q)'
  <2> SUFFICES ASSUME OverAt(q) PROVE OverAt(q)'
    OBVIOUS
  <2>1. PICK n : n = op[q].id
    OBVIOUS
  <2>2. op[q] \in Op
    BY OpsAssumption DEF Typed
  <2>3. n \in Names /\ Holds(n)
    BY <2>1, <2>2 DEF OverAt, Op
  <2>4. Holds(n)'
    BY <2>3, AllStays
  <2>5. Holds(op[q].id)'
    BY <2>1, <2>4
  <2> QED BY <1>1, <2>5, OverStays
<1>3. NewAt(q) => NewAt(q)'
  BY <1>1, NewStays
<1>4. DelAt(q) => DelAt(q)'
  BY <1>1, DelStays
<1>j. /\ MoveAt(q) => MoveAt(q)'
      /\ CopyAt(q) => CopyAt(q)'
  BY <1>1, JobStays
<1>5. SweepAt(q) => SweepAt(q)'
  <2>1. (\A t, m : RowsOf(t, m)' = RowsOf(t, m)) /\ \A t, m : Deleting(q, t, m)' <=> Deleting(q, t, m)
    BY DEF RowsOf, Deleting
  <2> QED BY <2>1 DEF SweepAt, Subtree, Under
<1> QED BY <1>2, <1>3, <1>4, <1>j, <1>5 DEF At

(* The end of a request leaves everything in order. *)
LEMMA SafeEnd ==
  ASSUME Typed, Orderly, Within, Hung, CalmFine, GoodFine, SweepsFine, NEW r \in Requests, Ends(r)
  PROVE  Hung' /\ CalmFine' /\ GoodFine' /\ SweepsFine'
<1>1. /\ pc[r] = "run" /\ pc'[r] # "run" /\ (\A q \in Requests : q # r => pc'[q] = pc[q])
      /\ rows' = rows /\ file' = file /\ op' = op
      /\ \A q \in Requests : q # r =>
           /\ todo'[q] = todo[q] /\ found'[q] = found[q] /\ scope'[q] = scope[q]
      /\ sweeps' = sweeps \ {r}
  BY EndFacts
<1>2. \/ Return(r) /\ unclear' = unclear /\ r \notin sweeps
      \/ Fail(r) /\ unclear' = unclear \cup scope[r]
      \/ Unmoved(r) /\ unclear' = unclear
      \/ Return(r) /\ r \in sweeps /\ unclear' = unclear \ Subtree(op[r].id)
  BY EndFacts
<1>3. r \in Running /\ Running' = Running \ {r} /\ Running \subseteq Requests /\ \A q \in Running : pc[q] = "run"
  BY <1>1 DEF Running
<1>4. \A m \in Names : /\ Cont(m)' <=> Cont(m)
                       /\ Fine(m)' <=> Fine(m)
                       /\ Holds(m)' <=> Holds(m)
  BY <1>1, AllStays
<1>5. Good(r) /\ Unmoved(r) => \A n \in scope[r] : Fine(n) /\ Holds(n)
  <2> SUFFICES ASSUME Good(r), Unmoved(r), NEW n \in scope[r] PROVE Fine(n) /\ Holds(n)
    OBVIOUS
  <2>1. todo[r] # <<>> /\ Head1(r).do \in {"movebytes", "copybytes"} /\ todo[r] \in Seq(Stmt)
    BY DEF Unmoved, Doing, Typed
  <2>2. Head1(r) \in Items(todo[r]) /\ (Followed(todo[r]) => Head1(r).do \in {"delete", "select", "removebytes"})
    BY <2>1, ItemsTail DEF Head1
  <2>3. At(r)
    BY DEF GoodFine
  <2>4. ~DelAt(r)
    BY <2>1, <2>2 DEF DelAt
  <2>5. ~OverAt(r)
    BY <2>1, <2>2 DEF OverAt
  <2>6. ~NewAt(r)
    <3>1. \A k, u : Make(k, u).do = "make"
      BY DEF Make
    <3> QED BY <2>1, <2>2, <3>1 DEF NewAt
  <2>7. MoveAt(r) \/ CopyAt(r)
    BY <2>3, <2>4, <2>5, <2>6 DEF At
  <2> QED BY <2>1, <2>7, JobEnds
<1>6. \A n \in scope[r] \ unclear : Return(r) => Fine(n) /\ Holds(n)
  <2> SUFFICES ASSUME NEW n \in scope[r], n \notin unclear, Return(r) PROVE Fine(n) /\ Holds(n)
    OBVIOUS
  <2>1. Good(r) /\ todo[r] = <<>>
    BY <1>1 DEF Good, Return
  <2> QED BY <2>1, AtEnds DEF GoodFine
<1>7. r \in sweeps /\ Return(r) => \A n \in Subtree(op[r].id) : Fine(n) /\ Holds(n)
  BY SweepEnds DEF SweepsFine, Return
<1>8. CalmFine'
  <2> SUFFICES ASSUME NEW n \in Calm' PROVE Fine(n)' /\ Holds(n)'
    BY DEF CalmFine
  <2>1. n \in Names /\ n \notin unclear' /\ \A q \in Running \ {r} : n \notin scope[q]
    BY <1>1, <1>3 DEF Calm, Busy
  <2>2. n \in scope[r] \/ n \in unclear \/ n \in Calm
    BY <1>3, <2>1 DEF Calm, Busy
  <2>3. CASE n \in Calm
    BY <1>4, <2>1, <2>3 DEF CalmFine
  <2>4. CASE n \in scope[r] \ unclear
    <3>1. Good(r)
      BY <1>1, <2>4 DEF Good
    <3>2. Return(r) \/ Unmoved(r)
      BY <1>2, <2>1, <2>4
    <3> QED BY <1>4, <1>5, <1>6, <2>1, <2>4, <3>1, <3>2
  <2>5. CASE n \in unclear
    <3>1. Return(r) /\ r \in sweeps /\ n \in Subtree(op[r].id)
      BY <1>2, <2>1, <2>5
    <3> QED BY <1>4, <1>7, <2>1, <3>1
  <2> QED BY <2>2, <2>3, <2>4, <2>5
<1>9. \A q \in Running \ {r} : r \in sweeps => scope[q] \cap Subtree(op[r].id) = {}
  <2>1. \A q \in Running \ {r} : r \in sweeps => scope[q] \cap scope[r] = {}
    BY <1>3 DEF Orderly, Apart, Meeting
  <2> QED BY <2>1, SweptNames
<1>10. Hung'
  <2> SUFFICES ASSUME NEW q \in Running \ {r}, NEW k \in scope[q], NEW m \in Names,
                      m \notin scope[q], m \notin unclear', k \in Under(m)
               PROVE  Cont(m)'
    BY <1>1, <1>3 DEF Hung, Under
  <2>1. CASE m \notin unclear
    BY <1>4, <2>1 DEF Hung
  <2>2. CASE m \in unclear
    <3>1. r \in sweeps /\ m \in Subtree(op[r].id)
      BY <1>2, <2>2
    <3>2. k \in Subtree(op[r].id)
      BY <3>1, SweptNames
    <3> QED BY <1>9, <3>1, <3>2
  <2> QED BY <2>1, <2>2
<1>11. GoodFine'
  <2> SUFFICES ASSUME NEW q \in Requests, Good(q)' PROVE At(q)'
    BY DEF GoodFine
  <2>1. q \in Running \ {r} /\ pc[q] = "run" /\ scope'[q] = scope[q]
    BY <1>1 DEF Good, Running
  <2>2. Good(q)
    BY <1>2, <1>9, <2>1 DEF Good
  <2>3. At(q)
    BY <2>2 DEF GoodFine
  <2> QED BY <1>1, <2>1, <2>3, RequestStays
<1>12. SweepsFine'
  <2> SUFFICES ASSUME NEW q \in sweeps' PROVE SweepAt(q)'
    BY DEF SweepsFine
  <2>1. q \in sweeps /\ q # r /\ SweepAt(q)
    BY <1>1 DEF SweepsFine
  <2>2. q \in Requests /\ pc[q] = "run"
    BY <1>3, <2>1, SweptNames
  <2> QED BY <1>1, <2>1, <2>2, RequestStays
<1> QED BY <1>8, <1>10, <1>11, <1>12

-----------------------------------------------------------------------------
(* The beginning of a request *)

(* What a request finds when it begins, and what it changes. *)
Starts(r, met, kind) ==
  /\ pc[r] = "called" /\ pc' = [pc EXCEPT ![r] = "run"]
  /\ Allowed(op[r]) /\ Fits(op[r]) /\ met = Met(r, Scope(op[r]), Needs(op[r]))
  /\ kind \in GetTypes(From(op[r])) \cup {"none"} /\ (kind = "none" => GetTypes(From(op[r])) = {})
  /\ todo'[r] = Stmts(op[r], kind = "container")
  /\ sweeps' = IF op[r].do = "delete" /\ kind = "container" /\ met = {}
               THEN sweeps \cup {r} ELSE sweeps \ met
  /\ unclear' = unclear
       \cup (IF met # {} \/ (Scope(op[r]) \cup Needs(op[r])) \cap unclear # {} \/ Amiss(op[r])
             THEN Scope(op[r]) ELSE {})
       \cup UNION {scope[q] : q \in met}

(* What the first step of a request does. *)
LEMMA BeginFacts ==
  ASSUME Typed, Within, NEW r \in Requests, Begin(r)
  PROVE  /\ \E met, kind : Starts(r, met, kind)
         /\ rows' = rows /\ file' = file /\ op' = op
         /\ pc'[r] = "run" /\ r \notin Running /\ Running' = Running \cup {r} /\ Running \subseteq Requests
         /\ scope'[r] = Scope(op[r]) /\ found'[r] = {} /\ op[r] \in Op /\ op[r] \in Ops
         /\ \A q \in Requests : q # r =>
              /\ pc'[q] = pc[q] /\ todo'[q] = todo[q] /\ found'[q] = found[q] /\ scope'[q] = scope[q]
<1>D. /\ DOMAIN before = Requests /\ todo \in [Requests -> Seq(Stmt)] /\ op[r] \in Ops
      /\ pc \in [Requests -> {"idle", "called", "run", "done", "refused", "failed"}]
  BY DEF Typed
<1>1. /\ pc[r] = "called" /\ pc' = [pc EXCEPT ![r] = "run"] /\ op' = op /\ found' = found
      /\ rows' = rows /\ file' = file
      /\ before' = [before EXCEPT ![r] = [n \in Scope(op[r]) |-> Stored(n)]]
      /\ \E list : todo' = [todo EXCEPT ![r] = list]
  BY DEF Begin, store
<1>2. \E met, kind : Starts(r, met, kind)
  <2>1. PICK met : met = Met(r, Scope(op[r]), Needs(op[r]))
    OBVIOUS
  <2>2. PICK kind \in GetTypes(From(op[r])) \cup {"none"} :
          /\ kind = "none" => GetTypes(From(op[r])) = {}
          /\ todo' = [todo EXCEPT ![r] = Stmts(op[r], kind = "container")]
          /\ sweeps' = IF op[r].do = "delete" /\ kind = "container" /\ met = {}
                       THEN sweeps \cup {r} ELSE sweeps \ met
    BY <2>1 DEF Begin
  <2>3. todo'[r] = Stmts(op[r], kind = "container")
    BY <1>D, <2>2
  <2>4. /\ Allowed(op[r]) /\ Fits(op[r])
        /\ unclear' = unclear
             \cup (IF met # {} \/ (Scope(op[r]) \cup Needs(op[r])) \cap unclear # {} \/ Amiss(op[r])
                   THEN Scope(op[r]) ELSE {})
             \cup UNION {scope[q] : q \in met}
    BY <2>1 DEF Begin
  <2>5. Starts(r, met, kind)
    BY <1>1, <2>1, <2>2, <2>3, <2>4 DEF Starts
  <2> QED BY <2>5
<1>3. scope'[r] = Scope(op[r]) /\ \A q \in Requests : q # r => scope'[q] = scope[q]
  BY <1>D, <1>1 DEF scope
<1>4. found[r] = {}
  BY <1>1 DEF Within
<1> QED BY <1>D, <1>1, <1>2, <1>3, <1>4, OpsAssumption DEF Running

(* Who a request meets that begins. *)
LEMMA BeginMeets ==
  ASSUME Typed, Within, NEW r \in Requests, Begin(r)
  PROVE  /\ Scope(op[r]) \subseteq Names
         /\ unclear \subseteq unclear'
         /\ \A q \in Running : scope[q] \cap (Scope(op[r]) \cup Needs(op[r])) # {} =>
              scope[q] \subseteq unclear'
         /\ ~(Scope(op[r]) \subseteq unclear') =>
              /\ Scope(op[r]) \subseteq Calm
              /\ \A m \in Needs(op[r]) : m \notin unclear /\ m \notin Busy
<1>1. PICK met, kind : Starts(r, met, kind)
  BY BeginFacts
<1>2. r \notin Running
  BY BeginFacts
<1>3. Scope(op[r]) \subseteq Names
  BY <1>1, BeginFacts, StmtsType DEF Starts, Typed
<1>4. \A q \in Running : scope[q] \cap (Scope(op[r]) \cup Needs(op[r])) # {} => q \in met
  BY <1>1, <1>2 DEF Starts, Met
<1>5. \A q \in met : scope[q] \subseteq unclear'
  BY <1>1 DEF Starts
<1>6. ASSUME ~(Scope(op[r]) \subseteq unclear')
      PROVE  /\ Scope(op[r]) \subseteq Calm
             /\ \A m \in Needs(op[r]) : m \notin unclear /\ m \notin Busy
  <2>1. met = {} /\ (Scope(op[r]) \cup Needs(op[r])) \cap unclear = {}
    BY <1>1, <1>6 DEF Starts
  <2>2. \A q \in Running : scope[q] \cap (Scope(op[r]) \cup Needs(op[r])) = {}
    BY <1>4, <2>1
  <2> QED BY <1>3, <2>1, <2>2 DEF Calm, Busy
<1>7. unclear \subseteq unclear'
  BY <1>1 DEF Starts
<1> QED BY <1>3, <1>4, <1>5, <1>6, <1>7

(* A request that begins does not disturb the others. *)
LEMMA BeginOthers ==
  ASSUME Typed, Orderly, Within, Hung, CalmFine, GoodFine, SweepsFine, NEW r \in Requests, Begin(r)
  PROVE  /\ CalmFine'
         /\ \A q \in Requests \ {r} : Good(q)' => At(q)'
         /\ \A q \in sweeps' \ {r} : SweepAt(q)'
         /\ \A q \in Running : \A k \in scope'[q] : \A m \in Names \ (scope'[q] \cup unclear') :
              k \in Under(m) => Cont(m)'
<1>1. /\ rows' = rows /\ file' = file /\ op' = op
      /\ r \notin Running /\ Running' = Running \cup {r} /\ Running \subseteq Requests
      /\ \A q \in Requests : q # r =>
           /\ pc'[q] = pc[q] /\ todo'[q] = todo[q] /\ found'[q] = found[q] /\ scope'[q] = scope[q]
  BY BeginFacts
<1>2. unclear \subseteq unclear'
  BY BeginMeets
<1>3. \A m \in Names : /\ Cont(m)' <=> Cont(m)
                       /\ Fine(m)' <=> Fine(m)
                       /\ Holds(m)' <=> Holds(m)
  BY <1>1, AllStays
<1>4. CalmFine'
  <2>1. Calm' \subseteq Calm
    <3>1. \A q \in Running : scope'[q] = scope[q]
      BY <1>1
    <3> QED BY <1>1, <1>2, <3>1 DEF Calm, Busy
  <2>2. Calm \subseteq Names
    BY DEF Calm
  <2> QED BY <1>3, <2>1, <2>2 DEF CalmFine
<1>5. ASSUME NEW q \in Requests \ {r}, Good(q)' PROVE At(q)'
  <2>1. Good(q) /\ pc[q] = "run"
    BY <1>1, <1>2, <1>5 DEF Good
  <2>2. At(q)
    BY <2>1 DEF GoodFine
  <2> QED BY <1>1, <2>1, <2>2, RequestStays
<1>6. ASSUME NEW q \in sweeps' \ {r} PROVE SweepAt(q)'
  <2>1. PICK met, kind : Starts(r, met, kind)
    BY BeginFacts
  <2>2. q \in sweeps /\ SweepAt(q)
    BY <1>6, <2>1 DEF Starts, SweepsFine
  <2>3. q \in Requests /\ pc[q] = "run"
    BY <2>2, SweptNames DEF Running
  <2> QED BY <1>1, <1>6, <2>2, <2>3, RequestStays
<1>7. \A q \in Running : \A k \in scope'[q] : \A m \in Names \ (scope'[q] \cup unclear') :
        k \in Under(m) => Cont(m)'
  BY <1>1, <1>2, <1>3 DEF Hung
<1> QED BY <1>4, <1>5, <1>6, <1>7

(* What contains something that a request is going to work on, or needs, is a  *)
(* container, unless nobody can say what it is.                                *)
LEMMA AboveStands ==
  ASSUME Typed, Orderly, Within, CalmFine, GoodFine, NEW r \in Requests, Begin(r),
         NEW m \in Names, m \notin unclear', NEW a \in Under(m), Something(a),
         a \in Scope(op[r]) \cup Needs(op[r])
  PROVE  Cont(m)
<1>1. m \notin unclear
  BY BeginMeets
<1>2. ASSUME NEW q \in Running, m \in scope[q], a \in scope[q] PROVE FALSE
  <2>1. scope[q] \subseteq unclear'
    BY <1>2, BeginMeets
  <2> QED BY <1>2, <2>1
<1> QED BY <1>1, <1>2, SomethingAbove

(* Two names that contain a third one. *)
LEMMA BothAbove ==
  ASSUME NEW a \in Names, NEW k \in Subtree(a), NEW m \in Names, k \in Under(m), m \notin Subtree(a)
  PROVE  a \in Under(m)
<1>1. a \in Seq(Parts) /\ k \in Seq(Parts) /\ m \in Seq(Parts) /\ IsStrictPrefix(m, k) /\ m # a
      /\ (k = a \/ IsStrictPrefix(a, k)) /\ ~IsStrictPrefix(a, m)
  BY Below DEF Subtree
<1>2. IsStrictPrefix(m, a)
  BY <1>1, PrefixOrder
<1> QED BY <1>2, Below

(* The parent of what is created or put somewhere is a container, and what     *)
(* contains it.                                                                *)
LEMMA ParentStands ==
  ASSUME Typed, Orderly, Within, CalmFine, GoodFine, NEW r \in Requests, Begin(r),
         NEW p \in Names, p \in Needs(op[r]), GetType(p) = "container",
         NEW m \in Names, m \notin unclear', m = p \/ p \in Under(m)
  PROVE  Cont(m)
<1>1. "container" \in GetTypes(p)
  <2>1. GetTypes(p) # {}
    BY DEF GetType
  <2> QED BY <2>1 DEF GetType
<1>2. Something(p)
  <2>1. p # Root
    BY Below
  <2>2. RowsOf("nodes", p) # {}
    BY <1>1, <2>1 DEF GetTypes
  <2> QED BY <2>2 DEF Something, Tabs
<1>3. CASE m = p
  <2>1. m \notin unclear /\ m \notin Busy
    <3>1. m \notin unclear
      BY BeginMeets
    <3>2. ASSUME NEW q \in Running, m \in scope[q] PROVE FALSE
      <4>1. scope[q] \subseteq unclear'
        BY <1>3, <3>2, BeginMeets
      <4> QED BY <3>2, <4>1
    <3> QED BY <3>1, <3>2 DEF Busy
  <2>2. m \in Calm
    BY <2>1 DEF Calm
  <2>3. Sound(m)
    BY <1>2, <1>3, <2>2 DEF CalmFine, Fine
  <2> QED BY <1>1, <1>3, <2>3, ContIs
<1>4. CASE p \in Under(m)
  BY <1>2, <1>4, AboveStands
<1> QED BY <1>3, <1>4

(* What contains where a job takes from or puts to is a container. *)
LEMMA JobHangs ==
  ASSUME Typed, Orderly, Within, CalmFine, GoodFine, NEW r \in Requests, Begin(r),
         op[r].do \in {"move", "copy"}, ~ToNull(op[r]), NEW k \in Scope(op[r]),
         NEW m \in Names, m \notin Scope(op[r]), m \notin unclear', k \in Under(m)
  PROVE  Cont(m)
<1>n. PICK f, g, p : f = From(op[r]) /\ g = To(op[r]) /\ p = Parent(g)
  OBVIOUS
<1>1. JobAllowed(op[r]) /\ f \in Names /\ g \in Names
  <2>1. PICK met, kind : Starts(r, met, kind)
    BY BeginFacts
  <2>2. Allowed(op[r]) /\ Fits(op[r])
    BY <2>1 DEF Starts
  <2> QED BY <1>n, <2>2 DEF Allowed, Fits
<1>2. Scope(op[r]) = Subtree(f) \cup Subtree(g)
  <2>1. Scope(op[r]) = (Subtree(f) \cup Subtree(g)) \cap Names
    BY <1>n DEF Scope
  <2>2. Subtree(f) \subseteq Names /\ Subtree(g) \subseteq Names
    BY <1>1, Below DEF Subtree
  <2> QED BY <2>1, <2>2
<1>3. CASE k \in Subtree(f)
  <2>1. f \in Under(m)
    BY <1>1, <1>2, <1>3, BothAbove
  <2>2. f # Root
    BY <1>1, Below
  <2>3. Something(f)
    BY <1>1, <1>n, <2>2 DEF JobAllowed, IsStored, Something, Tabs
  <2>4. f \in Scope(op[r])
    BY <1>2 DEF Subtree
  <2> QED BY <2>1, <2>3, <2>4, AboveStands
<1>4. CASE k \in Subtree(g)
  <2>1. g \in Under(m)
    BY <1>1, <1>2, <1>4, BothAbove
  <2>2. m = p \/ p \in Under(m)
    BY <1>1, <1>n, <2>1, Above
  <2>3. p \in Names
    BY <2>2, Below
  <2>4. p \in Needs(op[r])
    BY <1>n, <2>3 DEF Needs
  <2>5. GetType(p) = "container"
    BY <1>1, <1>n, JobParent
  <2> QED BY <2>2, <2>3, <2>4, <2>5, ParentStands
<1> QED BY <1>2, <1>3, <1>4

(* The parent of a node that is created is a container, and what contains it. *)
LEMMA CreateHangs ==
  ASSUME Typed, Orderly, Within, Hung, CalmFine, GoodFine, NEW r \in Requests, Begin(r),
         op[r].do = "create", NEW k \in Scope(op[r]),
         NEW m \in Names, m \notin Scope(op[r]), m \notin unclear', k \in Under(m)
  PROVE  Cont(m)
<1>n. PICK n, p : n = op[r].id /\ p = Parent(n)
  OBVIOUS
<1>1. n \in Names /\ Scope(op[r]) = (IF IsStored(n) THEN {n} ELSE Subtree(n))
  BY <1>n, BeginFacts DEF Op, Scope
<1>2. ValidParent(n)
  <2>1. PICK met, kind : Starts(r, met, kind)
    BY BeginFacts
  <2> QED BY <1>n, <2>1 DEF Starts, Allowed, CreateAllowed
<1>3. p \in Names => p \in Needs(op[r])
  BY <1>n DEF Needs
<1>4. n \in Under(m)
  BY <1>1, BothAbove DEF Subtree
<1>5. m = p \/ p \in Under(m)
  BY <1>1, <1>4, <1>n, Above
<1>6. p \in Names
  BY <1>5, Below
<1>7. GetType(p) = "container"
  BY <1>2, <1>n DEF ValidParent
<1> QED BY <1>3, <1>5, <1>6, <1>7, ParentStands

(* Everything is below the root. *)
LEMMA RootAbove == Names \subseteq Under(Root)
<1> SUFFICES ASSUME NEW m \in Names PROVE m \in Under(Root)
  OBVIOUS
<1>1. m \in Seq(Parts) /\ m # Root /\ Root \in Seq(Parts)
  BY Below
<1>2. Len(Root) = 0 /\ Len(m) \in Nat /\ Len(m) > 0
  BY <1>1, EmptySeq DEF Root
<1>3. Len(Root) < Len(m) /\ Len(Root) <= Len(m) /\ \A i \in 1..Len(Root) : Root[i] = m[i]
  BY <1>2
<1> QED BY <1>1, <1>3, PrefixByIndex, Below

(* What is deleted: a name, what is below it, and the links to it. *)
LEMMA DeleteScope ==
  ASSUME Typed, Within, NEW r \in Requests, Begin(r), op[r].do # "create", ToNull(op[r])
  PROVE  /\ From(op[r]) \in Places /\ IsStored(From(op[r]))
         /\ From(op[r]) \in Deleted(op[r]) /\ Deleted(op[r]) \subseteq Subtree(From(op[r]))
         /\ Scope(op[r]) = Names \cap UNION {Subtree(n) :
              n \in {From(op[r])} \cup WithLinks(Deleted(op[r]), LinkRow)
                                  \cup WithLinks(Deleted(op[r]), SeenTarget)}
         /\ From(op[r]) = Root => Scope(op[r]) = Names
         /\ \A m \in Scope(op[r]) : Under(m) \subseteq Scope(op[r])
<1>o. PICK o : o = op[r]
  OBVIOUS
<1>1. o \in Op /\ Allowed(o) /\ rows \subseteq Rows
  <2>1. PICK met, kind : Starts(r, met, kind)
    BY BeginFacts
  <2> QED BY <1>o, <2>1, BeginFacts DEF Starts, Typed
<1>2. From(o) \in Places /\ IsStored(From(o))
  <2>1. IsStored(From(o))
    BY <1>1, <1>o DEF Allowed, From, JobAllowed, Op
  <2> QED BY <1>1, <2>1, Reads
<1>3. From(o) \in Deleted(o) /\ Deleted(o) \subseteq Subtree(From(o))
  BY DEF Deleted, Subtree
<1>4. Scope(o) = Names \cap UNION {Subtree(n) :
        n \in {From(o)} \cup WithLinks(Deleted(o), LinkRow) \cup WithLinks(Deleted(o), SeenTarget)}
  BY <1>o DEF Scope
<1>5. From(o) = Root => Scope(o) = Names
  BY <1>4, RootAbove DEF Subtree
<1>6. \A m \in Scope(o) : Under(m) \subseteq Scope(o)
  <2> TAKE m \in Scope(o)
  <2>1. PICK n \in {From(o)} \cup WithLinks(Deleted(o), LinkRow) \cup WithLinks(Deleted(o), SeenTarget) :
          m \in Subtree(n)
    BY <1>4
  <2>2. n \in Places
    BY <1>2 DEF WithLinks, Places
  <2>3. Under(m) \subseteq Under(n) /\ Under(m) \subseteq Names
    BY <2>1, <2>2, Below DEF Subtree
  <2>4. Subtree(n) \cap Names \subseteq Scope(o)
    BY <1>4, <2>1
  <2> QED BY <2>3, <2>4 DEF Subtree
<1> QED BY <1>o, <1>2, <1>3, <1>4, <1>5, <1>6

(* A link to what is deleted has a row, or is another's to work on. *)
LEMMA LinksThere ==
  ASSUME Typed, NEW S, S \subseteq Names
  PROVE  /\ \A l \in WithLinks(S, LinkRow) : l \in S \/ RowsOf("links", l) # {}
         /\ \A l \in WithLinks(S, SeenTarget) :
              l \in S \/ (l \notin unclear /\ (l \in Busy \/ RowsOf("nodes", l) # {}))
<1>1. NoName \notin Names
  BY Below DEF NoName, Root
<1>2. ASSUME NEW l \in WithLinks(S, LinkRow), l \notin S PROVE RowsOf("links", l) # {}
  <2>g. PICK goes : goes = [n \in Names |-> LinkRow(n)]
    OBVIOUS
  <2>w. PICK W : W = WithLinks(S, LinkRow)
    OBVIOUS
  <2>1. W = Reach(S, goes)
    BY <2>g, <2>w DEF WithLinks, Reach
  <2>2. W \subseteq Names /\ (l \in S \/ goes[l] \in S \cup W)
    <3>1. l \in Reach(S, goes)
      BY <1>2, <2>1, <2>w
    <3>2. Reach(S, goes) \subseteq Names
      BY LinksLeast
    <3>3. l \in S \/ goes[l] \in S \cup Reach(S, goes)
      BY <3>1, LinksLeast
    <3> QED BY <2>1, <3>2, <3>3
  <2>3. LinkRow(l) # NoName
    BY <1>1, <1>2, <2>2, <2>g, <2>w
  <2> QED BY <2>3 DEF LinkRow
<1>3. ASSUME NEW l \in WithLinks(S, SeenTarget), l \notin S
      PROVE  l \notin unclear /\ (l \in Busy \/ RowsOf("nodes", l) # {})
  <2>g. PICK goes : goes = [n \in Names |-> SeenTarget(n)]
    OBVIOUS
  <2>w. PICK W : W = WithLinks(S, SeenTarget)
    OBVIOUS
  <2>1. W = Reach(S, goes)
    BY <2>g, <2>w DEF WithLinks, Reach
  <2>2. W \subseteq Names /\ (l \in S \/ goes[l] \in S \cup W)
    <3>1. l \in Reach(S, goes)
      BY <1>3, <2>1, <2>w
    <3>2. Reach(S, goes) \subseteq Names
      BY LinksLeast
    <3>3. l \in S \/ goes[l] \in S \cup Reach(S, goes)
      BY <3>1, LinksLeast
    <3> QED BY <2>1, <3>2, <3>3
  <2>3. SeenTarget(l) # NoName /\ l \in Names
    BY <1>1, <1>3, <2>2, <2>g, <2>w
  <2>4. Visible[l].target # NoName
    BY <2>3 DEF SeenTarget
  <2>5. Unclear.target = NoName /\ Absent.target = NoName
    BY DEF Unclear, Absent, Node
  <2>6. l \notin unclear
    BY <2>3, <2>4, <2>5 DEF Visible
  <2>7. l \notin Busy => Visible[l] = Stored(l)
    BY <2>3, <2>6 DEF Visible
  <2>8. RowsOf("nodes", l) = {} => Stored(l) = Absent
    BY DEF Stored
  <2> QED BY <2>4, <2>5, <2>6, <2>7, <2>8
<1> QED BY <1>2, <1>3

(* What contains a name that is deleted is a container. *)
LEMMA DeleteHangs ==
  ASSUME Typed, Orderly, Within, Hung, CalmFine, GoodFine, NEW r \in Requests, Begin(r),
         op[r].do # "create", ToNull(op[r]), NEW k \in Scope(op[r]),
         NEW m \in Names, m \notin Scope(op[r]), m \notin unclear', k \in Under(m)
  PROVE  Cont(m)
<1>o. PICK o, f, S : o = op[r] /\ f = From(op[r]) /\ S = Deleted(op[r])
  OBVIOUS
<1>1. /\ f \in Places /\ IsStored(f) /\ f \in S /\ S \subseteq Subtree(f)
      /\ Scope(o) = Names \cap UNION {Subtree(n) :
           n \in {f} \cup WithLinks(S, LinkRow) \cup WithLinks(S, SeenTarget)}
      /\ f = Root => Scope(o) = Names
  BY <1>o, DeleteScope
<1>2. f \in Names /\ f # Root /\ S \subseteq Names
  <2>1. f # Root
    BY <1>1, <1>o
  <2>2. f \in Names
    BY <1>1, <2>1 DEF Places
  <2> QED BY <1>1, <2>1, <2>2, Below DEF Subtree
<1>3. ASSUME NEW a \in Names, k \in Subtree(a), Subtree(a) \cap Names \subseteq Scope(o)
      PROVE  a \in Under(m) /\ a \in Scope(op[r])
  <2>1. a \in Scope(o) /\ m \notin Subtree(a)
    BY <1>3, <1>o DEF Subtree
  <2> QED BY <1>3, <1>o, <2>1, BothAbove
<1>4. CASE k \in Subtree(f)
  <2>1. f \in Under(m) /\ f \in Scope(op[r])
    BY <1>1, <1>2, <1>3, <1>4
  <2>2. Something(f)
    BY <1>1, <1>2 DEF IsStored, Something, Tabs
  <2> QED BY <2>1, <2>2, AboveStands
<1>5. CASE k \notin Subtree(f)
  <2>1. PICK a \in WithLinks(S, LinkRow) \cup WithLinks(S, SeenTarget) : k \in Subtree(a)
    BY <1>1, <1>5, <1>o
  <2>2. a \in Names
    BY <2>1 DEF WithLinks
  <2>3. Subtree(a) \cap Names \subseteq Scope(o)
    BY <1>1, <2>1
  <2>4. a \in Under(m) /\ a \in Scope(op[r])
    BY <1>3, <2>1, <2>2, <2>3
  <2>5. a \notin S
    <3> SUFFICES ASSUME a \in S PROVE FALSE
      OBVIOUS
    <3>1. a \in Subtree(f)
      BY <1>1
    <3>2. Subtree(a) \subseteq Subtree(f)
      BY <1>1, <3>1, Below DEF Subtree
    <3> QED BY <1>5, <2>1, <3>2
  <2>6. CASE Something(a)
    BY <2>4, <2>6, AboveStands
  <2>7. CASE ~Something(a)
    <3>1. a \in Busy
      BY <1>2, <2>1, <2>5, <2>7, LinksThere DEF Something, Tabs
    <3>2. PICK q \in Running : a \in scope[q]
      BY <3>1 DEF Busy
    <3>3. scope[q] \subseteq unclear'
      BY <2>4, <3>2, BeginMeets
    <3>4. m \notin scope[q] /\ m \notin unclear
      BY <3>3, BeginMeets
    <3> QED BY <2>4, <3>2, <3>4 DEF Hung
  <2> QED BY <2>6, <2>7
<1> QED BY <1>4, <1>5

-----------------------------------------------------------------------------
(* A request that creates *)

(* The statements of a creation, each of them once. *)
LEMMA CreateItems ==
  ASSUME NEW n \in Names, NEW kind \in Kinds, NEW to \in Targets, NEW addl
  PROVE  /\ Distinct(NewStmts(n, kind, to, addl))
         /\ Items(NewStmts(n, kind, to, addl)) \subseteq
              {Insert("nodes", n, kind, NoName), Insert("properties", n, "", NoName), Make(kind, n),
               Insert("links", n, "", to), Insert("addl_props", n, "", NoName),
               Insert("capabilities", n, "", NoName)}
         /\ Insert("nodes", n, kind, NoName) \in Items(NewStmts(n, kind, to, addl))
         /\ Insert("properties", n, "", NoName) \in Items(NewStmts(n, kind, to, addl))
         /\ Make(kind, n) \in Items(NewStmts(n, kind, to, addl))
         /\ Insert("links", n, "", to) \in Items(NewStmts(n, kind, to, addl)) <=> kind = "link"
<1>s. PICK a, b, c, d, e, g :
        /\ a = Insert("nodes", n, kind, NoName) /\ b = Insert("links", n, "", to)
        /\ c = Insert("addl_props", n, "", NoName) /\ d = Insert("properties", n, "", NoName)
        /\ e = Insert("capabilities", n, "", NoName) /\ g = Make(kind, n)
  OBVIOUS
<1>1. a \in Stmt /\ b \in Stmt /\ c \in Stmt /\ d \in Stmt /\ e \in Stmt /\ g \in Stmt
  <2>1. /\ {"nodes", "properties", "addl_props", "links", "capabilities"} \subseteq TableNames
        /\ kind \in RowKinds /\ "" \in RowKinds /\ NoName \in Targets
    BY DEF TableNames, RowKinds, Targets
  <2> QED BY <1>s, <2>1, Statements
<1>2. /\ a.t = "nodes" /\ b.t = "links" /\ c.t = "addl_props" /\ d.t = "properties" /\ e.t = "capabilities"
      /\ a.do = "insert" /\ b.do = "insert" /\ c.do = "insert" /\ d.do = "insert" /\ e.do = "insert"
      /\ g.do = "make"
  BY <1>s DEF Insert, Make
<1>B. PICK B, C, E :
        /\ B = (IF kind = "link" THEN {b} ELSE {}) /\ C = (IF addl THEN {c} ELSE {})
        /\ E = (IF kind = "container" THEN {e} ELSE {})
  OBVIOUS
<1>x. PICK xa, xb, xc, xd, xe, xg :
        /\ xa = <<a>> /\ xb = If(kind = "link", <<b>>) /\ xc = If(addl, <<c>>) /\ xd = <<d>>
        /\ xe = If(kind = "container", <<e>>) /\ xg = <<g>>
  OBVIOUS
<1> HIDE DEF Stmt
<1>3. /\ xa \in Seq(Stmt) /\ Distinct(xa) /\ Items(xa) = {a}
      /\ xb \in Seq(Stmt) /\ Distinct(xb) /\ Items(xb) = B
      /\ xc \in Seq(Stmt) /\ Distinct(xc) /\ Items(xc) = C
      /\ xd \in Seq(Stmt) /\ Distinct(xd) /\ Items(xd) = {d}
      /\ xe \in Seq(Stmt) /\ Distinct(xe) /\ Items(xe) = E
      /\ xg \in Seq(Stmt) /\ Distinct(xg) /\ Items(xg) = {g}
  <2>1. xa \in Seq(Stmt) /\ Distinct(xa) /\ Items(xa) = {a}
    BY <1>1, <1>x, Lists, ItemsSmall
  <2>2. xb \in Seq(Stmt) /\ Distinct(xb) /\ Items(xb) = B
    BY <1>1, <1>x, <1>B, Lists, ItemsSmall
  <2>3. xc \in Seq(Stmt) /\ Distinct(xc) /\ Items(xc) = C
    BY <1>1, <1>x, <1>B, Lists, ItemsSmall
  <2>4. xd \in Seq(Stmt) /\ Distinct(xd) /\ Items(xd) = {d}
    BY <1>1, <1>x, Lists, ItemsSmall
  <2>5. xe \in Seq(Stmt) /\ Distinct(xe) /\ Items(xe) = E
    BY <1>1, <1>x, <1>B, Lists, ItemsSmall
  <2>6. xg \in Seq(Stmt) /\ Distinct(xg) /\ Items(xg) = {g}
    BY <1>1, <1>x, Lists, ItemsSmall
  <2> QED BY <2>1, <2>2, <2>3, <2>4, <2>5, <2>6
<1>4. B \subseteq {b} /\ C \subseteq {c} /\ E \subseteq {e}
  BY <1>B
<1>y. PICK y1, y2, y3, y4 : y1 = xa \o xb /\ y2 = y1 \o xc /\ y3 = y2 \o xd /\ y4 = y3 \o xe
  OBVIOUS
<1>5. y1 \in Seq(Stmt) /\ Distinct(y1) /\ Items(y1) = {a} \cup B
  <2>1. {a} \cap B = {}
    BY <1>2, <1>4
  <2>2. xa \in Seq(Stmt) /\ Distinct(xa) /\ xb \in Seq(Stmt) /\ Distinct(xb)
        /\ Items(xa) \cap Items(xb) = {}
    BY <1>3, <2>1
  <2>3. xa \o xb \in Seq(Stmt) /\ Distinct(xa \o xb) /\ Items(xa \o xb) = Items(xa) \cup Items(xb)
    BY <2>2, DistinctConcat
  <2> QED BY <1>3, <1>y, <2>3
<1>6. y2 \in Seq(Stmt) /\ Distinct(y2) /\ Items(y2) = ({a} \cup B) \cup C
  <2>1. ({a} \cup B) \cap C = {}
    BY <1>2, <1>4
  <2>2. y1 \in Seq(Stmt) /\ Distinct(y1) /\ xc \in Seq(Stmt) /\ Distinct(xc)
        /\ Items(y1) \cap Items(xc) = {}
    BY <1>3, <1>5, <2>1
  <2>3. y1 \o xc \in Seq(Stmt) /\ Distinct(y1 \o xc) /\ Items(y1 \o xc) = Items(y1) \cup Items(xc)
    BY <2>2, DistinctConcat
  <2> QED BY <1>3, <1>5, <1>y, <2>3
<1>7. y3 \in Seq(Stmt) /\ Distinct(y3) /\ Items(y3) = (({a} \cup B) \cup C) \cup {d}
  <2>1. (({a} \cup B) \cup C) \cap {d} = {}
    BY <1>2, <1>4
  <2>2. y2 \in Seq(Stmt) /\ Distinct(y2) /\ xd \in Seq(Stmt) /\ Distinct(xd)
        /\ Items(y2) \cap Items(xd) = {}
    BY <1>3, <1>6, <2>1
  <2>3. y2 \o xd \in Seq(Stmt) /\ Distinct(y2 \o xd) /\ Items(y2 \o xd) = Items(y2) \cup Items(xd)
    BY <2>2, DistinctConcat
  <2> QED BY <1>3, <1>6, <1>y, <2>3
<1>8. y4 \in Seq(Stmt) /\ Distinct(y4) /\ Items(y4) = ((({a} \cup B) \cup C) \cup {d}) \cup E
  <2>1. ((({a} \cup B) \cup C) \cup {d}) \cap E = {}
    BY <1>2, <1>4
  <2>2. y3 \in Seq(Stmt) /\ Distinct(y3) /\ xe \in Seq(Stmt) /\ Distinct(xe)
        /\ Items(y3) \cap Items(xe) = {}
    BY <1>3, <1>7, <2>1
  <2>3. y3 \o xe \in Seq(Stmt) /\ Distinct(y3 \o xe) /\ Items(y3 \o xe) = Items(y3) \cup Items(xe)
    BY <2>2, DistinctConcat
  <2> QED BY <1>3, <1>7, <1>y, <2>3
<1>9. y4 \o xg \in Seq(Stmt) /\ Distinct(y4 \o xg)
      /\ Items(y4 \o xg) = (((({a} \cup B) \cup C) \cup {d}) \cup E) \cup {g}
  <2>1. (((({a} \cup B) \cup C) \cup {d}) \cup E) \cap {g} = {}
    BY <1>2, <1>4
  <2>2. y4 \in Seq(Stmt) /\ Distinct(y4) /\ xg \in Seq(Stmt) /\ Distinct(xg)
        /\ Items(y4) \cap Items(xg) = {}
    BY <1>3, <1>8, <2>1
  <2>3. y4 \o xg \in Seq(Stmt) /\ Distinct(y4 \o xg) /\ Items(y4 \o xg) = Items(y4) \cup Items(xg)
    BY <2>2, DistinctConcat
  <2> QED BY <1>3, <1>8, <2>3
<1>10. NewStmts(n, kind, to, addl) = y4 \o xg
  <2>1. StoreData(n, kind, to, addl) = y3
    BY <1>s, <1>x, <1>y DEF StoreData
  <2> QED BY <1>s, <1>x, <1>y, <2>1 DEF NewStmts
<1>11. b \in (((({a} \cup B) \cup C) \cup {d}) \cup E) \cup {g} <=> kind = "link"
  BY <1>2, <1>4, <1>B
<1> QED BY <1>4, <1>9, <1>10, <1>11, <1>s

(* A request that begins to create a node where nothing is. *)
LEMMA BeginNew ==
  ASSUME Typed, Within, CalmFine, NEW r \in Requests, Begin(r), Good(r)',
         op[r].do = "create", ~IsStored(op[r].id)
  PROVE  NewAt(r)'
<1>n. PICK n, kind, to : n = op[r].id /\ kind = op[r].kind /\ to = op[r].to
  OBVIOUS
<1>1. /\ n \in Names /\ kind \in Kinds /\ to \in Targets /\ op[r].addl \in BOOLEAN
      /\ Scope(op[r]) = Subtree(n) /\ scope'[r] = Subtree(n) /\ op' = op
      /\ rows' = rows /\ file' = file
  BY <1>n, BeginFacts DEF Op, Scope, Targets
<1>2. \A m \in Subtree(n) : m \in Calm /\ m \in Names
  BY <1>1, BeginMeets DEF Good, Calm
<1>3. ~Something(n)
  <2>1. n \in Calm
    BY <1>2 DEF Subtree
  <2>2. RowsOf("nodes", n) = {}
    BY <1>n DEF IsStored
  <2> QED BY <1>1, <2>1, <2>2, ContIs DEF CalmFine, Fine
<1>4. \A m \in Under(n) : ~Something(m)
  <2>1. n \in Calm
    BY <1>2 DEF Subtree
  <2>2. Holds(n)
    BY <2>1 DEF CalmFine
  <2>3. ~Cont(n)
    BY <1>1, <1>3, ContIs
  <2> QED BY <2>2, <2>3 DEF Holds
<1>5. todo'[r] = NewStmts(n, kind, to, op[r].addl)
  <2>1. PICK met, k : Starts(r, met, k)
    BY BeginFacts
  <2>2. Stmts(op[r], k = "container") = CreateStmts(op[r])
    BY Zenon DEF Stmts
  <2>3. todo'[r] = CreateStmts(op[r])
    BY <2>1, <2>2 DEF Starts
  <2> QED BY <1>n, <2>3 DEF CreateStmts, NewStmts
<1>L. PICK L : L = Items(todo'[r])
  OBVIOUS
<1>6. /\ Distinct(todo'[r])
      /\ L \subseteq
           {Insert("nodes", n, kind, NoName), Insert("properties", n, "", NoName), Make(kind, n),
            Insert("links", n, "", to), Insert("addl_props", n, "", NoName),
            Insert("capabilities", n, "", NoName)}
      /\ Insert("nodes", n, kind, NoName) \in L /\ Insert("properties", n, "", NoName) \in L
      /\ Make(kind, n) \in L /\ (Insert("links", n, "", to) \in L <=> kind = "link")
  <2>1. PICK u : u = NewStmts(n, kind, to, op[r].addl)
    OBVIOUS
  <2>2. /\ Distinct(u)
        /\ Items(u) \subseteq
             {Insert("nodes", n, kind, NoName), Insert("properties", n, "", NoName), Make(kind, n),
              Insert("links", n, "", to), Insert("addl_props", n, "", NoName),
              Insert("capabilities", n, "", NoName)}
        /\ Insert("nodes", n, kind, NoName) \in Items(u) /\ Insert("properties", n, "", NoName) \in Items(u)
        /\ Make(kind, n) \in Items(u)
    BY <1>1, <2>1, CreateItems
  <2>3. Insert("links", n, "", to) \in Items(u) <=> kind = "link"
    BY <1>1, <2>1, CreateItems
  <2> QED BY <1>5, <1>L, <2>1, <2>2, <2>3
<1>7. /\ Insert("nodes", n, kind, NoName).t = "nodes" /\ Insert("properties", n, "", NoName).t = "properties"
      /\ Insert("links", n, "", to).t = "links" /\ Insert("addl_props", n, "", NoName).t = "addl_props"
      /\ Insert("capabilities", n, "", NoName).t = "capabilities"
      /\ Insert("nodes", n, kind, NoName).do = "insert" /\ Insert("properties", n, "", NoName).do = "insert"
      /\ Insert("links", n, "", to).do = "insert" /\ Insert("addl_props", n, "", NoName).do = "insert"
      /\ Insert("capabilities", n, "", NoName).do = "insert" /\ Make(kind, n).do = "make"
  BY DEF Insert, Make
<1>8. \A s \in L :
        \/ s.do = "insert" /\ s = Insert(s.t, n, IF s.t = "nodes" THEN kind ELSE "",
                                         IF s.t = "links" THEN to ELSE NoName)
        \/ s = Make(kind, n)
  <2> TAKE s \in L
  <2>1. \/ s = Insert("nodes", n, kind, NoName) \/ s = Insert("properties", n, "", NoName)
        \/ s = Make(kind, n) \/ s = Insert("links", n, "", to)
        \/ s = Insert("addl_props", n, "", NoName) \/ s = Insert("capabilities", n, "", NoName)
    BY <1>6
  <2> QED BY <1>7, <2>1
<1>10. /\ RowsOf("nodes", n) = {} /\ RowsOf("properties", n) = {} /\ RowsOf("links", n) = {}
       /\ file[n] = NoFile
  BY <1>3 DEF Something, Tabs
<1>11. /\ \A t, m : RowsOf(t, m)' = RowsOf(t, m)
       /\ \A m \in Under(n) : ~Something(m)'
  <2>1. \A t, m : RowsOf(t, m)' = RowsOf(t, m)
    BY <1>1 DEF RowsOf
  <2> QED BY <1>1, <1>4, <2>1 DEF Something
<1>12. /\ op'[r].do = "create" /\ op'[r].id = n /\ op'[r].kind = kind /\ op'[r].to = to
  BY <1>1, <1>n
<1>13. /\ RowsOf("nodes", n)' = {} /\ RowsOf("properties", n)' = {} /\ RowsOf("links", n)' = {}
       /\ file'[n] = NoFile
  BY <1>1, <1>10, <1>11
<1> QED BY <1>1, <1>6, <1>8, <1>11, <1>12, <1>13, <1>L DEF NewAt, Subtree, Under

(* A request that begins to change a node in its place. *)
LEMMA BeginOver ==
  ASSUME Typed, Within, CalmFine, NEW r \in Requests, Begin(r), Good(r)',
         op[r].do = "create", IsStored(op[r].id)
  PROVE  OverAt(r)' /\ \A s \in Items(todo'[r]) : s.do = "retarget" => s.target = op[r].to
<1>n. PICK n, kind, to : n = op[r].id /\ kind = op[r].kind /\ to = op[r].to
  OBVIOUS
<1>1. /\ n \in Names /\ kind \in Kinds /\ to \in Targets /\ op[r].addl \in BOOLEAN
      /\ Scope(op[r]) = {n} /\ scope'[r] = {n} /\ op' = op /\ rows' = rows /\ file' = file
  BY <1>n, BeginFacts DEF Op, Scope, Targets
<1>2. n \in Calm
  BY <1>1, BeginMeets DEF Good
<1>3. Sound(n) /\ Holds(n)
  <2>1. n # Root
    BY <1>1, Below
  <2>2. Something(n)
    BY <1>n, <2>1 DEF IsStored, Something, Tabs
  <2> QED BY <1>2, <2>2 DEF CalmFine, Fine
<1>4. Sound(n)' /\ Holds(n)'
  <2>1. SameAt(n) /\ (Holds(n)' <=> Holds(n))
    BY <1>1, AllStays
  <2> QED BY <1>1, <1>3, <2>1, SameMeans
<1>5. todo'[r] = UpdateProperties(n, kind, to, op[r].addl) \o <<Update("nodes", n)>>
  <2>1. PICK met, k : Starts(r, met, k)
    BY BeginFacts
  <2>2. Stmts(op[r], k = "container") = CreateStmts(op[r])
    BY Zenon DEF Stmts
  <2>3. todo'[r] = CreateStmts(op[r])
    BY <2>1, <2>2 DEF Starts
  <2> QED BY <1>n, <2>3 DEF CreateStmts
<1> DEFINE P == {s \in Stmt : \/ s.do = "retarget" /\ s.id = n /\ s.target = to
                              \/ s.do = "insert" /\ s.t = "addl_props" /\ s.id = n
                              \/ s.do = "rename" /\ s.id = n /\ s.to = n}
<1>6. /\ Retarget(n, to) \in P /\ Insert("addl_props", n, "", NoName) \in P
      /\ Update("addl_props", n) \in P /\ Update("properties", n) \in P /\ Update("nodes", n) \in P
  <2>1. /\ {"nodes", "properties", "addl_props"} \subseteq TableNames
        /\ "" \in RowKinds /\ NoName \in Targets
    BY DEF TableNames, RowKinds, Targets
  <2>2. /\ Retarget(n, to) \in Stmt /\ Insert("addl_props", n, "", NoName) \in Stmt
        /\ Update("addl_props", n) \in Stmt /\ Update("properties", n) \in Stmt /\ Update("nodes", n) \in Stmt
    BY <1>1, <2>1, Statements
  <2> HIDE DEF Stmt
  <2> QED BY <2>2 DEF Retarget, Insert, Update, Rename
<1> HIDE DEF P
<1>7. todo'[r] \in Seq(P)
  <2>L. /\ \A s \in P : <<s>> \in Seq(P)
        /\ \A s, u \in Seq(P) : s \o u \in Seq(P)
        /\ \A c, s : s \in Seq(P) => If(c, s) \in Seq(P)
    BY ListsOf
  <2>1. (IF RowsOf("addl_props", n) = {} THEN Insert("addl_props", n, "", NoName)
         ELSE Update("addl_props", n)) \in P
    BY <1>6
  <2>2. UpdateProperties(n, kind, to, op[r].addl) \in Seq(P)
    BY <1>6, <2>L, <2>1, Zenon DEF UpdateProperties
  <2> QED BY <1>5, <1>6, <2>L, <2>2
<1>8. Items(todo'[r]) \subseteq P
  BY <1>7, ItemsOf
<1>9. \A s \in Items(todo'[r]) : \/ s.do = "retarget" /\ s.id = n
                                 \/ s.do = "insert" /\ s.t = "addl_props" /\ s.id = n
                                 \/ s.do = "rename" /\ s.id = n /\ s.to = n
  BY <1>8 DEF P
<1>r. \A s \in Items(todo'[r]) : s.do = "retarget" => s.target = to
  BY <1>8 DEF P
<1>10. op'[r].do = "create" /\ op'[r].id = n
  BY <1>1, <1>n
<1> QED BY <1>1, <1>4, <1>9, <1>10, <1>n, <1>r DEF OverAt

-----------------------------------------------------------------------------
(* A request that deletes *)

(* What the deletion of a node deletes, selects and removes. *)
LEMMA DeleteItems ==
  ASSUME NEW n \in Places, NEW c \in BOOLEAN
  PROVE  /\ DeleteStmts(n, c) \in Seq(Stmt) /\ Followed(DeleteStmts(n, c))
         /\ \A s : s \in Items(DeleteStmts(n, c)) <=>
              \/ \E t \in TableNames : s = Delete(t, {n})
              \/ c /\ \E t \in TableNames : s = Delete(t, Under(n))
              \/ s = Select({n}, TRUE)
              \/ c /\ s = Select(Under(n), FALSE)
              \/ s = RemoveBytes(n, c)
<1>u. PICK u, e : u = RemoveData(n, c) /\ e = RemoveBytes(n, c)
  OBVIOUS
<1>1. /\ u \in Seq(Stmt) /\ Followed(u)
      /\ Items(u) = {Delete(t, {n}) : t \in TableNames} \cup {Select({n}, TRUE)}
              \cup IF c THEN {Delete(t, Under(n)) : t \in TableNames} \cup {Select(Under(n), FALSE)}
                   ELSE {}
  BY <1>u, RemoveDataItems
<1>2. e \in Stmt /\ e.do = "removebytes"
  BY <1>u, Statements DEF RemoveBytes
<1> HIDE DEF Stmt
<1>3. <<e>> \in Seq(Stmt) /\ Items(<<e>>) = {e} /\ Followed(<<e>>)
  <2>1. <<e>> \in Seq(Stmt) /\ Items(<<e>>) = {e}
    BY <1>2, Lists, ItemsSmall
  <2>2. Len(<<e>>) = 1 /\ \A i \in 1..1 : <<e>>[i] = e
    OBVIOUS
  <2>3. Followed(<<e>>)
    BY <1>2, <2>2 DEF Followed
  <2> QED BY <2>1, <2>3
<1>4. u \o <<e>> \in Seq(Stmt) /\ Followed(u \o <<e>>) /\ Items(u \o <<e>>) = Items(u) \cup {e}
  <2>v. PICK v : v = <<e>>
    OBVIOUS
  <2>1. v \in Seq(Stmt) /\ u \in Seq(Stmt) /\ Items(v) = {e} /\ Followed(v) /\ Followed(u)
    BY <1>1, <1>3, <2>v
  <2>2. Followed(u \o v) /\ Items(u \o v) = Items(u) \cup Items(v)
    BY <2>1, ItemsConcat
  <2>3. u \o v \in Seq(Stmt)
    BY <2>1, Lists
  <2> QED BY <2>1, <2>2, <2>3, <2>v
<1>5. DeleteStmts(n, c) = u \o <<e>>
  BY <1>u DEF DeleteStmts
<1>6. \A s : s \in Items(u) <=>
              \/ \E t \in TableNames : s = Delete(t, {n})
              \/ c /\ \E t \in TableNames : s = Delete(t, Under(n))
              \/ s = Select({n}, TRUE)
              \/ c /\ s = Select(Under(n), FALSE)
  BY <1>1
<1>7. \A s : s \in Items(DeleteStmts(n, c)) <=> s \in Items(u) \/ s = e
  BY <1>4, <1>5
<1>8. DeleteStmts(n, c) \in Seq(Stmt) /\ Followed(DeleteStmts(n, c))
  BY <1>4, <1>5
<1> QED BY <1>6, <1>7, <1>8, <1>u

(* What a deletion begins with. *)
LEMMA DeleteBegins ==
  ASSUME Typed, Orderly, Within, NEW r \in Requests, Begin(r), op[r].do # "create", ToNull(op[r])
  PROVE  \E kind \in GetTypes(From(op[r])) \cup {"none"} :
           /\ kind = "none" => GetTypes(From(op[r])) = {}
           /\ todo'[r] = DeleteStmts(From(op[r]), kind = "container")
           /\ r \in sweeps' => kind = "container" /\ op[r].do = "delete"
<1>1. PICK met, kind : Starts(r, met, kind)
  BY BeginFacts
<1>2. Stmts(op[r], kind = "container") = DeleteStmts(From(op[r]), kind = "container")
  BY Zenon DEF Stmts
<1>3. r \notin sweeps
  BY <1>1 DEF Starts, Orderly, Sweepers
<1> QED BY <1>1, <1>2, <1>3 DEF Starts

(* A deletion that is going to sweep. *)
LEMMA BeginSweep ==
  ASSUME Typed, Orderly, Within, NEW r \in Requests, Begin(r), r \in sweeps'
  PROVE  SweepAt(r)'
<1>n. PICK n : n = op[r].id
  OBVIOUS
<1>1. op'[r].id = n /\ op[r].do = "delete" /\ rows' = rows /\ file' = file /\ op[r] \in Op
  <2>1. PICK met, kind : Starts(r, met, kind)
    BY BeginFacts
  <2>2. r \notin sweeps
    BY <2>1 DEF Starts, Orderly, Sweepers
  <2>3. op[r].do = "delete"
    BY <2>1, <2>2 DEF Starts
  <2> QED BY <1>n, <2>3, BeginFacts
<1>2. n \in Names /\ n \in Places /\ ToNull(op[r]) /\ From(op[r]) = n
  BY <1>1, <1>n DEF Op, ToNull, From, Places
<1>3. todo'[r] = DeleteStmts(n, TRUE)
  <2>1. PICK kind : todo'[r] = DeleteStmts(n, kind = "container") /\ kind = "container"
    BY <1>1, <1>2, DeleteBegins
  <2> QED BY <2>1
<1>L. PICK L : L = Items(todo'[r])
  OBVIOUS
<1>4. \A s : s \in L <=> \/ \E t \in TableNames : s = Delete(t, {n})
                         \/ \E t \in TableNames : s = Delete(t, Under(n))
                         \/ s = Select({n}, TRUE) \/ s = Select(Under(n), FALSE)
                         \/ s = RemoveBytes(n, TRUE)
  BY <1>2, <1>3, <1>L, DeleteItems
<1>5. \A s \in L : s.do \in {"delete", "select", "removebytes"}
  BY <1>4 DEF Delete, Select, RemoveBytes
<1>6. ASSUME NEW m \in Subtree(n), NEW t \in Tabs
      PROVE  \E x \in L : x.do = "delete" /\ x.t = t /\ m \in x.ids
  <2>1. t \in TableNames
    BY DEF Tabs, TableNames
  <2>2. CASE m = n
    <3>1. Delete(t, {n}) \in L
      BY <1>4, <2>1
    <3>2. Delete(t, {n}).do = "delete" /\ Delete(t, {n}).t = t /\ m \in Delete(t, {n}).ids
      BY <2>2 DEF Delete
    <3> QED BY <3>1, <3>2
  <2>3. CASE m \in Under(n)
    <3>1. Delete(t, Under(n)) \in L
      BY <1>4, <2>1
    <3>2. Delete(t, Under(n)).do = "delete" /\ Delete(t, Under(n)).t = t /\ m \in Delete(t, Under(n)).ids
      BY <2>3 DEF Delete
    <3> QED BY <3>1, <3>2
  <2> QED BY <2>2, <2>3 DEF Subtree
<1>7. \A t, m : Deleting(r, t, m)' <=> \E x \in L : x.do = "delete" /\ x.t = t /\ m \in x.ids
  BY <1>L DEF Deleting
<1>8. RemoveBytes(n, TRUE) \in Items(todo'[r])
  BY <1>4, <1>L
<1>9. \A m \in Subtree(n) :
        /\ \A t \in Tabs : RowsOf(t, m)' # {} => Deleting(r, t, m)'
        /\ file'[m] # NoFile => RemoveBytes(n, TRUE) \in Items(todo'[r])
  <2> TAKE m \in Subtree(n)
  <2>1. ASSUME NEW t \in Tabs PROVE Deleting(r, t, m)'
    <3>1. \E x \in L : x.do = "delete" /\ x.t = t /\ m \in x.ids
      BY <1>6
    <3> QED BY <1>7, <3>1
  <2> QED BY <1>8, <2>1
<1> QED BY <1>1, <1>5, <1>9, <1>L DEF SweepAt, Subtree, Under

(* Where links are calm, their rows say what clients see. *)
LEMMA LinksCalm ==
  ASSUME Typed, CalmFine, NEW S, S \subseteq Names, WithLinks(S, SeenTarget) \subseteq Calm
  PROVE  WithLinks(S, SeenTarget) \subseteq WithLinks(S, LinkRow)
<1>g. PICK seen, goes : seen = [n \in Names |-> SeenTarget(n)] /\ goes = [n \in Names |-> LinkRow(n)]
  OBVIOUS
<1>w. PICK V, W : V = WithLinks(S, SeenTarget) /\ W = WithLinks(S, LinkRow)
  OBVIOUS
<1>1. V = Reach(S, seen)
  BY <1>g, <1>w DEF WithLinks, Reach
<1>2. W = Reach(S, goes)
  BY <1>g, <1>w DEF WithLinks, Reach
<1>3. \A m \in Names : m \in S \/ goes[m] \in S \cup W => m \in W
  BY <1>2, LinksLeast
<1>4. V \subseteq Names /\ \A X : (\A m \in V : m \in S \/ seen[m] \in S \cup (X \cap V) => m \in X) => V \subseteq X
  <2>1. V \subseteq Names
    BY <1>1, LinksLeast
  <2>2. ASSUME NEW X, \A m \in V : m \in S \/ seen[m] \in S \cup (X \cap V) => m \in X PROVE V \subseteq X
    BY <1>1, <2>2, LinksLeast
  <2> QED BY <2>1, <2>2
<1>5. ASSUME NEW m \in V, m \notin S, seen[m] \in S \cup (W \cap V) PROVE m \in W
  <2>1. seen[m] \in Names /\ NoName \notin Names
    BY <1>4, <1>5, Below DEF NoName, Root
  <2>2. m \in Calm /\ m \in Names /\ m \notin unclear /\ m \notin Busy
    BY <1>w DEF Calm
  <2>3. seen[m] = Stored(m).target
    BY <1>g, <2>2 DEF SeenTarget, Visible
  <2>4. RowsOf("nodes", m) # {}
    BY <2>1, <2>3 DEF Stored, Absent, Node
  <2>5. Sound(m)
    BY <2>2, <2>4 DEF CalmFine, Fine, Something, Tabs
  <2>6. PICK w \in RowsOf("nodes", m) : /\ RowsOf("nodes", m) = {w}
                                        /\ w.kind = "link" => Single(RowsOf("links", m))
    BY <2>5 DEF Sound
  <2>7. Stored(m) = Node(w.kind, w.by, IF w.kind = "link" THEN GetTarget(m) ELSE NoName)
    BY <2>4, <2>6 DEF Stored
  <2>8. seen[m] = GetTarget(m) /\ w.kind = "link"
    BY <2>1, <2>3, <2>7 DEF Node
  <2>9. RowsOf("links", m) # {}
    BY <2>6, <2>8 DEF Single
  <2>10. goes[m] = seen[m]
    BY <1>g, <2>2, <2>8, <2>9 DEF LinkRow
  <2> QED BY <1>3, <1>5, <2>2, <2>10
<1>6. \A m \in V : m \in S => m \in W
  BY <1>3, <1>4
<1>7. V \subseteq W
  BY <1>4, <1>5, <1>6
<1> QED BY <1>7, <1>w

(* Links that lead to what is deleted are caught. *)
LEMMA LinksCaught ==
  ASSUME Typed, NEW S, S \subseteq Names, NEW X, X \subseteq Names,
         \A l \in WithLinks(S, LinkRow) : LeadsTo(l, S \cup X) => l \in X
  PROVE  WithLinks(S, LinkRow) \subseteq S \cup X
<1>g. PICK goes : goes = [n \in Names |-> LinkRow(n)]
  OBVIOUS
<1>w. PICK W : W = WithLinks(S, LinkRow)
  OBVIOUS
<1>1. W = Reach(S, goes)
  BY <1>g, <1>w DEF WithLinks, Reach
<1>2. W \subseteq Names /\ \A Y : (\A m \in W : m \in S \/ goes[m] \in S \cup (Y \cap W) => m \in Y) => W \subseteq Y
  <2>1. W \subseteq Names
    BY <1>1, LinksLeast
  <2>2. ASSUME NEW Y, \A m \in W : m \in S \/ goes[m] \in S \cup (Y \cap W) => m \in Y PROVE W \subseteq Y
    BY <1>1, <2>2, LinksLeast
  <2> QED BY <2>1, <2>2
<1>3. ASSUME NEW m \in W, goes[m] \in S \cup X PROVE m \in X
  <2>1. goes[m] = LinkRow(m) /\ LinkRow(m) # NoName
    BY <1>2, <1>3, <1>g, Below DEF NoName, Root
  <2>2. RowsOf("links", m) # {} /\ LinkRow(m) = GetTarget(m)
    BY <2>1 DEF LinkRow
  <2>3. GetTarget(m) \in {w.target : w \in RowsOf("links", m)}
    BY <2>2 DEF GetTarget
  <2>4. LeadsTo(m, S \cup X)
    BY <1>3, <2>1, <2>2, <2>3 DEF LeadsTo
  <2> QED BY <1>w, <2>4
<1>4. \A m \in W : m \in S \/ goes[m] \in S \cup ((S \cup X) \cap W) => m \in S \cup X
  BY <1>3
<1> QED BY <1>2, <1>4, <1>w

(* What a deletion that has met nobody finds where it begins. *)
LEMMA DeleteFinds ==
  ASSUME Typed, Orderly, Within, CalmFine, NEW r \in Requests, Begin(r), Good(r)',
         op[r].do # "create", ToNull(op[r]), NEW n, n = From(op[r])
  PROVE  \E c \in BOOLEAN :
           /\ todo'[r] = DeleteStmts(n, c)
           /\ Deleted(op[r]) = IF c THEN Subtree(n) ELSE {n}
           /\ n = Root => c
           /\ n # Root => n \in Calm /\ n \in Scope(op[r]) /\ (c <=> Cont(n))
           /\ ~c => \A m \in Under(n) : ~Something(m)
<1>1. /\ n \in Places /\ IsStored(n) /\ Scope(op[r]) \subseteq Calm
      /\ Deleted(op[r]) = IF "container" \in GetTypes(n) THEN Subtree(n) ELSE {n}
  <2>1. n \in Places /\ IsStored(n)
    BY DeleteScope
  <2>2. Scope(op[r]) \subseteq Calm
    <3>1. ~(Scope(op[r]) \subseteq unclear')
      BY BeginFacts DEF Good
    <3> QED BY <3>1, BeginMeets
  <2>3. Deleted(op[r]) = IF "container" \in GetTypes(n) THEN Subtree(n) ELSE {n}
    BY DEF Deleted
  <2> QED BY <2>1, <2>2, <2>3
<1>2. PICK kind \in GetTypes(n) \cup {"none"} :
        (kind = "none" => GetTypes(n) = {}) /\ todo'[r] = DeleteStmts(n, kind = "container")
  BY DeleteBegins
<1>c. PICK c \in BOOLEAN : c <=> kind = "container"
  OBVIOUS
<1>3. todo'[r] = DeleteStmts(n, c)
  <2>1. CASE kind = "container"
    <3>1. c = TRUE /\ (kind = "container") = TRUE
      BY <1>c, <2>1
    <3> QED BY <1>2, <3>1
  <2>2. CASE kind # "container"
    <3>1. c = FALSE /\ (kind = "container") = FALSE
      BY <1>c, <2>2
    <3> QED BY <1>2, <3>1
  <2> QED BY <2>1, <2>2
<1>4. CASE n = Root
  <2>1. GetTypes(n) = {"container"}
    BY <1>4 DEF GetTypes
  <2>2. c
    BY <1>2, <1>c, <2>1
  <2> QED BY <1>1, <1>3, <1>4, <2>1, <2>2
<1>5. CASE n # Root
  <2>1. n \in Names /\ n \in Scope(op[r]) /\ n \in Calm
    BY <1>1, <1>5, DeleteScope DEF Places, Subtree
  <2>2. Something(n) /\ RowsOf("nodes", n) # {}
    BY <1>1, <1>5 DEF IsStored, Something, Tabs
  <2>3. Sound(n) /\ Holds(n)
    BY <2>1, <2>2 DEF CalmFine, Fine
  <2>4. PICK w \in RowsOf("nodes", n) : RowsOf("nodes", n) = {w} /\ file[n] = [kind |-> w.kind, by |-> w.by]
    BY <2>3 DEF Sound
  <2>5. GetTypes(n) = {w.kind}
    BY <1>5, <2>4 DEF GetTypes
  <2>6. (c <=> w.kind = "container") /\ (Cont(n) <=> w.kind = "container")
    BY <1>2, <1>c, <2>4, <2>5 DEF Cont
  <2>7. Deleted(op[r]) = IF c THEN Subtree(n) ELSE {n}
    <3>1. CASE w.kind = "container"
      BY <1>1, <2>5, <2>6, <3>1
    <3>2. CASE w.kind # "container"
      BY <1>1, <2>5, <2>6, <3>2
    <3> QED BY <3>1, <3>2
  <2>8. ~c => \A m \in Under(n) : ~Something(m)
    BY <2>3, <2>6 DEF Holds
  <2> QED BY <1>3, <1>5, <2>1, <2>6, <2>7, <2>8
<1> QED BY <1>4, <1>5

(* A deletion that begins has everything still to do. *)
LEMMA BeginDel ==
  ASSUME Typed, Orderly, Within, CalmFine, NEW r \in Requests, Begin(r), Good(r)',
         op[r].do # "create", ToNull(op[r])
  PROVE  DelAt(r)'
<1>n. PICK n, S, D : n = From(op[r]) /\ S = Deleted(op[r]) /\ D = Scope(op[r])
  OBVIOUS
<1>c. PICK c \in BOOLEAN :
        /\ todo'[r] = DeleteStmts(n, c)
        /\ S = IF c THEN Subtree(n) ELSE {n}
        /\ n = Root => c
        /\ n # Root => n \in Calm /\ n \in Scope(op[r]) /\ (c <=> Cont(n))
        /\ ~c => \A m \in Under(n) : ~Something(m)
  BY <1>n, DeleteFinds
<1>1. /\ n \in Places /\ n \in S /\ S \subseteq Subtree(n)
      /\ D = Names \cap UNION {Subtree(l) : l \in {n} \cup WithLinks(S, LinkRow) \cup WithLinks(S, SeenTarget)}
      /\ \A m \in D : Under(m) \subseteq D
  BY <1>n, DeleteScope
<1>2. D \subseteq Calm /\ Calm \subseteq Names /\ unclear' = unclear'
  BY <1>n, BeginMeets, BeginFacts DEF Good, Calm
<1>3. rows' = rows /\ file' = file /\ op' = op /\ scope'[r] = D /\ found'[r] = {}
  BY <1>n, BeginFacts
<1>L. PICK L : L = Items(todo'[r])
  OBVIOUS
<1>4. /\ Followed(todo'[r])
      /\ \A s : s \in L <=>
           \/ \E t \in TableNames : s = Delete(t, {n})
           \/ c /\ \E t \in TableNames : s = Delete(t, Under(n))
           \/ s = Select({n}, TRUE)
           \/ c /\ s = Select(Under(n), FALSE)
           \/ s = RemoveBytes(n, c)
  <2>1. Followed(todo'[r])
    BY <1>c, <1>1, DeleteItems
  <2> QED BY <1>c, <1>1, <1>L, <2>1, DeleteItems, Zenon
<1>5. ASSUME NEW m \in S, NEW t \in TableNames
      PROVE  \E x \in L : x.do = "delete" /\ x.t = t /\ m \in x.ids
  <2>1. CASE m = n
    <3>1. Delete(t, {n}) \in L
      BY <1>4
    <3>2. Delete(t, {n}).do = "delete" /\ Delete(t, {n}).t = t /\ m \in Delete(t, {n}).ids
      BY <2>1 DEF Delete
    <3> QED BY <3>1, <3>2
  <2>2. CASE m # n
    <3>0. c /\ m \in Under(n)
      BY <1>c, <2>2 DEF Subtree
    <3>1. Delete(t, Under(n)) \in L
      BY <1>4, <3>0
    <3>2. Delete(t, Under(n)).do = "delete" /\ Delete(t, Under(n)).t = t /\ m \in Delete(t, Under(n)).ids
      BY <3>0 DEF Delete
    <3> QED BY <3>1, <3>2
  <2> QED BY <2>1, <2>2
<1>6. ASSUME NEW m \in S
      PROVE  \E x \in L : x.do = "removebytes" /\ m \in IF x.container THEN Subtree(x.id) ELSE {x.id}
  <2>1. RemoveBytes(n, c) \in L
    BY <1>4
  <2>2. /\ RemoveBytes(n, c).do = "removebytes" /\ RemoveBytes(n, c).id = n
        /\ RemoveBytes(n, c).container = c
    BY DEF RemoveBytes
  <2>3. m \in IF c THEN Subtree(n) ELSE {n}
    BY <1>c
  <2> QED BY <2>1, <2>2, <2>3
<1>7. \A t, m : Deleting(r, t, m)' <=> \E x \in L : x.do = "delete" /\ x.t = t /\ m \in x.ids
  BY <1>L DEF Deleting
<1>8. \A m : Removing(r, m)' <=>
        \E x \in L : x.do = "removebytes" /\ m \in IF x.container THEN Subtree(x.id) ELSE {x.id}
  BY <1>L DEF Removing, Subtree, Under
<1>9. /\ \A t, m : RowsOf(t, m)' = RowsOf(t, m)
      /\ Tabs \subseteq TableNames
  BY <1>3 DEF RowsOf, Tabs, TableNames
<1>10. \A m \in S : Going(r, m)'
  BY <1>5, <1>6, <1>7, <1>8, <1>9 DEF Going
<1>11. \A m : ~Something(m) => Going(r, m)'
  BY <1>3, <1>9 DEF Going, Something
<1>12. \A m \in Subtree(n) : Going(r, m)'
  <2>1. CASE c
    BY <1>c, <1>10, <2>1
  <2>2. CASE ~c
    BY <1>1, <1>c, <1>10, <1>11, <2>2 DEF Subtree
  <2> QED BY <2>1, <2>2
<1>13. S \subseteq PendSel(r)'
  <2> SUFFICES ASSUME NEW m \in S PROVE m \in Places /\ \E s \in L : s.do = "select" /\ m \in s.ids
    BY <1>L DEF PendSel, Places
  <2>1. m \in Places
    BY <1>1, Below DEF Subtree, Places
  <2>2. CASE m = n
    <3>1. Select({n}, TRUE) \in L /\ Select({n}, TRUE).do = "select" /\ m \in Select({n}, TRUE).ids
      BY <1>4, <2>2 DEF Select
    <3> QED BY <2>1, <3>1
  <2>3. CASE m # n
    <3>1. c /\ m \in Under(n)
      BY <1>c, <2>3 DEF Subtree
    <3>2. Select(Under(n), FALSE) \in L
      BY <1>4, <3>1
    <3>3. Select(Under(n), FALSE).do = "select" /\ m \in Select(Under(n), FALSE).ids
      BY <3>1 DEF Select
    <3> QED BY <2>1, <3>2, <3>3
  <2> QED BY <2>2, <2>3
<1>14. ASSUME n # Root
       PROVE  /\ S \subseteq Names /\ WithLinks(S, LinkRow) \subseteq D
              /\ WithLinks(S, SeenTarget) \subseteq WithLinks(S, LinkRow)
  <2>1. S \subseteq Names
    BY <1>1, <1>14, Below DEF Subtree, Places
  <2>2. WithLinks(S, LinkRow) \subseteq Names /\ WithLinks(S, SeenTarget) \subseteq Names
    BY DEF WithLinks
  <2>3. WithLinks(S, LinkRow) \subseteq D /\ WithLinks(S, SeenTarget) \subseteq D
    BY <1>1, <2>2 DEF Subtree
  <2> QED BY <1>2, <2>1, <2>3, LinksCalm
<1>15. ASSUME n # Root, NEW l \in WithLinks(S, LinkRow), l \notin S PROVE Expected(r, l)'
  <2>1. \A k : \A T : LeadsTo(k, T)' <=> LeadsTo(k, T)
    BY <1>9 DEF LeadsTo
  <2> SUFFICES ASSUME NEW X \in SUBSET D, Catches(r, X)' PROVE l \in X
    BY <1>3 DEF Expected
  <2>P. PICK P : P = PendSel(r)'
    OBVIOUS
  <2>2. \A k \in D : LeadsTo(k, P \cup X) => k \in X
    BY <1>3, <2>1, <2>P DEF Catches
  <2>3. \A k \in WithLinks(S, LinkRow) : LeadsTo(k, S \cup X) => k \in X
    <3>1. S \cup X \subseteq P \cup X
      BY <1>13, <2>P
    <3> QED BY <1>14, <1>15, <2>2, <3>1 DEF LeadsTo
  <2>4. X \subseteq Names
    BY <1>2
  <2> QED BY <1>14, <1>15, <2>3, <2>4, LinksCaught
<1>16. \A m \in D : Going(r, m)' \/ Expected(r, m)'
  <2> TAKE m \in D
  <2>1. CASE m \in Subtree(n)
    BY <1>12, <2>1
  <2>2. CASE m \notin Subtree(n)
    <3>1. n # Root
      BY <1>2, <2>2, RootAbove DEF Subtree
    <3>2. PICK l \in WithLinks(S, LinkRow) : m \in Subtree(l)
      <4>1. PICK l \in {n} \cup WithLinks(S, LinkRow) \cup WithLinks(S, SeenTarget) : m \in Subtree(l)
        BY <1>1
      <4>2. l \in WithLinks(S, LinkRow)
        BY <1>14, <2>2, <3>1, <4>1
      <4> QED BY <4>1, <4>2
    <3>3. l \in D /\ l \in Names /\ l \in Calm
      BY <1>2, <1>14, <3>1
    <3>4. l \notin S
      <4> SUFFICES ASSUME l \in S PROVE FALSE
        OBVIOUS
      <4>1. l \in Subtree(n)
        BY <1>1
      <4>2. Subtree(l) \subseteq Subtree(n)
        BY <1>1, <4>1, Below DEF Subtree
      <4> QED BY <2>2, <3>2, <4>2
    <3>5. CASE m = l
      BY <1>15, <3>1, <3>4, <3>5
    <3>6. CASE m \in Under(l)
      <4>1. RowsOf("links", l) # {}
        BY <1>14, <3>1, <3>4, LinksThere
      <4>2. Sound(l) /\ Holds(l)
        BY <3>3, <4>1 DEF CalmFine, Fine, Something, Tabs
      <4>3. ~Cont(l)
        BY <3>3, <4>1, <4>2, ContIs
      <4>4. ~Something(m)
        BY <3>6, <4>2, <4>3 DEF Holds
      <4> QED BY <1>11, <4>4
    <3> QED BY <3>2, <3>5, <3>6 DEF Subtree
  <2> QED BY <2>1, <2>2
<1>17. ASSUME NEW s \in L, s.do = "delete", NEW m \in s.ids \cap Names PROVE Going(r, m)'
  <2>1. \/ \E t \in TableNames : s = Delete(t, {n})
        \/ \E t \in TableNames : s = Delete(t, Under(n))
    BY <1>4, <1>17 DEF Select, RemoveBytes
  <2>2. s.ids = {n} \/ s.ids = Under(n)
    BY <2>1 DEF Delete
  <2> QED BY <1>12, <1>17, <2>2 DEF Subtree
<1>18. ASSUME NEW l \in D, NEW m \in Under(l), file[m] # NoFile
       PROVE  RowsOf("links", l) = {} /\ RemoveBytes(l, FALSE) \notin L
  <2>1. l \in Calm /\ l \in Names
    BY <1>2
  <2>2. Cont(l)
    BY <1>18, <2>1 DEF CalmFine, Holds, Something
  <2>3. Sound(l)
    BY <2>1, <2>2, ContIs DEF CalmFine, Fine
  <2>4. ASSUME RemoveBytes(l, FALSE) \in L PROVE FALSE
    <3>1. RemoveBytes(l, FALSE) = RemoveBytes(n, c)
      <4>1. RemoveBytes(l, FALSE).do = "removebytes"
        BY DEF RemoveBytes
      <4>2. \A t, Q : Delete(t, Q).do = "delete"
        BY DEF Delete
      <4>3. \A Q, b : Select(Q, b).do = "select"
        BY DEF Select
      <4>x. PICK x : x = RemoveBytes(l, FALSE)
        OBVIOUS
      <4>4. /\ x \in L /\ x.do = "removebytes"
            /\ \A t \in TableNames : x # Delete(t, {n}) /\ x # Delete(t, Under(n))
            /\ x # Select({n}, TRUE) /\ x # Select(Under(n), FALSE)
        BY <2>4, <4>1, <4>2, <4>3, <4>x
      <4>5. x = RemoveBytes(n, c)
        BY <1>4, <4>4, Zenon
      <4> QED BY <4>5, <4>x
    <3>2. l = n /\ ~c
      <4>1. RemoveBytes(l, FALSE).id = l /\ RemoveBytes(l, FALSE).container = FALSE
        BY DEF RemoveBytes
      <4>2. RemoveBytes(n, c).id = n /\ RemoveBytes(n, c).container = c
        BY DEF RemoveBytes
      <4> QED BY <3>1, <4>1, <4>2
    <3>3. n # Root
      BY <2>1, <3>2, Below
    <3> QED BY <1>c, <2>2, <3>2, <3>3
  <2> QED BY <2>1, <2>2, <2>3, <2>4, ContIs
<1>19. op'[r].do # "create" /\ ToNull(op[r])'
  <2>1. op'[r] = op[r]
    BY <1>3
  <2> QED BY <2>1 DEF ToNull
<1>20. /\ (\A m \in scope[r] : Going(r, m) \/ Expected(r, m))'
       /\ (\A s \in Items(todo[r]) : s.do = "delete" => \A m \in s.ids \cap Names : Going(r, m))'
  BY <1>3, <1>16, <1>17, <1>L
<1>21. (\A l \in scope[r] : \A m \in Under(l) : file[m] # NoFile =>
          /\ RowsOf("links", l) = {} /\ l \notin found[r]
          /\ RemoveBytes(l, FALSE) \notin Items(todo[r]))'
  BY <1>3, <1>9, <1>18, <1>L DEF Under
<1>22. (\A m \in scope[r] : Under(m) \subseteq scope[r])'
  BY <1>1, <1>3 DEF Under
<1> QED BY <1>3, <1>4, <1>19, <1>20, <1>21, <1>22 DEF DelAt

-----------------------------------------------------------------------------
(* A job that begins *)

(* What is there when a good job begins. *)
LEMMA BeginJob ==
  ASSUME Typed, Within, CalmFine, NEW r \in Requests, Begin(r), Good(r)',
         op[r].do \in {"move", "copy"}, ~ToNull(op[r]),
         NEW f, NEW g, f = From(op[r]), g = To(op[r])
  PROVE  /\ Leads(r, f, g)' /\ IsStored(f) /\ NoLinks(f)
         /\ g \notin Subtree(f) /\ \A m \in Subtree(f) : Renamed(m, f, g) \in Names
         /\ \A m \in Subtree(f) \cup Subtree(g) : m \in Names /\ Fine(m) /\ Holds(m)
         /\ op[r].do = "copy" => ~IsStored(g)
         /\ op[r].do = "move" => todo'[r] = MoveStmts(f, g)
         /\ op[r].do = "copy" => todo'[r] = CopyStmts(f, g)
<1>1. PICK met, kind : Starts(r, met, kind)
  BY BeginFacts
<1>2. Allowed(op[r]) /\ Fits(op[r]) /\ ~Amiss(op[r])
  <2>1. ~(Scope(op[r]) \subseteq unclear')
    BY BeginFacts DEF Good
  <2> QED BY <1>1, <2>1 DEF Starts
<1>3. /\ f \in Names /\ g \in Names /\ g \notin Subtree(f)
      /\ \A m \in Subtree(f) : Renamed(m, f, g) \in Names
  <2>1. f \in Names /\ g \in Names \ Subtree(f) /\ \A m \in Under(f) : Renamed(m, f, g) \in Names
    BY <1>2 DEF Fits
  <2>2. Renamed(f, f, g) = g
    BY <2>1, Renaming
  <2> QED BY <2>1, <2>2 DEF Subtree
<1>4. IsStored(f)
  BY <1>2 DEF Allowed, JobAllowed
<1>5. Subtree(f) \subseteq Names /\ Subtree(g) \subseteq Names
  BY <1>3, Below DEF Subtree
<1>6. Scope(op[r]) = Subtree(f) \cup Subtree(g)
  <2>1. Scope(op[r]) = (Subtree(f) \cup Subtree(g)) \cap Names
    BY DEF Scope
  <2> QED BY <1>5, <2>1
<1>7. \A m \in Subtree(f) \cup Subtree(g) : m \in Names /\ Fine(m) /\ Holds(m)
  <2>1. ~(Scope(op[r]) \subseteq unclear')
    BY BeginFacts DEF Good
  <2>2. Scope(op[r]) \subseteq Calm
    BY <2>1, BeginMeets
  <2> QED BY <1>5, <1>6, <2>2 DEF CalmFine
<1>8. Leads(r, f, g)'
  <2>1. scope'[r] = Subtree(f) \cup Subtree(g)
    BY <1>6, BeginFacts
  <2> QED BY <1>3, <2>1 DEF Leads, Subtree, Under
<1>9. NoLinks(f)
  <2> SUFFICES ASSUME NEW m \in Subtree(f), NEW w \in RowsOf("nodes", m) PROVE w.kind # "link"
    BY DEF NoLinks
  <2>1. ~IsLink(m) /\ m \in Names /\ m # Root
    BY <1>2, <1>5, Below DEF Amiss
  <2>2. Sound(m)
    BY <1>7 DEF Fine, Something, Tabs
  <2>3. RowsOf("nodes", m) = {w}
    <3>1. PICK v : RowsOf("nodes", m) = {v}
      BY <2>2 DEF Sound
    <3> QED BY <3>1
  <2>4. GetTypes(m) = {w.kind}
    BY <2>1, <2>3 DEF GetTypes
  <2>5. GetType(m) = w.kind
    BY <2>4 DEF GetType
  <2> QED BY <2>1, <2>5 DEF IsLink
<1>10. op[r].do = "copy" => ~IsStored(g)
  BY <1>2 DEF Amiss
<1>11. /\ op[r].do = "move" => todo'[r] = MoveStmts(f, g)
       /\ op[r].do = "copy" => todo'[r] = CopyStmts(f, g)
  <2>1. todo'[r] = Stmts(op[r], kind = "container")
    BY <1>1 DEF Starts
  <2>2. op[r].do # "create"
    OBVIOUS
  <2>3. Stmts(op[r], kind = "container") = IF op[r].do = "move" THEN MoveStmts(f, g) ELSE CopyStmts(f, g)
    BY <2>2, Zenon DEF Stmts
  <2>4. CASE op[r].do = "move"
    BY <2>1, <2>3, <2>4
  <2>5. CASE op[r].do = "copy"
    BY <2>1, <2>3, <2>5
  <2> QED BY <2>4, <2>5
<1> QED BY <1>3, <1>4, <1>7, <1>8, <1>9, <1>10, <1>11

(* A name that is not the first of a tree has a container above it. *)
LEMMA JobContainer ==
  ASSUME NEW f \in Names, IsStored(f), Fine(f), Holds(f), NEW m \in Subtree(f), Something(m), m # f
  PROVE  GetType(f) = "container"
<1>1. m \in Under(f) /\ f # Root
  BY Below DEF Subtree
<1>2. Cont(f)
  BY <1>1 DEF Holds
<1> QED BY <1>2 DEF Cont, GetType

(* A move that begins has everything still to do. *)
LEMMA MoveBegins ==
  ASSUME Typed, Within, CalmFine, NEW r \in Requests, Begin(r), Good(r)',
         op[r].do = "move", ~ToNull(op[r]),
         NEW f, NEW g, f = From(op[r]), g = To(op[r])
  PROVE  f \in Names /\ g \in Names /\ MoveBefore(r, f, g)'
<1>1. /\ Leads(r, f, g)' /\ IsStored(f) /\ NoLinks(f)
      /\ g \notin Subtree(f) /\ \A m \in Subtree(f) : Renamed(m, f, g) \in Names
      /\ \A m \in Subtree(f) \cup Subtree(g) : m \in Names /\ Fine(m) /\ Holds(m)
      /\ todo'[r] = MoveStmts(f, g)
  BY BeginJob
<1>2. rows' = rows /\ file' = file /\ op' = op
  BY BeginFacts
<1>3. /\ f \in Names /\ g \in Names /\ f # Root /\ f \in Subtree(f) /\ f \in Places /\ rows \subseteq Rows
      /\ Renamed(f, f, g) = g
      /\ \A m, u \in Subtree(f) : Renamed(m, f, g) = Renamed(u, f, g) => m = u
      /\ scope'[r] = Subtree(f) \cup Subtree(g)
  <2>1. f \in Names /\ g \in Names /\ scope'[r] = Subtree(f) \cup Subtree(g)
    BY <1>1 DEF Leads, Subtree, Under
  <2>2. f # Root /\ f \in Subtree(f) /\ f \in Places /\ rows \subseteq Rows
    BY <2>1, Below DEF Subtree, Places, Typed
  <2> QED BY <2>1, <2>2, Renaming
<1>4. RowsOf("nodes", f) # {} /\ GetType(f) # "link"
  <2>1. RowsOf("nodes", f) # {}
    BY <1>1, <1>3 DEF IsStored
  <2>2. GetTypes(f) # {} /\ \A k \in GetTypes(f) : k # "link"
    BY <1>1, <1>3, <2>1 DEF GetTypes, NoLinks
  <2> QED BY <2>1, <2>2 DEF GetType
<1>U. PICK U, b : U = UpdateData(f, g) /\ b = (GetType(f) = "container")
  OBVIOUS
<1>5. /\ U \in Seq(Stmt)
      /\ \A s \in Items(U) :
           \/ s = Insert("addl_props", g, "", NoName)
           \/ \E t \in Moved : s = Update(t, g) \/ s = Rename(t, f, g)
      /\ \A t \in Moved : Rename(t, f, g) \in Items(U)
  BY <1>3, <1>4, <1>U, UpdateItems
<1>d. \A s \in Items(U) : s.do \in {"insert", "rename"} /\ s.id \in {f, g}
  <2> TAKE s \in Items(U)
  <2>1. CASE s = Insert("addl_props", g, "", NoName)
    BY <2>1 DEF Insert
  <2>2. ASSUME NEW t \in Moved, s = Update(t, g) \/ s = Rename(t, f, g)
        PROVE  s.do \in {"insert", "rename"} /\ s.id \in {f, g}
    BY <2>2 DEF Update, Rename
  <2> QED BY <1>5, <2>1, <2>2
<1>L. PICK L : L = Items(Tail(todo'[r]))
  OBVIOUS
<1>6. /\ todo'[r] # <<>> /\ Head(todo'[r]) = MoveBytes(f, g) /\ LastOne(Tail(todo'[r]))
      /\ \A s : s \in L <=> s \in Items(U) \/ (b /\ s = Children(f, g))
  <2>1. MoveBytes(f, g) \in Stmt /\ Children(f, g) \in Stmt
    <3>1. \A m \in Under(f) : Renamed(m, f, g) \in Names
      BY <1>1 DEF Subtree
    <3> QED BY <1>3, <3>1, Statements
  <2>2. Children(f, g).do = "children" /\ \A s \in Items(U) : s.do # "children"
    BY <1>d DEF Children
  <2>3. todo'[r] = <<MoveBytes(f, g)>> \o U \o If(b, <<Children(f, g)>>)
    BY <1>1, <1>U, Zenon DEF MoveStmts
  <2> HIDE DEF Stmt
  <2>x. PICK x, c, list : x = MoveBytes(f, g) /\ c = Children(f, g) /\ list = todo'[r]
    OBVIOUS
  <2>i. PICK e : e = If(b, <<c>>)
    OBVIOUS
  <2>c. c \in Stmt /\ c.do = "children"
    BY <2>1, <2>2, <2>x
  <2>e. e \in Seq(Stmt) /\ Distinct(e) /\ LastOne(e) /\ \A s : s \in Items(e) <=> b /\ s = c
    BY <2>c, <2>i, JobLast
  <2>s. \A s \in Items(U) : s.do # "children"
    BY <2>2
  <2>o. Items(U) \cap Items(e) = {}
    BY <2>c, <2>e, <2>s
  <2>l. list = <<x>> \o U \o e
    BY <2>3, <2>i, <2>x
  <2>4. x \in Stmt /\ U \in Seq(Stmt) /\ e \in Seq(Stmt) /\ LastOne(e) /\ Distinct(e)
    BY <1>5, <2>1, <2>e, <2>x
  <2>5. list # <<>> /\ Head(list) = x /\ LastOne(Tail(list))
    BY <2>4, <2>l, <2>o, <2>s, JobRest, Zenon
  <2>6. \A s : s \in Items(Tail(list)) <=> s \in Items(U) \/ s \in Items(e)
    BY <2>4, <2>l, <2>o, <2>s, JobRest, Zenon
  <2> QED BY <1>L, <2>5, <2>6, <2>x, <2>e
<1>7. MoveList(L, f, g)
  <2>1. \A s \in L : MoveItem(s, f, g)
    <3> TAKE s \in L
    <3>1. CASE s \in Items(U)
      BY <1>3, <1>5, <3>1 DEF MoveItem
    <3>2. CASE s = Children(f, g)
      BY <3>2 DEF MoveItem
    <3> QED BY <1>6, <3>1, <3>2
  <2> QED BY <1>6, <1>d, <2>1 DEF MoveList
<1>8. ASSUME NEW m \in Subtree(f) PROVE MoveOwed(L, f, g, m)
  <2>k. PICK k : k = Renamed(m, f, g)
    OBVIOUS
  <2>1. ASSUME NEW t \in Moved, RowsOf(t, m) # {} PROVE Rename(t, m, k) \in L \/ Waits(L, f, g, m)
    <3>1. CASE m = f
      BY <1>3, <1>5, <1>6, <2>k, <3>1
    <3>2. CASE m # f
      <4>1. Something(m)
        BY <2>1 DEF Something, Tabs, Moved
      <4>2. b
        BY <1>1, <1>3, <1>U, <3>2, <4>1, JobContainer
      <4>3. m \in Under(f)
        BY <3>2 DEF Subtree
      <4> QED BY <1>6, <4>2, <4>3 DEF Waits
    <3> QED BY <3>1, <3>2
  <2>2. Insert("addl_props", k, "", NoName) \in L => Both("nodes", m, k) # {}
    <3> SUFFICES ASSUME Insert("addl_props", k, "", NoName) \in L PROVE Both("nodes", m, k) # {}
      OBVIOUS
    <3>1. Insert("addl_props", k, "", NoName) # Children(f, g)
      BY DEF Insert, Children
    <3>2. Insert("addl_props", k, "", NoName) \in Items(U)
      BY <1>6, <3>1
    <3>3. ASSUME NEW t PROVE /\ Insert("addl_props", k, "", NoName) # Update(t, g)
                             /\ Insert("addl_props", k, "", NoName) # Rename(t, f, g)
      BY DEF Insert, Update, Rename
    <3>4. Insert("addl_props", k, "", NoName) = Insert("addl_props", g, "", NoName)
      BY <1>5, <3>2, <3>3
    <3>5. k = g
      BY <3>4 DEF Insert
    <3>6. m = f
      BY <1>3, <2>k, <3>5
    <3> QED BY <1>4, <3>6 DEF Both
  <2> QED BY <2>1, <2>2, <2>k DEF MoveOwed
<1>9. \A t, m : RowsOf(t, m)' = RowsOf(t, m)
  BY <1>2 DEF RowsOf
<1>10. JobBefore(r, f, g)'
  <2>1. IsStored(f)' /\ NoLinks(f)'
    BY <1>1, <1>9 DEF IsStored, NoLinks, Subtree, Under
  <2>2. \A m \in scope'[r] : Fine(m)' /\ Holds(m)'
    BY <1>1, <1>2, <1>3, AllStays
  <2> QED BY <1>1, <1>6, <2>1, <2>2 DEF JobBefore
<1>11. MoveBefore(r, f, g)'
  <2>1. MoveList(L, f, g)'
    BY <1>7 DEF MoveList, MoveItem, Subtree, Under
  <2>2. \A m \in Subtree(f) : MoveOwed(L, f, g, m)'
    BY <1>8, <1>9 DEF MoveOwed, Waits, Both, Under
  <2> QED BY <1>6, <1>10, <1>L, <2>1, <2>2 DEF MoveBefore, Subtree, Under
<1> QED BY <1>3, <1>11

(* So it is a good job. *)
LEMMA BeginMove ==
  ASSUME Typed, Within, CalmFine, NEW r \in Requests, Begin(r), Good(r)',
         op[r].do = "move", ~ToNull(op[r])
  PROVE  MoveAt(r)'
<1>1. PICK f, g : f = From(op[r]) /\ g = To(op[r])
  OBVIOUS
<1>2. f \in Names /\ g \in Names /\ MoveBefore(r, f, g)'
  BY <1>1, MoveBegins
<1>3. op'[r].do = "move" /\ ~ToNull(op'[r])
  BY BeginFacts DEF ToNull
<1> QED BY <1>2, <1>3 DEF MoveAt, ToNull

(* A copy that begins has everything still to do. *)
LEMMA CopyBegins ==
  ASSUME Typed, Within, CalmFine, NEW r \in Requests, Begin(r), Good(r)',
         op[r].do = "copy", ~ToNull(op[r]),
         NEW f, NEW g, f = From(op[r]), g = To(op[r])
  PROVE  f \in Names /\ g \in Names /\ CopyBefore(r, f, g)'
<1>1. /\ Leads(r, f, g)' /\ IsStored(f) /\ NoLinks(f)
      /\ g \notin Subtree(f) /\ \A m \in Subtree(f) : Renamed(m, f, g) \in Names
      /\ \A m \in Subtree(f) \cup Subtree(g) : m \in Names /\ Fine(m) /\ Holds(m)
      /\ ~IsStored(g) /\ todo'[r] = CopyStmts(f, g)
  BY BeginJob
<1>2. rows' = rows /\ file' = file /\ op' = op
  BY BeginFacts
<1>3. /\ f \in Names /\ g \in Names /\ f # Root /\ f \in Subtree(f) /\ f \in Places /\ rows \subseteq Rows
      /\ Renamed(f, f, g) = g /\ f \notin Under(f)
      /\ \A m, u \in Subtree(f) : Renamed(m, f, g) = Renamed(u, f, g) => m = u
      /\ scope'[r] = Subtree(f) \cup Subtree(g)
  <2>1. f \in Names /\ g \in Names /\ scope'[r] = Subtree(f) \cup Subtree(g)
    BY <1>1 DEF Leads, Subtree, Under
  <2>2. f # Root /\ f \in Subtree(f) /\ f \in Places /\ rows \subseteq Rows /\ f \notin Under(f)
    BY <2>1, Below DEF Subtree, Places, Typed
  <2> QED BY <2>1, <2>2, Renaming
<1>4. PICK w0 : RowsOf("nodes", f) = {w0} /\ w0.kind # "link" /\ GetType(f) = w0.kind
  <2>1. RowsOf("nodes", f) # {}
    BY <1>1, <1>3 DEF IsStored
  <2>2. Sound(f)
    BY <1>1, <1>3, <2>1 DEF Fine, Something, Tabs
  <2>3. PICK w0 : RowsOf("nodes", f) = {w0}
    BY <2>2 DEF Sound
  <2>4. w0.kind # "link"
    BY <1>1, <1>3, <2>3 DEF NoLinks
  <2>5. GetTypes(f) = {w0.kind}
    BY <1>3, <2>3 DEF GetTypes
  <2>6. GetType(f) = w0.kind
    BY <2>5 DEF GetType
  <2> QED BY <2>3, <2>4, <2>6
<1>5. \A k \in Subtree(g) : ~Something(k)
  <2>1. ~Something(g)
    <3>1. g \in Subtree(g) /\ RowsOf("nodes", g) = {}
      BY <1>1 DEF Subtree, IsStored
    <3> QED BY <1>1, <3>1 DEF Fine, Sound
  <2>2. \A k \in Under(g) : ~Something(k)
    <3>1. Holds(g)
      BY <1>1 DEF Subtree
    <3> QED BY <1>3, <2>1, <3>1, ContIs DEF Holds
  <2> QED BY <2>1, <2>2 DEF Subtree
<1>D. PICK D, b : D = CopyData(f, g) /\ b = (GetType(f) = "container")
  OBVIOUS
<1>6. /\ D \in Seq(Stmt) /\ Distinct(D)
      /\ \A x \in Items(D) : \E t \in Moved : x = CopyRow(t, g, w0.kind)
      /\ CopyRow("nodes", g, w0.kind) \in Items(D)
      /\ CopyRow("properties", g, w0.kind) \in Items(D)
  <2>1. GetType(f) \in RowKinds /\ GetTarget(f) \in Targets
    BY <1>3, Reads
  <2>2. PICK addl : addl = (RowsOf("addl_props", f) # {})
    OBVIOUS
  <2>3. D = StoreData(g, w0.kind, GetTarget(f), addl)
    BY <1>4, <1>D, <2>2 DEF CopyData
  <2> QED BY <1>3, <1>4, <2>1, <2>3, StoreItems
<1>d. \A s \in Items(D) : s.do = "insert" /\ s.id = g
  <2> TAKE s \in Items(D)
  <2>1. PICK t \in Moved : s = CopyRow(t, g, w0.kind)
    BY <1>6
  <2> QED BY <2>1, CopyRowIs
<1>L. PICK L : L = Items(Tail(todo'[r]))
  OBVIOUS
<1>7. /\ todo'[r] # <<>> /\ Head(todo'[r]) = CopyBytes(f, g) /\ LastOne(Tail(todo'[r]))
      /\ Distinct(Tail(todo'[r]))
      /\ \A s : s \in L <=> s \in Items(D) \/ (b /\ s = Children(f, g))
  <2>1. CopyBytes(f, g) \in Stmt /\ Children(f, g) \in Stmt
    <3>1. \A m \in Under(f) : Renamed(m, f, g) \in Names
      BY <1>1 DEF Subtree
    <3> QED BY <1>3, <3>1, Statements
  <2>2. Children(f, g).do = "children" /\ \A s \in Items(D) : s.do # "children"
    BY <1>d DEF Children
  <2>3. todo'[r] = <<CopyBytes(f, g)>> \o D \o If(b, <<Children(f, g)>>)
    BY <1>1, <1>D, Zenon DEF CopyStmts
  <2> HIDE DEF Stmt
  <2>x. PICK x, c, list : x = CopyBytes(f, g) /\ c = Children(f, g) /\ list = todo'[r]
    OBVIOUS
  <2>i. PICK e : e = If(b, <<c>>)
    OBVIOUS
  <2>c. c \in Stmt /\ c.do = "children"
    BY <2>1, <2>2, <2>x
  <2>e. e \in Seq(Stmt) /\ Distinct(e) /\ LastOne(e) /\ \A s : s \in Items(e) <=> b /\ s = c
    BY <2>c, <2>i, JobLast
  <2>s. \A s \in Items(D) : s.do # "children"
    BY <2>2
  <2>o. Items(D) \cap Items(e) = {}
    BY <2>c, <2>e, <2>s
  <2>l. list = <<x>> \o D \o e
    BY <2>3, <2>i, <2>x
  <2>4. x \in Stmt /\ D \in Seq(Stmt) /\ e \in Seq(Stmt) /\ LastOne(e) /\ Distinct(e)
    BY <1>6, <2>1, <2>e, <2>x
  <2>5. list # <<>> /\ Head(list) = x /\ LastOne(Tail(list))
    BY <2>4, <2>l, <2>o, <2>s, JobRest, Zenon
  <2>6. \A s : s \in Items(Tail(list)) <=> s \in Items(D) \/ s \in Items(e)
    BY <2>4, <2>l, <2>o, <2>s, JobRest, Zenon
  <2>7. Distinct(D) => Distinct(Tail(list))
    BY <2>4, <2>l, <2>o, <2>s, JobRest, Zenon
  <2> QED BY <1>6, <1>L, <2>5, <2>6, <2>7, <2>x, <2>e
<1>e. \A s \in L : s.do # "child"
  BY <1>7, <1>d DEF Children
<1>8. CopyList(L, f, g)
  <2>1. \A s \in L : CopyItem(s, f, g)
    BY <1>3, <1>7, <1>d DEF CopyItem
  <2> QED BY <1>e, <2>1 DEF CopyList
<1>9. ASSUME NEW m \in Subtree(f), NEW s \in L, s.do = "insert", s.id = Renamed(m, f, g)
      PROVE  /\ ~Waits(L, f, g, m)
             /\ \E w \in RowsOf("nodes", m) : \E t \in Moved : s = CopyRow(t, Renamed(m, f, g), w.kind)
  <2>1. s # Children(f, g)
    BY <1>9 DEF Children
  <2>2. s \in Items(D) /\ s.id = g
    BY <1>7, <1>d, <2>1
  <2>3. m = f
    BY <1>3, <1>9, <2>2
  <2>4. ~Waits(L, f, g, m)
    BY <1>3, <1>e, <2>3 DEF Waits, Child
  <2> QED BY <1>3, <1>4, <1>6, <2>2, <2>3, <2>4
<1>10. ASSUME NEW m \in Subtree(f), NEW w \in RowsOf("nodes", m)
       PROVE  Awaits(L, f, g, "nodes", m, w.kind) /\ Awaits(L, f, g, "properties", m, w.kind)
  <2>1. CASE m = f
    BY <1>3, <1>4, <1>6, <1>7, <2>1 DEF Awaits
  <2>2. CASE m # f
    <3>1. Something(m)
      BY DEF Something, Tabs
    <3>2. b
      BY <1>1, <1>3, <1>D, <2>2, <3>1, JobContainer
    <3>3. m \in Under(f)
      BY <2>2 DEF Subtree
    <3> QED BY <1>7, <3>2, <3>3 DEF Awaits, Waits
  <2> QED BY <2>1, <2>2
<1>11. \A t, m : RowsOf(t, m)' = RowsOf(t, m)
  BY <1>2 DEF RowsOf
<1>12. JobBefore(r, f, g)' /\ \A k \in Subtree(g) : ~Something(k)'
  <2>1. IsStored(f)' /\ NoLinks(f)'
    BY <1>1, <1>11 DEF IsStored, NoLinks, Subtree, Under
  <2>2. \A m \in scope'[r] : Fine(m)' /\ Holds(m)'
    BY <1>1, <1>2, <1>3, AllStays
  <2>3. \A k \in Subtree(g) : ~Something(k)'
    BY <1>2, <1>5, <1>11 DEF Something
  <2> QED BY <1>1, <1>7, <2>1, <2>2, <2>3 DEF JobBefore
<1>13. CopyBefore(r, f, g)'
  <2>1. CopyList(L, f, g)'
    BY <1>8 DEF CopyList, CopyItem, Subtree, Under
  <2>2. \A m \in Subtree(f) : CopyOwed(L, f, g, m)'
    BY <1>9, <1>11 DEF CopyOwed, Waits, Under
  <2>3. \A m \in Subtree(f) : \A w \in RowsOf("nodes", m)' :
          Awaits(L, f, g, "nodes", m, w.kind)' /\ Awaits(L, f, g, "properties", m, w.kind)'
    <3>1. \A t, m, kind : Awaits(L, f, g, t, m, kind)' <=> Awaits(L, f, g, t, m, kind)
      BY DEF Awaits, Waits, Under
    <3> QED BY <1>10, <1>11, <3>1
  <2> QED BY <1>7, <1>12, <1>L, <2>1, <2>2, <2>3 DEF CopyBefore, Subtree, Under
<1> QED BY <1>3, <1>13

(* So it is a good job. *)
LEMMA BeginCopy ==
  ASSUME Typed, Within, CalmFine, NEW r \in Requests, Begin(r), Good(r)',
         op[r].do = "copy", ~ToNull(op[r])
  PROVE  CopyAt(r)'
<1>1. PICK f, g : f = From(op[r]) /\ g = To(op[r])
  OBVIOUS
<1>2. f \in Names /\ g \in Names /\ CopyBefore(r, f, g)'
  BY <1>1, CopyBegins
<1>3. op'[r].do = "copy" /\ ~ToNull(op'[r])
  BY BeginFacts DEF ToNull
<1> QED BY <1>2, <1>3 DEF CopyAt, ToNull

-----------------------------------------------------------------------------
(* Where everything starts *)

(* The rows and the files there are at first. *)
AtFirst(E) ==
  /\ rows = UNION {RowsFor(x) : x \in E}
  /\ file = [n \in Names |-> IF \E x \in E : x.id = n
               THEN [kind |-> (CHOOSE x \in E : x.id = n).kind, by |-> "init"]
               ELSE NoFile]

(* The rows of a node, one by one. *)
RowsAre(x, a, b, c, d) ==
  /\ a = Row("nodes", x.id, x.kind, NoName, "init", 0)
  /\ b = Row("properties", x.id, "", NoName, "init", 0)
  /\ c = Row("links", x.id, "", x.target, "init", 0)
  /\ d = Row("capabilities", x.id, "", NoName, "init", 0)
  /\ \A w : w \in RowsFor(x) <=>
       \/ w \in {a, b}
       \/ (x.kind = "link" /\ w = c)
       \/ (x.kind = "container" /\ w = d)

(* There are four of them at most. *)
LEMMA RowsForAre == ASSUME NEW x PROVE \E a, b, c, d : RowsAre(x, a, b, c, d)
<1>1. PICK a : a = Row("nodes", x.id, x.kind, NoName, "init", 0)
  OBVIOUS
<1>2. PICK b : b = Row("properties", x.id, "", NoName, "init", 0)
  OBVIOUS
<1>3. PICK c : c = Row("links", x.id, "", x.target, "init", 0)
  OBVIOUS
<1>4. PICK d : d = Row("capabilities", x.id, "", NoName, "init", 0)
  OBVIOUS
<1>5. RowsFor(x) = {a, b} \cup {c : k \in {x.kind} \cap {"link"}}
                         \cup {d : k \in {x.kind} \cap {"container"}}
  BY <1>1, <1>2, <1>3, <1>4, Zenon DEF RowsFor
<1>6. \A w : w \in {c : k \in {x.kind} \cap {"link"}} <=> (x.kind = "link" /\ w = c)
  OBVIOUS
<1>7. \A w : w \in {d : k \in {x.kind} \cap {"container"}} <=> (x.kind = "container" /\ w = d)
  OBVIOUS
<1>8. \A w : w \in RowsFor(x) <=>
        \/ w \in {a, b}
        \/ (x.kind = "link" /\ w = c)
        \/ (x.kind = "container" /\ w = d)
  BY <1>5, <1>6, <1>7, Zenon
<1>9. RowsAre(x, a, b, c, d)
  BY <1>1, <1>2, <1>3, <1>4, <1>8, Zenon DEF RowsAre
<1> QED BY <1>9, Zenon

(* What is there at first is one node, or nothing. *)
LEMMA FirstFine ==
  ASSUME NEW E \in Existing, AtFirst(E), NEW n \in Names
  PROVE  /\ \A x \in E : x.id = n => Sound(n) /\ (x.kind = "container" => Cont(n))
         /\ Something(n) => \E x \in E : x.id = n
<1>1. /\ E \subseteq [id : Names, kind : Kinds, target : Names \cup {NoName}]
      /\ \A x, y \in E : x.id = y.id => x = y
  BY ExistingAssumption
<1>2. \A t, w : w \in RowsOf(t, n) <=> w.t = t /\ w.id = n /\ \E x \in E : w \in RowsFor(x)
  BY DEF AtFirst, RowsOf
<1>3. ASSUME NEW x, NEW w \in RowsFor(x) PROVE w.id = x.id
  <2>1. PICK a, b, c, d : RowsAre(x, a, b, c, d)
    BY RowsForAre, Zenon
  <2>2. a.id = x.id /\ b.id = x.id /\ c.id = x.id /\ d.id = x.id
    BY <2>1 DEF Row, RowsAre
  <2> QED BY <1>3, <2>1, <2>2 DEF RowsAre
<1>4. ASSUME Something(n) PROVE \E x \in E : x.id = n
  <2>1. CASE file[n] # NoFile
    BY <2>1 DEF AtFirst
  <2>2. CASE \E t \in Tabs : RowsOf(t, n) # {}
    <3>1. PICK t \in Tabs : RowsOf(t, n) # {}
      BY <2>2
    <3>2. PICK w : w \in RowsOf(t, n)
      BY <3>1
    <3> QED BY <1>2, <1>3, <3>2
  <2> QED BY <1>4, <2>1, <2>2 DEF Something
<1>5. ASSUME NEW x \in E, x.id = n PROVE Sound(n) /\ (x.kind = "container" => Cont(n))
  <2>1. \A t, w : w \in RowsOf(t, n) <=> w.t = t /\ w.id = n /\ w \in RowsFor(x)
    BY <1>1, <1>2, <1>3, <1>5
  <2>r. PICK a, b, c, d : RowsAre(x, a, b, c, d)
    BY RowsForAre, Zenon
  <2>2. /\ a.t = "nodes" /\ a.id = n /\ a.kind = x.kind /\ a.by = "init"
        /\ b.t = "properties" /\ b.id = n /\ c.t = "links" /\ c.id = n
        /\ d.t = "capabilities"
    BY <1>5, <2>r DEF Row, RowsAre
  <2>3. /\ a \in RowsFor(x) /\ b \in RowsFor(x) /\ (x.kind = "link" => c \in RowsFor(x))
        /\ \A w \in RowsFor(x) : w \in {a, b} \/ (w = c /\ x.kind = "link") \/ w.t = "capabilities"
    BY <2>r, <2>2 DEF RowsAre
  <2>4. RowsOf("nodes", n) = {a}
    BY <2>1, <2>2, <2>3
  <2>5. RowsOf("properties", n) = {b}
    BY <2>1, <2>2, <2>3
  <2>6. RowsOf("links", n) = IF x.kind = "link" THEN {c} ELSE {}
    BY <2>1, <2>2, <2>3
  <2>7. file[n] = [kind |-> a.kind, by |-> a.by]
    <3>1. (CHOOSE y \in E : y.id = n) = x
      BY <1>1, <1>5
    <3> QED BY <1>5, <2>2, <3>1 DEF AtFirst
  <2>8. Sound(n)
    BY <1>1, <2>2, <2>4, <2>5, <2>6, <2>7 DEF Sound, Single
  <2>9. ASSUME x.kind = "container" PROVE Cont(n)
    <3>1. "container" \in GetTypes(n)
      BY <2>2, <2>4, <2>9 DEF GetTypes
    <3> QED BY <2>8, <3>1, ContIs
  <2> QED BY <2>8, <2>9
<1> QED BY <1>4, <1>5

(* And what contains a node at first is a container. *)
LEMMA FirstHolds ==
  ASSUME NEW E \in Existing, AtFirst(E), NEW n \in Names PROVE Holds(n)
<1>1. /\ E \subseteq [id : Names, kind : Kinds, target : Names \cup {NoName}]
      /\ \A x \in E : Parent(x.id) = Root
                      \/ \E y \in E : y.id = Parent(x.id) /\ y.kind = "container"
  BY ExistingAssumption
<1> DEFINE T == {Len(x.id) : x \in {y \in E : y.id \in Under(n)}}
<1> SUFFICES ASSUME NEW m \in Under(n), Something(m), ~Cont(n) PROVE FALSE
  BY DEF Holds
<1>2. PICK x \in E : x.id = m
  BY FirstFine, Below
<1>3. Len(m) \in T
  BY <1>2
<1>4. T \subseteq Nat
  BY Below
<1> HIDE DEF T
<1>5. PICK k \in T : \A l \in T : k <= l
  BY <1>3, <1>4, Least
<1>6. PICK y \in E : y.id \in Under(n) /\ k = Len(y.id)
  BY <1>5 DEF T
<1>7. y.id \in Names /\ (n = Parent(y.id) \/ Parent(y.id) \in Under(n))
  BY <1>1, <1>6, Above
<1>8. PICK z \in E : z.id = Parent(y.id) /\ z.kind = "container"
  BY <1>1, <1>7, Below
<1>9. z.id # n
  BY <1>8, FirstFine
<1>10. z.id \in Under(n) /\ Len(z.id) \in T
  BY <1>7, <1>8, <1>9 DEF T
<1>11. y.id \in Under(z.id) /\ z.id \in Names
  BY <1>7, <1>8, <1>10, Above, Below
<1>12. Len(z.id) < Len(y.id) /\ Len(z.id) \in Nat /\ Len(y.id) \in Nat
  BY <1>7, <1>11, Below, PrefixByIndex
<1> QED BY <1>5, <1>6, <1>10, <1>12

(* Everything is in order at first. *)
LEMMA SafeInit == Init => SafeInv
<1> SUFFICES ASSUME Init PROVE SafeInv
  OBVIOUS
<1>1. PICK E \in Existing : AtFirst(E)
  BY DEF Init, AtFirst
<1>2. Running = {} /\ sweeps = {} /\ \A r \in Requests : ~Good(r)
  BY DEF Init, Running, Good
<1>3. CalmFine
  BY <1>1, FirstFine, FirstHolds DEF CalmFine, Calm, Fine
<1>4. Typed /\ Orderly /\ Within
  BY InitTyped, SteadyInit
<1> QED BY <1>2, <1>3, <1>4 DEF SafeInv, Hung, GoodFine, SweepsFine

-----------------------------------------------------------------------------
(* Steps *)

(* A request that works keeps the store in order. *)
LEMMA SafeWork == ASSUME SafeInv, NEW r \in Requests, Works(r) PROVE SafeInv'
<1>1. Typed /\ Orderly /\ Within /\ Hung /\ CalmFine /\ GoodFine /\ SweepsFine
  BY DEF SafeInv
<1>2. Typed' /\ Orderly' /\ Within'
  <2>1. Next
    BY DEF Works, Next, Step
  <2> QED BY <1>1, <2>1, TypedStep, SteadyStep
<1>3. GoodFine'
  <2> SUFFICES ASSUME NEW q \in Requests, Good(q)' PROVE At(q)'
    BY DEF GoodFine
  <2>1. CASE q = r
    BY <1>1, <2>1, OwnWork
  <2>2. CASE q # r
    BY <1>1, <2>2, OthersWork
  <2> QED BY <2>1, <2>2
<1>4. CalmFine' /\ Hung' /\ SweepsFine'
  BY <1>1, CalmWorks, HungWorks, SweepsWork
<1> QED BY <1>2, <1>3, <1>4 DEF SafeInv

(* So does a request that begins. *)
LEMMA SafeBegin ==
  ASSUME SafeInv, NEW r \in Requests, Begin(r) PROVE SafeInv'
<1>1. Typed /\ Orderly /\ Within /\ Hung /\ CalmFine /\ GoodFine /\ SweepsFine
  BY DEF SafeInv
<1>2. Typed' /\ Orderly' /\ Within'
  <2>1. Next
    BY DEF Next, Step
  <2> QED BY <1>1, <2>1, TypedStep, SteadyStep
<1>3. \/ op[r].do = "create"
      \/ op[r].do # "create" /\ ToNull(op[r])
      \/ op[r].do \in {"move", "copy"} /\ ~ToNull(op[r])
  <2>1. op[r].do \in {"create", "delete", "move", "copy"}
    BY <1>1, BeginFacts DEF Op
  <2> QED BY <2>1 DEF ToNull
<1>4. GoodFine'
  <2> SUFFICES ASSUME NEW q \in Requests, Good(q)' PROVE At(q)'
    BY DEF GoodFine
  <2>1. CASE q # r
    BY <1>1, <2>1, BeginOthers
  <2>2. CASE q = r
    <3>0. Good(r)'
      BY <2>2
    <3>1. CASE op[r].do = "create" \/ ToNull(op[r])
      <4>1. NewAt(r)' \/ OverAt(r)' \/ DelAt(r)'
        BY <1>1, <1>3, <3>0, <3>1, BeginNew, BeginOver, BeginDel
      <4> QED BY <2>2, <4>1 DEF At
    <3>2. CASE op[r].do \in {"move", "copy"} /\ ~ToNull(op[r])
      <4>1. MoveAt(r)' \/ CopyAt(r)'
        BY <1>1, <3>0, <3>2, BeginMove, BeginCopy
      <4> QED BY <2>2, <4>1 DEF At
    <3> QED BY <1>3, <3>1, <3>2
  <2> QED BY <2>1, <2>2
<1>5. SweepsFine'
  <2> SUFFICES ASSUME NEW q \in sweeps' PROVE SweepAt(q)'
    BY DEF SweepsFine
  <2>1. CASE q # r
    BY <1>1, <2>1, BeginOthers
  <2>2. CASE q = r
    BY <1>1, <2>2, BeginSweep
  <2> QED BY <2>1, <2>2
<1>6. Hung'
  <2>1. /\ scope'[r] = Scope(op[r]) /\ Running' = Running \cup {r} /\ rows' = rows /\ file' = file
    BY <1>1, BeginFacts
  <2> SUFFICES ASSUME NEW q \in Running', NEW k \in scope'[q], NEW m \in Names \ (scope'[q] \cup unclear'),
                      k \in Under(m)
               PROVE  Cont(m)'
    BY DEF Hung, Under
  <2>2. CASE q \in Running
    BY <1>1, <2>2, BeginOthers
  <2>3. CASE q = r
    <3>1. k \in Scope(op[r]) /\ m \in Names /\ m \notin Scope(op[r]) /\ m \notin unclear'
      BY <2>1, <2>3
    <3>2. Cont(m)
      BY <1>1, <1>3, <3>1, CreateHangs, DeleteHangs, JobHangs
    <3> QED BY <1>1, <2>1, <3>2, AllStays
  <2> QED BY <2>1, <2>2, <2>3
<1>7. CalmFine'
  BY <1>1, BeginOthers
<1> QED BY <1>2, <1>4, <1>5, <1>6, <1>7 DEF SafeInv

(* A step that changes neither the store nor what requests have still to do. *)
LEMMA SafeStays ==
  ASSUME SafeInv, Typed', Orderly', Within',
         UNCHANGED <<rows, file, op, todo, found, before, sweeps, unclear>>,
         \A q \in Requests : pc'[q] = "run" <=> pc[q] = "run"
  PROVE  SafeInv'
<1>1. Typed /\ Orderly /\ Within /\ Hung /\ CalmFine /\ GoodFine /\ SweepsFine
  BY DEF SafeInv
<1>2. scope' = scope /\ Running' = Running /\ Running \subseteq Requests
  BY DEF scope, Running
<1>3. Busy' = Busy /\ Calm' = Calm /\ Calm \subseteq Names
  BY <1>2 DEF Busy, Calm
<1>4. \A m \in Names : /\ Cont(m)' <=> Cont(m)
                       /\ Fine(m)' <=> Fine(m)
                       /\ Holds(m)' <=> Holds(m)
  BY <1>1, AllStays
<1>5. CalmFine'
  BY <1>1, <1>3, <1>4 DEF CalmFine
<1>6. Hung'
  BY <1>1, <1>2, <1>4 DEF Hung, Under
<1>7. GoodFine'
  <2> SUFFICES ASSUME NEW q \in Requests, Good(q)' PROVE At(q)'
    BY DEF GoodFine
  <2>1. Good(q) /\ pc[q] = "run"
    BY <1>2 DEF Good
  <2> QED BY <1>1, <1>2, <2>1, RequestStays DEF GoodFine
<1>8. SweepsFine'
  <2> SUFFICES ASSUME NEW q \in sweeps PROVE SweepAt(q)'
    BY DEF SweepsFine
  <2>1. q \in Requests /\ pc[q] = "run" /\ SweepAt(q)
    BY <1>1, SweptNames DEF Running, SweepsFine
  <2> QED BY <1>1, <1>2, <2>1, RequestStays
<1> QED BY <1>5, <1>6, <1>7, <1>8 DEF SafeInv

(* Every step keeps it so. *)
LEMMA SafeStep == ASSUME SafeInv, [Next]_vars PROVE SafeInv'
<1>1. Typed /\ Orderly /\ Within /\ Hung /\ CalmFine /\ GoodFine /\ SweepsFine
  BY DEF SafeInv
<1>2. Typed' /\ Orderly' /\ Within'
  BY <1>1, TypedStep, SteadyStep
<1>3. ASSUME NEW r \in Requests, Ends(r) PROVE SafeInv'
  BY <1>1, <1>2, <1>3, SafeEnd DEF SafeInv
<1>4. ASSUME NEW r \in Requests, Call(r) \/ Refuse(r) PROVE SafeInv'
  <2>1. /\ pc \in [Requests -> {"idle", "called", "run", "done", "refused", "failed"}]
        /\ pc[r] # "run" /\ (pc' = [pc EXCEPT ![r] = "called"] \/ pc' = [pc EXCEPT ![r] = "refused"])
        /\ UNCHANGED <<rows, file, op, todo, found, before, sweeps, unclear>>
    BY <1>1, <1>4 DEF Call, Refuse, store, aux, Typed
  <2>2. \A q \in Requests : pc'[q] = "run" <=> pc[q] = "run"
    BY <2>1
  <2> QED BY <1>2, <2>1, <2>2, SafeStays
<1>5. CASE UNCHANGED vars
  <2>1. UNCHANGED <<rows, file, op, todo, found, before, sweeps, unclear>> /\ pc' = pc
    BY <1>5 DEF vars, store, aux
  <2> QED BY <1>2, <2>1, SafeStays
<1>6. ASSUME Next PROVE \E r \in Requests : Works(r) \/ Begin(r) \/ Ends(r) \/ Call(r) \/ Refuse(r)
  BY <1>6 DEF Next, Step, Works, Ends
<1> QED BY <1>3, <1>4, <1>5, <1>6, SafeWork, SafeBegin

(* So it is always. *)
LEMMA SafeInvariant == Spec => []SafeInv
<1>1. SafeInv /\ [Next]_vars => SafeInv'
  BY SafeStep
<1> QED BY <1>1, SafeInit, PTL DEF Spec

-----------------------------------------------------------------------------
(* What this says of the store *)

(* A name where nobody is has one node, or nothing. *)
LEMMA FineIs ==
  ASSUME Typed, NEW n \in Calm, Fine(n)
  PROVE  /\ Cardinality(RowsOf("nodes", n)) <= 1
         /\ Cardinality(RowsOf("properties", n)) = Cardinality(RowsOf("nodes", n))
         /\ Cardinality(RowsOf("links", n)) = IF IsLink(n) THEN 1 ELSE 0
         /\ RowsOf("addl_props", n) # {} => IsStored(n)
         /\ ~IsStored(n) => file[n] = NoFile
         /\ \A w \in RowsOf("nodes", n) : file[n] = [kind |-> w.kind, by |-> w.by]
<1>0. n \in Names /\ n # Root
  BY Below DEF Calm
<1>1. Cardinality({}) = 0 /\ \A x : Cardinality({x}) = 1
  BY FS_EmptySet, FS_Singleton
<1>2. CASE ~Something(n)
  <2>1. /\ RowsOf("nodes", n) = {} /\ RowsOf("properties", n) = {} /\ RowsOf("links", n) = {}
        /\ RowsOf("addl_props", n) = {} /\ file[n] = NoFile
    BY <1>2 DEF Something, Tabs
  <2>2. ~IsLink(n)
    BY <1>0, <2>1 DEF IsLink, GetType, GetTypes
  <2> QED BY <1>1, <2>1, <2>2
<1>3. CASE Something(n)
  <2>1. PICK w \in RowsOf("nodes", n) :
          /\ RowsOf("nodes", n) = {w} /\ Single(RowsOf("properties", n))
          /\ w.kind = "link" => Single(RowsOf("links", n))
          /\ w.kind # "link" => RowsOf("links", n) = {}
          /\ file[n] = [kind |-> w.kind, by |-> w.by]
    BY <1>3 DEF Fine, Sound
  <2>2. IsStored(n)
    BY <2>1 DEF IsStored
  <2>3. Cardinality(RowsOf("nodes", n)) = 1 /\ Cardinality(RowsOf("properties", n)) = 1
    BY <1>1, <2>1 DEF Single
  <2>4. GetTypes(n) = {w.kind}
    BY <1>0, <2>1 DEF GetTypes
  <2>5. IsLink(n) <=> w.kind = "link"
    BY <2>4 DEF IsLink, GetType
  <2>6. Cardinality(RowsOf("links", n)) = IF IsLink(n) THEN 1 ELSE 0
    BY <1>1, <2>1, <2>5 DEF Single
  <2> QED BY <2>1, <2>2, <2>3, <2>6
<1> QED BY <1>2, <1>3

(* What is in order has the properties that the runs check. *)
LEMMA SafeMeans == ASSUME SafeInv PROVE RowsAgree /\ FilesAgree /\ Rooted
<1>1. Typed /\ CalmFine
  BY DEF SafeInv
<1>2. RowsAgree /\ FilesAgree
  BY <1>1, FineIs DEF RowsAgree, FilesAgree, CalmFine
<1>3. ASSUME NEW n \in Calm, IsStored(n), Parent(n) \in Calm PROVE GetTypes(Parent(n)) = {"container"}
  <2>1. n \in Names /\ Parent(n) \in Names /\ n # Root
    BY <1>3, Below DEF Calm
  <2>2. n \in Under(Parent(n)) /\ Something(n)
    BY <1>3, <2>1, Above DEF IsStored, Something, Tabs
  <2> QED BY <1>1, <1>3, <2>2 DEF CalmFine, Holds, Cont
<1>4. Rooted
  <2> SUFFICES ASSUME NEW n \in Calm, IsStored(n)
               PROVE  Parent(n) \in {Root} \cup (Names \ Calm) \/ GetTypes(Parent(n)) = {"container"}
    BY DEF Rooted
  <2>1. Parent(n) \in Places
    BY Above DEF Calm
  <2> QED BY <1>3, <2>1 DEF Places
<1> QED BY <1>2, <1>4

(* Every node that nobody is at has one row in each table it belongs in, and   *)
(* no row is left of what is no node: the order of the statements of storeData, *)
(* updateProperties, updateData and removeData sees to it, whoever works in    *)
(* between and whatever connection is lost.                                    *)
THEOREM RowsTogether == Spec => []RowsAgree
BY SafeInvariant, SafeMeans, PTL

(* It has its file in the backend, put there by who inserted its row, and no   *)
(* file is left of what is no node: create and delete change the rows first    *)
(* and the files last, moveNode and copyNode the other way round.              *)
THEOREM FilesTogether == Spec => []FilesAgree
BY SafeInvariant, SafeMeans, PTL

(* And it is in a container, although validParent is asked long before the     *)
(* rows are inserted or renamed: who deletes or moves the container meets who  *)
(* puts the node there.                                                        *)
THEOREM HangTogether == Spec => []Rooted
BY SafeInvariant, SafeMeans, PTL

-----------------------------------------------------------------------------
(* What clients see *)

(* What a name is seen as while a request works on it, and when nobody does. *)
LEMMA VisibleIs ==
  ASSUME Orderly, NEW n \in Names
  PROVE  /\ n \in unclear => Visible[n] = Unclear
         /\ \A q \in Running : n \in scope[q] /\ n \notin unclear => Visible[n] = before[q][n]
         /\ n \notin unclear /\ n \notin Busy => Visible[n] = Stored(n)
<1>1. Visible[n] = IF n \in unclear THEN Unclear
                   ELSE IF n \in Busy THEN before[CHOOSE r \in Running : n \in scope[r]][n]
                   ELSE Stored(n)
  BY DEF Visible
<1>2. ASSUME NEW q \in Running, n \in scope[q], n \notin unclear PROVE Visible[n] = before[q][n]
  <2>1. n \in Busy
    BY <1>2 DEF Busy
  <2>2. \A p \in Running : n \in scope[p] => p = q
    BY <1>2 DEF Orderly, Apart, Meeting
  <2>3. (CHOOSE r \in Running : n \in scope[r]) = q
    BY <1>2, <2>2
  <2> QED BY <1>1, <1>2, <2>1, <2>3
<1> QED BY <1>1, <1>2

(* The same after a step. *)
LEMMA VisibleThen ==
  ASSUME Orderly', NEW n \in Names
  PROVE  /\ n \in unclear' => Visible'[n] = Unclear
         /\ \A q \in Running' : n \in scope'[q] /\ n \notin unclear' => Visible'[n] = before'[q][n]
         /\ n \notin unclear' /\ n \notin Busy' => Visible'[n] = Stored(n)'
<1>1. Visible'[n] = IF n \in unclear' THEN Unclear
                    ELSE IF n \in Busy' THEN before'[CHOOSE r \in Running' : n \in scope'[r]][n]
                    ELSE Stored(n)'
  BY DEF Visible, Unclear, Node
<1>2. ASSUME NEW q \in Running', n \in scope'[q], n \notin unclear' PROVE Visible'[n] = before'[q][n]
  <2>1. n \in Busy'
    BY <1>2 DEF Busy
  <2>2. \A p \in Running' : n \in scope'[p] => p = q
    BY <1>2 DEF Orderly, Apart, Meeting
  <2>3. (CHOOSE r \in Running' : n \in scope'[r]) = q
    BY <1>2, <2>2
  <2> QED BY <1>1, <1>2, <2>1, <2>3
<1> QED BY <1>1, <1>2

(* A name whose rows stay is the same node. *)
LEMMA StoredSame ==
  ASSUME NEW n, \A t : RowsOf(t, n)' = RowsOf(t, n) PROVE Stored(n)' = Stored(n)
<1>1. RowsOf("nodes", n)' = RowsOf("nodes", n) /\ RowsOf("links", n)' = RowsOf("links", n)
  OBVIOUS
<1>2. GetTarget(n)' = GetTarget(n)
  BY <1>1 DEF GetTarget
<1> QED BY <1>1, <1>2 DEF Stored, Node, Absent, NoName

(* What clients see is a function on the names. *)
LEMMA VisibleFun ==
  /\ Visible = [n \in Names |-> Visible[n]]
  /\ Visible' = [n \in Names |-> Visible'[n]]
<1>1. PICK F : F = Visible
  OBVIOUS
<1>2. F = [n \in Names |-> F[n]]
  BY <1>1 DEF Visible
<1>3. PICK G : G = Visible'
  OBVIOUS
<1>4. G = [n \in Names |-> G[n]]
  BY <1>3 DEF Visible
<1> QED BY <1>1, <1>2, <1>3, <1>4, Zenon

(* The abstract specification speaks of the same nodes. *)
LEMMA NodesAre ==
  /\ N!Absent = Absent /\ N!Unclear = Unclear
  /\ \A kind, by, target : N!Node(kind, by, target) = Node(kind, by, target)
  /\ N!Kinds = Kinds /\ N!Root = Root /\ N!NoName = NoName
  /\ N!Listed = [kind : Kinds, by : Requests \cup {"init"}, target : Names \cup {NoName}]
  /\ \A n : N!Subtree(n) = Subtree(n) /\ N!Parent(n) = Parent(n)
  /\ \A m, f, g : N!Renamed(m, f, g) = Renamed(m, f, g)
<1>1. /\ N!Absent = Absent /\ N!Unclear = Unclear
      /\ \A kind, by, target : N!Node(kind, by, target) = Node(kind, by, target)
  BY DEF N!Absent, N!Unclear, N!Node, Absent, Unclear, Node, N!NoName, NoName
<1>2. N!Kinds = Kinds /\ N!Root = Root /\ N!NoName = NoName
  BY DEF N!Kinds, Kinds, N!Root, Root, N!NoName, NoName
<1>3. N!Listed = [kind : Kinds, by : Requests \cup {"init"}, target : Names \cup {NoName}]
  BY <1>2 DEF N!Listed
<1>4. \A n, m : N!IsStrictPrefix(n, m) <=> IsStrictPrefix(n, m)
  BY Zenon DEF N!IsStrictPrefix, IsStrictPrefix, N!IsPrefix, IsPrefix
<1>5. \A n : N!Subtree(n) = Subtree(n)
  BY <1>4, Zenon DEF N!Subtree, N!Under, Subtree, Under
<1>6. \A n : N!Parent(n) = Parent(n)
  BY Zenon DEF N!Parent, Parent, N!Front, Front
<1>7. \A m, f, g : N!Renamed(m, f, g) = Renamed(m, f, g)
  BY Zenon DEF N!Renamed, Renamed
<1> QED BY <1>1, <1>2, <1>3, <1>5, <1>6, <1>7

(* A step by which clients see nothing new, but lose sight of some names. *)
Spoils == \A n \in Names : Visible'[n] \in {Visible[n], Unclear}

(* That is a step of the abstract specification. *)
LEMMA SpoilsIs == ASSUME Spoils PROVE N!Spoil
<1>1. \A m \in Names : Visible'[m] \in {Visible[m], N!Unclear}
  BY NodesAre DEF Spoils
<1>2. Visible' = [m \in Names |-> Visible'[m]]
  BY VisibleFun
<1> QED BY <1>1, <1>2 DEF N!Spoil

(* Who works, and who fails, only spoils. *)
LEMMA WorkSpoils ==
  ASSUME Typed, Orderly, Orderly', Within, NEW r \in Requests, Works(r) PROVE Spoils
<1>1. /\ pc[r] = "run" /\ pc' = pc
      /\ \A q \in Requests : q # r => scope'[q] = scope[q]
      /\ \E late, spoilt : Alters(r, late, spoilt)
  BY WorkFacts
<1>2. PICK late, spoilt : Alters(r, late, spoilt)
  BY <1>1
<1>3. unclear \subseteq unclear' /\ scope[r] \subseteq scope'[r] /\ Running' = Running /\ Running \subseteq Requests
  BY <1>1, <1>2 DEF Alters, Running
<1>4. ASSUME NEW n \in Names, n \notin unclear', NEW q \in Running, n \in scope[q]
      PROVE  before'[q][n] = before[q][n]
  <2>1. CASE ~SelectLinks(r)
    <3>1. before' = before
      BY <2>1 DEF Works, Execute, Lose, FindChildren, ReadChild, MakeFile, MoveFiles, CopyFiles,
                  RemoveFiles, aux
    <3> QED BY <3>1
  <2>2. CASE SelectLinks(r)
    <3> DEFINE links == found[r] \cup {w.id : w \in {v \in rows : v.t = "links" /\ v.target \in Head1(r).ids}}
               new == links \ scope[r]
    <3>1. before' = [before EXCEPT ![r] =
                       [m \in scope[r] \cup new |-> IF m \in new THEN Stored(m) ELSE @[m]]]
      BY <2>2 DEF SelectLinks
    <3> HIDE DEF new
    <3>2. q # r => before'[q] = before[q]
      BY <3>1
    <3>3. q = r => before'[r] = [m \in scope[r] \cup new |-> IF m \in new THEN Stored(m) ELSE before[r][m]]
      BY <3>1 DEF Typed
    <3>4. q = r => n \notin new
      BY <1>4 DEF new
    <3> QED BY <1>4, <3>2, <3>3, <3>4
  <2> QED BY <2>1, <2>2
<1>5. ASSUME NEW n \in Names PROVE Visible'[n] \in {Visible[n], Unclear}
  <2>1. CASE n \in unclear'
    BY <2>1, VisibleThen
  <2>2. CASE n \notin unclear' /\ \E q \in Running : n \in scope[q]
    <3>1. PICK q \in Running : n \in scope[q]
      BY <2>2
    <3>2. n \in scope'[q] /\ q \in Running' /\ n \notin unclear
      BY <1>1, <1>3, <3>1, <2>2
    <3> QED BY <1>4, <2>2, <3>1, <3>2, VisibleIs, VisibleThen
  <2>3. CASE n \notin unclear' /\ n \notin Busy
    <3>1. n \notin unclear /\ n \notin scope[r]
      BY <1>1, <1>3, <2>3 DEF Busy, Running
    <3>2. Stored(n)' = Stored(n)
      BY <3>1, Frame, StoredSame
    <3>3. late # {} => late \subseteq unclear'
      BY <1>2 DEF Alters
    <3>4. n \notin Busy'
      <4>1. n \notin scope'[r]
        BY <1>2, <2>3, <3>1, <3>3 DEF Alters
      <4> QED BY <1>1, <1>3, <2>3, <4>1 DEF Busy
    <3> QED BY <2>3, <3>1, <3>2, <3>4, VisibleIs, VisibleThen
  <2> QED BY <2>1, <2>2, <2>3 DEF Busy
<1> QED BY <1>5 DEF Spoils

(* So does who begins. *)
LEMMA BeginSpoils ==
  ASSUME Typed, Orderly, Orderly', Within, NEW r \in Requests, Begin(r) PROVE Spoils
<1>1. /\ rows' = rows /\ r \notin Running /\ Running' = Running \cup {r} /\ Running \subseteq Requests
      /\ scope'[r] = Scope(op[r])
      /\ \A q \in Requests : q # r => scope'[q] = scope[q]
  BY BeginFacts
<1>2. /\ unclear \subseteq unclear'
      /\ \A q \in Running : scope[q] \cap (Scope(op[r]) \cup Needs(op[r])) # {} =>
           scope[q] \subseteq unclear'
  BY BeginMeets
<1>3. before' = [before EXCEPT ![r] = [n \in Scope(op[r]) |-> Stored(n)]]
  BY DEF Begin
<1>4. /\ \A q \in Requests : q # r => before'[q] = before[q]
      /\ \A n \in Scope(op[r]) : before'[r][n] = Stored(n)
  BY <1>3 DEF Typed
<1>5. \A n : Stored(n)' = Stored(n)
  BY <1>1, StoredSame DEF RowsOf
<1>6. ASSUME NEW n \in Names PROVE Visible'[n] \in {Visible[n], Unclear}
  <2>1. CASE n \in unclear'
    BY <2>1, VisibleThen
  <2>2. CASE n \notin unclear' /\ \E q \in Running : n \in scope[q]
    <3>1. PICK q \in Running : n \in scope[q]
      BY <2>2
    <3>2. n \in scope'[q] /\ q \in Running' /\ n \notin unclear /\ before'[q] = before[q]
      BY <1>1, <1>2, <1>4, <3>1, <2>2
    <3> QED BY <2>2, <3>1, <3>2, VisibleIs, VisibleThen
  <2>3. CASE n \notin unclear' /\ n \notin Busy
    <3>1. Visible[n] = Stored(n)
      BY <1>2, <2>3, VisibleIs
    <3>2. CASE n \in Scope(op[r])
      <4>1. n \in scope'[r] /\ r \in Running' /\ before'[r][n] = Stored(n)
        BY <1>1, <1>4, <3>2
      <4> QED BY <2>3, <3>1, <4>1, VisibleThen
    <3>3. CASE n \notin Scope(op[r])
      <4>1. n \notin Busy'
        BY <1>1, <2>3, <3>3 DEF Busy
      <4> QED BY <1>5, <2>3, <3>1, <4>1, VisibleThen
    <3> QED BY <3>2, <3>3
  <2> QED BY <2>1, <2>2, <2>3 DEF Busy
<1> QED BY <1>6 DEF Spoils

(* What is left where a request ends is what clients see there, and they see   *)
(* nothing else but what they saw before.                                      *)
LEMMA EndShows ==
  ASSUME Typed, Orderly, Orderly', NEW r \in Requests, Ends(r)
  PROVE  /\ \A n \in Names \ unclear' : n \notin unclear =>
              Visible'[n] = IF n \in scope[r] THEN Stored(n) ELSE Visible[n]
         /\ \A n \in Names \ scope[r] : n \in unclear' <=> n \in unclear
         /\ \A n \in Names : n \in unclear' => Visible'[n] = Unclear
         /\ \A n \in Names \ unclear' : n \in unclear => r \in sweeps /\ n \in Subtree(op[r].id) /\ Visible'[n] = Stored(n)
<1>1. /\ pc[r] = "run" /\ pc'[r] # "run" /\ (\A q \in Requests : q # r => pc'[q] = pc[q])
      /\ rows' = rows
      /\ \A q \in Requests : q # r => scope'[q] = scope[q]
      /\ \/ unclear' = unclear /\ (r \notin sweeps \/ Unmoved(r))
         \/ unclear' = unclear \cup scope[r]
         \/ r \in sweeps /\ unclear' = unclear \ Subtree(op[r].id)
  BY EndFacts
<1>2. r \in Running /\ Running' = Running \ {r} /\ Running \subseteq Requests
  BY <1>1 DEF Running
<1>3. \A q \in Requests : q # r => before'[q] = before[q]
  BY DEF Ends, Return, Unmoved, Fail, Finished, Typed
<1>4. \A n : Stored(n)' = Stored(n)
  BY <1>1, StoredSame DEF RowsOf
<1>5. r \in sweeps => /\ Subtree(op[r].id) \subseteq scope[r]
                      /\ \A q \in Running : q # r => scope[q] \cap scope[r] = {}
  BY <1>2 DEF Orderly, Sweepers, Apart, Meeting
<1>6. \A n \in Names \ scope[r] : n \in unclear' <=> n \in unclear
  BY <1>1, <1>5
<1>7. \A n \in Names : n \in unclear' => Visible'[n] = Unclear
  BY VisibleThen
<1>8. ASSUME NEW n \in Names, n \notin unclear', n \notin unclear
      PROVE  Visible'[n] = IF n \in scope[r] THEN Stored(n) ELSE Visible[n]
  <2>1. CASE n \in scope[r]
    <3>1. \A q \in Running : q # r => n \notin scope[q]
      BY <1>2, <1>8, <2>1 DEF Orderly, Apart, Meeting
    <3>2. n \notin Busy'
      BY <1>1, <1>2, <3>1 DEF Busy
    <3> QED BY <1>4, <1>8, <2>1, <3>2, VisibleThen
  <2>2. CASE n \notin scope[r] /\ \E q \in Running : n \in scope[q]
    <3>1. PICK q \in Running : n \in scope[q] /\ q # r
      BY <2>2
    <3>2. q \in Running' /\ n \in scope'[q] /\ before'[q] = before[q]
      BY <1>1, <1>2, <1>3, <3>1
    <3> QED BY <1>8, <2>2, <3>1, <3>2, VisibleIs, VisibleThen
  <2>3. CASE n \notin scope[r] /\ n \notin Busy
    <3>1. n \notin Busy'
      BY <1>1, <1>2, <2>3 DEF Busy
    <3> QED BY <1>4, <1>8, <2>3, <3>1, VisibleIs, VisibleThen
  <2> QED BY <2>1, <2>2, <2>3 DEF Busy
<1>9. ASSUME NEW n \in Names, n \notin unclear', n \in unclear
      PROVE  r \in sweeps /\ n \in Subtree(op[r].id) /\ Visible'[n] = Stored(n)
  <2>1. r \in sweeps /\ n \in Subtree(op[r].id)
    BY <1>1, <1>9
  <2>2. n \notin Busy'
    BY <1>1, <1>2, <1>5, <2>1 DEF Busy
  <2> QED BY <1>4, <1>9, <2>1, <2>2, VisibleThen
<1> QED BY <1>6, <1>7, <1>8, <1>9

(* Who fails only spoils, ... *)
LEMMA FailSpoils ==
  ASSUME Typed, Orderly, Orderly', NEW r \in Requests, Fail(r) PROVE Spoils
<1>1. Ends(r) /\ unclear' = unclear \cup scope[r]
  BY DEF Ends, Fail
<1>2. ASSUME NEW n \in Names PROVE Visible'[n] \in {Visible[n], Unclear}
  <2>1. CASE n \in unclear'
    BY <1>1, <2>1, EndShows
  <2>2. CASE n \notin unclear'
    BY <1>1, <2>2, EndShows
  <2> QED BY <2>1, <2>2
<1> QED BY <1>2 DEF Spoils

(* ... as does who has met others and returns, ... *)
LEMMA BadSpoils ==
  ASSUME Typed, Orderly, Orderly', NEW r \in Requests, Return(r) \/ Unmoved(r), r \notin sweeps \/ Unmoved(r), ~Good(r)
  PROVE  Spoils
<1>1. Ends(r) /\ unclear' = unclear /\ scope[r] \subseteq unclear
  BY DEF Ends, Return, Unmoved, Doing, Good
<1>2. ASSUME NEW n \in Names PROVE Visible'[n] \in {Visible[n], Unclear}
  <2>1. CASE n \in unclear'
    BY <1>1, <2>1, EndShows
  <2>2. CASE n \notin unclear'
    BY <1>1, <2>2, EndShows
  <2> QED BY <2>1, <2>2
<1> QED BY <1>2 DEF Spoils

(* ... unless it has swept. *)
LEMMA SweepRecovers ==
  ASSUME SafeInv, Orderly', NEW r \in Requests, Return(r), r \in sweeps, ~Good(r)
  PROVE  N!Recover(op[r].id)
<1>1. Ends(r) /\ unclear' = unclear \ Subtree(op[r].id) /\ scope[r] \subseteq unclear /\ todo[r] = <<>>
  BY DEF Ends, Return, Good
<1>2. /\ op[r].id \in Names /\ Subtree(op[r].id) \subseteq Names /\ Subtree(op[r].id) \subseteq scope[r]
  BY SweptNames DEF SafeInv
<1>3. \A m \in Subtree(op[r].id) : Stored(m) = Absent
  <2> TAKE m \in Subtree(op[r].id)
  <2>1. Items(todo[r]) = {}
    BY <1>1, ItemsSmall
  <2>2. RowsOf("nodes", m) = {}
    BY <2>1 DEF SafeInv, SweepsFine, SweepAt, Deleting, Tabs
  <2> QED BY <2>2 DEF Stored
<1>4. op[r].id \in Subtree(op[r].id)
  BY DEF Subtree
<1>5. \A n \in Subtree(op[r].id) : n \in unclear /\ n \notin unclear' /\ Visible'[n] = Absent
  <2> TAKE n \in Subtree(op[r].id)
  <2>1. n \in Names /\ n \in unclear /\ n \notin unclear'
    BY <1>1, <1>2
  <2>2. Visible'[n] = Stored(n)
    BY <1>1, <2>1, EndShows DEF SafeInv
  <2> QED BY <1>3, <2>1, <2>2
<1>6. \A n \in Names \ Subtree(op[r].id) : Visible'[n] = Visible[n]
  <2> TAKE n \in Names \ Subtree(op[r].id)
  <2>1. n \in unclear' <=> n \in unclear
    BY <1>1
  <2>2. CASE n \in unclear
    BY <2>1, <2>2, VisibleIs, VisibleThen DEF SafeInv
  <2>3. CASE n \notin unclear
    <3>1. n \notin scope[r]
      BY <1>1, <2>3
    <3> QED BY <1>1, <2>1, <2>3, <3>1, EndShows DEF SafeInv
  <2> QED BY <2>2, <2>3
<1>7. Visible[op[r].id] = Unclear
  BY <1>2, <1>4, <1>5, VisibleIs DEF SafeInv
<1>8. Visible' = [m \in Names |-> IF m \in Subtree(op[r].id) THEN Absent ELSE Visible[m]]
  <2>1. Visible' = [m \in Names |-> Visible'[m]]
    BY VisibleFun
  <2> QED BY <1>5, <1>6, <2>1
<1> QED BY <1>2, <1>4, <1>5, <1>7, <1>8, NodesAre DEF N!Recover

-----------------------------------------------------------------------------
(* The invariant: what clients still see *)

(* Names that a request has seen, and that must stay as they are. *)
Wants(r, S) == S \subseteq needs[r] \cup {Root}

(* A good creation is not seen before it ends, ... *)
NewSeen(r) ==
  LET n == op[r].id
  IN /\ NewAt(r)
     /\ Wants(r, {Parent(n)} \cup IF op[r].kind = "link" THEN {op[r].to} ELSE {})
     /\ \A m \in scope[r] : before[r][m] = Absent
     /\ \A v \in RowsOf("links", n) : v.target = op[r].to

(* ... nor is where a link leads that is changed in its place. *)
OverSeen(r) ==
  LET n == op[r].id
  IN /\ OverAt(r)
     /\ op[r].kind = "link" => Wants(r, {op[r].to})
     /\ \A s \in Items(todo[r]) : s.do = "retarget" => s.target = op[r].to
     /\ \E w \in RowsOf("nodes", n) : \E t :
          /\ before[r][n] = Node(w.kind, w.by, t) /\ w.kind = op[r].kind
          /\ w.kind # "link" => t = NoName
          /\ \A v \in RowsOf("links", n) : v.target \in {t, op[r].to}

(* What clients see of n, and of the links to it, is all that is deleted. *)
Gone(r, n) == Reach(IF before[r][n].kind = "container" THEN Subtree(n) ELSE {n},
                    [l \in Names |-> Visible[l].target])
DelOf(r, n) ==
  /\ n \in scope[r] /\ before[r][n] \in N!Listed
  /\ Gone(r, n) \subseteq scope[r]
  /\ \A m \in scope[r] \ Gone(r, n) : before[r][m] = Absent
DelSeen(r) == DelAt(r) /\ \E n \in Names : DelOf(r, n)

(* A node as it was, whose rows are now S; none if there are none. *)
Was(v, S) == IF S = {} THEN v = Absent ELSE \E w \in S : S = {w} /\ v = Node(w.kind, w.by, NoName)

(* A job that has done nothing, ... *)
AsBefore(r) == \A m \in scope[r] : before[r][m] = Stored(m)

(* ... one that moves, ... *)
MoveSeen(r, f, g) ==
  /\ before[r][f] # Absent
  /\ \A m \in Subtree(f) : Was(before[r][m], Both("nodes", m, Renamed(m, f, g)))
  /\ \A k \in Subtree(g) : before[r][k] = Absent

(* ... and one that copies. *)
CopySeen(r, f, g) ==
  /\ before[r][f] # Absent
  /\ \A m \in Subtree(f) : Was(before[r][m], RowsOf("nodes", m))
  /\ \A k \in Subtree(g) : before[r][k] = Absent
JobSeen(r, f, g) ==
  /\ ~ToNull(op[r]) /\ Wants(r, {Parent(g)})
  /\ \/ /\ op[r].do = "move"
        /\ \/ MoveBefore(r, f, g) /\ AsBefore(r)
           \/ MoveAfter(r, f, g) /\ MoveSeen(r, f, g)
     \/ /\ op[r].do = "copy"
        /\ \/ CopyBefore(r, f, g) /\ AsBefore(r)
           \/ CopyAfter(r, f, g) /\ CopySeen(r, f, g)

(* How much of what a good request has done is not seen yet. *)
SeenAt(r) == NewSeen(r) \/ OverSeen(r) \/ DelSeen(r) \/ \E f, g \in Names : JobSeen(r, f, g)

(* What clients see are nodes. *)
SeenTyped == \A n \in Names : Visible[n] \in N!Listed \cup {Absent, Unclear}
SeenFine  == \A r \in Requests : Good(r) => SeenAt(r)
SeenInv == SafeInv /\ SeenTyped /\ SeenFine

-----------------------------------------------------------------------------
(* What clients see at the end of a request *)

(* What contains what a good request works on is seen as a container. *)
LEMMA ParentSeen ==
  ASSUME SafeInv, NEW r \in Requests, Good(r), NEW k \in scope[r], NEW p \in Names,
         k \in Under(p), p \notin scope[r], p \in needs[r]
  PROVE  Visible[p].kind \in {"container", "unclear"}
<1>1. CASE p \in unclear
  BY <1>1, VisibleIs DEF SafeInv, Unclear, Node
<1>2. CASE p \notin unclear
  <2>1. r \in Running
    BY DEF Good, Running
  <2>2. p \notin Busy
    <3>1. ASSUME NEW q \in Running, p \in scope[q] PROVE FALSE
      <4>1. q # r /\ Meeting(r, q)
        BY <3>1 DEF Meeting
      <4> QED BY <2>1, <4>1 DEF SafeInv, Orderly, Apart, Good
    <3> QED BY <3>1 DEF Busy
  <2>3. Visible[p] = Stored(p)
    BY <1>2, <2>2, VisibleIs DEF SafeInv
  <2>4. Cont(p) /\ p # Root
    BY <1>2, <2>1, Below DEF SafeInv, Hung
  <2>5. RowsOf("nodes", p) # {} /\ \A w \in RowsOf("nodes", p) : w.kind = "container"
    BY <2>4 DEF Cont, GetTypes
  <2>6. Stored(p).kind = "container"
    BY <2>5 DEF Stored, Node
  <2> QED BY <2>3, <2>6
<1> QED BY <1>1, <1>2

(* So the abstract specification may put something there. *)
LEMMA ParentHolds ==
  ASSUME SafeInv, NEW r \in Requests, Good(r), NEW k \in scope[r], k \in Names,
         Parent(k) \notin scope[r], Wants(r, {Parent(k)})
  PROVE  N!MayHold(N!Parent(k))
<1>1. Parent(k) \in Places /\ (Parent(k) \in Names => k \in Under(Parent(k)))
  BY Above
<1>2. CASE Parent(k) = Root
  BY <1>2, NodesAre DEF N!MayHold
<1>3. CASE Parent(k) # Root
  <2>1. Parent(k) \in Names /\ Parent(k) \in needs[r]
    BY <1>1, <1>3 DEF Wants, Places
  <2>2. Visible[Parent(k)].kind \in {"container", "unclear"}
    BY <1>1, <2>1, ParentSeen
  <2> QED BY <1>3, <2>2, NodesAre DEF N!MayHold
<1> QED BY <1>2, <1>3

(* What clients see when a good request returns. *)
LEMMA GoodShows ==
  ASSUME SafeInv, Orderly', NEW r \in Requests, Return(r) \/ Unmoved(r), Good(r)
  PROVE  /\ \A n \in Names : Visible'[n] = IF n \in scope[r] THEN Stored(n) ELSE Visible[n]
         /\ \A n \in scope[r] : n \in Names /\ Visible[n] = before[r][n]
<1>1. Ends(r) /\ r \in Running
  BY DEF Ends, Good, Running
<1>2. scope[r] \cap unclear = {}
  BY <1>1 DEF SafeInv, Orderly, Whole, Good
<1>3. unclear' = unclear
  <2>1. r \in sweeps => Subtree(op[r].id) \subseteq scope[r]
    BY DEF SafeInv, Orderly, Sweepers
  <2> QED BY <1>2, <2>1 DEF Return, Unmoved
<1>4. \A n \in scope[r] : n \in Names
  BY DEF SafeInv, Typed, scope
<1>5. \A n \in scope[r] : Visible[n] = before[r][n]
  BY <1>1, <1>2, <1>4, VisibleIs DEF SafeInv
<1>6. ASSUME NEW n \in Names PROVE Visible'[n] = IF n \in scope[r] THEN Stored(n) ELSE Visible[n]
  <2>1. CASE n \in unclear
    BY <1>1, <1>2, <1>3, <2>1, EndShows, VisibleIs DEF SafeInv
  <2>2. CASE n \notin unclear
    BY <1>1, <1>3, <2>2, EndShows DEF SafeInv
  <2> QED BY <2>1, <2>2
<1> QED BY <1>4, <1>5, <1>6

(* A node that has been created is seen as one step. *)
LEMMA NewReturns ==
  ASSUME SeenInv, Orderly', NEW r \in Requests, Return(r), Good(r), NewSeen(r)
  PROVE  N!Create(op[r].id)
<1>k. PICK n, kind : n = op[r].id /\ kind = op[r].kind
  OBVIOUS
<1>1. /\ Typed /\ SafeInv /\ op[r] \in Op /\ n \in Names /\ kind \in Kinds /\ op[r].to \in Names \cup {NoName}
      /\ Items(todo[r]) = {}
  BY <1>k, OpsAssumption, ItemsSmall DEF SeenInv, SafeInv, Typed, Op, Return
<1>2. /\ scope[r] = Subtree(n) /\ \A m \in Under(n) : ~Something(m)
      /\ \E w \in RowsOf("nodes", n) : RowsOf("nodes", n) = {w} /\ w.kind = kind /\ w.by = r
      /\ kind = "link" => RowsOf("links", n) # {}
  <2>1. NewAt(r)
    BY DEF NewSeen
  <2> QED BY <1>1, <1>k, <2>1 DEF NewAt, Single
<1>3. /\ Wants(r, {Parent(n)})
      /\ \A m \in scope[r] : before[r][m] = Absent
      /\ \A v \in RowsOf("links", n) : v.target = op[r].to
  BY <1>k DEF NewSeen, Wants
<1>4. n \in scope[r] /\ n \in Names
  BY <1>1, <1>2 DEF Subtree
<1>5. \A m \in Under(n) : Stored(m) = Absent
  BY <1>2 DEF Something, Stored, Tabs
<1>6. Stored(n) \in N!Listed
  <2>1. \E target \in Names \cup {NoName} : Stored(n) = Node(kind, r, target)
    <3>1. PICK w \in RowsOf("nodes", n) : RowsOf("nodes", n) = {w} /\ w.kind = kind /\ w.by = r
      BY <1>2
    <3>2. Stored(n) = Node(kind, r, IF kind = "link" THEN GetTarget(n) ELSE NoName)
      BY <3>1 DEF Stored
    <3>3. kind = "link" => GetTarget(n) = op[r].to
      BY <1>2, <1>3 DEF GetTarget
    <3> QED BY <1>1, <3>2, <3>3
  <2> QED BY <1>1, <2>1, NodesAre DEF Node
<1>7. Visible[n] = Absent /\ Visible'[n] = Stored(n)
  BY <1>1, <1>3, <1>4, GoodShows
<1>8. \A m \in Names : m # n => Visible'[m] = Visible[m]
  <2> SUFFICES ASSUME NEW m \in Names, m # n PROVE Visible'[m] = Visible[m]
    OBVIOUS
  <2>1. CASE m \in scope[r]
    <3>1. m \in Under(n)
      BY <1>2, <2>1 DEF Subtree
    <3> QED BY <1>1, <1>3, <1>5, <2>1, <3>1, GoodShows
  <2>2. CASE m \notin scope[r]
    BY <1>1, <2>2, GoodShows
  <2> QED BY <2>1, <2>2
<1>9. N!MayHold(N!Parent(n))
  <2>1. Parent(n) \notin scope[r]
    <3>1. Parent(n) \in Names => n \in Under(Parent(n))
      BY <1>1, Above
    <3> QED BY <1>1, <1>2, <3>1, Below DEF Subtree, Places
  <2> QED BY <1>1, <1>3, <1>4, <2>1, ParentHolds
<1>10. Visible' = [Visible EXCEPT ![n] = Visible'[n]]
  <2>1. /\ Visible = [m \in Names |-> Visible[m]]
        /\ Visible' = [m \in Names |-> Visible'[m]]
    BY VisibleFun
  <2> QED BY <1>8, <2>1
<1> QED BY <1>6, <1>7, <1>9, <1>10, <1>k, NodesAre DEF N!Create

(* So is the new target of a link. *)
LEMMA OverReturns ==
  ASSUME SeenInv, Orderly', NEW r \in Requests, Return(r), Good(r), OverSeen(r)
  PROVE  N!Retarget(op[r].id) \/ Visible' = Visible
<1>k. PICK n : n = op[r].id
  OBVIOUS
<1>1. /\ Typed /\ SafeInv /\ op[r] \in Op /\ n \in Names /\ op[r].to \in Names \cup {NoName}
  BY <1>k, OpsAssumption DEF SeenInv, SafeInv, Typed, Op
<1>2. scope[r] = {n} /\ Sound(n)
  BY <1>k DEF OverSeen, OverAt
<1>3. PICK w, t :
        /\ w \in RowsOf("nodes", n)
        /\ before[r][n] = Node(w.kind, w.by, t) /\ w.kind = op[r].kind
        /\ w.kind # "link" => t = NoName
        /\ \A v \in RowsOf("links", n) : v.target \in {t, op[r].to}
  BY <1>k DEF OverSeen
<1>4. RowsOf("nodes", n) = {w}
  BY <1>2, <1>3 DEF Sound
<1>5. Visible[n] = Node(w.kind, w.by, t) /\ Visible'[n] = Stored(n) /\ \A m \in Names : m # n => Visible'[m] = Visible[m]
  BY <1>1, <1>2, <1>3, GoodShows
<1>6. Stored(n) = Node(w.kind, w.by, IF w.kind = "link" THEN GetTarget(n) ELSE NoName)
  BY <1>4 DEF Stored
<1>7. /\ Visible = [m \in Names |-> Visible[m]]
      /\ Visible' = [m \in Names |-> Visible'[m]]
  BY VisibleFun
<1>8. CASE Stored(n) = Visible[n]
  <2>1. \A m \in Names : Visible'[m] = Visible[m]
    BY <1>5, <1>8
  <2> QED BY <1>7, <2>1
<1>9. CASE Stored(n) # Visible[n]
  <2>1. w.kind = "link" /\ GetTarget(n) # t
    BY <1>3, <1>5, <1>6, <1>9
  <2>2. RowsOf("links", n) # {}
    BY <1>2, <1>4, <2>1 DEF Sound, Single
  <2>3. GetTarget(n) = op[r].to
    <3>1. GetTarget(n) \in {v.target : v \in RowsOf("links", n)}
      BY <2>2 DEF GetTarget
    <3> QED BY <1>3, <2>1, <3>1
  <2>4. Visible'[n] = [Visible[n] EXCEPT !.target = op[r].to]
    BY <1>5, <1>6, <2>1, <2>3 DEF Node
  <2>5. Visible' = [Visible EXCEPT ![n].target = op[r].to]
    BY <1>1, <1>5, <1>7, <2>4
  <2>6. Visible[n].kind = "link" /\ op[r].to \in Names \cup {N!Root}
    BY <1>1, <1>5, <2>1, NodesAre DEF Node, NoName, Root
  <2> QED BY <1>k, <2>5, <2>6 DEF N!Retarget
<1> QED BY <1>8, <1>9

(* And a deletion. *)
LEMMA DelReturns ==
  ASSUME SeenInv, Orderly', NEW r \in Requests, Return(r), Good(r), DelSeen(r)
  PROVE  \E n \in Names : N!Delete(n)
<1>1. Typed /\ SafeInv /\ Items(todo[r]) = {} /\ DelAt(r)
  BY ItemsSmall DEF SeenInv, SafeInv, Return, DelSeen
<1>2. PICK n \in Names : DelOf(r, n)
  BY DEF DelSeen
<1>3. PICK gone : gone = Gone(r, n)
  OBVIOUS
<1>4. /\ n \in scope[r] /\ before[r][n] \in N!Listed /\ gone \subseteq scope[r]
      /\ \A m \in scope[r] \ gone : before[r][m] = Absent
  BY <1>2, <1>3 DEF DelOf
<1>5. \A m \in scope[r] : Stored(m) = Absent
  <2>1. found[r] = {} /\ PendSel(r) = {}
    BY <1>1 DEF DelAt, PendSel
  <2>2. Catches(r, {})
    BY <2>1 DEF Catches, LeadsTo
  <2>3. \A m \in scope[r] : Going(r, m)
    BY <1>1, <2>2 DEF DelAt, Expected
  <2> QED BY <1>1, <2>3 DEF Going, Deleting, Stored, Tabs
<1>6. \A m \in Names : Visible'[m] = IF m \in gone THEN Absent ELSE Visible[m]
  <2> TAKE m \in Names
  <2>1. Visible'[m] = IF m \in scope[r] THEN Stored(m) ELSE Visible[m]
    BY <1>1, GoodShows
  <2>2. m \in scope[r] => Visible[m] = before[r][m]
    BY <1>1, GoodShows
  <2> QED BY <1>4, <1>5, <2>1, <2>2
<1>7. Visible[n] = before[r][n]
  BY <1>1, <1>4, GoodShows
<1>8. gone = N!WithLinks(IF Visible[n].kind = "container" THEN N!Subtree(n) ELSE {n}, N!Target)
  BY <1>3, <1>7, NodesAre, Zenon DEF Gone, Reach, N!WithLinks, N!Target
<1>9. n \in gone
  <2>1. n \in IF before[r][n].kind = "container" THEN Subtree(n) ELSE {n}
    BY DEF Subtree
  <2> QED BY <1>2, <1>3, <2>1, LinksLeast DEF Gone
<1>10. Visible' = [m \in Names |-> IF m \in gone THEN Absent ELSE Visible[m]]
  <2>1. Visible' = [m \in Names |-> Visible'[m]]
    BY VisibleFun
  <2> QED BY <1>6, <2>1
<1>11. Visible[n] \in N!Listed /\ Visible'[n] = N!Absent
  BY <1>4, <1>6, <1>7, <1>9, NodesAre
<1>12. N!Delete(n)
  BY <1>8, <1>10, <1>11, NodesAre DEF N!Delete
<1> QED BY <1>12

(* What clients see of a tree without links is what was stored there. *)
LEMMA WasNode ==
  ASSUME NEW v, NEW S, Was(v, S), S = {} \/ \E w \in S : S = {w} /\ w.kind \in Kinds \ {"link"}
                                                      /\ w.by \in Requests \cup {"init"}
  PROVE  /\ v = Absent \/ (v \in N!Listed /\ v.kind # "link")
         /\ v.kind \notin {"link", "unclear"}
         /\ v = Absent <=> S = {}
<1>1. CASE S = {}
  BY <1>1 DEF Was, Absent, Node
<1>2. CASE S # {}
  <2>1. PICK w \in S : S = {w} /\ w.kind \in Kinds \ {"link"} /\ w.by \in Requests \cup {"init"}
    BY <1>2
  <2>2. v = Node(w.kind, w.by, NoName)
    BY <2>1 DEF Was
  <2>3. v # Absent /\ v.kind \notin {"link", "unclear"}
    BY <2>1, <2>2 DEF Node, Absent, Kinds
  <2>4. v \in N!Listed
    BY <2>1, <2>2, NodesAre DEF Node
  <2> QED BY <1>2, <2>3, <2>4
<1> QED BY <1>1, <1>2

(* Nothing outside what a job puts there contains it. *)
LEMMA JobAbove ==
  ASSUME SafeInv, NEW r \in Requests, Good(r), NEW f \in Names, NEW g \in Names, Leads(r, f, g), Wants(r, {Parent(g)})
  PROVE  N!MayHold(N!Parent(g))
<1>1. g \in scope[r] /\ \A k \in Under(f) : Under(k) \subseteq Under(f)
  BY LeadsNames, Below DEF Places
<1>2. Parent(g) \in Names => g \in Under(Parent(g))
  BY Above
<1>3. Parent(g) \notin scope[r]
  <2>1. ASSUME Parent(g) \in Subtree(f) PROVE FALSE
    <3>1. Parent(g) \in Names
      BY <2>1, LeadsNames
    <3>2. g \in Subtree(f)
      BY <1>1, <1>2, <2>1, <3>1 DEF Subtree
    <3> QED BY <3>2 DEF Leads
  <2>2. ASSUME Parent(g) \in Subtree(g) PROVE FALSE
    <3>1. Parent(g) \in Names
      BY <2>2, LeadsNames
    <3> QED BY <1>2, <2>2, <3>1, Below DEF Subtree, Places
  <2> QED BY <2>1, <2>2 DEF Leads
<1> QED BY <1>1, <1>3, ParentHolds

(* A move is seen as one step. *)
LEMMA MoveReturns ==
  ASSUME SeenInv, Orderly', NEW r \in Requests, Return(r), Good(r),
         NEW f \in Names, NEW g \in Names, MoveAfter(r, f, g), MoveSeen(r, f, g), Wants(r, {Parent(g)})
  PROVE  N!Move(f, g)
<1>1. Typed /\ SafeInv /\ Items(todo[r]) = {} /\ Leads(r, f, g) /\ scope[r] = Subtree(f) \cup Subtree(g)
  BY ItemsSmall DEF SeenInv, SafeInv, Return, MoveAfter, Leads
<1>2. /\ f \in Subtree(f) /\ g \in Subtree(g) /\ Subtree(f) \subseteq Names /\ Subtree(g) \subseteq Names
      /\ Renamed(f, f, g) = g
      /\ \A m \in Subtree(f) : Renamed(m, f, g) \in Subtree(g) /\ Renamed(Renamed(m, f, g), g, f) = m
  BY <1>1, LeadsNames
<1>3. Subtree(f) \cap Subtree(g) = {} /\ OnlyNew(f, g)
  BY DEF MoveAfter
<1>4. ASSUME NEW m \in Subtree(f)
      PROVE  /\ Stored(m) = Absent
             /\ Stored(Renamed(m, f, g)) = before[r][m]
             /\ before[r][m] = Absent \/ before[r][m] \in N!Listed
             /\ before[r][m].kind \notin {"link", "unclear"}
  <2>k. PICK k : k = Renamed(m, f, g)
    OBVIOUS
  <2>1. Was(before[r][m], Both("nodes", m, k))
    BY <2>k DEF MoveSeen
  <2>2. MoveOwed({}, f, g, m) /\ Moves(m, k)
    BY <1>1, <2>k DEF MoveAfter
  <2>3. RowsOf("nodes", m) = {}
    BY <2>2 DEF MoveOwed, Waits, Moved
  <2>4. Both("nodes", m, k) = RowsOf("nodes", k)
    BY <2>3 DEF Both
  <2>5. \/ RowsOf("nodes", k) = {}
        \/ \E w \in RowsOf("nodes", k) : RowsOf("nodes", k) = {w} /\ w.kind \in Kinds \ {"link"}
    BY <2>2, <2>4 DEF Moves, Moved
  <2>6. \A w \in RowsOf("nodes", k) : w.by \in Requests \cup {"init"}
    BY <1>1 DEF RowsOf, Typed, Rows
  <2>7. /\ before[r][m] = Absent \/ before[r][m] \in N!Listed
        /\ before[r][m].kind \notin {"link", "unclear"}
    BY <2>1, <2>4, <2>5, <2>6, WasNode
  <2>8. Stored(m) = Absent
    BY <2>3 DEF Stored
  <2>9. Stored(k) = before[r][m]
    <3>1. CASE RowsOf("nodes", k) = {}
      BY <2>1, <2>4, <3>1 DEF Stored, Was
    <3>2. CASE RowsOf("nodes", k) # {}
      <4>1. PICK w \in RowsOf("nodes", k) : RowsOf("nodes", k) = {w} /\ w.kind # "link"
        BY <2>5, <3>2
      <4>2. before[r][m] = Node(w.kind, w.by, NoName)
        BY <2>1, <2>4, <4>1 DEF Was
      <4> QED BY <4>1, <4>2 DEF Stored
    <3> QED BY <3>1, <3>2
  <2> QED BY <2>k, <2>7, <2>8, <2>9
<1>5. \A k \in Subtree(g) : before[r][k] = Absent
  BY DEF MoveSeen
<1>6. \A k \in Subtree(g) : Renamed(k, g, f) \in Names => Renamed(k, g, f) \in Subtree(f)
                                                        /\ k = Renamed(Renamed(k, g, f), f, g)
  <2>1. f \notin Under(g)
    BY <1>2, <1>3 DEF Subtree
  <2> QED BY <1>1, <2>1, NamesApart
<1>7. \A k \in Subtree(g) : Stored(k) = IF Renamed(k, g, f) \in Names THEN before[r][Renamed(k, g, f)] ELSE Absent
  <2> SUFFICES ASSUME NEW k \in Subtree(g)
               PROVE  Stored(k) = IF Renamed(k, g, f) \in Names THEN before[r][Renamed(k, g, f)] ELSE Absent
    OBVIOUS
  <2>1. CASE Renamed(k, g, f) \in Names
    BY <1>4, <1>6, <2>1
  <2>2. CASE Renamed(k, g, f) \notin Names
    <3>1. ~Something(k)
      BY <1>2, <1>3, <2>2 DEF OnlyNew
    <3> QED BY <2>2, <3>1 DEF Something, Stored, Tabs
  <2> QED BY <2>1, <2>2
<1>8. /\ \A m \in Names : Visible'[m] = IF m \in scope[r] THEN Stored(m) ELSE Visible[m]
      /\ \A m \in scope[r] : Visible[m] = before[r][m]
  BY <1>1, GoodShows
<1>9. /\ Visible[f] \in N!Listed /\ Visible[g] = Absent /\ Visible'[g] # Absent
      /\ \A m \in Subtree(f) : Visible[m].kind \notin {"link", "unclear"}
  <2>1. before[r][f] # Absent
    BY DEF MoveSeen
  <2>2. /\ f \in scope[r] /\ g \in scope[r] /\ Stored(g) = before[r][f]
        /\ before[r][f] \in N!Listed /\ before[r][g] = Absent
    BY <1>1, <1>2, <1>4, <1>5, <2>1
  <2>3. \A m \in Subtree(f) : m \in scope[r] /\ before[r][m].kind \notin {"link", "unclear"}
    BY <1>1, <1>4
  <2> QED BY <1>8, <2>1, <2>2, <2>3
<1>10. N!Whole(f, g)
  <2>1. N!MayHold(N!Parent(g))
    BY <1>1, JobAbove
  <2> QED BY <1>9, <2>1, NodesAre DEF N!Whole
<1>11. ASSUME NEW m \in Names
       PROVE  Visible'[m] = IF m \in Subtree(f) THEN Absent
                            ELSE IF m \in Subtree(g) /\ Renamed(m, g, f) \in Names
                              THEN Visible[Renamed(m, g, f)] ELSE Visible[m]
  <2>1. CASE m \in Subtree(f)
    BY <1>1, <1>4, <1>8, <2>1
  <2>2. CASE m \in Subtree(g)
    <3>1. m \notin Subtree(f) /\ m \in scope[r] /\ Visible'[m] = Stored(m) /\ Visible[m] = Absent
      BY <1>1, <1>3, <1>5, <1>8, <2>2
    <3>2. Renamed(m, g, f) \in Names => Visible[Renamed(m, g, f)] = before[r][Renamed(m, g, f)]
      BY <1>1, <1>6, <1>8, <2>2
    <3> QED BY <1>7, <2>2, <3>1, <3>2
  <2>3. CASE m \notin Subtree(f) /\ m \notin Subtree(g)
    BY <1>1, <1>8, <2>3
  <2> QED BY <2>1, <2>2, <2>3
<1>12. Visible' = [m \in Names |->
         IF m \in N!Subtree(f) THEN N!Absent
         ELSE IF m \in N!Subtree(g) /\ N!Renamed(m, g, f) \in Names
           THEN Visible[N!Renamed(m, g, f)] ELSE Visible[m]]
  <2>1. Visible' = [m \in Names |-> Visible'[m]]
    BY VisibleFun
  <2> QED BY <1>11, <2>1, NodesAre
<1> QED BY <1>9, <1>10, <1>12, NodesAre DEF N!Move

(* And a copy. *)
LEMMA CopyReturns ==
  ASSUME SeenInv, Orderly', NEW r \in Requests, Return(r), Good(r),
         NEW f \in Names, NEW g \in Names, CopyAfter(r, f, g), CopySeen(r, f, g), Wants(r, {Parent(g)})
  PROVE  N!Copy(f, g, r)
<1>1. Typed /\ SafeInv /\ Items(todo[r]) = {} /\ Leads(r, f, g) /\ scope[r] = Subtree(f) \cup Subtree(g)
  BY ItemsSmall DEF SeenInv, SafeInv, Return, CopyAfter, Leads
<1>2. /\ f \in Subtree(f) /\ g \in Subtree(g) /\ Subtree(f) \subseteq Names /\ Subtree(g) \subseteq Names
      /\ Renamed(f, f, g) = g
      /\ \A m \in Subtree(f) : Renamed(m, f, g) \in Subtree(g) /\ Renamed(Renamed(m, f, g), g, f) = m
  BY <1>1, LeadsNames
<1>3. Subtree(f) \cap Subtree(g) = {} /\ OnlyNew(f, g)
  BY DEF CopyAfter
<1>4. ASSUME NEW m \in Subtree(f)
      PROVE  /\ Stored(m) = before[r][m]
             /\ before[r][m] = Absent \/ before[r][m] \in N!Listed
             /\ before[r][m].kind \notin {"link", "unclear"}
             /\ Stored(Renamed(m, f, g)) = IF before[r][m] = Absent THEN Absent
                                           ELSE [before[r][m] EXCEPT !.by = r]
  <2>k. PICK k : k = Renamed(m, f, g)
    OBVIOUS
  <2>1. Was(before[r][m], RowsOf("nodes", m))
    BY DEF CopySeen
  <2>2. Fine(m) /\ Copies(r, {}, f, g, m) /\ NoLinks(f) /\ m \in Names
    BY <1>1, <1>2 DEF CopyAfter
  <2>3. \/ RowsOf("nodes", m) = {}
        \/ \E w \in RowsOf("nodes", m) : RowsOf("nodes", m) = {w} /\ w.kind \in Kinds \ {"link"}
    <3>1. RowsOf("nodes", m) # {} => Sound(m)
      BY <2>2 DEF Fine, Something, Tabs
    <3> QED BY <2>2, <3>1 DEF Sound, NoLinks
  <2>4. \A w \in RowsOf("nodes", m) : w.by \in Requests \cup {"init"}
    BY <1>1 DEF RowsOf, Typed, Rows
  <2>5. /\ before[r][m] = Absent \/ before[r][m] \in N!Listed
        /\ before[r][m].kind \notin {"link", "unclear"}
        /\ before[r][m] = Absent <=> RowsOf("nodes", m) = {}
    BY <2>1, <2>3, <2>4, WasNode
  <2>6. CASE RowsOf("nodes", m) = {}
    <3>1. RowsOf("nodes", k) = {}
      BY <2>2, <2>6, <2>k DEF Copies, Something, Tabs
    <3> QED BY <2>5, <2>6, <2>k, <3>1 DEF Stored
  <2>7. CASE RowsOf("nodes", m) # {}
    <3>1. PICK w \in RowsOf("nodes", m) : RowsOf("nodes", m) = {w} /\ w.kind # "link"
      BY <2>3, <2>7
    <3>2. before[r][m] = Node(w.kind, w.by, NoName)
      BY <2>1, <3>1 DEF Was
    <3>3. Stored(m) = Node(w.kind, w.by, NoName)
      BY <3>1 DEF Stored
    <3>4. \E v \in RowsOf("nodes", k) : RowsOf("nodes", k) = {v} /\ v.kind = w.kind /\ v.by = r
      <4>1. ~Awaits({}, f, g, "nodes", m, w.kind)
        BY DEF Awaits, Waits
      <4> QED BY <2>2, <2>k, <3>1, <4>1 DEF Copies
    <3>5. Stored(k) = Node(w.kind, r, NoName)
      BY <3>1, <3>4 DEF Stored
    <3>6. [before[r][m] EXCEPT !.by = r] = Node(w.kind, r, NoName)
      BY <3>2 DEF Node
    <3> QED BY <2>5, <2>7, <2>k, <3>2, <3>3, <3>5, <3>6
  <2> QED BY <2>6, <2>7
<1>5. \A k \in Subtree(g) : before[r][k] = Absent
  BY DEF CopySeen
<1>6. \A k \in Subtree(g) : Renamed(k, g, f) \in Names => Renamed(k, g, f) \in Subtree(f)
                                                        /\ k = Renamed(Renamed(k, g, f), f, g)
  <2>1. f \notin Under(g)
    BY <1>2, <1>3 DEF Subtree
  <2> QED BY <1>1, <2>1, NamesApart
<1>7. \A k \in Subtree(g) : Renamed(k, g, f) \notin Names => Stored(k) = Absent
  <2> SUFFICES ASSUME NEW k \in Subtree(g), Renamed(k, g, f) \notin Names PROVE Stored(k) = Absent
    OBVIOUS
  <2>1. ~Something(k)
    BY <1>2, <1>3 DEF OnlyNew
  <2> QED BY <2>1 DEF Something, Stored, Tabs
<1>8. /\ \A m \in Names : Visible'[m] = IF m \in scope[r] THEN Stored(m) ELSE Visible[m]
      /\ \A m \in scope[r] : Visible[m] = before[r][m]
  BY <1>1, GoodShows
<1>9. /\ Visible[f] \in N!Listed /\ Visible[g] = Absent /\ Visible'[g] # Absent
      /\ \A m \in Subtree(f) : Visible[m].kind \notin {"link", "unclear"}
  <2>1. before[r][f] # Absent
    BY DEF CopySeen
  <2>2. /\ f \in scope[r] /\ g \in scope[r] /\ Stored(g) = [before[r][f] EXCEPT !.by = r]
        /\ before[r][f] \in N!Listed /\ before[r][g] = Absent
    BY <1>1, <1>2, <1>4, <1>5, <2>1
  <2>3. Stored(g) # Absent
    <3>1. [before[r][f] EXCEPT !.by = r].kind \in Kinds
      BY <2>2, NodesAre
    <3> QED BY <2>2, <3>1 DEF Absent, Node, Kinds
  <2>4. \A m \in Subtree(f) : m \in scope[r] /\ before[r][m].kind \notin {"link", "unclear"}
    BY <1>1, <1>4
  <2> QED BY <1>8, <2>1, <2>2, <2>3, <2>4
<1>10. N!Whole(f, g)
  <2>1. N!MayHold(N!Parent(g))
    BY <1>1, JobAbove
  <2> QED BY <1>9, <2>1, NodesAre DEF N!Whole
<1>11. ASSUME NEW m \in Names
       PROVE  Visible'[m] = IF m \in Subtree(g) /\ Renamed(m, g, f) \in Names /\ Visible[Renamed(m, g, f)] # Absent
                            THEN [Visible[Renamed(m, g, f)] EXCEPT !.by = r] ELSE Visible[m]
  <2>1. CASE m \in Subtree(f)
    BY <1>1, <1>3, <1>4, <1>8, <2>1
  <2>2. CASE m \in Subtree(g)
    <3>1. m \in scope[r] /\ Visible'[m] = Stored(m) /\ Visible[m] = Absent
      BY <1>1, <1>3, <1>5, <1>8, <2>2
    <3>2. CASE Renamed(m, g, f) \in Names
      <4>1. PICK u \in Subtree(f) : u = Renamed(m, g, f) /\ m = Renamed(u, f, g)
        BY <1>6, <2>2, <3>2
      <4>2. Visible[u] = before[r][u]
        BY <1>1, <1>8, <4>1
      <4> QED BY <1>4, <2>2, <3>1, <3>2, <4>1, <4>2
    <3>3. CASE Renamed(m, g, f) \notin Names
      BY <1>7, <2>2, <3>1, <3>3
    <3> QED BY <3>2, <3>3
  <2>3. CASE m \notin Subtree(f) /\ m \notin Subtree(g)
    BY <1>1, <1>8, <2>3
  <2> QED BY <2>1, <2>2, <2>3
<1>12. Visible' = [m \in Names |->
         LET src == N!Renamed(m, g, f)
         IN IF m \in N!Subtree(g) /\ src \in Names /\ Visible[src] # N!Absent
              THEN [Visible[src] EXCEPT !.by = r] ELSE Visible[m]]
  <2>1. Visible' = [m \in Names |-> Visible'[m]]
    BY VisibleFun
  <2> QED BY <1>11, <2>1, NodesAre
<1> QED BY <1>9, <1>10, <1>12, NodesAre DEF N!Copy

(* Bytes that cannot be moved are seen to be where they were. *)
LEMMA UnmovedSame ==
  ASSUME SeenInv, Orderly', NEW r \in Requests, Unmoved(r), Good(r)
  PROVE  Visible' = Visible
<1>1. /\ todo[r] # <<>> /\ Head1(r).do \in {"movebytes", "copybytes"} /\ todo[r] \in Seq(Stmt) /\ SafeInv
  BY DEF Unmoved, Doing, SeenInv, SafeInv, Typed
<1>2. Head1(r) \in Items(todo[r]) /\ (Followed(todo[r]) => Head1(r).do \in {"delete", "select", "removebytes"})
  BY <1>1, ItemsTail DEF Head1
<1>3. SeenAt(r)
  BY DEF SeenInv, SeenFine
<1>4. ~DelSeen(r)
  BY <1>1, <1>2 DEF DelSeen, DelAt
<1>5. ~OverSeen(r)
  BY <1>1, <1>2 DEF OverSeen, OverAt
<1>6. ~NewSeen(r)
  <2>1. \A k, u : Make(k, u).do = "make"
    BY DEF Make
  <2> QED BY <1>1, <1>2, <2>1 DEF NewSeen, NewAt
<1>7. PICK f \in Names, g \in Names : JobSeen(r, f, g)
  BY <1>3, <1>4, <1>5, <1>6 DEF SeenAt
<1>8. ~MoveAfter(r, f, g)
  BY <1>1, <1>2, MoveItemIs DEF MoveAfter, MoveList
<1>9. ~CopyAfter(r, f, g)
  BY <1>1, <1>2, CopyItemIs DEF CopyAfter, CopyList
<1>10. AsBefore(r)
  BY <1>7, <1>8, <1>9 DEF JobSeen
<1>11. \A m \in Names : Visible'[m] = Visible[m]
  BY <1>1, <1>10, GoodShows DEF AsBefore
<1>12. /\ Visible = [m \in Names |-> Visible[m]]
       /\ Visible' = [m \in Names |-> Visible'[m]]
  BY VisibleFun
<1> QED BY <1>11, <1>12

(* The end of a request is a step of the abstract specification, or none. *)
LEMMA EndRefines ==
  ASSUME SeenInv, Orderly', NEW r \in Requests, Ends(r)
  PROVE  N!Next \/ Visible' = Visible
<1>1. SafeInv /\ Typed /\ Orderly
  BY DEF SeenInv, SafeInv
<1>2. CASE Fail(r)
  BY <1>1, <1>2, FailSpoils, SpoilsIs DEF N!Next
<1>3. CASE Unmoved(r)
  <2>1. CASE Good(r)
    BY <1>3, <2>1, UnmovedSame
  <2>2. CASE ~Good(r)
    BY <1>1, <1>3, <2>2, BadSpoils, SpoilsIs DEF N!Next
  <2> QED BY <2>1, <2>2
<1>4. CASE Return(r) /\ ~Good(r)
  <2>1. CASE r \in sweeps
    <3>1. op[r].id \in Names
      BY <1>1, <2>1, SweptNames
    <3>2. N!Recover(op[r].id)
      BY <1>1, <1>4, <2>1, SweepRecovers
    <3> QED BY <3>1, <3>2 DEF N!Next
  <2>2. CASE r \notin sweeps
    BY <1>1, <1>4, <2>2, BadSpoils, SpoilsIs DEF N!Next
  <2> QED BY <2>1, <2>2
<1>5. CASE Return(r) /\ Good(r)
  <2>1. op[r].id \in Names
    BY <1>1, OpsAssumption DEF Typed, Op
  <2>2. CASE NewSeen(r)
    BY <1>5, <2>1, <2>2, NewReturns DEF N!Next
  <2>3. CASE OverSeen(r)
    BY <1>5, <2>1, <2>3, OverReturns DEF N!Next
  <2>4. CASE DelSeen(r)
    BY <1>5, <2>4, DelReturns DEF N!Next
  <2>5. ASSUME NEW f \in Names, NEW g \in Names, JobSeen(r, f, g) PROVE N!Next
    <3>1. Wants(r, {Parent(g)}) /\ (~MoveBefore(r, f, g) /\ ~CopyBefore(r, f, g))
      BY <1>5, <2>5 DEF JobSeen, Return, MoveBefore, CopyBefore, JobBefore
    <3>2. CASE MoveAfter(r, f, g) /\ MoveSeen(r, f, g)
      BY <1>5, <3>1, <3>2, MoveReturns DEF N!Next
    <3>3. CASE CopyAfter(r, f, g) /\ CopySeen(r, f, g)
      BY <1>5, <3>1, <3>3, CopyReturns DEF N!Next
    <3> QED BY <2>5, <3>1, <3>2, <3>3 DEF JobSeen
  <2> QED BY <1>5, <2>2, <2>3, <2>4, <2>5 DEF SeenInv, SeenFine, SeenAt
<1> QED BY <1>2, <1>3, <1>4, <1>5 DEF Ends

(* What happens in a step. *)
LEMMA Steps ==
  ASSUME [Next]_vars
  PROVE  \/ \E r \in Requests : Works(r) \/ Begin(r) \/ Ends(r)
         \/ \E r \in Requests : Call(r) \/ Refuse(r)
         \/ UNCHANGED vars
BY DEF Next, Step, Works, Ends

(* A call, and a refusal, change nothing but pc. *)
LEMMA CallChanges ==
  ASSUME Typed, NEW r \in Requests, Call(r) \/ Refuse(r)
  PROVE  /\ UNCHANGED <<rows, file, op, todo, found, before, needs, sweeps, unclear>>
         /\ \A q \in Requests : pc'[q] = "run" <=> pc[q] = "run"
         /\ Running' = Running
<1>1. UNCHANGED <<rows, file, op, todo, found, before, needs, sweeps, unclear>>
  BY DEF Call, Refuse, store, aux
<1>2. \A q \in Requests : pc'[q] = "run" <=> pc[q] = "run"
  BY DEF Call, Refuse, Typed
<1> QED BY <1>1, <1>2 DEF Running

(* While the store stays, and who runs, clients see the same. *)
LEMMA SameSeen ==
  ASSUME UNCHANGED <<rows, before, unclear>>, Running' = Running, Orderly, Orderly'
  PROVE  Visible' = Visible
<1>1. scope' = scope /\ Busy' = Busy /\ \A n : Stored(n)' = Stored(n)
  BY StoredSame DEF scope, Busy, RowsOf
<1>2. ASSUME NEW n \in Names PROVE Visible'[n] = Visible[n]
  <2>1. CASE n \in unclear
    BY <2>1, VisibleIs, VisibleThen
  <2>2. CASE n \notin unclear /\ n \notin Busy
    BY <1>1, <2>2, VisibleIs, VisibleThen
  <2>3. CASE n \notin unclear /\ n \in Busy
    <3>1. PICK q \in Running : n \in scope[q]
      BY <2>3 DEF Busy
    <3> QED BY <1>1, <2>3, <3>1, VisibleIs, VisibleThen
  <2> QED BY <2>1, <2>2, <2>3
<1>3. /\ Visible = [m \in Names |-> Visible[m]]
      /\ Visible' = [m \in Names |-> Visible'[m]]
  BY VisibleFun
<1> QED BY <1>2, <1>3

(* Every step is a step of the abstract specification, or none. *)
LEMMA StepRefines ==
  ASSUME SeenInv, [Next]_vars PROVE N!Next \/ Visible' = Visible
<1>1. SafeInv /\ Typed /\ Orderly /\ Within
  BY DEF SeenInv, SafeInv
<1>2. Orderly'
  BY <1>1, SteadyStep
<1>3. ASSUME NEW r \in Requests, Works(r) PROVE N!Next
  BY <1>1, <1>2, <1>3, WorkSpoils, SpoilsIs DEF N!Next
<1>4. ASSUME NEW r \in Requests, Begin(r) PROVE N!Next
  BY <1>1, <1>2, <1>4, BeginSpoils, SpoilsIs DEF N!Next
<1>5. ASSUME NEW r \in Requests, Ends(r) PROVE N!Next \/ Visible' = Visible
  BY <1>2, <1>5, EndRefines
<1>6. ASSUME NEW r \in Requests, Call(r) \/ Refuse(r) PROVE Visible' = Visible
  BY <1>1, <1>2, <1>6, CallChanges, SameSeen
<1>7. CASE UNCHANGED vars
  BY <1>1, <1>2, <1>7, SameSeen DEF vars, store, aux, Running
<1> QED BY <1>3, <1>4, <1>5, <1>6, <1>7, Steps

(* Steps of the abstract specification make nodes of nodes. *)
LEMMA SeenTypedStep ==
  ASSUME SeenTyped, N!Next \/ Visible' = Visible PROVE SeenTyped'
<1> DEFINE T == N!Listed \cup {Absent, Unclear}
<1>t. T' = T
  BY NodesAre DEF Absent, Unclear, Node, N!Listed, N!Kinds, N!NoName
<1>p. SUFFICES ASSUME NEW n \in Names PROVE Visible'[n] \in T
  BY <1>t DEF SeenTyped
<1>1. \A m \in Names : Visible[m] \in T
  BY DEF SeenTyped
<1>2. Visible = [m \in Names |-> Visible[m]]
  BY VisibleFun
<1>3. \A v \in N!Listed : \A target \in Names \cup {NoName}, by \in Requests \cup {"init"} :
        /\ [v EXCEPT !.target = target] \in N!Listed
        /\ [v EXCEPT !.by = by] \in N!Listed
  BY NodesAre
<1>4. CASE N!Spoil
  BY <1>1, <1>4, NodesAre DEF N!Spoil
<1>5. ASSUME NEW k \in Names, N!Create(k) PROVE Visible'[n] \in T
  BY <1>1, <1>2, <1>5 DEF N!Create
<1>6. ASSUME NEW k \in Names, N!Retarget(k) PROVE Visible'[n] \in T
  <2>1. PICK target \in Names \cup {Root} : Visible' = [Visible EXCEPT ![k].target = target]
    BY <1>6, NodesAre DEF N!Retarget
  <2>2. Visible[k].kind = "link" /\ Visible[k] \in T
    BY <1>1, <1>6 DEF N!Retarget
  <2>3. Visible[k] \in N!Listed
    BY <2>2 DEF Absent, Unclear, Node
  <2>4. Visible'[n] = IF n = k THEN [Visible[k] EXCEPT !.target = target] ELSE Visible[n]
    BY <1>2, <2>1
  <2> QED BY <1>1, <1>3, <2>3, <2>4 DEF Root, NoName
<1>7. ASSUME NEW k \in Names, N!Delete(k) PROVE Visible'[n] \in T
  BY <1>1, <1>7, NodesAre DEF N!Delete
<1>8. ASSUME NEW k \in Names, N!Recover(k) PROVE Visible'[n] \in T
  BY <1>1, <1>8, NodesAre DEF N!Recover
<1>9. ASSUME NEW f \in Names, NEW g \in Names, N!Move(f, g) PROVE Visible'[n] \in T
  BY <1>1, <1>9, NodesAre DEF N!Move
<1>10. ASSUME NEW f \in Names, NEW g \in Names, NEW by \in Requests \cup {"init"}, N!Copy(f, g, by)
       PROVE  Visible'[n] \in T
  <2>1. Visible'[n] = LET src == Renamed(n, g, f)
                      IN IF n \in Subtree(g) /\ src \in Names /\ Visible[src] # Absent
                           THEN [Visible[src] EXCEPT !.by = by] ELSE Visible[n]
    BY <1>10, NodesAre DEF N!Copy
  <2>2. \A m \in Subtree(f) : Visible[m].kind # "unclear"
    BY <1>10, NodesAre DEF N!Copy, N!Whole
  <2>3. n \in Subtree(g) /\ Renamed(n, g, f) \in Names => Renamed(n, g, f) \in Subtree(f)
    BY Renaming
  <2>4. CASE n \in Subtree(g) /\ Renamed(n, g, f) \in Names /\ Visible[Renamed(n, g, f)] # Absent
    <3>1. PICK v : v = Visible[Renamed(n, g, f)]
      OBVIOUS
    <3>2. v \in T /\ v # Absent /\ v.kind # "unclear"
      BY <1>1, <2>2, <2>3, <2>4, <3>1
    <3>3. v \in N!Listed
      BY <3>2 DEF Unclear, Node
    <3>4. Visible'[n] = [v EXCEPT !.by = by]
      BY <2>1, <2>4, <3>1
    <3>5. [v EXCEPT !.by = by] \in N!Listed
      BY <1>3, <3>3
    <3> QED BY <3>4, <3>5
  <2>5. CASE ~(n \in Subtree(g) /\ Renamed(n, g, f) \in Names /\ Visible[Renamed(n, g, f)] # Absent)
    BY <1>1, <2>1, <2>5
  <2> QED BY <2>4, <2>5
<1>11. CASE Visible' = Visible
  BY <1>1, <1>11
<1> QED BY <1>4, <1>5, <1>6, <1>7, <1>8, <1>9, <1>10, <1>11 DEF N!Next

-----------------------------------------------------------------------------
(* Requests that others do not disturb *)

(* What leads to what a request deletes stays the same while other links do    *)
(* not come to lead to its names.                                              *)
LEMMA GoneSame ==
  ASSUME Typed, Orderly, Orderly', NEW q \in Requests, Good(q), Good(q)', scope'[q] = scope[q],
         \A m \in scope[q] : before'[q][m] = before[q][m],
         NEW n \in Names, DelOf(q, n),
         \A l \in Names \ scope[q] : Visible'[l].target = Visible[l].target \/ Visible'[l].target \notin scope[q]
  PROVE  Gone(q, n)' = Gone(q, n)
<1>1. PICK S, goes, then :
        /\ S = IF before[q][n].kind = "container" THEN Subtree(n) ELSE {n}
        /\ goes = [l \in Names |-> Visible[l].target]
        /\ then = [l \in Names |-> Visible'[l].target]
  OBVIOUS
<1>2. Gone(q, n) = Reach(S, goes)
  BY <1>1 DEF Gone
<1>3. Gone(q, n)' = Reach(S, then)
  <2>1. S = IF before'[q][n].kind = "container" THEN Subtree(n) ELSE {n}
    BY <1>1 DEF DelOf
  <2> QED BY <1>1, <2>1, Zenon DEF Gone, Reach, Subtree, Under
<1>4. \A l \in scope[q] : l \in Names /\ Visible'[l] = Visible[l]
  <2>1. q \in Running /\ q \in Running'
    BY DEF Good, Running
  <2>2. scope[q] \cap unclear = {} /\ scope'[q] \cap unclear' = {}
    BY <2>1 DEF Orderly, Whole, Good
  <2>3. scope[q] \subseteq Names
    BY DEF Typed, scope
  <2> QED BY <2>1, <2>2, <2>3, VisibleIs, VisibleThen
<1>5. \A l \in Names : goes[l] = Visible[l].target /\ then[l] = Visible'[l].target
  BY <1>1
<1>6. S \subseteq Names
  BY <1>1, Below DEF Subtree
<1>7. S \subseteq Reach(S, goes) /\ S \subseteq Reach(S, then)
  BY <1>6, LinksLeast
<1>8. Reach(S, goes) \subseteq scope[q]
  BY <1>2 DEF DelOf
<1>9. Reach(S, then) \subseteq Reach(S, goes)
  <2>1. ASSUME NEW m \in Reach(S, then),
               m \in S \/ then[m] \in S \cup (Reach(S, goes) \cap Reach(S, then))
        PROVE  m \in Reach(S, goes)
    <3>1. m \in Names
      BY LinksLeast
    <3>2. CASE m \in S
      BY <1>7, <3>2
    <3>3. CASE then[m] \in Reach(S, goes)
      <4>1. then[m] = goes[m]
        BY <1>4, <1>5, <1>8, <3>1, <3>3
      <4> QED BY <3>1, <3>3, <4>1, LinksLeast
    <3> QED BY <1>7, <2>1, <3>2, <3>3
  <2> QED BY <2>1, LinksLeast
<1>10. Reach(S, goes) \subseteq Reach(S, then)
  <2>1. ASSUME NEW m \in Reach(S, goes),
               m \in S \/ goes[m] \in S \cup (Reach(S, then) \cap Reach(S, goes))
        PROVE  m \in Reach(S, then)
    <3>1. m \in Names /\ then[m] = goes[m]
      BY <1>4, <1>5, <1>8
    <3> QED BY <2>1, <3>1, LinksLeast
  <2> QED BY <2>1, LinksLeast
<1>11. Reach(S, then) = Reach(S, goes)
  BY <1>9, <1>10
<1> QED BY <1>2, <1>3, <1>11, Zenon

(* A job is seen as far as it was while nothing of it changes. *)
LEMMA JobSeenStays ==
  ASSUME NEW q \in Requests, op' = op, todo'[q] = todo[q], scope'[q] = scope[q],
         before'[q] = before[q], needs'[q] = needs[q], \A m \in scope[q] : SameAt(m),
         NEW f \in Names, NEW g \in Names, JobSeen(q, f, g)
  PROVE  JobSeen(q, f, g)'
<1>1. ~ToNull(op'[q]) /\ Wants(q, {Parent(g)})' /\ op'[q] = op[q]
  BY DEF JobSeen, Wants
<1>2. Leads(q, f, g)
  BY DEF JobSeen, MoveBefore, MoveAfter, CopyBefore, CopyAfter, JobBefore
<1>3. \A m \in Subtree(f) : m \in scope[q] /\ Renamed(m, f, g) \in scope[q]
  BY <1>2, LeadsNames
<1>4. ASSUME AsBefore(q) PROVE AsBefore(q)'
  <2>1. \A m \in scope[q] : Stored(m)' = Stored(m)
    BY StoredSame DEF SameAt
  <2> QED BY <1>4, <2>1 DEF AsBefore
<1>5. ASSUME MoveSeen(q, f, g) PROVE MoveSeen(q, f, g)'
  <2>1. \A m \in Subtree(f) : Both("nodes", m, Renamed(m, f, g))' = Both("nodes", m, Renamed(m, f, g))
    BY <1>3 DEF SameAt, Both
  <2>2. \A m \in Subtree(f) : Was(before'[q][m], Both("nodes", m, Renamed(m, f, g))')
    BY <1>5, <2>1 DEF MoveSeen
  <2>3. \A k \in Subtree(g) : before'[q][k] = Absent
    BY <1>5 DEF MoveSeen
  <2> QED BY <1>5, <2>2, <2>3 DEF MoveSeen, Was, Subtree, Under, Absent, Node, NoName
<1>6. ASSUME CopySeen(q, f, g) PROVE CopySeen(q, f, g)'
  <2>1. \A m \in Subtree(f) : RowsOf("nodes", m)' = RowsOf("nodes", m)
    BY <1>3 DEF SameAt
  <2>2. \A m \in Subtree(f) : Was(before'[q][m], RowsOf("nodes", m)')
    BY <1>6, <2>1 DEF CopySeen
  <2>3. \A k \in Subtree(g) : before'[q][k] = Absent
    BY <1>6 DEF CopySeen
  <2> QED BY <1>6, <2>2, <2>3 DEF CopySeen, Was, Subtree, Under, Absent, Node, NoName
<1>7. /\ MoveBefore(q, f, g) => MoveBefore(q, f, g)'
      /\ MoveAfter(q, f, g) => MoveAfter(q, f, g)'
      /\ CopyBefore(q, f, g) => CopyBefore(q, f, g)'
      /\ CopyAfter(q, f, g) => CopyAfter(q, f, g)'
  BY MoveLasts, CopyLasts
<1>8. \/ /\ op[q].do = "move"
         /\ (MoveBefore(q, f, g) /\ AsBefore(q)) \/ (MoveAfter(q, f, g) /\ MoveSeen(q, f, g))
      \/ /\ op[q].do = "copy"
         /\ (CopyBefore(q, f, g) /\ AsBefore(q)) \/ (CopyAfter(q, f, g) /\ CopySeen(q, f, g))
  BY DEF JobSeen
<1> QED BY <1>1, <1>4, <1>5, <1>6, <1>7, <1>8 DEF JobSeen, ToNull

(* So is any request. *)
LEMMA SeenStays ==
  ASSUME Typed, Within, NEW q \in Requests, pc[q] = "run", op' = op, todo'[q] = todo[q], found'[q] = found[q],
         scope'[q] = scope[q], before'[q] = before[q], needs'[q] = needs[q], \A m \in scope[q] : SameAt(m),
         OverAt(q) => OverAt(q)', \A n \in Names : DelOf(q, n) => Gone(q, n)' = Gone(q, n), SeenAt(q)
  PROVE  SeenAt(q)'
<1>1. \A S : Wants(q, S)' <=> Wants(q, S)
  BY DEF Wants
<1>2. ASSUME NewSeen(q) PROVE NewSeen(q)'
  <2>1. NewAt(q) /\ NewAt(q)'
    BY <1>2, NewStays DEF NewSeen
  <2>2. RowsOf("links", op[q].id)' = RowsOf("links", op[q].id)
    BY <2>1 DEF NewAt, SameAt, Subtree
  <2>3. \A v \in RowsOf("links", op[q].id)' : v.target = op[q].to
    BY <1>2, <2>2 DEF NewSeen
  <2>4. \A m \in scope'[q] : before'[q][m] = Absent
    BY <1>2 DEF NewSeen
  <2>5. Wants(q, {Parent(op[q].id)} \cup IF op[q].kind = "link" THEN {op[q].to} ELSE {})'
    BY <1>1, <1>2 DEF NewSeen, Wants
  <2> QED BY <2>1, <2>3, <2>4, <2>5 DEF NewSeen, Absent, Node, NoName
<1>3. ASSUME OverSeen(q) PROVE OverSeen(q)'
  <2>1. OverAt(q) /\ OverAt(q)'
    BY <1>3 DEF OverSeen
  <2>2. \A t : RowsOf(t, op[q].id)' = RowsOf(t, op[q].id)
    BY <2>1 DEF OverAt, SameAt
  <2>3. op[q].kind = "link" => Wants(q, {op[q].to})'
    BY <1>1, <1>3 DEF OverSeen, Wants
  <2>4. \E w \in RowsOf("nodes", op[q].id)' : \E t :
          /\ before'[q][op[q].id] = Node(w.kind, w.by, t) /\ w.kind = op[q].kind
          /\ w.kind # "link" => t = NoName
          /\ \A v \in RowsOf("links", op[q].id)' : v.target \in {t, op[q].to}
    BY <1>3, <2>2 DEF OverSeen
  <2>5. \A s \in Items(todo'[q]) : s.do = "retarget" => s.target = op[q].to
    BY <1>3 DEF OverSeen
  <2> QED BY <2>1, <2>3, <2>4, <2>5 DEF OverSeen, Node, NoName, Wants
<1>4. ASSUME DelSeen(q) PROVE DelSeen(q)'
  <2>1. DelAt(q)'
    BY <1>4, DelStays DEF DelSeen
  <2>2. PICK n \in Names : DelOf(q, n)
    BY <1>4 DEF DelSeen
  <2>3. Gone(q, n)' = Gone(q, n) /\ N!Listed' = N!Listed
    BY <2>2 DEF N!Listed, N!Kinds, N!NoName
  <2>4. DelOf(q, n)'
    BY <2>2, <2>3 DEF DelOf, Absent, Node, NoName
  <2> QED BY <2>1, <2>4 DEF DelSeen
<1>5. ASSUME NEW f \in Names, NEW g \in Names, JobSeen(q, f, g) PROVE \E a, b \in Names : JobSeen(q, a, b)'
  BY <1>5, JobSeenStays
<1> QED BY <1>2, <1>3, <1>4, <1>5 DEF SeenAt

(* Only links have targets. *)
LEMMA StoredTarget ==
  ASSUME NEW n
  PROVE  Stored(n).target = NoName \/ (Stored(n).target = GetTarget(n) /\ \E w \in RowsOf("nodes", n) : w.kind = "link")
<1>1. CASE RowsOf("nodes", n) = {}
  BY <1>1 DEF Stored, Absent, Node
<1>2. CASE RowsOf("nodes", n) # {}
  <2>1. PICK w : w = CHOOSE x \in RowsOf("nodes", n) : TRUE
    OBVIOUS
  <2>2. w \in RowsOf("nodes", n)
    BY <1>2, <2>1
  <2>3. Stored(n) = Node(w.kind, w.by, IF w.kind = "link" THEN GetTarget(n) ELSE NoName)
    BY <1>2, <2>1 DEF Stored
  <2> QED BY <2>2, <2>3 DEF Node
<1> QED BY <1>1, <1>2

(* A deletion that returns leaves nothing of what it had in its scope. *)
LEMMA DelLeaves ==
  ASSUME SafeInv, NEW r \in Requests, Return(r), DelAt(r), NEW m \in scope[r]
  PROVE  \A t \in Tabs : RowsOf(t, m) = {}
<1>1. Items(todo[r]) = {}
  BY ItemsSmall DEF Return
<1>2. found[r] = {} /\ PendSel(r) = {}
  BY <1>1 DEF DelAt, PendSel
<1>3. Catches(r, {})
  BY <1>2 DEF Catches, LeadsTo
<1>4. Going(r, m)
  BY <1>3 DEF DelAt, Expected
<1> QED BY <1>1, <1>4 DEF Going, Deleting

(* Who cannot move or copy the bytes has done nothing. *)
LEMMA UnmovedBefore ==
  ASSUME SeenInv, NEW r \in Requests, Unmoved(r), Good(r) PROVE AsBefore(r)
<1>1. /\ todo[r] # <<>> /\ Head1(r).do \in {"movebytes", "copybytes"} /\ todo[r] \in Seq(Stmt)
  BY DEF Unmoved, Doing, SeenInv, SafeInv, Typed
<1>2. Head1(r) \in Items(todo[r]) /\ (Followed(todo[r]) => Head1(r).do \in {"delete", "select", "removebytes"})
  BY <1>1, ItemsTail DEF Head1
<1>3. SeenAt(r)
  BY DEF SeenInv, SeenFine
<1>4. ~DelSeen(r)
  BY <1>1, <1>2 DEF DelSeen, DelAt
<1>5. ~OverSeen(r)
  BY <1>1, <1>2 DEF OverSeen, OverAt
<1>6. ~NewSeen(r)
  <2>1. \A k, u : Make(k, u).do = "make"
    BY DEF Make
  <2> QED BY <1>1, <1>2, <2>1 DEF NewSeen, NewAt
<1>7. PICK f \in Names, g \in Names : JobSeen(r, f, g)
  BY <1>3, <1>4, <1>5, <1>6 DEF SeenAt
<1>8. ~MoveAfter(r, f, g)
  BY <1>1, <1>2, MoveItemIs DEF MoveAfter, MoveList
<1>9. ~CopyAfter(r, f, g)
  BY <1>1, <1>2, CopyItemIs DEF CopyAfter, CopyList
<1> QED BY <1>7, <1>8, <1>9 DEF JobSeen

(* A job that returns leaves no links. *)
LEMMA JobUnlinked ==
  ASSUME SafeInv, NEW r \in Requests, Return(r), NEW f \in Names, NEW g \in Names,
         MoveAfter(r, f, g) \/ CopyAfter(r, f, g), NEW l \in scope[r], NEW w \in RowsOf("nodes", l)
  PROVE  w.kind # "link"
<1>1. Items(todo[r]) = {} /\ scope[r] = Subtree(f) \cup Subtree(g) /\ OnlyNew(f, g) /\ Something(l)
  BY ItemsSmall DEF Return, MoveAfter, CopyAfter, Leads, Something, Tabs
<1>2. CASE MoveAfter(r, f, g)
  <2>1. PICK m \in Subtree(f) : l \in {m, Renamed(m, f, g)}
    BY <1>1 DEF OnlyNew
  <2>2. w \in Both("nodes", m, Renamed(m, f, g)) /\ Moves(m, Renamed(m, f, g))
    BY <1>2, <2>1 DEF Both, MoveAfter
  <2> QED BY <2>2 DEF Moves, Moved
<1>3. CASE CopyAfter(r, f, g)
  <2>1. CASE l \in Subtree(f)
    BY <1>3, <2>1 DEF CopyAfter, NoLinks
  <2>2. CASE l \in Subtree(g)
    <3>1. PICK m \in Subtree(f) : l = Renamed(m, f, g)
      BY <1>1, <2>2 DEF OnlyNew
    <3>2. Copies(r, {}, f, g, m) /\ NoLinks(f)
      BY <1>1, <1>3 DEF CopyAfter
    <3>3. PICK v \in RowsOf("nodes", m) : TRUE
      BY <1>1, <3>1, <3>2 DEF Copies
    <3>4. ~Awaits({}, f, g, "nodes", m, v.kind) /\ v.kind # "link"
      BY <3>2 DEF Awaits, Waits, NoLinks
    <3>5. \E x \in RowsOf("nodes", l) : RowsOf("nodes", l) = {x} /\ x.kind = v.kind
      BY <3>1, <3>2, <3>3, <3>4 DEF Copies
    <3> QED BY <3>4, <3>5
  <2> QED BY <1>1, <2>1, <2>2
<1> QED BY <1>2, <1>3

(* Links that a good request leaves lead where they did, or to a name that     *)
(* must stay.                                                                  *)
LEMMA EndTargets ==
  ASSUME SeenInv, NEW r \in Requests, Return(r) \/ Unmoved(r), Good(r), NEW l \in scope[r]
  PROVE  Stored(l).target \in {NoName, before[r][l].target} \cup needs[r]
<1>1. /\ SafeInv /\ Typed /\ SeenAt(r)
      /\ Stored(l).target = NoName \/ (Stored(l).target = GetTarget(l) /\ \E w \in RowsOf("nodes", l) : w.kind = "link")
  BY StoredTarget DEF SeenInv, SafeInv, SeenFine
<1>2. CASE Unmoved(r)
  BY <1>2, UnmovedBefore DEF AsBefore
<1>3. SUFFICES ASSUME Return(r), NEW w \in RowsOf("nodes", l), w.kind = "link", Stored(l).target = GetTarget(l)
               PROVE  GetTarget(l) \in {NoName, before[r][l].target} \cup needs[r]
  BY <1>1, <1>2
<1>n. PICK n : n = op[r].id
  OBVIOUS
<1>i. Items(todo[r]) = {}
  BY <1>3, ItemsSmall DEF Return
<1>4. CASE NewSeen(r)
  <2>1. /\ scope[r] = Subtree(n) /\ \A m \in Under(n) : ~Something(m)
        /\ \E v \in RowsOf("nodes", n) : RowsOf("nodes", n) = {v} /\ v.kind = op[r].kind
        /\ op[r].kind = "link" => RowsOf("links", n) # {}
    <3>1. NewAt(r)
      BY <1>4 DEF NewSeen
    <3> QED BY <1>i, <1>n, <3>1 DEF NewAt, Single
  <2>2. l = n
    BY <1>3, <2>1 DEF Something, Tabs, Subtree
  <2>3. op[r].kind = "link" /\ RowsOf("links", n) # {}
    BY <1>3, <2>1, <2>2
  <2>4. GetTarget(n) = op[r].to
    <3>1. GetTarget(n) \in {v.target : v \in RowsOf("links", n)}
      BY <2>3 DEF GetTarget
    <3> QED BY <1>4, <1>n, <3>1 DEF NewSeen
  <2>5. op[r].to \in needs[r] \cup {Root}
    BY <1>4, <2>3 DEF NewSeen, Wants
  <2> QED BY <2>2, <2>4, <2>5 DEF Root, NoName
<1>5. CASE OverSeen(r)
  <2>1. scope[r] = {n} /\ Sound(n) /\ l = n
    BY <1>5, <1>n DEF OverSeen, OverAt
  <2>2. PICK v, t :
          /\ v \in RowsOf("nodes", n)
          /\ before[r][n] = Node(v.kind, v.by, t) /\ v.kind = op[r].kind
          /\ \A x \in RowsOf("links", n) : x.target \in {t, op[r].to}
    BY <1>5, <1>n DEF OverSeen
  <2>3. v = w
    BY <1>3, <2>1, <2>2 DEF Sound
  <2>4. GetTarget(n) \in {t, op[r].to}
    <3>1. RowsOf("links", n) # {}
      BY <1>3, <2>1 DEF Sound, Single
    <3>2. GetTarget(n) \in {x.target : x \in RowsOf("links", n)}
      BY <3>1 DEF GetTarget
    <3> QED BY <2>2, <3>2
  <2>5. op[r].to \in needs[r] \cup {Root}
    BY <1>3, <1>5, <2>2, <2>3 DEF OverSeen, Wants
  <2>6. before[r][n].target = t
    BY <2>2 DEF Node
  <2> QED BY <2>1, <2>4, <2>5, <2>6 DEF Root, NoName
<1>6. CASE DelSeen(r)
  BY <1>1, <1>3, <1>6, DelLeaves DEF DelSeen, Tabs
<1>7. ASSUME NEW f \in Names, NEW g \in Names, JobSeen(r, f, g) PROVE FALSE
  <2>1. MoveAfter(r, f, g) \/ CopyAfter(r, f, g)
    BY <1>3, <1>7 DEF JobSeen, Return, MoveBefore, CopyBefore, JobBefore
  <2> QED BY <1>1, <1>3, <2>1, JobUnlinked
<1> QED BY <1>1, <1>4, <1>5, <1>6, <1>7 DEF SeenAt

(* Nobody but a request itself has clients see links to its names. *)
LEMMA TargetsKept ==
  ASSUME SeenInv, Orderly', NEW q \in Requests, Good(q), NEW r \in Requests,
         Works(r) \/ Begin(r) \/ (Ends(r) /\ r # q), NEW l \in Names
  PROVE  Visible'[l].target = Visible[l].target \/ Visible'[l].target \notin scope[q]
<1>1. /\ SafeInv /\ Typed /\ Orderly /\ Within
      /\ NoName \notin scope[q]
  <2>1. scope[q] \subseteq Names
    BY DEF SeenInv, SafeInv, Typed, scope
  <2> QED BY <2>1, Below DEF SeenInv, SafeInv, NoName, Root
<1>2. CASE Spoils
  BY <1>1, <1>2 DEF Spoils, Unclear, Node
<1>3. CASE Works(r) \/ Begin(r)
  BY <1>1, <1>2, <1>3, WorkSpoils, BeginSpoils
<1>4. CASE Fail(r)
  BY <1>1, <1>2, <1>4, FailSpoils
<1>5. CASE (Return(r) \/ Unmoved(r)) /\ ~Good(r)
  <2>1. CASE r \notin sweeps \/ Unmoved(r)
    BY <1>1, <1>2, <1>5, <2>1, BadSpoils
  <2>2. CASE r \in sweeps /\ Return(r)
    <3>1. N!Recover(op[r].id)
      BY <1>1, <1>5, <2>2, SweepRecovers
    <3>2. Visible'[l] \in {Visible[l], Absent}
      BY <3>1, NodesAre DEF N!Recover
    <3> QED BY <1>1, <3>2 DEF Absent, Node
  <2> QED BY <1>5, <2>1, <2>2
<1>6. CASE (Return(r) \/ Unmoved(r)) /\ Good(r) /\ r # q
  <2>1. /\ Visible'[l] = IF l \in scope[r] THEN Stored(l) ELSE Visible[l]
        /\ l \in scope[r] => Visible[l] = before[r][l]
    BY <1>1, <1>6, GoodShows
  <2>2. l \in scope[r] => Stored(l).target \in {NoName, before[r][l].target} \cup needs[r]
    BY <1>6, EndTargets
  <2>3. needs[r] \cap scope[q] = {}
    <3>1. r \in Running /\ q \in Running /\ (needs[r] \cap scope[q] # {} => Meeting(r, q))
      BY <1>6 DEF Good, Running, Meeting
    <3> QED BY <1>1, <1>6, <3>1 DEF Orderly, Apart, Good
  <2> QED BY <1>1, <2>1, <2>2, <2>3
<1> QED BY <1>3, <1>4, <1>5, <1>6 DEF Ends

(* Nobody else's work changes what is seen of a good request, ... *)
LEMMA SeenOthersWork ==
  ASSUME SeenInv, Orderly', NEW r \in Requests, Works(r), NEW q \in Requests, q # r, Good(q)'
  PROVE  SeenAt(q)'
<1>1. /\ SafeInv /\ Typed /\ Orderly /\ Within /\ Hung
      /\ r \in Running /\ pc' = pc /\ op' = op /\ needs' = needs
      /\ todo'[q] = todo[q] /\ found'[q] = found[q] /\ scope'[q] = scope[q]
  BY WorkFacts DEF Running, SeenInv, SafeInv
<1>2. unclear \subseteq unclear'
  <2>1. PICK late, spoilt : Alters(r, late, spoilt)
    BY <1>1, WorkFacts
  <2> QED BY <2>1 DEF Alters
<1>3. Good(q) /\ q \in Running /\ pc[q] = "run" /\ SeenAt(q)
  BY <1>1, <1>2 DEF Good, Running, SeenInv, SeenFine
<1>4. scope[q] \cap scope[r] = {} /\ scope[q] \cap unclear = {} /\ scope[q] \subseteq Names
  BY <1>1, <1>3 DEF Orderly, Whole, Apart, Meeting, Good, Typed, scope
<1>5. \A m \in scope[q] : m \in Names /\ SameAt(m)
  BY <1>1, <1>4, Elsewhere
<1>6. OverAt(q) => OverAt(q)'
  <2> SUFFICES ASSUME OverAt(q) PROVE OverAt(q)'
    OBVIOUS
  <2>1. op[q].id \in scope[q] /\ Holds(op[q].id)
    BY DEF OverAt
  <2>2. PICK n : n = op[q].id
    OBVIOUS
  <2>3. Holds(n)'
    BY <1>1, <1>4, <2>1, <2>2, HoldsStays
  <2>4. Holds(op[q].id)'
    BY <1>1, <2>2, <2>3
  <2> QED BY <1>1, <1>5, <2>1, <2>4, OverStays
<1>7. before'[q] = before[q]
  BY <1>1 DEF Works, Execute, Lose, SelectLinks, FindChildren, ReadChild, MakeFile, MoveFiles, CopyFiles,
              RemoveFiles, aux, Typed
<1>8. \A n \in Names : DelOf(q, n) => Gone(q, n)' = Gone(q, n)
  <2> SUFFICES ASSUME NEW n \in Names, DelOf(q, n) PROVE Gone(q, n)' = Gone(q, n)
    OBVIOUS
  <2>1. \A l \in Names \ scope[q] : Visible'[l].target = Visible[l].target \/ Visible'[l].target \notin scope[q]
    BY <1>3, TargetsKept
  <2> QED BY <1>1, <1>3, <1>7, <2>1, GoneSame
<1> QED BY <1>1, <1>3, <1>5, <1>6, <1>7, <1>8, SeenStays

(* ... nor does a request that begins or ends. *)
LEMMA SeenOthersTurn ==
  ASSUME SeenInv, Orderly', NEW r \in Requests, Begin(r) \/ Ends(r), NEW q \in Requests, q # r, Good(q)'
  PROVE  SeenAt(q)'
<1>0. SafeInv /\ Typed /\ Orderly /\ Within
  BY DEF SeenInv, SafeInv
<1>1. /\ rows' = rows /\ file' = file /\ op' = op /\ r \in Requests
      /\ pc'[q] = pc[q] /\ todo'[q] = todo[q] /\ found'[q] = found[q] /\ scope'[q] = scope[q]
  <2>1. CASE Begin(r)
    BY <1>0, <2>1, BeginFacts
  <2>2. CASE Ends(r)
    BY <1>0, <2>2, EndFacts
  <2> QED BY <2>1, <2>2
<1>2. before'[q] = before[q] /\ needs'[q] = needs[q]
  BY <1>0 DEF Begin, Ends, Return, Unmoved, Fail, Finished, Typed
<1>3. Good(q)
  <2>1. CASE Begin(r)
    <3>1. unclear \subseteq unclear'
      BY <1>0, <2>1, BeginMeets
    <3> QED BY <1>1, <3>1 DEF Good
  <2>2. CASE Ends(r)
    <3>1. \/ unclear \subseteq unclear'
          \/ r \in sweeps /\ unclear' = unclear \ Subtree(op[r].id)
      BY <1>0, <2>2, EndFacts
    <3>2. r \in sweeps => scope[q] \cap Subtree(op[r].id) = {}
      <4>1. pc[q] = "run" /\ pc[r] = "run"
        BY <1>0, <1>1, <2>2, EndFacts DEF Good
      <4>2. r \in sweeps => scope[q] \cap scope[r] = {}
        BY <1>0, <4>1 DEF Orderly, Apart, Meeting, Running
      <4> QED BY <1>0, <4>2, SweptNames
    <3> QED BY <1>1, <3>1, <3>2 DEF Good
  <2> QED BY <2>1, <2>2
<1>4. SeenAt(q) /\ pc[q] = "run"
  BY <1>3 DEF SeenInv, SeenFine, Good
<1>5. \A m : SameAt(m)
  BY <1>0, <1>1, AllStays
<1>6. OverAt(q) => OverAt(q)'
  <2> SUFFICES ASSUME OverAt(q) PROVE OverAt(q)'
    OBVIOUS
  <2>1. PICK n : n = op[q].id
    OBVIOUS
  <2>2. op[q] \in Op
    BY <1>0, OpsAssumption DEF Typed
  <2>3. n \in Names /\ Holds(n)
    BY <2>1, <2>2 DEF OverAt, Op
  <2>4. Holds(n)'
    BY <1>0, <1>1, <2>3, AllStays
  <2>5. Holds(op[q].id)'
    BY <1>1, <2>1, <2>4
  <2> QED BY <1>0, <1>1, <1>5, <2>5, OverStays
<1>8. \A n \in Names : DelOf(q, n) => Gone(q, n)' = Gone(q, n)
  <2> SUFFICES ASSUME NEW n \in Names, DelOf(q, n) PROVE Gone(q, n)' = Gone(q, n)
    OBVIOUS
  <2>1. \A l \in Names \ scope[q] : Visible'[l].target = Visible[l].target \/ Visible'[l].target \notin scope[q]
    BY <1>3, TargetsKept
  <2> QED BY <1>0, <1>1, <1>2, <1>3, <2>1, GoneSame
<1> QED BY <1>0, <1>1, <1>2, <1>4, <1>5, <1>6, <1>8, SeenStays

(* Calls and refusals change nothing at all. *)
LEMMA SeenOthersCall ==
  ASSUME SeenInv, Orderly', UNCHANGED <<rows, file, op, todo, found, before, needs, unclear>>,
         Running' = Running, NEW q \in Requests, Good(q)'
  PROVE  SeenAt(q)'
<1>0. SafeInv /\ Typed /\ Orderly /\ Within
  BY DEF SeenInv, SafeInv
<1>1. scope' = scope /\ (pc'[q] = "run" <=> pc[q] = "run")
  BY DEF scope, Running
<1>2. Good(q) /\ SeenAt(q) /\ pc[q] = "run"
  BY <1>1 DEF Good, SeenInv, SeenFine
<1>3. Visible' = Visible
  BY <1>0, SameSeen
<1>4. \A m : SameAt(m)
  BY <1>0, AllStays
<1>5. OverAt(q) => OverAt(q)'
  <2> SUFFICES ASSUME OverAt(q) PROVE OverAt(q)'
    OBVIOUS
  <2>1. PICK n : n = op[q].id
    OBVIOUS
  <2>2. op[q] \in Op
    BY <1>0, OpsAssumption DEF Typed
  <2>3. n \in Names /\ Holds(n)
    BY <2>1, <2>2 DEF OverAt, Op
  <2>4. Holds(n)'
    BY <1>0, <2>3, AllStays
  <2>5. Holds(op[q].id)'
    BY <2>1, <2>4
  <2> QED BY <1>0, <1>1, <1>4, <2>5, OverStays
<1>6. \A n : Gone(q, n)' = Gone(q, n)
  BY <1>3 DEF Gone, Reach, Subtree, Under
<1> QED BY <1>0, <1>1, <1>2, <1>4, <1>5, <1>6, SeenStays

-----------------------------------------------------------------------------
(* What is seen of the work of a good request *)

(* It remembers what it saw when it began. *)
LEMMA OwnBefore ==
  ASSUME Typed, NEW r \in Requests, Works(r), ~(scope'[r] \subseteq unclear')
  PROVE  \A n \in scope[r] : before'[r][n] = before[r][n]
<1>1. CASE ~SelectLinks(r)
  <2>1. before' = before
    BY <1>1 DEF Works, Execute, Lose, FindChildren, ReadChild, MakeFile, MoveFiles, CopyFiles, RemoveFiles, aux
  <2> QED BY <2>1
<1>2. CASE SelectLinks(r)
  <2> DEFINE links == found[r] \cup {w.id : w \in {v \in rows : v.t = "links" /\ v.target \in Head1(r).ids}}
             new == links \ scope[r]
  <2>1. before' = [before EXCEPT ![r] =
                     [m \in scope[r] \cup new |-> IF m \in new THEN Stored(m) ELSE @[m]]]
    BY <1>2 DEF SelectLinks
  <2>2. \A m \in scope[r] : m \notin new
    OBVIOUS
  <2> HIDE DEF new
  <2>3. before'[r] = [m \in scope[r] \cup new |-> IF m \in new THEN Stored(m) ELSE before[r][m]]
    BY <2>1 DEF Typed
  <2> QED BY <2>2, <2>3
<1> QED BY <1>1, <1>2

(* A link that is created leads where it should, ... *)
LEMMA SeenNewWorks ==
  ASSUME Typed, Within, NEW r \in Requests, Works(r), NewSeen(r), ~(scope'[r] \subseteq unclear')
  PROVE  NewSeen(r)'
<1>n. PICK n : n = op[r].id
  OBVIOUS
<1>1. /\ op' = op /\ needs' = needs /\ scope'[r] = scope[r] /\ ~(scope[r] \subseteq unclear')
      /\ NewAt(r) /\ NewAt(r)'
  BY GoodWorks, WorkFacts, NewWorks DEF NewSeen
<1>2. \A m \in scope'[r] : before'[r][m] = Absent
  BY <1>1, OwnBefore DEF NewSeen
<1>3. ASSUME NEW v \in RowsOf("links", n)' PROVE v.target = op[r].to
  <2>1. \A x \in RowsOf("links", n) : x.target = op[r].to
    BY <1>n DEF NewSeen
  <2>2. CASE RowsOf("links", n)' = RowsOf("links", n)
    BY <1>3, <2>1, <2>2
  <2>3. CASE Head1(r).do \in Writes /\ RowsOf("links", n)' = RowsNext(Head1(r), r, "links", n)
    <3>s. PICK s : s = Head1(r)
      OBVIOUS
    <3>1. s \in Items(todo[r])
      BY <3>s, FirstFirst
    <3>2. s.do = "insert" /\ (s.t = "links" => s.target = op[r].to)
      <4>1. \A k, u : Make(k, u).do = "make"
        BY DEF Make
      <4>2. s.do \in Writes
        BY <2>3, <3>s
      <4>3. s.do = "insert" /\ s = Insert(s.t, n, IF s.t = "nodes" THEN op[r].kind ELSE "",
                                          IF s.t = "links" THEN op[r].to ELSE NoName)
        <5>1. \A x \in Items(todo[r]) :
                \/ x.do = "insert" /\ x = Insert(x.t, n, IF x.t = "nodes" THEN op[r].kind ELSE "",
                                                 IF x.t = "links" THEN op[r].to ELSE NoName)
                \/ x = Make(op[r].kind, n)
          BY <1>1, <1>n DEF NewAt
        <5>2. s # Make(op[r].kind, n)
          BY <4>1, <4>2 DEF Writes
        <5> QED BY <3>1, <5>1, <5>2
      <4>4. \A t, u, k, m : Insert(t, u, k, m).target = m
        BY DEF Insert
      <4>5. s.target = IF s.t = "links" THEN op[r].to ELSE NoName
        <5> DEFINE kind == IF s.t = "nodes" THEN op[r].kind ELSE ""
                   to == IF s.t = "links" THEN op[r].to ELSE NoName
        <5>1. s = Insert(s.t, n, kind, to)
          BY <4>3
        <5> HIDE DEF kind, to
        <5>2. s.target = to
          BY <5>1, <4>4
        <5> QED BY <5>2 DEF to
      <4> QED BY <4>3, <4>5
    <3>3. \A t, m, k, u, b, c : Row(t, m, k, u, b, c).target = u
      BY DEF Row
    <3>4. v \in RowsNext(s, r, "links", n)
      BY <1>3, <2>3, <3>s
    <3>5. PICK c : RowsNext(s, r, "links", n) =
            IF s.t = "links" /\ s.id = n
            THEN RowsOf("links", n) \cup {Row(s.t, s.id, s.kind, s.target, r, c)} ELSE RowsOf("links", n)
      <4>1. s.do = "insert"
        BY <3>2
      <4> DEFINE d == Cardinality({w \in rows : w.t = s.t /\ w.id = s.id /\ w.by = r})
      <4>2. RowsNext(s, r, "links", n) =
              IF s.t = "links" /\ s.id = n
              THEN RowsOf("links", n) \cup {Row(s.t, s.id, s.kind, s.target, r, d)} ELSE RowsOf("links", n)
        BY <4>1, InsertDoes
      <4> HIDE DEF d
      <4> QED BY <4>2
    <3>6. v \in RowsOf("links", n) \/ (s.t = "links" /\ v = Row(s.t, s.id, s.kind, s.target, r, c))
      BY <3>4, <3>5
    <3> QED BY <2>1, <3>2, <3>3, <3>6
  <2>4. CASE Execute(r) \/ Lose(r)
    BY <2>2, <2>3, <2>4, ExecuteDoes
  <2>5. CASE ~(Execute(r) \/ Lose(r))
    <3>1. rows' = rows
      BY <2>5 DEF Works, SelectLinks, FindChildren, ReadChild, MakeFile, MoveFiles, CopyFiles, RemoveFiles, store
    <3> QED BY <2>2, <3>1 DEF RowsOf
  <2> QED BY <2>4, <2>5
<1>4. (\A v \in RowsOf("links", op[r].id) : v.target = op[r].to)'
  <2>1. RowsOf("links", op[r].id)' = RowsOf("links", n)'
    BY <1>1, <1>n DEF RowsOf
  <2> QED BY <1>1, <1>3, <2>1
<1>5. Wants(r, {Parent(op[r].id)} \cup IF op[r].kind = "link" THEN {op[r].to} ELSE {})'
  BY <1>1 DEF NewSeen, Wants
<1> QED BY <1>1, <1>2, <1>4, <1>5 DEF NewSeen, Absent, Node, NoName

(* A link that is changed leads where it did or where it should. *)
LEMMA RetargetTo ==
  ASSUME NEW s, s.do = "retarget", NEW r, NEW n, NEW v \in RowsNext(s, r, "links", n), rows \subseteq Rows
  PROVE  v.target = s.target \/ v \in RowsOf("links", n)
<1>1. PICK w \in rows : v = IF w.t = "links" /\ w.id = s.id THEN [w EXCEPT !.target = s.target] ELSE w
  BY DEF RowsNext, RowsAfter
<1>2. v.t = "links" /\ v.id = n
  BY DEF RowsNext
<1>3. w \in Rows
  OBVIOUS
<1>4. CASE w.t = "links" /\ w.id = s.id
  BY <1>1, <1>3, <1>4 DEF Rows
<1>5. CASE ~(w.t = "links" /\ w.id = s.id)
  BY <1>1, <1>2, <1>5 DEF RowsOf
<1> QED BY <1>4, <1>5

(* So does one that is changed in its place. *)
LEMMA SeenOverWorks ==
  ASSUME Typed, Within, NEW r \in Requests, Works(r), OverSeen(r), ~(scope'[r] \subseteq unclear')
  PROVE  OverSeen(r)'
<1>n. PICK n : n = op[r].id
  OBVIOUS
<1>s. PICK s : s = Head1(r)
  OBVIOUS
<1>1. /\ op' = op /\ needs' = needs /\ scope'[r] = scope[r] /\ ~(scope[r] \subseteq unclear')
      /\ OverAt(r) /\ OverAt(r)' /\ rows \subseteq Rows
  <2>1. rows \subseteq Rows
    BY DEF Typed
  <2> QED BY <2>1, GoodWorks, WorkFacts, OverWorks DEF OverSeen
<1>2. scope[r] = {n} /\ before'[r][n] = before[r][n]
  BY <1>1, <1>n, OwnBefore DEF OverAt
<1>3. /\ s \in Items(todo[r]) /\ Items(Tail(todo[r])) \subseteq Items(todo[r])
      /\ s.do \in Writes => Execute(r) \/ Lose(r)
  BY <1>s, FirstFirst
<1>4. /\ \/ s.do = "retarget" /\ s.id = n /\ s.target = op[r].to
         \/ s.do = "insert" /\ s.t = "addl_props"
         \/ s.do = "rename" /\ s.id = s.to
  BY <1>1, <1>3, <1>n DEF OverAt, OverSeen
<1>5. Execute(r) \/ Lose(r)
  BY <1>3, <1>4 DEF Writes
<1>6. Items(todo'[r]) \subseteq Items(todo[r])
  BY <1>1, <1>3, <1>5, ExecuteDoes
<1>7. \A t : RowsOf(t, n)' = RowsOf(t, n) \/ RowsOf(t, n)' = RowsNext(s, r, t, n)
  BY <1>5, <1>s, ExecuteDoes
<1>8. RowsOf("nodes", n)' = RowsOf("nodes", n)
  <2>1. s.do = "retarget" => RowsNext(s, r, "nodes", n) = RowsOf("nodes", n)
    BY <1>1, RetargetDoes
  <2>2. s.do = "insert" /\ s.t = "addl_props" => RowsNext(s, r, "nodes", n) = RowsOf("nodes", n)
    BY InsertDoes
  <2>3. s.do = "rename" /\ s.id = s.to => RowsNext(s, r, "nodes", n) = RowsOf("nodes", n)
    BY <1>1, RenameDoes
  <2> QED BY <1>4, <1>7, <2>1, <2>2, <2>3
<1>9. \A v \in RowsOf("links", n)' : v.target = op[r].to \/ v \in RowsOf("links", n)
  <2> SUFFICES ASSUME NEW v \in RowsOf("links", n)' PROVE v.target = op[r].to \/ v \in RowsOf("links", n)
    OBVIOUS
  <2>1. CASE s.do = "retarget"
    BY <1>1, <1>4, <1>7, <2>1, RetargetTo
  <2>2. CASE s.do # "retarget"
    BY <1>1, <1>4, <1>7, <2>2, InsertDoes, RenameDoes
  <2> QED BY <2>1, <2>2
<1>10. PICK w, t :
         /\ w \in RowsOf("nodes", n)
         /\ before[r][n] = Node(w.kind, w.by, t) /\ w.kind = op[r].kind
         /\ w.kind # "link" => t = NoName
         /\ \A v \in RowsOf("links", n) : v.target \in {t, op[r].to}
  BY <1>n DEF OverSeen
<1>11. \A m : RowsOf("nodes", op[r].id)' = RowsOf("nodes", n)' /\ RowsOf("links", op[r].id)' = RowsOf("links", n)'
  BY <1>1, <1>n DEF RowsOf
<1>12. \E x \in RowsOf("nodes", op[r].id)' : \E u :
         /\ before'[r][op[r].id] = Node(x.kind, x.by, u) /\ x.kind = op[r].kind
         /\ x.kind # "link" => u = NoName
         /\ \A v \in RowsOf("links", op[r].id)' : v.target \in {u, op[r].to}
  BY <1>2, <1>8, <1>9, <1>10, <1>11, <1>n
<1>13. \A x \in Items(todo'[r]) : x.do = "retarget" => x.target = op[r].to
  BY <1>6 DEF OverSeen
<1>14. op[r].kind = "link" => Wants(r, {op[r].to})'
  BY <1>1 DEF OverSeen, Wants
<1> QED BY <1>1, <1>12, <1>13, <1>14 DEF OverSeen, Node, NoName, Wants

(* What leads to what is deleted is seen to do so until the end. *)
LEMMA SeenDelWorks ==
  ASSUME SeenInv, Orderly', NEW r \in Requests, Works(r), DelSeen(r), Good(r)'
  PROVE  DelSeen(r)'
<1>1. /\ SafeInv /\ Typed /\ Orderly /\ Within /\ ~(scope'[r] \subseteq unclear')
      /\ DelAt(r)
  BY DEF SeenInv, SafeInv, Good, DelSeen
<1>2. DelAt(r)' /\ scope'[r] = scope[r] /\ ~(scope[r] \subseteq unclear) /\ \A m \in scope[r] : before'[r][m] = before[r][m]
  BY <1>1, DelWorks, GoodWorks, OwnBefore
<1>3. Good(r)
  BY <1>1, <1>2, WorkFacts DEF Good
<1>4. PICK n \in Names : DelOf(r, n)
  BY DEF DelSeen
<1>5. \A l \in Names \ scope[r] : Visible'[l].target = Visible[l].target \/ Visible'[l].target \notin scope[r]
  BY <1>3, TargetsKept
<1>6. Gone(r, n)' = Gone(r, n)
  BY <1>1, <1>2, <1>3, <1>4, <1>5, GoneSame
<1>7. N!Listed' = N!Listed
  BY DEF N!Listed, N!Kinds, N!NoName
<1>8. DelOf(r, n)'
  BY <1>2, <1>4, <1>6, <1>7 DEF DelOf, Absent, Node, NoName
<1> QED BY <1>2, <1>8 DEF DelSeen

(* What is stored is what clients see of it, unless it is a link. *)
LEMMA WasStored ==
  ASSUME NEW m, Fine(m), \A w \in RowsOf("nodes", m) : w.kind # "link"
  PROVE  Was(Stored(m), RowsOf("nodes", m))
<1>1. CASE RowsOf("nodes", m) = {}
  BY <1>1 DEF Was, Stored
<1>2. CASE RowsOf("nodes", m) # {}
  <2>1. PICK w : RowsOf("nodes", m) = {w}
    BY <1>2 DEF Fine, Something, Sound, Tabs
  <2>2. Stored(m) = Node(w.kind, w.by, NoName)
    BY <2>1 DEF Stored
  <2> QED BY <2>1, <2>2 DEF Was
<1> QED BY <1>1, <1>2

(* Nodes that are renamed are seen where they were. *)
LEMMA WasLike ==
  ASSUME NEW v, NEW S, NEW T, Was(v, S), Like(S, T) PROVE Was(v, T)
<1>1. CASE S = {}
  <2>1. T = {} /\ v = Absent
    BY <1>1, LikeMeans DEF Was
  <2> QED BY <2>1 DEF Was
<1>2. CASE S # {}
  <2>1. PICK w \in S : S = {w} /\ v = Node(w.kind, w.by, NoName)
    BY <1>2 DEF Was
  <2>2. PICK x \in T : T = {x} /\ x.kind = w.kind /\ x.by = w.by
    BY <2>1, LikeMeans
  <2>3. v = Node(x.kind, x.by, NoName)
    BY <2>1, <2>2 DEF Node
  <2> QED BY <2>2, <2>3 DEF Was
<1> QED BY <1>1, <1>2

(* What is seen of a move depends on what is remembered and on the rows. *)
LEMMA MoveSeenIs ==
  ASSUME NEW r, NEW f, NEW g, Leads(r, f, g), \A n \in scope[r] : before'[r][n] = before[r][n],
         before[r][f] # Absent, \A k \in Subtree(g) : before[r][k] = Absent,
         \A m \in Subtree(f) : \A T : T = Both("nodes", m, Renamed(m, f, g))' => Was(before[r][m], T)
  PROVE  MoveSeen(r, f, g)'
<1>1. Subtree(f) \subseteq scope[r] /\ Subtree(g) \subseteq scope[r] /\ f \in Subtree(f)
  BY LeadsNames
<1>2. before'[r][f] # Absent
  BY <1>1
<1>3. \A k \in Subtree(g) : before'[r][k] = Absent
  BY <1>1
<1>4. ASSUME NEW m \in Subtree(f) PROVE Was(before'[r][m], Both("nodes", m, Renamed(m, f, g))')
  <2>1. before'[r][m] = before[r][m]
    BY <1>1
  <2> QED BY <2>1
<1> QED BY <1>2, <1>3, <1>4 DEF MoveSeen, Was, Absent, Node, NoName, Subtree, Under

(* A job that moves the bytes is seen as one that has done nothing. *)
LEMMA SeenMoveBegins ==
  ASSUME Typed, NEW r \in Requests, Works(r), ~(scope'[r] \subseteq unclear'),
         NEW f \in Names, NEW g \in Names, MoveBefore(r, f, g), AsBefore(r)
  PROVE  MoveSeen(r, f, g)'
<1>1. /\ \A t, n : RowsOf(t, n)' = RowsOf(t, n)
      /\ \A k \in Subtree(g) : ~Something(k)
  BY MoveFree
<1>2. Leads(r, f, g) /\ IsStored(f) /\ NoLinks(f) /\ \A m \in scope[r] : Fine(m) /\ Holds(m)
  BY DEF MoveBefore, JobBefore
<1>3. /\ Subtree(f) \subseteq scope[r] /\ Subtree(g) \subseteq scope[r] /\ f \in Subtree(f)
      /\ \A m \in Subtree(f) : Renamed(m, f, g) \in Subtree(g)
  BY <1>2, LeadsNames
<1>4. \A k \in Subtree(g) : RowsOf("nodes", k) = {} /\ before[r][k] = Absent
  <2>1. \A k \in Subtree(g) : RowsOf("nodes", k) = {}
    BY <1>1 DEF Something, Tabs
  <2> QED BY <1>3, <2>1 DEF AsBefore, Stored
<1>5. \A m \in Subtree(f) : Was(before[r][m], RowsOf("nodes", m))
  BY <1>2, <1>3, WasStored DEF NoLinks, AsBefore
<1>6. before[r][f] # Absent
  <2>1. f # Root
    BY Below
  <2>2. RowsOf("nodes", f) # {}
    BY <1>2, <2>1 DEF IsStored
  <2>3. PICK w \in RowsOf("nodes", f) : before[r][f] = Node(w.kind, w.by, NoName) /\ w.kind \in Kinds
    <3>1. Sound(f)
      BY <1>2, <1>3, <2>2 DEF Fine, Something, Tabs
    <3> QED BY <1>3, <1>5, <2>2, <3>1 DEF Was, Sound
  <2> QED BY <2>3 DEF Node, Absent, Kinds
<1>7. ASSUME NEW m \in Subtree(f), NEW T, T = Both("nodes", m, Renamed(m, f, g))'
      PROVE  Was(before[r][m], T)
  <2>1. T = RowsOf("nodes", m)
    BY <1>1, <1>3, <1>4, <1>7 DEF Both
  <2> QED BY <1>5, <2>1
<1> QED BY <1>2, <1>4, <1>6, <1>7, OwnBefore, MoveSeenIs

(* So is one that renames the rows. *)
LEMMA SeenMoveWorks ==
  ASSUME Typed, NEW r \in Requests, Works(r), ~(scope'[r] \subseteq unclear'),
         NEW f \in Names, NEW g \in Names, MoveAfter(r, f, g), MoveSeen(r, f, g)
  PROVE  MoveSeen(r, f, g)'
<1>1. Leads(r, f, g)
  BY DEF MoveAfter
<1>2. /\ Subtree(f) \subseteq scope[r] /\ Subtree(g) \subseteq scope[r]
      /\ \A m \in Subtree(f) : Renamed(m, f, g) \in Subtree(g)
  BY <1>1, LeadsNames
<1>3. /\ before[r][f] # Absent /\ \A k \in Subtree(g) : before[r][k] = Absent
      /\ \A m \in Subtree(f) : Was(before[r][m], Both("nodes", m, Renamed(m, f, g)))
  BY DEF MoveSeen
<1>4. Head1(r).do \in Writes \cup {"children", "child"}
  <2>1. MoveItem(Head1(r), f, g)
    BY FirstFirst DEF MoveAfter, MoveList
  <2>2. ASSUME NEW s, MoveItem(s, f, g) PROVE s.do \in {"insert", "rename", "children", "child"}
    BY <2>2, MoveItemIs
  <2> QED BY <2>1, <2>2 DEF Writes
<1>5. NodesGo(f, g) \/ \A m \in scope[r] : RowsOf("nodes", m)' = RowsOf("nodes", m)
  <2>1. CASE Head1(r).do \in Writes
    BY <2>1, MoveWrites DEF SameAt
  <2>2. CASE Head1(r).do \in {"children", "child"}
    BY <2>2, FirstJob
  <2> QED BY <1>4, <2>1, <2>2
<1>6. ASSUME NEW m \in Subtree(f), NEW T, T = Both("nodes", m, Renamed(m, f, g))'
      PROVE  Was(before[r][m], T)
  <2>1. CASE NodesGo(f, g)
    BY <1>3, <1>6, <2>1, WasLike DEF NodesGo
  <2>2. CASE \A u \in scope[r] : RowsOf("nodes", u)' = RowsOf("nodes", u)
    <3>1. T = Both("nodes", m, Renamed(m, f, g))
      BY <1>2, <1>6, <2>2 DEF Both
    <3> QED BY <1>3, <3>1
  <2> QED BY <1>5, <2>1, <2>2
<1> QED BY <1>1, <1>3, <1>6, OwnBefore, MoveSeenIs

(* What is copied stays as it is, and is seen as it is. *)
LEMMA SeenCopyWorks ==
  ASSUME Typed, NEW r \in Requests, Works(r), ~(scope'[r] \subseteq unclear'),
         NEW f \in Names, NEW g \in Names,
         (CopyBefore(r, f, g) /\ AsBefore(r)) \/ (CopyAfter(r, f, g) /\ CopySeen(r, f, g))
  PROVE  CopySeen(r, f, g)'
<1>1. Leads(r, f, g)
  BY DEF CopyBefore, CopyAfter, JobBefore
<1>2. /\ Subtree(f) \subseteq scope[r] /\ Subtree(g) \subseteq scope[r] /\ f \in Subtree(f)
      /\ \A m \in Subtree(f) : Renamed(m, f, g) \in Subtree(g)
  BY <1>1, LeadsNames
<1>3. /\ before[r][f] # Absent /\ \A k \in Subtree(g) : before[r][k] = Absent
      /\ \A m \in Subtree(f) : Was(before[r][m], RowsOf("nodes", m))
  <2>1. CASE CopyAfter(r, f, g) /\ CopySeen(r, f, g)
    BY <2>1 DEF CopySeen
  <2>2. CASE CopyBefore(r, f, g) /\ AsBefore(r)
    <3>1. /\ IsStored(f) /\ NoLinks(f) /\ \A m \in scope[r] : Fine(m) /\ Holds(m)
          /\ \A k \in Subtree(g) : ~Something(k)
      BY <2>2 DEF CopyBefore, JobBefore
    <3>2. \A k \in Subtree(g) : before[r][k] = Absent
      <4>1. \A k \in Subtree(g) : RowsOf("nodes", k) = {}
        BY <3>1 DEF Something, Tabs
      <4> QED BY <1>2, <2>2, <4>1 DEF AsBefore, Stored
    <3>3. \A m \in Subtree(f) : Was(before[r][m], RowsOf("nodes", m))
      BY <1>2, <2>2, <3>1, WasStored DEF NoLinks, AsBefore
    <3>4. before[r][f] # Absent
      <4>1. f # Root
        BY Below
      <4>2. RowsOf("nodes", f) # {}
        BY <3>1, <4>1 DEF IsStored
      <4>3. PICK w \in RowsOf("nodes", f) : before[r][f] = Node(w.kind, w.by, NoName) /\ w.kind \in Kinds
        <5>1. Sound(f)
          BY <1>2, <3>1, <4>2 DEF Fine, Something, Tabs
        <5> QED BY <1>2, <3>3, <4>2, <5>1 DEF Was, Sound
      <4> QED BY <4>3 DEF Node, Absent, Kinds
    <3> QED BY <3>2, <3>3, <3>4
  <2> QED BY <2>1, <2>2
<1>4. \A m \in Subtree(f) : RowsOf("nodes", m)' = RowsOf("nodes", m)
  <2>1. CASE CopyBefore(r, f, g)
    <3>1. Head1(r).do = "copybytes"
      BY <2>1 DEF CopyBefore, CopyBytes, Head1
    <3> QED BY <3>1, FirstJob
  <2>2. CASE CopyAfter(r, f, g)
    <3>1. Head1(r).do \in Writes \cup {"children", "child"}
      <4>1. CopyItem(Head1(r), f, g)
        BY <2>2, FirstFirst DEF CopyAfter, CopyList
      <4> QED BY <4>1, CopyItemIs DEF Writes
    <3>2. CASE Head1(r).do \in Writes
      BY <2>2, <3>2, CopyWrites
    <3>3. CASE Head1(r).do \in {"children", "child"}
      BY <3>3, FirstJob
    <3> QED BY <3>1, <3>2, <3>3
  <2> QED BY <2>1, <2>2
<1>5. \A n \in scope[r] : before'[r][n] = before[r][n]
  BY OwnBefore
<1>6. before'[r][f] # Absent /\ \A k \in Subtree(g) : before'[r][k] = Absent
  BY <1>2, <1>3, <1>5
<1>7. ASSUME NEW m \in Subtree(f) PROVE Was(before'[r][m], RowsOf("nodes", m)')
  <2>1. before'[r][m] = before[r][m] /\ RowsOf("nodes", m)' = RowsOf("nodes", m)
    BY <1>2, <1>4, <1>5
  <2> QED BY <1>3, <2>1
<1> QED BY <1>6, <1>7 DEF CopySeen, Was, Absent, Node, NoName, Subtree, Under

(* So a job is seen as it should be while it works, ... *)
LEMMA SeenJobWorks ==
  ASSUME Typed, NEW r \in Requests, Works(r), ~(scope'[r] \subseteq unclear'),
         NEW f \in Names, NEW g \in Names, JobSeen(r, f, g)
  PROVE  JobSeen(r, f, g)'
<1>1. op' = op /\ needs' = needs
  BY WorkFacts
<1>2. ~ToNull(op'[r]) /\ {Parent(g)} \subseteq needs'[r] \cup {Root}
  BY <1>1 DEF JobSeen, Wants
<1>3. CASE op[r].do = "move" /\ MoveBefore(r, f, g) /\ AsBefore(r)
  <2>1. MoveAfter(r, f, g)' /\ MoveSeen(r, f, g)'
    BY <1>3, MoveGoesOn, SeenMoveBegins
  <2> QED BY <1>1, <1>2, <1>3, <2>1 DEF JobSeen, ToNull, Wants
<1>4. CASE op[r].do = "move" /\ MoveAfter(r, f, g) /\ MoveSeen(r, f, g)
  <2>1. MoveAfter(r, f, g)' /\ MoveSeen(r, f, g)'
    BY <1>4, MoveGoesOn, SeenMoveWorks
  <2> QED BY <1>1, <1>2, <1>4, <2>1 DEF JobSeen, ToNull, Wants
<1>5. CASE /\ op[r].do = "copy"
           /\ (CopyBefore(r, f, g) /\ AsBefore(r)) \/ (CopyAfter(r, f, g) /\ CopySeen(r, f, g))
  <2>1. CopyAfter(r, f, g)' /\ CopySeen(r, f, g)'
    BY <1>5, CopyGoesOn, SeenCopyWorks
  <2> QED BY <1>1, <1>2, <1>5, <2>1 DEF JobSeen, ToNull, Wants
<1> QED BY <1>3, <1>4, <1>5 DEF JobSeen

(* ... like every good request. *)
LEMMA SeenOwnWork ==
  ASSUME SeenInv, Orderly', NEW r \in Requests, Works(r), Good(r)'
  PROVE  SeenAt(r)'
<1>1. Typed /\ Orderly /\ Within /\ ~(scope'[r] \subseteq unclear')
  BY DEF SeenInv, SafeInv, Good
<1>2. Good(r)
  <2>1. ~(scope[r] \subseteq unclear)
    <3>1. PICK late, spoilt : Alters(r, late, spoilt)
      BY <1>1, WorkFacts
    <3> QED BY <1>1, <3>1, GoodWorks DEF Alters
  <2> QED BY <1>1, <2>1, WorkFacts DEF Good
<1>3. SeenAt(r)
  BY <1>2 DEF SeenInv, SeenFine
<1>4. CASE NewSeen(r)
  BY <1>1, <1>4, SeenNewWorks DEF SeenAt
<1>5. CASE OverSeen(r)
  BY <1>1, <1>5, SeenOverWorks DEF SeenAt
<1>6. CASE DelSeen(r)
  BY <1>6, SeenDelWorks DEF SeenAt
<1>7. CASE \E f, g \in Names : JobSeen(r, f, g)
  <2>1. PICK f \in Names, g \in Names : JobSeen(r, f, g)
    BY <1>7
  <2>2. JobSeen(r, f, g)'
    BY <1>1, <2>1, SeenJobWorks
  <2> QED BY <2>2 DEF SeenAt
<1> QED BY <1>3, <1>4, <1>5, <1>6, <1>7 DEF SeenAt

-----------------------------------------------------------------------------
(* What is seen of a request that begins *)

(* It remembers what is stored, which is what clients see, and what it needs. *)
LEMMA BeginSees ==
  ASSUME SeenInv, NEW r \in Requests, Begin(r), Good(r)'
  PROVE  /\ scope'[r] = Scope(op[r]) /\ Scope(op[r]) \subseteq Calm /\ Scope(op[r]) \subseteq Names
         /\ \A n \in Scope(op[r]) : before'[r][n] = Stored(n) /\ Visible[n] = Stored(n)
         /\ needs'[r] = Needs(op[r]) /\ op' = op /\ rows' = rows /\ file' = file
         /\ \A t, n : RowsOf(t, n)' = RowsOf(t, n)
         /\ \A n : Stored(n)' = Stored(n)
         /\ \A n \in Scope(op[r]) : Fine(n) /\ Holds(n)
<1>0. Typed /\ Within /\ CalmFine /\ Orderly
  BY DEF SeenInv, SafeInv
<1>1. scope'[r] = Scope(op[r]) /\ op' = op /\ rows' = rows /\ file' = file
  BY <1>0, BeginFacts
<1>2. Scope(op[r]) \subseteq Calm /\ Scope(op[r]) \subseteq Names
  BY <1>0, <1>1, BeginMeets DEF Good
<1>3. before' = [before EXCEPT ![r] = [n \in Scope(op[r]) |-> Stored(n)]] /\ needs' = [needs EXCEPT ![r] = Needs(op[r])]
  BY DEF Begin
<1>4. before'[r] = [n \in Scope(op[r]) |-> Stored(n)] /\ needs'[r] = Needs(op[r])
  BY <1>0, <1>3 DEF Typed
<1>5. \A n \in Scope(op[r]) : before'[r][n] = Stored(n)
  BY <1>4
<1>6. \A n \in Scope(op[r]) : Visible[n] = Stored(n)
  BY <1>0, <1>2, VisibleIs DEF Calm
<1>7. \A t, n : RowsOf(t, n)' = RowsOf(t, n)
  BY <1>1 DEF RowsOf
<1>8. \A n : Stored(n)' = Stored(n)
  BY <1>7, StoredSame
<1> QED BY <1>0, <1>1, <1>2, <1>4, <1>5, <1>6, <1>7, <1>8 DEF CalmFine

(* What contains a name is a name, or the root. *)
LEMMA ParentPlace == ASSUME NEW n \in Names PROVE Parent(n) \in Names \cup {Root}
  BY Above DEF Places

(* Nothing is seen where a node is going to be created. *)
LEMMA SeenNewBegins ==
  ASSUME SeenInv, NEW r \in Requests, Begin(r), Good(r)', op[r].do = "create", ~IsStored(op[r].id)
  PROVE  NewSeen(r)'
<1>0. Typed /\ Within /\ CalmFine /\ Orderly
  BY DEF SeenInv, SafeInv
<1>n. PICK n : n = op[r].id
  OBVIOUS
<1>1. op[r] \in Op /\ n \in Names
  BY <1>0, <1>n, OpsAssumption DEF Typed, Op
<1>2. NewAt(r)'
  BY <1>0, BeginNew
<1>3. Scope(op[r]) = Subtree(n) /\ n \in Subtree(n)
  BY <1>n DEF Scope, Subtree
<1>4. \A m \in Subtree(n) : ~Something(m)
  <2>1. RowsOf("nodes", n) = {} /\ Fine(n)
    BY <1>n, <1>3, BeginSees DEF IsStored
  <2>2. ~Something(n)
    BY <2>1 DEF Fine, Sound
  <2>3. Holds(n)
    BY <1>3, BeginSees
  <2>4. \A m \in Under(n) : ~Something(m)
    BY <1>1, <2>2, <2>3, ContIs DEF Holds
  <2> QED BY <2>2, <2>4 DEF Subtree
<1>5. \A m \in scope'[r] : before'[r][m] = Absent
  <2>1. \A m \in Subtree(n) : Stored(m) = Absent
    BY <1>4 DEF Something, Tabs, Stored
  <2> QED BY <1>3, <2>1, BeginSees
<1>6. RowsOf("links", n)' = {}
  BY <1>3, <1>4, BeginSees DEF Something, Tabs
<1>7. {Parent(n)} \cup (IF op[r].kind = "link" THEN {op[r].to} ELSE {}) \subseteq needs'[r] \cup {Root}
  <2>1. needs'[r] = ({Parent(n)} \cup IF op[r].kind = "link" THEN {op[r].to} ELSE {}) \cap Names
    BY <1>n, BeginSees DEF Needs
  <2>2. Parent(n) \in Names \cup {Root} /\ op[r].to \in Names \cup {Root}
    BY <1>1, ParentPlace DEF Op, NoName, Root
  <2> QED BY <2>1, <2>2
<1>8. op' = op
  BY BeginSees
<1>9. Wants(r, {Parent(op[r].id)} \cup IF op[r].kind = "link" THEN {op[r].to} ELSE {})'
  BY <1>7, <1>8, <1>n DEF Wants
<1>10. (\A v \in RowsOf("links", op[r].id) : v.target = op[r].to)'
  <2>1. RowsOf("links", op[r].id)' = RowsOf("links", n)'
    BY <1>8, <1>n DEF RowsOf
  <2> QED BY <1>6, <2>1
<1> QED BY <1>2, <1>5, <1>9, <1>10 DEF NewSeen, Absent, Node, NoName

(* A node that is going to be changed is seen as it is stored. *)
LEMMA SeenOverBegins ==
  ASSUME SeenInv, NEW r \in Requests, Begin(r), Good(r)', op[r].do = "create", IsStored(op[r].id)
  PROVE  OverSeen(r)'
<1>0. Typed /\ Within /\ CalmFine /\ Orderly
  BY DEF SeenInv, SafeInv
<1>n. PICK n : n = op[r].id
  OBVIOUS
<1>1. op[r] \in Op /\ n \in Names /\ n # Root
  BY <1>0, <1>n, OpsAssumption, Below DEF Typed, Op
<1>2. OverAt(r)' /\ \A s \in Items(todo'[r]) : s.do = "retarget" => s.target = op[r].to
  BY <1>0, BeginOver
<1>3. n \in Scope(op[r])
  BY <1>n DEF Scope
<1>4. RowsOf("nodes", n) # {} /\ Sound(n)
  <2>1. RowsOf("nodes", n) # {}
    BY <1>n, <1>1 DEF IsStored
  <2> QED BY <1>3, <2>1, BeginSees DEF Fine, Something, Tabs
<1>5. PICK w \in RowsOf("nodes", n) :
        /\ RowsOf("nodes", n) = {w}
        /\ w.kind = "link" => Single(RowsOf("links", n))
        /\ w.kind # "link" => RowsOf("links", n) = {}
  BY <1>4 DEF Sound
<1>6. w.kind = op[r].kind
  <2>1. GetType(n) = op[r].kind
    <3>1. Allowed(op[r])
      BY DEF Begin
    <3> QED BY <1>n, <3>1 DEF Allowed, CreateAllowed
  <2>2. GetTypes(n) = {w.kind}
    BY <1>1, <1>5 DEF GetTypes
  <2>3. GetType(n) = w.kind
    BY <2>2 DEF GetType
  <2> QED BY <2>1, <2>3
<1>t. PICK t : t = IF w.kind = "link" THEN GetTarget(n) ELSE NoName
  OBVIOUS
<1>7. before'[r][n] = Node(w.kind, w.by, t)
  <2>1. Stored(n) = Node(w.kind, w.by, t)
    BY <1>5, <1>t DEF Stored
  <2> QED BY <1>3, <2>1, BeginSees
<1>8. \A v \in RowsOf("links", n) : v.target = t
  <2> SUFFICES ASSUME NEW v \in RowsOf("links", n) PROVE v.target = t
    OBVIOUS
  <2>1. w.kind = "link" /\ RowsOf("links", n) = {v}
    <3>1. w.kind = "link" /\ Single(RowsOf("links", n))
      BY <1>5
    <3> QED BY <3>1 DEF Single
  <2>2. GetTarget(n) = v.target
    BY <2>1 DEF GetTarget
  <2> QED BY <1>t, <2>1, <2>2
<1>9. op' = op
  BY BeginSees
<1>10. \A tt : RowsOf(tt, op[r].id)' = RowsOf(tt, n)
  <2>1. \A tt : RowsOf(tt, op[r].id)' = RowsOf(tt, n)'
    BY <1>9, <1>n DEF RowsOf
  <2> QED BY <2>1, BeginSees
<1>11. \E x \in RowsOf("nodes", op[r].id)' : \E u :
         /\ before'[r][op[r].id] = Node(x.kind, x.by, u) /\ x.kind = op[r].kind
         /\ x.kind # "link" => u = NoName
         /\ \A v \in RowsOf("links", op[r].id)' : v.target \in {u, op[r].to}
  BY <1>5, <1>6, <1>7, <1>8, <1>10, <1>n, <1>t
<1>12. op[r].kind = "link" => {op[r].to} \subseteq needs'[r] \cup {Root}
  <2>1. op[r].kind = "link" => needs'[r] = {Parent(n), op[r].to} \cap Names
    BY <1>n, BeginSees DEF Needs
  <2>2. op[r].to \in Names \cup {Root}
    BY <1>1 DEF Op, NoName, Root
  <2> QED BY <2>1, <2>2
<1> QED BY <1>2, <1>9, <1>11, <1>12 DEF OverSeen, Node, NoName, Wants

(* So is all that a job takes with it. *)
LEMMA SeenJobBegins ==
  ASSUME SeenInv, NEW r \in Requests, Begin(r), Good(r)', op[r].do \in {"move", "copy"}, ~ToNull(op[r])
  PROVE  \E f, g \in Names : JobSeen(r, f, g)'
<1>0. Typed /\ Within /\ CalmFine /\ Orderly
  BY DEF SeenInv, SafeInv
<1>n. PICK f, g : f = From(op[r]) /\ g = To(op[r])
  OBVIOUS
<1>1. /\ op[r].do = "move" => f \in Names /\ g \in Names /\ MoveBefore(r, f, g)'
      /\ op[r].do = "copy" => f \in Names /\ g \in Names /\ CopyBefore(r, f, g)'
  BY <1>0, <1>n, MoveBegins, CopyBegins
<1>2. AsBefore(r)'
  BY BeginSees DEF AsBefore
<1>3. Wants(r, {Parent(g)})'
  <2>1. needs'[r] = {Parent(g)} \cap Names
    <3>1. Needs(op[r]) = {Parent(To(op[r]))} \cap Names
      BY DEF Needs
    <3> QED BY <1>n, <3>1, BeginSees
  <2>2. Parent(g) \in Names \cup {Root}
    BY <1>1, ParentPlace
  <2> QED BY <2>1, <2>2 DEF Wants
<1>4. op' = op /\ ~ToNull(op'[r])
  BY BeginSees DEF ToNull
<1>5. JobSeen(r, f, g)'
  BY <1>1, <1>2, <1>3, <1>4 DEF JobSeen, ToNull
<1> QED BY <1>1, <1>5

(* A link that is calm is seen to lead where its row leads. *)
LEMMA LinkStored ==
  ASSUME Typed, NEW l \in Names, Fine(l), RowsOf("links", l) # {}
  PROVE  Stored(l).target = LinkRow(l)
<1>1. PICK w \in RowsOf("nodes", l) : RowsOf("nodes", l) = {w} /\ w.kind = "link"
  BY DEF Fine, Sound, Something, Tabs
<1>2. Stored(l) = Node(w.kind, w.by, GetTarget(l))
  BY <1>1 DEF Stored
<1> QED BY <1>2 DEF LinkRow, Node

(* The links that are seen to lead to what is deleted are in its scope. *)
LEMMA SeenDelBegins ==
  ASSUME SeenInv, Orderly', NEW r \in Requests, Begin(r), Good(r)', op[r].do # "create", ToNull(op[r])
  PROVE  DelSeen(r)'
<1>0. Typed /\ Within /\ CalmFine /\ Orderly /\ SeenTyped
  BY DEF SeenInv, SafeInv
<1>n. PICK n, S, D : n = From(op[r]) /\ S = Deleted(op[r]) /\ D = Scope(op[r])
  OBVIOUS
<1>1. /\ n \in Places /\ n \in S /\ S \subseteq Subtree(n) /\ IsStored(n)
      /\ D = Names \cap UNION {Subtree(l) : l \in {n} \cup WithLinks(S, LinkRow) \cup WithLinks(S, SeenTarget)}
  BY <1>0, <1>n, DeleteScope
<1>2. n \in Names /\ n # Root
  <2>1. op[r] \in Op
    BY <1>0, OpsAssumption DEF Typed
  <2>2. n # Root
    BY <1>0, <1>n, <2>1, Below, ResolvesBelow DEF From, Op
  <2> QED BY <1>1, <2>2 DEF Places
<1>c. PICK c \in BOOLEAN :
        /\ S = IF c THEN Subtree(n) ELSE {n}
        /\ n \in D /\ (c <=> Cont(n))
        /\ ~c => \A m \in Under(n) : ~Something(m)
  BY <1>0, <1>n, <1>2, DeleteFinds
<1>3. /\ scope'[r] = D /\ D \subseteq Calm /\ D \subseteq Names
      /\ \A m \in D : before'[r][m] = Stored(m) /\ Visible[m] = Stored(m) /\ Fine(m) /\ Holds(m)
  BY <1>n, BeginSees
<1>4. RowsOf("nodes", n) # {} /\ Sound(n)
  <2>1. RowsOf("nodes", n) # {}
    BY <1>1, <1>2 DEF IsStored
  <2> QED BY <1>3, <1>c, <2>1 DEF Fine, Something, Tabs
<1>5. Stored(n) \in N!Listed /\ (Stored(n).kind = "container" <=> c)
  <2>1. PICK w : RowsOf("nodes", n) = {w} /\ w.kind \in Kinds
    BY <1>4 DEF Sound
  <2>2. Stored(n).kind = w.kind
    BY <2>1 DEF Stored, Node
  <2>3. GetTypes(n) = {w.kind}
    BY <1>2, <2>1 DEF GetTypes
  <2>4. Stored(n) \in N!Listed \cup {Absent, Unclear}
    BY <1>0, <1>2, <1>3, <1>c DEF SeenTyped
  <2>5. Stored(n) \in N!Listed
    BY <2>1, <2>2, <2>4 DEF Absent, Unclear, Node, Kinds
  <2>6. Cont(n) <=> w.kind = "container"
    BY <1>2, <1>4, <2>3, ContIs DEF Cont
  <2> QED BY <1>c, <2>2, <2>5, <2>6
<1>g. PICK seen, then, goes : /\ seen = [l \in Names |-> SeenTarget(l)]
                              /\ then = [l \in Names |-> Visible'[l].target]
                              /\ goes = [l \in Names |-> LinkRow(l)]
  OBVIOUS
<1>6. Gone(r, n)' = Reach(S, then)
  <2>1. S = IF before'[r][n].kind = "container" THEN Subtree(n) ELSE {n}
    BY <1>3, <1>5, <1>c
  <2> QED BY <1>g, <2>1, Zenon DEF Gone, Reach, Subtree, Under
<1>7. WithLinks(S, SeenTarget) = Reach(S, seen) /\ WithLinks(S, LinkRow) = Reach(S, goes)
  BY <1>g, Zenon DEF WithLinks, Reach
<1>8. S \subseteq Names /\ S \subseteq Subtree(n)
  BY <1>1, <1>2, Below DEF Subtree
<1>9. Reach(S, seen) \subseteq D /\ Reach(S, goes) \subseteq D
  <2>1. Reach(S, seen) \subseteq Names /\ Reach(S, goes) \subseteq Names
    BY LinksLeast
  <2> QED BY <1>1, <1>7, <2>1 DEF Subtree
<1>10. Reach(S, then) \subseteq Reach(S, seen)
  <2>1. \A l \in Names : then[l] \in {seen[l], NoName}
    <3> TAKE l \in Names
    <3>1. Visible'[l] \in {Visible[l], Unclear}
      BY <1>0, BeginSpoils DEF Spoils
    <3> QED BY <1>g, <3>1 DEF SeenTarget, Unclear, Node
  <2>2. ASSUME NEW m \in Reach(S, then),
               m \in S \/ then[m] \in S \cup (Reach(S, seen) \cap Reach(S, then))
        PROVE  m \in Reach(S, seen)
    <3>1. m \in Names /\ S \subseteq Names /\ Reach(S, seen) \subseteq Names /\ NoName \notin Names
      BY <1>8, LinksLeast, Below DEF NoName, Root
    <3>2. m \in S \/ seen[m] \in S \cup Reach(S, seen)
      BY <2>1, <2>2, <3>1
    <3> QED BY <3>1, <3>2, LinksLeast
  <2> QED BY <2>2, LinksLeast
<1>11. \A m \in D : Visible'[m] = Stored(m)
  <2>1. r \in Running' /\ scope'[r] \cap unclear' = {}
    BY DEF Orderly, Whole, Good, Running
  <2> QED BY <1>3, <2>1, VisibleThen
<1>12. Reach(S, goes) \subseteq Reach(S, then)
  <2>1. ASSUME NEW m \in Reach(S, goes),
               m \in S \/ goes[m] \in S \cup (Reach(S, then) \cap Reach(S, goes))
        PROVE  m \in Reach(S, then)
    <3>1. m \in Names /\ m \in D
      BY <1>9, <1>3
    <3>2. CASE m \in S
      BY <3>1, <3>2, LinksLeast
    <3>3. CASE m \notin S
      <4>1. LinkRow(m) # NoName
        <5>1. goes[m] \in Names /\ NoName \notin Names
          BY <1>3, <1>8, <1>9, <2>1, <3>3, Below DEF NoName, Root
        <5> QED BY <1>g, <3>1, <5>1
      <4>2. RowsOf("links", m) # {}
        BY <4>1 DEF LinkRow
      <4>3. Visible'[m].target = LinkRow(m)
        BY <1>0, <1>3, <1>11, <3>1, <4>2, LinkStored
      <4>4. then[m] = goes[m]
        BY <1>g, <3>1, <4>3
      <4> QED BY <2>1, <3>1, <4>4, LinksLeast
    <3> QED BY <3>2, <3>3
  <2> QED BY <2>1, LinksLeast
<1>13. Reach(S, seen) \subseteq Reach(S, goes)
  BY <1>0, <1>3, <1>7, <1>8, <1>9, LinksCalm
<1>14. S \subseteq Reach(S, then)
  BY <1>8, LinksLeast
<1>15. ASSUME NEW m \in D, m \notin Reach(S, then) PROVE Stored(m) = Absent
  <2>1. ~Something(m)
    <3>1. PICK l \in {n} \cup Reach(S, goes) : m \in Subtree(l)
      BY <1>1, <1>7, <1>13
    <3>2. CASE m \in Subtree(n)
      BY <1>14, <1>15, <1>c, <3>2 DEF Subtree
    <3>3. CASE m \notin Subtree(n)
      <4>1. l \in Reach(S, goes) /\ l \in D /\ l \in Names /\ l # m
        BY <1>3, <1>9, <1>12, <1>15, <3>1, <3>3
      <4>2. l \notin S
        <5> SUFFICES ASSUME l \in S PROVE FALSE
          OBVIOUS
        <5>1. Subtree(l) \subseteq Subtree(n)
          BY <1>1, <1>8, Below DEF Subtree
        <5> QED BY <3>1, <3>3, <5>1
      <4>3. RowsOf("links", l) # {}
        BY <1>0, <1>7, <1>8, <4>1, <4>2, LinksThere
      <4>4. Sound(l) /\ Holds(l)
        BY <1>3, <4>1, <4>3 DEF Fine, Something, Tabs
      <4>5. ~Cont(l)
        BY <4>1, <4>3, <4>4, ContIs
      <4> QED BY <3>1, <4>1, <4>4, <4>5 DEF Holds, Subtree
    <3> QED BY <3>2, <3>3
  <2> QED BY <2>1 DEF Something, Tabs, Stored
<1>16. DelOf(r, n)'
  <2>1. N!Listed' = N!Listed
    BY DEF N!Listed, N!Kinds, N!NoName
  <2>2. n \in scope'[r] /\ before'[r][n] \in N!Listed
    BY <1>3, <1>5, <1>c
  <2>3. Gone(r, n)' \subseteq scope'[r]
    BY <1>3, <1>6, <1>9, <1>10
  <2>4. \A m \in scope'[r] : m \notin Gone(r, n)' => before'[r][m] = Absent
    BY <1>3, <1>6, <1>15
  <2> QED BY <2>1, <2>2, <2>3, <2>4 DEF DelOf, Absent, Node, NoName
<1>17. DelAt(r)'
  BY <1>0, BeginDel
<1> QED BY <1>2, <1>16, <1>17 DEF DelSeen

(* So is every request that begins and has met nobody. *)
LEMMA SeenOwnBegin ==
  ASSUME SeenInv, Orderly', NEW r \in Requests, Begin(r), Good(r)'
  PROVE  SeenAt(r)'
<1>1. op[r] \in Op
  BY OpsAssumption DEF SeenInv, SafeInv, Typed
<1>2. CASE op[r].do = "create" /\ ~IsStored(op[r].id)
  BY <1>2, SeenNewBegins DEF SeenAt
<1>3. CASE op[r].do = "create" /\ IsStored(op[r].id)
  BY <1>3, SeenOverBegins DEF SeenAt
<1>4. CASE op[r].do # "create" /\ ToNull(op[r])
  BY <1>4, SeenDelBegins DEF SeenAt
<1>5. CASE op[r].do # "create" /\ ~ToNull(op[r])
  <2>1. op[r].do \in {"move", "copy"}
    BY <1>1, <1>5 DEF Op, ToNull
  <2>2. \E f, g \in Names : JobSeen(r, f, g)'
    BY <1>5, <2>1, SeenJobBegins
  <2> QED BY <2>2 DEF SeenAt
<1> QED BY <1>2, <1>3, <1>4, <1>5

-----------------------------------------------------------------------------
(* What clients see always *)

(* At first links lead to names, or to the root. *)
LEMMA FirstLinks ==
  ASSUME NEW E \in Existing, AtFirst(E), NEW n \in Names, NEW v \in RowsOf("links", n)
  PROVE  v.target \in Names \cup {NoName}
<1>1. PICK x \in E : v \in RowsFor(x)
  BY DEF AtFirst, RowsOf
<1>2. PICK a, b, c, d : RowsAre(x, a, b, c, d)
  BY RowsForAre, Zenon
<1>3. v.t = "links"
  BY DEF RowsOf
<1>4. v = c /\ v.target = x.target
  <2>1. a.t = "nodes" /\ b.t = "properties" /\ d.t = "capabilities" /\ c.target = x.target
    BY <1>2 DEF RowsAre, Row
  <2>2. v \in {a, b} \/ v = c \/ v = d
    BY <1>1, <1>2 DEF RowsAre
  <2> QED BY <1>3, <2>1, <2>2
<1> QED BY <1>1, <1>4, ExistingAssumption

(* At first clients see what is stored. *)
LEMMA SeenFirst == Init => SeenInv /\ N!Init
<1> SUFFICES ASSUME Init PROVE SeenInv /\ N!Init
  OBVIOUS
<1>1. PICK E \in Existing : AtFirst(E)
  BY DEF Init, AtFirst
<1>2. SafeInv /\ Typed /\ Orderly
  BY SafeInit DEF SafeInv
<1>3. Running = {} /\ unclear = {} /\ Busy = {}
  BY DEF Init, Running, Busy
<1>4. ASSUME NEW n \in Names PROVE Visible[n] \in N!Listed \cup {Absent}
  <2>1. Visible[n] = Stored(n)
    BY <1>2, <1>3, VisibleIs
  <2>2. CASE RowsOf("nodes", n) = {}
    BY <2>1, <2>2 DEF Stored
  <2>3. CASE RowsOf("nodes", n) # {}
    <3>1. Sound(n)
      BY <1>1, <2>3, FirstFine DEF Something, Tabs
    <3>2. PICK w \in RowsOf("nodes", n) : /\ RowsOf("nodes", n) = {w} /\ w.kind \in Kinds
                                          /\ w.kind = "link" => Single(RowsOf("links", n))
      BY <3>1 DEF Sound
    <3>3. w.by \in Requests \cup {"init"}
      BY <1>2 DEF Typed, Rows, RowsOf
    <3>4. w.kind = "link" => GetTarget(n) \in Names \cup {NoName}
      <4> SUFFICES ASSUME w.kind = "link" PROVE GetTarget(n) \in Names \cup {NoName}
        OBVIOUS
      <4>1. PICK v \in RowsOf("links", n) : RowsOf("links", n) = {v}
        BY <3>2 DEF Single
      <4>2. GetTarget(n) = v.target
        BY <4>1 DEF GetTarget
      <4> QED BY <1>1, <4>2, FirstLinks
    <3>5. Stored(n) = Node(w.kind, w.by, IF w.kind = "link" THEN GetTarget(n) ELSE NoName)
      BY <3>2 DEF Stored
    <3>6. Stored(n) \in N!Listed
      BY <3>2, <3>3, <3>4, <3>5, NodesAre DEF Node
    <3> QED BY <2>1, <3>6
  <2> QED BY <2>2, <2>3
<1>5. SeenTyped
  BY <1>4 DEF SeenTyped
<1>6. SeenFine
  BY <1>3 DEF SeenFine, Good, Running
<1>7. N!Init
  <2>1. PICK F : F = Visible
    OBVIOUS
  <2>2. F = [n \in Names |-> F[n]]
    BY <2>1, VisibleFun
  <2>3. \A n \in Names : F[n] \in N!Listed \cup {N!Absent}
    BY <1>4, <2>1, NodesAre
  <2>4. F \in [Names -> N!Listed \cup {N!Absent}]
    BY <2>2, <2>3
  <2> QED BY <2>1, <2>4 DEF N!Init
<1> QED BY <1>2, <1>5, <1>6, <1>7 DEF SeenInv

(* Every step keeps what is seen of good requests. *)
LEMMA SeenStep == ASSUME SeenInv, [Next]_vars PROVE SeenInv'
<1>1. SafeInv /\ Typed /\ Orderly /\ Within /\ SeenTyped
  BY DEF SeenInv, SafeInv
<1>2. SafeInv' /\ Orderly'
  BY <1>1, SafeStep, SteadyStep
<1>3. SeenTyped'
  BY <1>1, StepRefines, SeenTypedStep
<1>4. SeenFine'
  <2> SUFFICES ASSUME NEW q \in Requests, Good(q)' PROVE SeenAt(q)'
    BY DEF SeenFine
  <2>1. ASSUME NEW r \in Requests, Works(r) PROVE SeenAt(q)'
    BY <1>2, <2>1, SeenOwnWork, SeenOthersWork
  <2>2. ASSUME NEW r \in Requests, Begin(r) PROVE SeenAt(q)'
    BY <1>2, <2>2, SeenOwnBegin, SeenOthersTurn
  <2>3. ASSUME NEW r \in Requests, Ends(r) PROVE SeenAt(q)'
    <3>1. q # r
      BY <1>1, <2>3, EndFacts DEF Good
    <3> QED BY <1>2, <2>3, <3>1, SeenOthersTurn
  <2>4. ASSUME NEW r \in Requests, Call(r) \/ Refuse(r) PROVE SeenAt(q)'
    BY <1>1, <1>2, <2>4, CallChanges, SeenOthersCall
  <2>5. CASE UNCHANGED vars
    BY <1>2, <2>5, SeenOthersCall DEF vars, store, aux, Running
  <2> QED BY <2>1, <2>2, <2>3, <2>4, <2>5, Steps
<1> QED BY <1>2, <1>3, <1>4 DEF SeenInv

(* So they are seen as they should be, always. *)
LEMMA SeenInvariant == Spec => []SeenInv
<1>1. SeenInv /\ [Next]_vars => SeenInv'
  BY SeenStep
<1>2. Init => SeenInv
  BY SeenFirst
<1> QED BY <1>1, <1>2, PTL DEF Spec

(* Whatever else goes on at the same time, and whatever connection is lost, an *)
(* operation takes effect in one step, completely or not at all, although      *)
(* storeData, removeData, updateData and the file operations are a sequence of *)
(* statements that commit one by one; only where requests meet, or one of them *)
(* fails, is nothing known of their names afterwards.                          *)
THEOREM RefinesNamespace == Spec => ImplementsNamespace
<1>1. Init => N!Init
  BY SeenFirst
<1>2. SeenInv /\ [Next]_vars => [N!Next]_Visible
  BY StepRefines
<1> QED BY <1>1, <1>2, SeenInvariant, PTL DEF Spec, ImplementsNamespace, N!Spec

-----------------------------------------------------------------------------
(* Where links lead *)

(* A link that is seen leads to what is seen, or unclear; ... *)
NoneDangles == \A l \in Names : Visible[l].kind = "link" /\ Visible[l].target \in Names =>
                 Visible[Visible[l].target].kind # "absent"
(* ... links do not go round in a circle; ... *)
NoCircle == \A S \in SUBSET Names : S # {} =>
              \E m \in S : Visible[m].kind # "link" \/ Visible[m].target \notin S
(* ... a link that is being created is going to lead somewhere, from where     *)
(* nothing was; ...                                                            *)
NewLeads(r) == op[r].do = "create" /\ op[r].kind = "link" =>
                 /\ before[r][op[r].id].kind = "absent"
                 /\ op[r].to \in Names => Visible[op[r].to].kind # "absent"
(* ... a deletion that sweeps takes the links to what it deletes with it; ...  *)
Catching == \A r \in sweeps : \A l \in Names :
  Visible[l].kind = "link" /\ Visible[l].target \in Subtree(op[r].id) => l \in scope[r]
(* ... and what is left of the rows of what is deleted is as it was, and was   *)
(* not below a link.                                                           *)
Leaves(r) == op[r].do # "create" /\ ToNull(op[r]) =>
  \A l \in scope[r] :
    /\ \A w \in RowsOf("nodes", l) : before[r][l].kind = w.kind
    /\ \A v \in RowsOf("links", l) : before[r][l].target = v.target
    /\ \A p \in scope[r] : l \in Under(p) /\ before[r][l].kind # "absent" => before[r][p].kind # "link"
LinksFine == /\ NoneDangles /\ NoCircle /\ Catching
             /\ \A r \in Requests : Good(r) => NewLeads(r) /\ Leaves(r)

(* The inductive invariant. *)
LinksInv == SeenInv /\ (LoopMade \/ LinksFine)

(* Who has made a loop has made it. *)
LEMMA LoopStays == ASSUME Typed, LoopMade, [Next]_vars PROVE LoopMade'
<1>1. PICK q \in Requests : pc[q] \in {"run", "done", "failed"} /\ LoopMaker(op[q])
  BY DEF LoopMade
<1>2. SUFFICES pc'[q] \in {"run", "done", "failed"} /\ op' = op
  BY <1>1 DEF LoopMade, LoopMaker
<1>3. ASSUME NEW r \in Requests, Works(r) PROVE pc' = pc /\ op' = op
  BY <1>3, WorkFacts
<1>4. ASSUME NEW r \in Requests, Begin(r)
      PROVE  pc' = [pc EXCEPT ![r] = "run"] /\ op' = op
  BY <1>4 DEF Begin
<1>5. ASSUME NEW r \in Requests, Ends(r)
      PROVE  (\E end \in {"done", "failed"} : pc' = [pc EXCEPT ![r] = end]) /\ op' = op
  BY <1>5 DEF Ends, Return, Unmoved, Fail, Finished
<1>6. ASSUME NEW r \in Requests, Call(r) \/ Refuse(r)
      PROVE  r # q /\ (\E p : pc' = [pc EXCEPT ![r] = p]) /\ op' = op
  BY <1>1, <1>6 DEF Call, Refuse
<1>7. pc \in [Requests -> {"idle", "called", "run", "done", "refused", "failed"}]
  BY DEF Typed
<1>8. CASE UNCHANGED vars
  BY <1>1, <1>8 DEF vars
<1> QED BY <1>1, <1>3, <1>4, <1>5, <1>6, <1>7, <1>8, Steps

(* Links go on to lead where they did, and not in a circle, as long as no new  *)
(* ones are seen, and what they lead to does not go without them.              *)
Fewer == /\ \A l \in Names : Visible'[l].kind = "link" => Visible'[l] = Visible[l]
         /\ \A l \in Names : Visible'[l].kind = "link" /\ Visible'[l].target \in Names =>
              (Visible'[Visible'[l].target].kind = "absent" => Visible[Visible'[l].target].kind = "absent")

(* They still do neither after such a step. *)
LEMMA FewerFine == ASSUME NoneDangles, NoCircle, Fewer PROVE NoneDangles' /\ NoCircle'
<1>1. NoneDangles'
  BY DEF NoneDangles, Fewer
<1>2. NoCircle'
  <2> SUFFICES ASSUME NEW S \in SUBSET Names, S # {}
               PROVE  \E m \in S : Visible'[m].kind # "link" \/ Visible'[m].target \notin S
    BY DEF NoCircle
  <2>1. PICK m \in S : Visible[m].kind # "link" \/ Visible[m].target \notin S
    BY DEF NoCircle
  <2> QED BY <2>1 DEF Fewer
<1> QED BY <1>1, <1>2

(* A step by which clients see less is one of these. *)
LEMMA SpoilsFewer == ASSUME Spoils PROVE Fewer
<1>1. Unclear.kind = "unclear"
  BY DEF Unclear, Node
<1>2. \A l \in Names : Visible'[l] = Visible[l] \/ Visible'[l].kind = "unclear"
  BY <1>1 DEF Spoils
<1> QED BY <1>2 DEF Fewer

(* So is a step by which they see the same. *)
LEMMA SameFewer == ASSUME Visible' = Visible PROVE Fewer
  BY DEF Fewer

(* A link that is seen when its creation returns. *)
Linked(r) ==
  /\ Good(r) /\ op[r].do = "create" /\ op[r].kind = "link" /\ Wants(r, {op[r].to})
  /\ op[r].id \in Names /\ op[r].to \in Names \cup {Root}
  /\ Visible[op[r].id].kind = "absent"
  /\ Visible'[op[r].id].kind = "link" /\ Visible'[op[r].id].target = op[r].to
  /\ \A m \in Names : m # op[r].id => Visible'[m] = Visible[m]

(* It closes no circle, since nothing led to where it is. *)
LEMMA LinkedFine ==
  ASSUME NoneDangles, NoCircle, NEW r \in Requests, Linked(r), NewLeads(r) PROVE NoneDangles' /\ NoCircle'
<1>n. PICK n, to : n = op[r].id /\ to = op[r].to
  OBVIOUS
<1>1. /\ n \in Names /\ Visible[n].kind = "absent"
      /\ Visible'[n].kind = "link" /\ Visible'[n].target = to
      /\ to \in Names => Visible[to].kind # "absent"
      /\ \A m \in Names : m # n => Visible'[m] = Visible[m]
  BY <1>n DEF Linked, NewLeads
<1>2. \A l \in Names : Visible'[l].kind = "link" => Visible'[l].target # n
  <2> TAKE l \in Names
  <2>1. CASE l = n
    BY <1>1, <2>1
  <2>2. CASE l # n
    BY <1>1, <2>2 DEF NoneDangles
  <2> QED BY <2>1, <2>2
<1>3. NoneDangles'
  <2> SUFFICES ASSUME NEW l \in Names, Visible'[l].kind = "link", Visible'[l].target \in Names
               PROVE  Visible'[Visible'[l].target].kind # "absent"
    BY DEF NoneDangles
  <2>1. Visible[Visible'[l].target].kind # "absent"
    BY <1>1 DEF NoneDangles
  <2> QED BY <1>1, <2>1
<1>4. NoCircle'
  <2> SUFFICES ASSUME NEW S \in SUBSET Names, S # {}
               PROVE  \E m \in S : Visible'[m].kind # "link" \/ Visible'[m].target \notin S
    BY DEF NoCircle
  <2>1. CASE S \ {n} = {}
    <3>1. S = {n}
      BY <2>1
    <3> QED BY <1>2, <3>1
  <2>2. CASE S \ {n} # {}
    <3>1. PICK m \in S \ {n} : Visible[m].kind # "link" \/ Visible[m].target \notin S \ {n}
      <4>1. S \ {n} \in SUBSET Names
        OBVIOUS
      <4> QED BY <2>2, <4>1 DEF NoCircle
    <3>2. Visible'[m] = Visible[m]
      BY <1>1
    <3>3. Visible'[m].kind = "link" => Visible'[m].target # n
      BY <1>2
    <3> QED BY <3>1, <3>2, <3>3
  <2> QED BY <2>1, <2>2
<1> QED BY <1>3, <1>4

(* What clients see when a creation returns. *)
LEMMA NewChanges ==
  ASSUME SeenInv, Orderly', NEW r \in Requests, Return(r), Good(r), NewSeen(r)
  PROVE  Fewer \/ Linked(r)
<1>k. PICK n, kind, to : n = op[r].id /\ kind = op[r].kind /\ to = op[r].to
  OBVIOUS
<1>1. /\ op[r] \in Op /\ n \in Names /\ kind \in Kinds /\ to \in Names \cup {Root}
      /\ Items(todo[r]) = {} /\ SafeInv
  BY <1>k, OpsAssumption, ItemsSmall DEF SeenInv, SafeInv, Typed, Op, Return, NoName, Root
<1>2. PICK w \in RowsOf("nodes", n) : RowsOf("nodes", n) = {w} /\ w.kind = kind /\ w.by = r
  <2>1. NewAt(r)
    BY DEF NewSeen
  <2> QED BY <1>1, <1>k, <2>1 DEF NewAt
<1>3. n \in scope[r] /\ (kind = "link" => RowsOf("links", n) # {})
  <2>1. NewAt(r)
    BY DEF NewSeen
  <2> QED BY <1>1, <1>k, <2>1 DEF NewAt, Single, Subtree
<1>4. \A v \in RowsOf("links", n) : v.target = to
  BY <1>k DEF NewSeen
<1>5. kind = "link" => GetTarget(n) = to
  BY <1>3, <1>4 DEF GetTarget
<1>6. Visible'[n] = Node(kind, r, IF kind = "link" THEN to ELSE NoName)
  <2>1. Stored(n) = Node(kind, r, IF kind = "link" THEN GetTarget(n) ELSE NoName)
    BY <1>2 DEF Stored
  <2> QED BY <1>1, <1>3, <1>5, <2>1, GoodShows
<1>7. N!Create(n)
  BY <1>k, NewReturns
<1>8. Visible[n] = Absent /\ Visible' = [Visible EXCEPT ![n] = Visible'[n]]
  BY <1>7, NodesAre DEF N!Create
<1>9. \A m \in Names : m # n => Visible'[m] = Visible[m]
  <2>1. PICK x : x = Visible'[n]
    OBVIOUS
  <2>2. Visible' = [Visible EXCEPT ![n] = x]
    BY <1>8, <2>1
  <2>3. Visible = [m \in Names |-> Visible[m]]
    BY VisibleFun
  <2> QED BY <2>2, <2>3
<1>10. CASE kind = "link"
  <2>1. Visible[n].kind = "absent" /\ Visible'[n].kind = "link" /\ Visible'[n].target = to
    BY <1>6, <1>8, <1>10 DEF Absent, Node
  <2>2. Wants(r, {to})
    BY <1>10, <1>k DEF NewSeen, Wants
  <2> QED BY <1>1, <1>k, <1>9, <1>10, <2>1, <2>2 DEF Linked, NewSeen, NewAt
<1>11. CASE kind # "link"
  <2>1. Visible'[n].kind \notin {"link", "absent"}
    BY <1>1, <1>6, <1>11 DEF Node, Kinds
  <2> QED BY <1>9, <2>1 DEF Fewer
<1> QED BY <1>10, <1>11

(* Nothing changes where a node is changed in its place that is no link. *)
LEMMA OverChanges ==
  ASSUME SeenInv, Orderly', NEW r \in Requests, Return(r), Good(r), OverSeen(r), NewLeads(r)
  PROVE  Fewer
<1>1. PICK w, t :
        /\ w \in RowsOf("nodes", op[r].id)
        /\ before[r][op[r].id] = Node(w.kind, w.by, t) /\ w.kind = op[r].kind
  BY DEF OverSeen
<1>2. op[r].id \in scope[r] /\ op[r].do = "create"
  BY DEF OverSeen, OverAt
<1>3. before[r][op[r].id].kind = op[r].kind
  BY <1>1 DEF Node
<1>4. op[r].kind # "link"
  BY <1>2, <1>3 DEF NewLeads
<1>5. Visible[op[r].id].kind # "link"
  <2>1. SafeInv
    BY DEF SeenInv
  <2> QED BY <1>2, <1>3, <1>4, <2>1, GoodShows
<1>6. Visible' = Visible
  BY <1>5, OverReturns DEF N!Retarget
<1> QED BY <1>6, SameFewer

(* A deletion takes with it the links to what it deletes. *)
LEMMA DeleteFewer == ASSUME NEW n \in Names, N!Delete(n) PROVE Fewer
<1> DEFINE S == IF Visible[n].kind = "container" THEN N!Subtree(n) ELSE {n}
<1>1. PICK gone, goes :
        /\ gone = N!WithLinks(S, N!Target) /\ goes = [l \in Names |-> Visible[l].target]
  OBVIOUS
<1>2. Visible' = [m \in Names |-> IF m \in gone THEN N!Absent ELSE Visible[m]]
  BY <1>1 DEF N!Delete
<1>3. gone = Reach(S, goes)
  BY <1>1, Zenon DEF N!WithLinks, N!Target, Reach
<1>4. \A m \in Names : Visible'[m] = IF m \in gone THEN Absent ELSE Visible[m]
  BY <1>2, NodesAre
<1> HIDE DEF S
<1>5. \A l \in Names : goes[l] \in gone => l \in gone
  BY <1>3, LinksLeast
<1>6. \A l \in Names : Visible'[l].kind = "link" => l \notin gone /\ Visible'[l] = Visible[l]
  BY <1>4 DEF Absent, Node
<1>7. \A l \in Names : Visible'[l].kind = "link" => Visible'[l].target \notin gone
  BY <1>1, <1>5, <1>6
<1> QED BY <1>4, <1>6, <1>7 DEF Fewer

(* Nothing that is copied is a link. *)
LEMMA CopyFewer ==
  ASSUME SeenTyped, NEW f \in Names, NEW g \in Names, NEW r, N!Copy(f, g, r) PROVE Fewer
<1>1. \A m \in Subtree(f) : Visible[m].kind # "link"
  BY NodesAre DEF N!Copy, N!Whole
<1>2. Visible' = [m \in Names |->
       LET src == N!Renamed(m, g, f)
       IN IF m \in N!Subtree(g) /\ src \in Names /\ Visible[src] # N!Absent
            THEN [Visible[src] EXCEPT !.by = r] ELSE Visible[m]]
  BY DEF N!Copy
<1>3. ASSUME NEW m \in Names
      PROVE  \/ Visible'[m] = Visible[m]
             \/ \E k \in Subtree(f) : Visible[k] # Absent /\ Visible'[m] = [Visible[k] EXCEPT !.by = r]
  <2>1. PICK k : k = Renamed(m, g, f)
    OBVIOUS
  <2>2. Visible'[m] = IF m \in Subtree(g) /\ k \in Names /\ Visible[k] # Absent
                        THEN [Visible[k] EXCEPT !.by = r] ELSE Visible[m]
    BY <1>2, <2>1, NodesAre
  <2>3. m \in Subtree(g) /\ k \in Names => k \in Subtree(f)
    BY <2>1, Renaming
  <2> QED BY <2>2, <2>3
<1>4. ASSUME NEW k \in Subtree(f), Visible[k] # Absent
      PROVE  [Visible[k] EXCEPT !.by = r].kind \notin {"link", "absent"}
  <2>1. Visible[k] \in N!Listed \cup {Unclear}
    BY <1>4, Below DEF SeenTyped, Subtree
  <2>2. [Visible[k] EXCEPT !.by = r].kind = Visible[k].kind
    BY <2>1, NodesAre DEF Unclear, Node
  <2>3. Visible[k].kind # "absent"
    BY <2>1, NodesAre DEF Unclear, Node, Kinds
  <2> QED BY <1>1, <1>4, <2>2, <2>3
<1>5. \A m \in Names : Visible'[m] = Visible[m] \/ Visible'[m].kind \notin {"link", "absent"}
  BY <1>3, <1>4
<1> QED BY <1>5 DEF Fewer

(* What a request does not have in its scope looks the same when it ends. *)
LEMMA EndOutside ==
  ASSUME Typed, Orderly, Orderly', NEW r \in Requests, Ends(r), NEW n \in Names, n \notin scope[r]
  PROVE  Visible'[n] = Visible[n]
<1>1. n \in unclear' <=> n \in unclear
  BY EndShows
<1>2. CASE n \in unclear
  <2>1. Visible'[n] = Unclear
    BY <1>1, <1>2, EndShows
  <2> QED BY <1>2, <2>1, VisibleIs
<1>3. CASE n \notin unclear
  BY <1>1, <1>3, EndShows
<1> QED BY <1>2, <1>3

(* A deletion that sweeps where others were leaves no links to what it deletes. *)
LEMMA SweepFewer ==
  ASSUME SeenInv, Catching, Orderly', NEW r \in Requests, Return(r), r \in sweeps, ~Good(r)
  PROVE  Fewer
<1>1. SafeInv /\ Typed /\ Orderly
  BY DEF SeenInv, SafeInv
<1>2. PICK S : S = Subtree(op[r].id)
  OBVIOUS
<1>3. \A m \in Names : Visible'[m] = IF m \in S THEN Absent ELSE Visible[m]
  <2>1. N!Recover(op[r].id)
    BY <1>1, SweepRecovers
  <2> QED BY <1>2, <2>1, NodesAre DEF N!Recover
<1>4. \A l \in Names : Visible'[l].kind = "link" => l \notin S /\ Visible'[l] = Visible[l]
  BY <1>3 DEF Absent, Node
<1>5. scope[r] \subseteq unclear
  BY <1>1 DEF Good, Orderly, Sweepers
<1>6. \A l \in Names : l \in scope[r] => Visible[l].kind # "link"
  <2> TAKE l \in Names
  <2> HAVE l \in scope[r]
  <2>1. Visible[l] = Unclear
    BY <1>1, <1>5, VisibleIs
  <2> QED BY <2>1 DEF Unclear, Node
<1>7. \A l \in Names : Visible'[l].kind = "link" => Visible'[l].target \notin S
  BY <1>2, <1>4, <1>6 DEF Catching
<1> QED BY <1>3, <1>4, <1>7 DEF Fewer

(* What clients see when a request ends: fewer links, or one that it created. *)
LEMMA EndChanges ==
  ASSUME SeenInv, LinksFine, Orderly', NEW r \in Requests, Ends(r), ~LoopMade'
  PROVE  Fewer \/ Linked(r)
<1>1. SafeInv /\ Typed /\ Orderly /\ SeenTyped
  BY DEF SeenInv, SafeInv
<1>2. CASE Fail(r)
  BY <1>1, <1>2, FailSpoils, SpoilsFewer
<1>3. CASE Unmoved(r)
  <2>1. CASE Good(r)
    BY <1>3, <2>1, UnmovedSame, SameFewer
  <2>2. CASE ~Good(r)
    BY <1>1, <1>3, <2>2, BadSpoils, SpoilsFewer
  <2> QED BY <2>1, <2>2
<1>4. CASE Return(r) /\ ~Good(r)
  <2>1. CASE r \in sweeps
    BY <1>4, <2>1, SweepFewer DEF LinksFine
  <2>2. CASE r \notin sweeps
    BY <1>1, <1>4, <2>2, BadSpoils, SpoilsFewer
  <2> QED BY <2>1, <2>2
<1>5. CASE Return(r) /\ Good(r)
  <2>1. op[r].do # "move"
    <3>1. pc'[r] = "done" /\ op' = op
      BY <1>1, <1>5 DEF Return, Finished, Typed
    <3> QED BY <3>1 DEF LoopMade, LoopMaker
  <2>2. CASE NewSeen(r)
    BY <1>5, <2>2, NewChanges
  <2>3. CASE OverSeen(r)
    BY <1>5, <2>3, OverChanges DEF LinksFine
  <2>4. CASE DelSeen(r)
    BY <1>5, <2>4, DelReturns, DeleteFewer
  <2>5. ASSUME NEW f \in Names, NEW g \in Names, JobSeen(r, f, g) PROVE Fewer
    <3>1. CopyAfter(r, f, g) /\ CopySeen(r, f, g) /\ Wants(r, {Parent(g)})
      BY <1>5, <2>1, <2>5 DEF JobSeen, Return, CopyBefore, JobBefore
    <3> QED BY <1>1, <1>5, <3>1, CopyReturns, CopyFewer
  <2> QED BY <1>5, <2>2, <2>3, <2>4, <2>5 DEF SeenInv, SeenFine, SeenAt
<1> QED BY <1>2, <1>3, <1>4, <1>5 DEF Ends

(* And in any step. *)
LEMMA StepChanges ==
  ASSUME SeenInv, LinksFine, [Next]_vars, ~LoopMade'
  PROVE  Fewer \/ \E r \in Requests : Ends(r) /\ Linked(r)
<1>1. SafeInv /\ Typed /\ Orderly /\ Within
  BY DEF SeenInv, SafeInv
<1>2. Orderly'
  BY <1>1, SteadyStep
<1>3. ASSUME NEW r \in Requests, Works(r) PROVE Fewer
  BY <1>1, <1>2, <1>3, WorkSpoils, SpoilsFewer
<1>4. ASSUME NEW r \in Requests, Begin(r) PROVE Fewer
  BY <1>1, <1>2, <1>4, BeginSpoils, SpoilsFewer
<1>5. ASSUME NEW r \in Requests, Ends(r) PROVE Fewer \/ Linked(r)
  BY <1>2, <1>5, EndChanges
<1>6. ASSUME NEW r \in Requests, Call(r) \/ Refuse(r) PROVE Fewer
  BY <1>1, <1>2, <1>6, CallChanges, SameSeen, SameFewer
<1>7. CASE UNCHANGED vars
  BY <1>1, <1>2, <1>7, SameSeen, SameFewer DEF vars, store, aux, Running
<1> QED BY <1>3, <1>4, <1>5, <1>6, <1>7, Steps

(* Who creates what while a deletion sweeps has met it. *)
LEMMA SweptNotNeeded ==
  ASSUME Typed, Orderly, NEW r \in sweeps, NEW q \in Requests, Good(q), op[q].do # "delete", NEW n \in needs[q]
  PROVE  n \notin Subtree(op[r].id)
<1>1. pc[r] = "run" /\ op[r].do = "delete" /\ Subtree(op[r].id) \subseteq scope[r] /\ r \in Requests
  BY DEF Orderly, Sweepers, Typed
<1>2. r # q /\ r \in Running /\ q \in Running
  BY <1>1 DEF Good, Running
<1>3. ~Meeting(r, q)
  BY <1>2 DEF Orderly, Apart
<1> QED BY <1>1, <1>3 DEF Meeting

(* A good request goes on as it was, or has just begun. *)
LEMMA GoodGoes ==
  ASSUME SeenInv, [Next]_vars, NEW q \in Requests, Good(q)', ~Begin(q)
  PROVE  /\ Good(q) /\ op' = op /\ scope'[q] = scope[q] /\ needs'[q] = needs[q]
         /\ \A n \in scope[q] : before'[q][n] = before[q][n]
         /\ Works(q) \/ \A m \in scope[q] : SameAt(m)
<1>0. SafeInv /\ Typed /\ Orderly /\ Within /\ Hung
  BY DEF SeenInv, SafeInv
<1>1. CASE Works(q)
  BY <1>0, <1>1, GoodWorks, WorkFacts, OwnBefore DEF Good
<1>2. ASSUME NEW r \in Requests, Works(r), r # q
      PROVE  /\ Good(q) /\ op' = op /\ scope'[q] = scope[q] /\ needs'[q] = needs[q]
             /\ before'[q] = before[q] /\ \A m \in scope[q] : SameAt(m)
  <2>1. /\ r \in Running /\ pc' = pc /\ op' = op /\ needs' = needs
        /\ todo'[q] = todo[q] /\ found'[q] = found[q] /\ scope'[q] = scope[q]
    BY <1>0, <1>2, WorkFacts DEF Running
  <2>2. unclear \subseteq unclear'
    <3>1. PICK late, spoilt : Alters(r, late, spoilt)
      BY <1>0, <1>2, WorkFacts
    <3> QED BY <3>1 DEF Alters
  <2>3. Good(q) /\ q \in Running
    BY <2>1, <2>2 DEF Good, Running
  <2>4. scope[q] \cap scope[r] = {} /\ scope[q] \cap unclear = {} /\ scope[q] \subseteq Names
    BY <1>0, <1>2, <2>1, <2>3 DEF Orderly, Whole, Apart, Meeting, Good, Typed, scope
  <2>5. \A m \in scope[q] : m \in Names /\ SameAt(m)
    BY <1>0, <1>2, <2>4, Elsewhere
  <2>6. before'[q] = before[q]
    BY <1>0, <1>2 DEF Works, Execute, Lose, SelectLinks, FindChildren, ReadChild, MakeFile, MoveFiles, CopyFiles,
              RemoveFiles, aux, Typed
  <2> QED BY <2>1, <2>3, <2>5, <2>6
<1>3. ASSUME NEW r \in Requests, Begin(r) \/ Ends(r), r # q
      PROVE  /\ Good(q) /\ op' = op /\ scope'[q] = scope[q] /\ needs'[q] = needs[q]
             /\ before'[q] = before[q] /\ \A m \in scope[q] : SameAt(m)
  <2>1. /\ rows' = rows /\ file' = file /\ op' = op
        /\ pc'[q] = pc[q] /\ scope'[q] = scope[q]
    <3>1. CASE Begin(r)
      BY <1>0, <1>3, <3>1, BeginFacts
    <3>2. CASE Ends(r)
      BY <1>0, <1>3, <3>2, EndFacts
    <3> QED BY <1>3, <3>1, <3>2
  <2>2. before'[q] = before[q] /\ needs'[q] = needs[q]
    BY <1>0, <1>3 DEF Begin, Ends, Return, Unmoved, Fail, Finished, Typed
  <2>3. Good(q)
    <3>1. CASE Begin(r)
      <4>1. unclear \subseteq unclear'
        BY <1>0, <3>1, BeginMeets
      <4> QED BY <2>1, <4>1 DEF Good
    <3>2. CASE Ends(r)
      <4>1. \/ unclear \subseteq unclear'
            \/ r \in sweeps /\ unclear' = unclear \ Subtree(op[r].id)
        BY <1>0, <3>2, EndFacts
      <4>2. r \in sweeps => scope[q] \cap Subtree(op[r].id) = {}
        <5>1. pc[q] = "run" /\ pc[r] = "run"
          BY <1>0, <2>1, <3>2, EndFacts DEF Good
        <5>2. r \in sweeps => scope[q] \cap scope[r] = {}
          BY <1>0, <1>3, <5>1 DEF Orderly, Apart, Meeting, Running
        <5> QED BY <1>0, <5>2, SweptNames
      <4> QED BY <2>1, <4>1, <4>2 DEF Good
    <3> QED BY <1>3, <3>1, <3>2
  <2>4. \A m : SameAt(m)
    BY <1>0, <2>1, AllStays
  <2> QED BY <2>1, <2>2, <2>3, <2>4
<1>4. ~Ends(q)
  BY <1>0, EndFacts DEF Good
<1>5. ASSUME UNCHANGED <<rows, file, op, before, needs, unclear>>, pc'[q] = "run" <=> pc[q] = "run"
      PROVE  /\ Good(q) /\ op' = op /\ scope'[q] = scope[q] /\ needs'[q] = needs[q]
             /\ before'[q] = before[q] /\ \A m \in scope[q] : SameAt(m)
  <2>1. scope' = scope
    BY <1>5 DEF scope
  <2> QED BY <1>0, <1>5, <2>1, AllStays DEF Good
<1>6. ASSUME NEW r \in Requests, Call(r) \/ Refuse(r)
      PROVE  UNCHANGED <<rows, file, op, before, needs, unclear>> /\ (pc'[q] = "run" <=> pc[q] = "run")
  BY <1>0, <1>6, CallChanges
<1>7. CASE UNCHANGED vars
  BY <1>5, <1>7 DEF vars, store, aux
<1> QED BY <1>1, <1>2, <1>3, <1>4, <1>5, <1>6, <1>7, Steps

(* What a new link is going to lead to must stay. *)
LEMMA NewNeeds ==
  ASSUME NEW q, SeenAt(q), NewLeads(q), op[q].do = "create", op[q].kind = "link"
  PROVE  NewSeen(q) /\ op[q].id \in scope[q] /\ op[q].to \in needs[q] \cup {Root}
<1>1. ~DelSeen(q) /\ ~(\E f, g \in Names : JobSeen(q, f, g))
  BY DEF DelSeen, DelAt, JobSeen
<1>2. ~OverSeen(q)
  <2> SUFFICES ASSUME OverSeen(q) PROVE FALSE
    OBVIOUS
  <2>1. before[q][op[q].id].kind = "link"
    BY DEF OverSeen, Node
  <2> QED BY <2>1 DEF NewLeads
<1>3. NewSeen(q)
  BY <1>1, <1>2 DEF SeenAt
<1> QED BY <1>3 DEF NewSeen, NewAt, Wants, Subtree

(* What good requests need is what others leave alone. *)
LEMMA NeededStays ==
  ASSUME SeenInv, Orderly', [Next]_vars, NEW q \in Requests, Good(q), Good(q)', NEW n \in Names, n \in needs[q]
  PROVE  Visible'[n] \in {Visible[n], Unclear}
<1>0. SafeInv /\ Typed /\ Orderly /\ Within
  BY DEF SeenInv, SafeInv
<1>1. ASSUME NEW r \in Requests, Works(r) \/ Begin(r) PROVE Visible'[n] \in {Visible[n], Unclear}
  BY <1>0, <1>1, WorkSpoils, BeginSpoils DEF Spoils
<1>2. ASSUME NEW r \in Requests, Ends(r) PROVE Visible'[n] = Visible[n]
  <2>1. r # q /\ r \in Running /\ q \in Running
    BY <1>0, <1>2, EndFacts DEF Good, Running
  <2>2. ~Meeting(q, r)
    BY <1>0, <2>1 DEF Good, Orderly, Apart
  <2>3. n \notin scope[r]
    BY <2>2 DEF Meeting
  <2> QED BY <1>0, <1>2, <2>3, EndOutside
<1>3. ASSUME NEW r \in Requests, Call(r) \/ Refuse(r) PROVE Visible' = Visible
  BY <1>0, <1>3, CallChanges, SameSeen
<1>4. CASE UNCHANGED vars
  BY <1>0, <1>4, SameSeen DEF vars, store, aux, Running
<1> QED BY <1>1, <1>2, <1>3, <1>4, Steps

(* A new link that goes on to be created is still going to lead somewhere, ... *)
LEMMA NewLeadsOn ==
  ASSUME SeenInv, Orderly', [Next]_vars, NEW q \in Requests, Good(q)', ~Begin(q), NewLeads(q)
  PROVE  NewLeads(q)'
<1>1. /\ Good(q) /\ op' = op
      /\ \A n \in scope[q] : before'[q][n] = before[q][n]
  BY GoodGoes
<1>2. SUFFICES ASSUME op[q].do = "create", op[q].kind = "link"
               PROVE  /\ before'[q][op[q].id].kind = "absent"
                      /\ op[q].to \in Names => Visible'[op[q].to].kind # "absent"
  BY <1>1 DEF NewLeads
<1>3. op[q].id \in scope[q] /\ op[q].to \in needs[q] \cup {Root}
  BY <1>1, <1>2, NewNeeds DEF SeenInv, SeenFine
<1>4. before'[q][op[q].id].kind = "absent"
  BY <1>1, <1>2, <1>3 DEF NewLeads
<1>5. ASSUME op[q].to \in Names PROVE Visible'[op[q].to].kind # "absent"
  <2>1. Visible[op[q].to].kind # "absent"
    BY <1>2, <1>5 DEF NewLeads
  <2>2. op[q].to \in needs[q]
    BY <1>3, <1>5, Below
  <2>3. Visible'[op[q].to] \in {Visible[op[q].to], Unclear}
    BY <1>1, <1>5, <2>2, NeededStays
  <2> QED BY <2>1, <2>3 DEF Unclear, Node
<1> QED BY <1>4, <1>5

(* ... and one that begins is, too. *)
LEMMA NewLeadsBegins ==
  ASSUME SeenInv, Orderly', NEW q \in Requests, Begin(q), Good(q)', ~LoopMade'
  PROVE  NewLeads(q)'
<1>0. SafeInv /\ Typed /\ Orderly /\ Within
  BY DEF SeenInv, SafeInv
<1>1. op' = op /\ pc'[q] = "run" /\ op[q] \in Op
  BY <1>0, BeginFacts
<1>2. SUFFICES ASSUME op[q].do = "create", op[q].kind = "link"
               PROVE  /\ before'[q][op[q].id].kind = "absent"
                      /\ op[q].to \in Names => Visible'[op[q].to].kind # "absent"
  BY <1>1 DEF NewLeads
<1>3. CreateAllowed(op[q])
  BY <1>2 DEF Begin, Allowed
<1>4. ~IsStored(op[q].id)
  <2>1. ~LoopMaker(op[q])
    BY <1>1 DEF LoopMade, LoopMaker
  <2> QED BY <1>2, <1>3, <2>1 DEF LoopMaker, CreateAllowed
<1>5. before'[q][op[q].id].kind = "absent"
  <2>1. NewSeen(q)'
    BY <1>2, <1>4, SeenNewBegins
  <2>2. \A m \in scope'[q] : before'[q][m] = Absent
    BY <2>1 DEF NewSeen, Absent, Node, NoName
  <2>3. op[q].id \in scope'[q]
    BY <1>1, <2>1 DEF NewSeen, NewAt, Subtree
  <2> QED BY <2>2, <2>3 DEF Absent, Node
<1>6. ASSUME op[q].to \in Names PROVE Visible'[op[q].to].kind # "absent"
  <2>t. PICK to : to = op[q].to
    OBVIOUS
  <2>1. to \in Needs(op[q]) /\ IsStored(to) /\ to # Root
    BY <1>2, <1>3, <1>6, <2>t, Below DEF Needs, CreateAllowed
  <2>2. to \notin unclear /\ to \notin Busy
    <3>1. ~(Scope(op[q]) \subseteq unclear')
      BY <1>0, BeginFacts DEF Good
    <3> QED BY <1>0, <2>1, <3>1, BeginMeets
  <2>3. Visible[to] = Stored(to)
    BY <1>0, <1>6, <2>2, <2>t, VisibleIs
  <2>4. Stored(to).kind # "absent"
    <3>1. PICK w \in RowsOf("nodes", to) : Stored(to).kind = w.kind
      <4>1. RowsOf("nodes", to) # {}
        BY <2>1 DEF IsStored
      <4>2. PICK w : w \in RowsOf("nodes", to) /\ w = CHOOSE v \in RowsOf("nodes", to) : TRUE
        BY <4>1
      <4> QED BY <4>1, <4>2 DEF Stored, Node
    <3>2. w.kind \in RowKinds
      BY <1>0 DEF Typed, RowsOf, Rows
    <3> QED BY <3>1, <3>2 DEF RowKinds, Kinds
  <2>5. Visible'[to] \in {Visible[to], Unclear}
    BY <1>0, <1>6, <2>t, BeginSpoils DEF Spoils
  <2> QED BY <2>t, <2>3, <2>4, <2>5 DEF Unclear, Node
<1> QED BY <1>5, <1>6

(* A deletion that sweeps goes on as it was, or has just begun. *)
LEMMA SweepGoes ==
  ASSUME SeenInv, [Next]_vars, NEW r \in sweeps', ~Begin(r)
  PROVE  r \in sweeps /\ op' = op /\ scope[r] \subseteq scope'[r]
<1>0. SafeInv /\ Typed /\ Orderly /\ Within
  BY DEF SeenInv, SafeInv
<1>1. ASSUME NEW q \in Requests, Works(q)
      PROVE  r \in sweeps /\ op' = op /\ scope[r] \subseteq scope'[r]
  <2>1. PICK late, spoilt : Alters(q, late, spoilt)
    BY <1>0, <1>1, WorkFacts
  <2>2. sweeps' \subseteq sweeps /\ scope[q] \subseteq scope'[q]
    BY <2>1 DEF Alters
  <2>3. op' = op /\ \A p \in Requests : p # q => scope'[p] = scope[p]
    BY <1>0, <1>1, WorkFacts
  <2>4. r \in Requests
    BY <1>0, <2>2 DEF Typed
  <2> QED BY <2>2, <2>3, <2>4
<1>2. ASSUME NEW q \in Requests, Begin(q), q # r
      PROVE  r \in sweeps /\ op' = op /\ scope[r] \subseteq scope'[r]
  <2>1. sweeps' \subseteq sweeps \cup {q}
    BY <1>2 DEF Begin
  <2>2. r \in sweeps /\ r \in Requests
    BY <1>0, <1>2, <2>1 DEF Typed
  <2> QED BY <1>0, <1>2, <2>2, BeginFacts
<1>3. ASSUME NEW q \in Requests, Ends(q)
      PROVE  r \in sweeps /\ op' = op /\ scope[r] \subseteq scope'[r]
  <2>1. sweeps' = sweeps \ {q} /\ op' = op /\ \A p \in Requests : p # q => scope'[p] = scope[p]
    BY <1>0, <1>3, EndFacts
  <2>2. r \in sweeps /\ r \in Requests /\ r # q
    BY <1>0, <2>1 DEF Typed
  <2> QED BY <2>1, <2>2
<1>4. ASSUME UNCHANGED <<op, before, sweeps>>
      PROVE  r \in sweeps /\ op' = op /\ scope[r] \subseteq scope'[r]
  <2>1. scope' = scope
    BY <1>4 DEF scope
  <2> QED BY <1>4, <2>1
<1>5. ASSUME NEW q \in Requests, Call(q) \/ Refuse(q) PROVE UNCHANGED <<op, before, sweeps>>
  BY <1>0, <1>5, CallChanges
<1>6. CASE UNCHANGED vars
  BY <1>4, <1>6 DEF vars, aux
<1> QED BY <1>1, <1>2, <1>3, <1>4, <1>5, <1>6, Steps

(* The links that are seen to lead to what is going to be swept are swept. *)
LEMMA SweepCatches ==
  ASSUME SeenInv, Orderly', NEW r \in Requests, Begin(r), r \in sweeps', NEW l \in Names,
         Visible'[l].kind = "link", Visible'[l].target \in Subtree(op[r].id)
  PROVE  l \in scope'[r]
<1>0. SafeInv /\ Typed /\ Orderly /\ Within
  BY DEF SeenInv, SafeInv
<1>1. r \notin sweeps
  BY <1>0 DEF Orderly, Sweepers, Begin
<1>2. op[r].do = "delete" /\ "container" \in GetTypes(From(op[r]))
  BY <1>1 DEF Begin
<1>3. ToNull(op[r]) /\ From(op[r]) = op[r].id /\ Deleted(op[r]) = Subtree(op[r].id)
  BY <1>2 DEF ToNull, From, Deleted
<1>4. Visible[l].target \in Subtree(op[r].id)
  BY <1>0, BeginSpoils DEF Spoils, Unclear, Node
<1>5. PICK S, goes : S = Deleted(op[r]) /\ goes = [n \in Names |-> Visible[n].target]
  OBVIOUS
<1>6. WithLinks(S, SeenTarget) = Reach(S, goes)
  BY <1>5, Zenon DEF WithLinks, SeenTarget, Reach
<1>7. l \in Reach(S, goes)
  BY <1>3, <1>4, <1>5, LinksLeast
<1>8. scope'[r] = Scope(op[r]) /\ l \in WithLinks(Deleted(op[r]), SeenTarget)
  BY <1>0, <1>5, <1>6, <1>7, BeginFacts
<1>9. l \in Scope(op[r])
  BY <1>2, <1>3, <1>8 DEF Scope, Subtree
<1> QED BY <1>8, <1>9

(* Deletions that sweep go on to take the links to what they delete with them. *)
LEMMA CatchingStep ==
  ASSUME SeenInv, LinksFine, Orderly', [Next]_vars, ~LoopMade'
  PROVE  Catching'
<1>0. SafeInv /\ Typed /\ Orderly /\ Within
  BY DEF SeenInv, SafeInv
<1>t. sweeps' \subseteq Requests
  BY <1>0, TypedStep DEF Typed
<1>1. ASSUME NEW r \in sweeps', NEW l \in Names, Visible'[l].kind = "link", Visible'[l].target \in Subtree(op'[r].id)
      PROVE  l \in scope'[r]
  <2>1. CASE Begin(r)
    <3>1. op' = op /\ r \in Requests
      BY <1>t, <2>1 DEF Begin
    <3> QED BY <1>1, <2>1, <3>1, SweepCatches
  <2>2. CASE ~Begin(r)
    <3>1. r \in sweeps /\ op' = op /\ scope[r] \subseteq scope'[r]
      BY <2>2, SweepGoes
    <3>2. CASE Visible'[l] = Visible[l]
      BY <1>1, <3>1, <3>2 DEF LinksFine, Catching
    <3>3. ASSUME NEW q \in Requests, Linked(q), l = op[q].id PROVE FALSE
      <4>1. op[q].to \in Subtree(op[r].id)
        BY <1>1, <3>1, <3>3 DEF Linked
      <4>2. op[q].to \in Names
        BY <1>0, <3>1, <4>1, SweptNames
      <4>3. op[q].to \in needs[q]
        BY <3>3, <4>2, Below DEF Linked, Wants
      <4>4. Good(q) /\ op[q].do # "delete"
        BY <3>3 DEF Linked
      <4> QED BY <1>0, <3>1, <4>1, <4>3, <4>4, SweptNotNeeded
    <3>4. CASE Fewer
      BY <1>1, <3>2, <3>4 DEF Fewer
    <3>5. ASSUME NEW q \in Requests, Linked(q) PROVE l \in scope'[r]
      BY <3>2, <3>3, <3>5 DEF Linked
    <3> QED BY <3>4, <3>5, StepChanges
  <2> QED BY <2>1, <2>2
<1>2. ASSUME NEW r PROVE Subtree(op[r].id)' = Subtree(op'[r].id)
  BY DEF Subtree, Under
<1> QED BY <1>1, <1>2 DEF Catching

(* A deletion leaves fewer and fewer rows. *)
LEMMA DelShrinks ==
  ASSUME Typed, NEW r \in Requests, Works(r), DelAt(r)
  PROVE  \A t, n : RowsOf(t, n)' \subseteq RowsOf(t, n)
<1>1. todo[r] # <<>> /\ todo[r] \in Seq(Stmt) /\ Followed(todo[r])
  BY WorkFacts DEF Typed, DelAt
<1>s. PICK s : s = Head1(r)
  OBVIOUS
<1>2. s.do \in {"delete", "select", "removebytes"}
  BY <1>1, <1>s, ItemsTail DEF Head1
<1>3. CASE s.do = "delete"
  <2>1. Execute(r) \/ Lose(r)
    BY <1>3, <1>s, FirstFirst DEF Writes
  <2>2. \A t, n : RowsNext(s, r, t, n) \subseteq RowsOf(t, n)
    BY <1>3, DeleteDoes
  <2>3. \/ \A t, n : RowsOf(t, n)' = RowsNext(s, r, t, n)
        \/ \A t, n : RowsOf(t, n)' = RowsOf(t, n)
    BY <1>s, <2>1, ExecuteDoes
  <2> QED BY <2>2, <2>3
<1>4. CASE s.do # "delete"
  <2>1. SelectLinks(r) \/ RemoveFiles(r)
    BY <1>2, <1>4, <1>s, FirstFirst
  <2>2. rows' = rows
    BY <2>1 DEF SelectLinks, RemoveFiles, store
  <2> QED BY <2>2 DEF RowsOf
<1> QED BY <1>3, <1>4

(* So what is left of the rows of what is deleted is as it was, ... *)
LEMMA LeavesOn ==
  ASSUME SeenInv, [Next]_vars, NEW q \in Requests, Good(q)', ~Begin(q), Leaves(q)
  PROVE  Leaves(q)'
<1>0. Typed
  BY DEF SeenInv, SafeInv
<1>1. /\ Good(q) /\ op' = op /\ scope'[q] = scope[q]
      /\ \A n \in scope[q] : before'[q][n] = before[q][n]
      /\ Works(q) \/ \A m \in scope[q] : SameAt(m)
  BY GoodGoes
<1>2. SUFFICES ASSUME op[q].do # "create", ToNull(op[q])
               PROVE  \A l \in scope[q] :
                 /\ \A w \in RowsOf("nodes", l)' : before'[q][l].kind = w.kind
                 /\ \A v \in RowsOf("links", l)' : before'[q][l].target = v.target
                 /\ \A p \in scope[q] : l \in Under(p) /\ before'[q][l].kind # "absent" => before'[q][p].kind # "link"
  <2>1. ToNull(op[q])' <=> ToNull(op[q])
    BY <1>1 DEF ToNull
  <2>2. \A p : Under(p)' = Under(p)
    BY DEF Under
  <2> QED BY <1>1, <2>1, <2>2 DEF Leaves
<1>3. \A l \in scope[q] : \A t : RowsOf(t, l)' \subseteq RowsOf(t, l)
  <2>1. CASE Works(q)
    <3>1. DelAt(q)
      BY <1>1, <1>2 DEF SeenInv, SeenFine, SeenAt, NewSeen, NewAt, OverSeen, OverAt, DelSeen, JobSeen
    <3> QED BY <1>0, <2>1, <3>1, DelShrinks
  <2> QED BY <1>1, <2>1 DEF SameAt
<1> QED BY <1>1, <1>2, <1>3 DEF Leaves

(* ... as it is when it begins. *)
LEMMA LeavesBegins ==
  ASSUME SeenInv, NEW q \in Requests, Begin(q), Good(q)'
  PROVE  Leaves(q)'
<1>0. Typed
  BY DEF SeenInv, SafeInv
<1>1. /\ scope'[q] \subseteq Names
      /\ \A n \in scope'[q] : before'[q][n] = Stored(n) /\ Fine(n) /\ Holds(n)
      /\ \A t, n : RowsOf(t, n)' = RowsOf(t, n)
  BY BeginSees
<1>2. ASSUME NEW l \in scope'[q], NEW w \in RowsOf("nodes", l)
      PROVE  Stored(l).kind = w.kind
  <2>1. Sound(l)
    BY <1>1 DEF Fine, Something, Tabs
  <2>2. RowsOf("nodes", l) = {w}
    BY <2>1 DEF Sound
  <2> QED BY <2>2 DEF Stored, Node
<1>3. ASSUME NEW l \in scope'[q], NEW v \in RowsOf("links", l)
      PROVE  Stored(l).target = v.target
  <2>1. Sound(l)
    BY <1>1 DEF Fine, Something, Tabs
  <2>2. RowsOf("links", l) = {v}
    BY <2>1 DEF Sound, Single
  <2>3. LinkRow(l) = v.target
    BY <2>2 DEF LinkRow, GetTarget
  <2> QED BY <1>0, <1>1, <2>3, LinkStored
<1>4. ASSUME NEW l \in scope'[q], NEW p \in scope'[q], l \in Under(p), Stored(l).kind # "absent"
      PROVE  Stored(p).kind # "link"
  <2>1. RowsOf("nodes", l) # {}
    BY <1>4 DEF Stored, Absent, Node
  <2>2. Cont(p)
    BY <1>1, <1>4, <2>1 DEF Holds, Something, Tabs
  <2>3. p # Root
    BY <1>1, Below
  <2>4. PICK w : w \in RowsOf("nodes", p) /\ w.kind = "container"
    BY <2>2, <2>3 DEF Cont, GetTypes
  <2> QED BY <1>2, <2>4
<1>5. \A p : Under(p)' = Under(p)
  BY DEF Under
<1> QED BY <1>1, <1>2, <1>3, <1>4, <1>5 DEF Leaves

(* Every step keeps links as they should be. *)
LEMMA LinksStep == ASSUME LinksInv, [Next]_vars PROVE LinksInv'
<1>1. SeenInv /\ SeenInv' /\ Typed /\ Orderly'
  <2>1. SeenInv'
    BY SeenStep DEF LinksInv
  <2> QED BY <2>1 DEF LinksInv, SeenInv, SafeInv
<1>2. CASE LoopMade
  BY <1>1, <1>2, LoopStays DEF LinksInv
<1>3. SUFFICES ASSUME LinksFine, ~LoopMade' PROVE LinksFine'
  BY <1>1, <1>2 DEF LinksInv
<1>4. NoneDangles' /\ NoCircle'
  <2>1. CASE Fewer
    BY <1>3, <2>1, FewerFine DEF LinksFine
  <2>2. ASSUME NEW r \in Requests, Linked(r) PROVE NoneDangles' /\ NoCircle'
    <3>1. NewLeads(r)
      BY <1>3, <2>2 DEF LinksFine, Linked
    <3> QED BY <1>3, <2>2, <3>1, LinkedFine DEF LinksFine
  <2> QED BY <1>1, <1>3, <2>1, <2>2, StepChanges
<1>5. Catching'
  BY <1>1, <1>3, CatchingStep
<1>6. ASSUME NEW q \in Requests, Good(q)' PROVE NewLeads(q)' /\ Leaves(q)'
  <2>1. CASE Begin(q)
    BY <1>1, <1>3, <1>6, <2>1, NewLeadsBegins, LeavesBegins
  <2>2. CASE ~Begin(q)
    <3>1. Good(q)
      BY <1>1, <1>6, <2>2, GoodGoes
    <3>2. NewLeads(q) /\ Leaves(q)
      BY <1>3, <3>1 DEF LinksFine
    <3> QED BY <1>1, <1>6, <2>2, <3>2, NewLeadsOn, LeavesOn
  <2> QED BY <2>1, <2>2
<1> QED BY <1>4, <1>5, <1>6 DEF LinksFine

(* What clients see at first are the nodes that are there. *)
LEMMA FirstSeen ==
  ASSUME Init, NEW E \in Existing, AtFirst(E)
  PROVE  /\ \A x \in E : Visible[x.id].kind = x.kind /\ (x.kind = "link" => Visible[x.id].target = x.target)
         /\ \A l \in Names : Visible[l].kind = "link" => \E x \in E : x.id = l /\ x.kind = "link"
<1>1. /\ E \subseteq [id : Names, kind : Kinds, target : Names \cup {NoName}]
      /\ \A x, y \in E : x.id = y.id => x = y
  BY ExistingAssumption
<1>2. \A n \in Names : Visible[n] = Stored(n)
  <2>1. Orderly /\ unclear = {} /\ Busy = {}
    BY SafeInit DEF SafeInv, Init, Busy, Running
  <2> QED BY <2>1, VisibleIs
<1>3. ASSUME NEW x \in E
      PROVE  Visible[x.id].kind = x.kind /\ (x.kind = "link" => Visible[x.id].target = x.target)
  <2>n. PICK n : n = x.id
    OBVIOUS
  <2>0. n \in Names
    BY <1>1, <2>n
  <2>r. PICK a, b, c, d : RowsAre(x, a, b, c, d)
    BY RowsForAre, Zenon
  <2>1. /\ a.t = "nodes" /\ a.id = n /\ a.kind = x.kind
        /\ c.t = "links" /\ c.id = n /\ c.target = x.target
    BY <2>n, <2>r DEF Row, RowsAre
  <2>2. a \in RowsOf("nodes", n) /\ (x.kind = "link" => c \in RowsOf("links", n))
    BY <2>1, <2>r DEF AtFirst, RowsAre, RowsOf
  <2>3. Sound(n)
    BY <2>0, <2>n, FirstFine
  <2>4. RowsOf("nodes", n) = {a} /\ (x.kind = "link" => RowsOf("links", n) = {c})
    BY <2>1, <2>2, <2>3 DEF Sound, Single
  <2>5. Stored(n) = Node(a.kind, a.by, IF a.kind = "link" THEN GetTarget(n) ELSE NoName)
    BY <2>4 DEF Stored
  <2>6. x.kind = "link" => GetTarget(n) = x.target
    BY <2>1, <2>4 DEF GetTarget
  <2> QED BY <1>2, <2>0, <2>1, <2>5, <2>6, <2>n DEF Node
<1>4. ASSUME NEW l \in Names, Visible[l].kind = "link" PROVE \E x \in E : x.id = l /\ x.kind = "link"
  <2>1. Stored(l).kind = "link"
    BY <1>2, <1>4
  <2>2. RowsOf("nodes", l) # {}
    BY <2>1 DEF Stored, Absent, Node
  <2>3. PICK x \in E : x.id = l
    BY <2>2, FirstFine DEF Something, Tabs
  <2> QED BY <1>3, <1>4, <2>3
<1> QED BY <1>3, <1>4

(* Links are as they should be at first. *)
LEMMA LinksFirst == Init => LinksInv
<1> SUFFICES ASSUME Init PROVE LinksInv
  OBVIOUS
<1>1. PICK E \in Existing : AtFirst(E)
  BY DEF Init, AtFirst
<1>2. /\ E \subseteq [id : Names, kind : Kinds, target : Names \cup {NoName}]
      /\ \A x, y \in E : x.id = y.id => x = y
  BY ExistingAssumption
<1>L. PICK L : L = {x \in E : x.kind = "link"}
  OBVIOUS
<1>3. /\ \A x \in L : x.target = Root \/ \E y \in E : y.id = x.target
      /\ \A S \in SUBSET L : S # {} => \E x \in S : \A y \in S : y.id # x.target
  BY <1>L, LinksAssumption
<1>4. /\ \A x \in E : Visible[x.id].kind = x.kind /\ (x.kind = "link" => Visible[x.id].target = x.target)
      /\ \A l \in Names : Visible[l].kind = "link" => \E x \in E : x.id = l /\ x.kind = "link"
  BY <1>1, FirstSeen
<1>5. NoneDangles
  <2> SUFFICES ASSUME NEW l \in Names, Visible[l].kind = "link", Visible[l].target \in Names
               PROVE  Visible[Visible[l].target].kind # "absent"
    BY DEF NoneDangles
  <2>1. PICK x \in E : x.id = l /\ x.kind = "link"
    BY <1>4
  <2>2. x.target \in Names /\ x \in L /\ Visible[l].target = x.target
    BY <1>4, <1>L, <2>1
  <2>3. PICK y \in E : y.id = x.target
    BY <1>3, <2>2, Below
  <2>4. Visible[x.target].kind = y.kind /\ y.kind \in Kinds
    BY <1>2, <1>4, <2>3
  <2> QED BY <2>2, <2>4 DEF Kinds
<1>6. NoCircle
  <2> SUFFICES ASSUME NEW S \in SUBSET Names, S # {}, \A m \in S : Visible[m].kind = "link"
               PROVE  \E m \in S : Visible[m].target \notin S
    BY DEF NoCircle
  <2>T. PICK T : T = {x \in L : x.id \in S}
    OBVIOUS
  <2>1. \A m \in S : \E x \in T : x.id = m
    BY <1>4, <1>L, <2>T
  <2>2. PICK x \in T : \A y \in T : y.id # x.target
    <3>1. T # {} /\ T \in SUBSET L
      BY <2>1, <2>T
    <3> QED BY <1>3, <3>1
  <2>3. x.id \in S /\ Visible[x.id].target = x.target
    BY <1>4, <1>L, <2>T
  <2>4. x.target \notin S
    BY <2>1, <2>2
  <2> QED BY <2>3, <2>4
<1>7. Catching /\ \A r \in Requests : ~Good(r)
  BY DEF Init, Catching, Good
<1> QED BY <1>5, <1>6, <1>7, SeenFirst DEF LinksInv, LinksFine

(* So they are always, unless somebody has made a loop. *)
LEMMA LinksInvariant == Spec => []LinksInv
<1>1. Init => LinksInv
  BY LinksFirst
<1>2. LinksInv /\ [Next]_vars => LinksInv'
  BY LinksStep
<1> QED BY <1>1, <1>2, PTL DEF Spec

(* What is a link has a row that says so. *)
LEMMA LinkHasRow ==
  ASSUME Typed, NEW l
  PROVE  IsLink(l) <=> l # Root /\ RowsOf("nodes", l) # {} /\ GetType(l) = "link"
<1>1. IsLink(l) => l # Root
  BY DEF IsLink, GetType, GetTypes
<1>2. IsLink(l) => GetTypes(l) # {}
  BY DEF IsLink, GetType
<1> QED BY <1>1, <1>2 DEF IsLink, GetTypes

(* It is a name, and one of its rows is of that kind. *)
LEMMA LinkIs ==
  ASSUME Typed, NEW l, IsLink(l)
  PROVE  l \in Names /\ IsStored(l) /\ \E w \in RowsOf("nodes", l) : w.kind = "link"
<1>1. l # Root /\ RowsOf("nodes", l) # {}
  BY LinkHasRow
<1>2. GetType(l) \in GetTypes(l)
  BY <1>1 DEF GetType, GetTypes
<1>3. \E w \in RowsOf("nodes", l) : w.kind = "link"
  BY <1>1, <1>2 DEF IsLink, GetTypes
<1> QED BY <1>3 DEF Typed, Rows, RowsOf, IsStored

(* The target of a link is one that a row of it has. *)
LEMMA TargetIs ==
  ASSUME Typed, NEW l
  PROVE  GetTarget(l) = NoTarget \/ \E v \in RowsOf("links", l) : v.target = GetTarget(l) /\ v.target \in Targets
<1> SUFFICES ASSUME RowsOf("links", l) # {}
             PROVE  \E v \in RowsOf("links", l) : v.target = GetTarget(l) /\ v.target \in Targets
  BY DEF GetTarget
<1>1. GetTarget(l) \in {v.target : v \in RowsOf("links", l)}
  BY DEF GetTarget
<1> QED BY <1>1 DEF Typed, Rows, RowsOf

(* A good copy has no links among its names. *)
LEMMA CopyUnlinked ==
  ASSUME NEW r, NEW f \in Names, NEW g \in Names, CopyBefore(r, f, g) \/ CopyAfter(r, f, g),
         NEW l \in scope[r], NEW w \in RowsOf("nodes", l)
  PROVE  w.kind # "link"
<1>1. scope[r] = Subtree(f) \cup Subtree(g) /\ NoLinks(f)
  BY DEF CopyBefore, CopyAfter, JobBefore, Leads
<1>2. CASE l \in Subtree(f)
  BY <1>1, <1>2 DEF NoLinks
<1>3. CASE l \in Subtree(g)
  <2>1. Something(l)
    BY DEF Something, Tabs
  <2>2. CopyAfter(r, f, g)
    BY <1>3, <2>1 DEF CopyBefore
  <2>3. PICK m \in Subtree(f) : l = Renamed(m, f, g)
    BY <1>3, <2>1, <2>2 DEF CopyAfter, OnlyNew
  <2>4. Copies(r, Items(todo[r]), f, g, m)
    BY <2>2 DEF CopyAfter
  <2>5. PICK u : u \in RowsOf("nodes", m)
    BY <2>1, <2>3, <2>4 DEF Copies
  <2>6. w.kind = u.kind
    BY <2>3, <2>4, <2>5 DEF Copies
  <2> QED BY <1>1, <2>5, <2>6 DEF NoLinks
<1> QED BY <1>1, <1>2, <1>3

(* What a good request has, unless it moves. *)
LEMMA GoodSorts ==
  ASSUME SeenInv, ~LoopMade, NEW q \in Requests, Good(q)
  PROVE  \/ NewSeen(q) \/ OverSeen(q) \/ DelSeen(q)
         \/ \E f, g \in Names : (CopyBefore(q, f, g) /\ AsBefore(q)) \/ (CopyAfter(q, f, g) /\ CopySeen(q, f, g))
<1>1. op[q].do # "move"
  BY DEF LoopMade, LoopMaker, Good
<1> QED BY <1>1 DEF SeenInv, SeenFine, SeenAt, JobSeen

(* Where a link that is stored leads that is in the way of nobody: to what is  *)
(* seen, too, and where it is seen to lead unless it is not seen at all.       *)
Leading(l) ==
  /\ GetTarget(l) \in {NoTarget, Root} \/ (GetTarget(l) \in Names /\ Visible[GetTarget(l)].kind # "absent")
  /\ \/ Visible[l].kind = "absent" \/ GetTarget(l) = NoTarget
     \/ Visible[l].kind = "link" /\ Visible[l].target = GetTarget(l)

(* A link that is seen to lead where its row leads. *)
LEMMA SeenLeading ==
  ASSUME Typed, NoneDangles, NEW l \in Names, Visible[l].kind = "link",
         \A v \in RowsOf("links", l) : Visible[l].target = v.target
  PROVE  Leading(l)
<1>1. CASE GetTarget(l) = NoTarget
  BY <1>1 DEF Leading
<1>2. CASE GetTarget(l) # NoTarget
  <2>1. GetTarget(l) \in Targets /\ Visible[l].target = GetTarget(l)
    BY <1>2, TargetIs
  <2>2. GetTarget(l) \in Names => Visible[GetTarget(l)].kind # "absent"
    BY <2>1 DEF NoneDangles
  <2> QED BY <1>2, <2>1, <2>2 DEF Leading, Targets, Root, NoName
<1> QED BY <1>1, <1>2

(* So every link leads that is not unclear. *)
LEMMA LinksLead ==
  ASSUME LinksInv, ~LoopMade, NEW l \in Names, l \notin unclear, IsLink(l)
  PROVE  Leading(l)
<1>0. SeenInv /\ SafeInv /\ Typed /\ Orderly /\ CalmFine /\ LinksFine /\ NoneDangles
  BY DEF LinksInv, SeenInv, SafeInv, LinksFine
<1>w. PICK w \in RowsOf("nodes", l) : w.kind = "link"
  BY <1>0, LinkIs
<1>1. CASE l \notin Busy
  <2>1. Sound(l)
    BY <1>0, <1>1, <1>w DEF CalmFine, Calm, Fine, Something, Tabs
  <2>2. PICK v \in RowsOf("links", l) : RowsOf("links", l) = {v} /\ RowsOf("nodes", l) = {w}
    BY <1>w, <2>1 DEF Sound, Single
  <2>3. Visible[l] = Stored(l)
    BY <1>0, <1>1, VisibleIs
  <2>4. GetTarget(l) = v.target
    BY <2>2 DEF GetTarget
  <2>5. Stored(l).kind = "link" /\ Stored(l).target = v.target
    BY <1>w, <2>2, <2>4 DEF Stored, Node
  <2> QED BY <1>0, <2>2, <2>3, <2>5, SeenLeading
<1>2. ASSUME NEW q \in Running, l \in scope[q] PROVE Leading(l)
  <2>0. q \in Requests /\ Good(q)
    BY <1>2 DEF Running, Good
  <2>1. Visible[l] = before[q][l] /\ NewLeads(q) /\ Leaves(q)
    BY <1>0, <1>2, <2>0, VisibleIs DEF LinksFine
  <2>n. PICK n, to : n = op[q].id /\ to = op[q].to
    OBVIOUS
  <2>2. CASE NewSeen(q)
    <3>1. Visible[l].kind = "absent" /\ l \in Subtree(n)
      <4>1. before[q][l] = Absent
        BY <1>2, <2>2 DEF NewSeen
      <4>2. l \in Subtree(n)
        BY <1>2, <2>2, <2>n DEF NewSeen, NewAt
      <4> QED BY <2>1, <4>1, <4>2 DEF Absent, Node
    <3>2. l = n
      BY <1>w, <2>2, <2>n, <3>1 DEF NewSeen, NewAt, Subtree, Something, Tabs
    <3>3. op[q].kind = "link" /\ op[q].do = "create"
      <4>1. \E u \in RowsOf("nodes", n) : RowsOf("nodes", n) = {u} /\ u.kind = op[q].kind
        BY <1>w, <2>2, <2>n, <3>2 DEF NewSeen, NewAt
      <4> QED BY <1>w, <2>2, <3>2, <4>1 DEF NewSeen, NewAt
    <3>4. to \in Names => Visible[to].kind # "absent"
      BY <2>1, <2>n, <3>3 DEF NewLeads
    <3>5. GetTarget(l) = NoTarget \/ GetTarget(l) = to
      BY <1>0, <2>2, <2>n, <3>2, TargetIs DEF NewSeen
    <3>6. to \in Names \cup {Root}
      <4>1. op[q] \in Op
        BY <1>0, <2>0, OpsAssumption DEF Typed
      <4> QED BY <2>n, <4>1 DEF Op, Root, NoName
    <3> QED BY <3>1, <3>4, <3>5, <3>6 DEF Leading
  <2>3. ~OverSeen(q)
    <3> SUFFICES ASSUME OverSeen(q) PROVE FALSE
      OBVIOUS
    <3>1. l = n /\ op[q].do = "create" /\ Sound(l)
      BY <1>2, <2>n DEF OverSeen, OverAt
    <3>2. RowsOf("nodes", l) = {w}
      BY <1>w, <3>1 DEF Sound
    <3>3. before[q][l].kind = "link" /\ op[q].kind = "link"
      BY <1>w, <2>n, <3>1, <3>2 DEF OverSeen, Node
    <3> QED BY <2>1, <2>n, <3>1, <3>3 DEF NewLeads
  <2>4. CASE DelSeen(q)
    <3>1. op[q].do # "create" /\ ToNull(op[q])
      BY <2>4 DEF DelSeen, DelAt
    <3>2. Visible[l].kind = "link" /\ \A v \in RowsOf("links", l) : Visible[l].target = v.target
      BY <1>2, <1>w, <2>1, <3>1 DEF Leaves
    <3> QED BY <1>0, <3>2, SeenLeading
  <2>5. ~(\E f, g \in Names : CopyBefore(q, f, g) \/ CopyAfter(q, f, g))
    BY <1>2, <1>w, CopyUnlinked
  <2> QED BY <1>0, <2>0, <2>2, <2>3, <2>4, <2>5, GoodSorts
<1> QED BY <1>1, <1>2 DEF Busy

(* Links that are not unclear do not lead in a circle. *)
LEMMA LinksOpen ==
  ASSUME LinksInv, ~LoopMade, NEW S \in SUBSET (Names \ unclear), S # {}, \A m \in S : IsLink(m)
  PROVE  \E m \in S : GetTarget(m) \notin S
<1> SUFFICES ASSUME \A m \in S : GetTarget(m) \in S PROVE FALSE
  OBVIOUS
<1>1. \A m \in S : Leading(m)
  BY LinksLead
<1>2. NoTarget \notin S /\ Root \notin S
  BY NullAssumption, Below
<1>T. PICK T : T = {GetTarget(m) : m \in S}
  OBVIOUS
<1>3. T \subseteq S /\ T # {} /\ \A m \in S : GetTarget(m) \in T
  BY <1>T
<1>4. \A m \in T : Visible[m].kind # "absent"
  BY <1>1, <1>2, <1>T DEF Leading
<1>5. \A m \in T : Visible[m].kind = "link" /\ Visible[m].target \in T
  BY <1>1, <1>2, <1>3, <1>4 DEF Leading
<1>6. NoCircle
  BY DEF LinksInv, LinksFine
<1> QED BY <1>3, <1>5, <1>6 DEF NoCircle

(* What is seen although it is not stored is not below a link. *)
LEMMA NotBelowLinks ==
  ASSUME LinksInv, ~LoopMade, NEW e \in Names, e \notin unclear, Visible[e].kind # "absent", ~IsStored(e),
         NEW p \in Names, p \notin unclear, e \in Under(p)
  PROVE  ~IsLink(p)
<1>0. SeenInv /\ SafeInv /\ Typed /\ Orderly /\ Hung /\ LinksFine
  BY DEF LinksInv, SeenInv, SafeInv
<1>1. RowsOf("nodes", e) = {} /\ Stored(e).kind = "absent"
  BY DEF IsStored, Stored, Absent, Node
<1>2. PICK q \in Running : e \in scope[q]
  BY <1>0, <1>1, VisibleIs DEF Busy
<1>3. q \in Requests /\ Good(q) /\ before[q][e].kind # "absent"
  BY <1>0, <1>2, VisibleIs DEF Running, Good
<1>4. ~NewSeen(q)
  BY <1>2, <1>3 DEF NewSeen, Absent, Node
<1>5. ~OverSeen(q)
  BY <1>1, <1>2 DEF OverSeen, OverAt
<1>6. CASE DelSeen(q)
  <2> SUFFICES ASSUME IsLink(p) PROVE FALSE
    OBVIOUS
  <2>1. op[q].do # "create" /\ ToNull(op[q]) /\ Leaves(q)
    BY <1>0, <1>3, <1>6 DEF DelSeen, DelAt, LinksFine
  <2>2. PICK w \in RowsOf("nodes", p) : w.kind = "link"
    BY <1>0, LinkIs
  <2>3. CASE p \in scope[q]
    BY <1>2, <1>3, <2>1, <2>2, <2>3 DEF Leaves
  <2>4. CASE p \notin scope[q]
    <3>1. Cont(p) /\ p # Root
      BY <1>0, <1>2, <2>4, Below DEF Hung
    <3>2. \A w1 \in RowsOf("nodes", p) : w1.kind = "container"
      BY <3>1 DEF Cont, GetTypes
    <3> QED BY <2>2, <3>2
  <2> QED BY <2>3, <2>4
<1>7. ASSUME NEW f \in Names, NEW g \in Names, CopyBefore(q, f, g), AsBefore(q) PROVE FALSE
  BY <1>1, <1>2, <1>3, <1>7 DEF AsBefore
<1>8. ASSUME NEW f \in Names, NEW g \in Names, CopyAfter(q, f, g), CopySeen(q, f, g) PROVE FALSE
  <2>1. e \in Subtree(f) \cup Subtree(g)
    BY <1>2, <1>8 DEF CopyAfter, Leads
  <2>2. e \in Subtree(f) => before[q][e] = Absent
    BY <1>1, <1>8 DEF CopySeen, Was
  <2> QED BY <1>3, <1>8, <2>1, <2>2 DEF CopySeen, Absent, Node
<1> QED BY <1>0, <1>3, <1>4, <1>5, <1>6, <1>7, <1>8, GoodSorts

(* Where a chain of links may end that nobody is in the way of. *)
Ending(e) == e \in {NoTarget, Root} \/ (e \in Names /\ e \notin Blurred /\ Visible[e].kind # "absent")

(* A link leads to such a place, ... *)
LEMMA HopEnding ==
  ASSUME LinksInv, ~LoopMade, NEW m \in Names, m \notin Blurred, IsLink(m) PROVE Ending(GetTarget(m))
<1>0. Typed
  BY DEF LinksInv, SeenInv, SafeInv
<1>1. m \notin unclear /\ (LinkRow(m) \in Names => LinkRow(m) \notin Blurred)
  BY <1>0, BlurredHas
<1>2. Leading(m)
  BY <1>1, LinksLead
<1>3. CASE RowsOf("links", m) = {}
  BY <1>3 DEF GetTarget, Ending
<1>4. CASE RowsOf("links", m) # {}
  <2>1. LinkRow(m) = GetTarget(m)
    BY <1>4 DEF LinkRow
  <2> QED BY <1>1, <1>2, <2>1 DEF Leading, Ending
<1> QED BY <1>3, <1>4

(* ... and so the first loop ends, at what is no link: the links it goes over   *)
(* would be a circle otherwise, since there are more rounds than names.         *)
LEMMA ChainEnds ==
  ASSUME LinksInv, ~LoopMade, NEW a \in Names, a \notin Blurred, IsLink(a)
  PROVE  ~IsLink(LinkEnd(a)) /\ Ending(LinkEnd(a))
<1>0. Typed /\ unclear \subseteq Blurred
  <2>1. Typed
    BY DEF LinksInv, SeenInv, SafeInv
  <2> QED BY <2>1, BlurredHas
<1>S. PICK S : S = {e \in Names \cup {NoTarget, Root} : e = a \/ Ending(e)}
  OBVIOUS
<1>n. NoTarget \notin Names /\ Root \notin Names
  BY NullAssumption, Below
<1>c. \A m \in S : IsLink(m) => m \in Names /\ m \notin Blurred
  <2> TAKE m \in S
  <2> HAVE IsLink(m)
  <2>1. m \in Names
    BY <1>0, LinkIs
  <2> QED BY <1>S, <1>n, <2>1 DEF Ending
<1>1. \A m \in S : Hop(m) \in S
  <2> TAKE m \in S
  <2>1. CASE ~IsLink(m)
    BY <2>1 DEF Hop
  <2>2. CASE IsLink(m)
    <3>1. Hop(m) = GetTarget(m) /\ Ending(GetTarget(m))
      BY <1>c, <2>2, HopEnding DEF Hop
    <3>2. GetTarget(m) \in Names \cup {NoTarget, Root}
      BY <3>1 DEF Ending
    <3> QED BY <1>S, <3>1, <3>2
  <2> QED BY <2>1, <2>2
<1>2. PICK c \in [0..Hops -> S] : /\ c[0] = a /\ \A k \in 1..Hops : c[k] = Hop(c[k-1])
                                  /\ LinkEnd(a) = c[Hops]
  <2>1. a \in S
    BY <1>S
  <2> QED BY <1>1, <2>1, HopCourse
<1>h. Hops \in Nat /\ Hops \in 0..Hops /\ \A k \in 1..Hops : k \in 0..Hops /\ k - 1 \in 0..Hops
  BY HopsNumber
<1>3. ~IsLink(c[Hops])
  <2> SUFFICES ASSUME IsLink(c[Hops]) PROVE FALSE
    OBVIOUS
  <2>1. \A k \in 0..Hops : IsLink(c[k])
    <3>1. PICK T : T = {k \in 0..Hops : IsLink(c[k])}
      OBVIOUS
    <3>2. ASSUME NEW k \in 1..Hops, k \in T PROVE k - 1 \in T
      <4>1. c[k] = Hop(c[k-1]) /\ IsLink(c[k])
        BY <1>2, <3>1, <3>2
      <4>2. IsLink(c[k-1])
        BY <4>1 DEF Hop
      <4> QED BY <1>h, <3>1, <4>2
    <3>3. T \in SUBSET (0..Hops) /\ Hops \in T
      BY <1>h, <3>1
    <3>4. T = 0..Hops
      BY <1>h, <3>2, <3>3, CountDown
    <3> QED BY <3>1, <3>4
  <2>2. \A k \in 0..Hops : c[k] \in Names \ unclear
    BY <1>0, <1>2, <1>c, <2>1
  <2>3. \A k \in 1..Hops : c[k] = GetTarget(c[k-1])
    BY <1>2, <1>h, <2>1 DEF Hop
  <2>4. PICK x, y \in 0..Hops : x # y /\ c[x] = c[y]
    <3>1. c \in [0..Hops -> Names]
      BY <2>2, <1>2
    <3>2. IsFiniteSet(0..Hops) /\ Cardinality(0..Hops) = Hops + 1
      BY <1>h, FS_Interval
    <3>3. IsFiniteSet(Names) /\ Cardinality(Names) < Hops + 1
      BY NamesAssumption, HopsNumber DEF Hops
    <3> QED BY <3>1, <3>2, <3>3, FS_PigeonHole
  <2>5. PICK i, j \in 0..Hops : i < j /\ c[i] = c[j]
    <3>1. x < y \/ y < x
      BY <1>h, <2>4
    <3> QED BY <2>4, <3>1
  <2>6. PICK R : R = {c[k] : k \in i..(j - 1)}
    OBVIOUS
  <2>7. \A k \in i..(j - 1) : k \in 0..Hops /\ k + 1 \in 1..Hops /\ (k + 1) - 1 = k
    BY <1>h, <2>5
  <2>8. R \in SUBSET (Names \ unclear) /\ R # {} /\ \A m \in R : IsLink(m)
    <3>1. i \in i..(j - 1)
      BY <1>h, <2>5
    <3> QED BY <2>1, <2>2, <2>6, <2>7, <3>1
  <2>9. ASSUME NEW m \in R PROVE GetTarget(m) \in R
    <3>1. PICK k \in i..(j - 1) : m = c[k]
      BY <2>6
    <3>2. PICK k1 : k1 = k + 1
      OBVIOUS
    <3>3. GetTarget(m) = c[k1]
      BY <2>3, <2>7, <3>1, <3>2
    <3>4. c[k1] = c[i] \/ k1 \in i..(j - 1)
      BY <1>h, <2>5, <3>1, <3>2
    <3>5. i \in i..(j - 1)
      BY <1>h, <2>5
    <3> QED BY <2>6, <3>3, <3>4, <3>5
  <2> QED BY <2>8, <2>9, LinksOpen
<1>4. Ending(c[Hops])
  <2>1. c[Hops] \in S
    BY <1>2, <1>h
  <2> QED BY <1>3, <1>S, <2>1
<1> QED BY <1>2, <1>3, <1>4

(* How much of a name is below the last node that is there. *)
Remainder(n) == Len(n) - Len(Anchor(n))

(* It gets less from round to round of the second loop.  What is put in front   *)
(* is where a chain of links ends: the next link is not there, and not before   *)
(* it, since all that is seen there is stored or not below links.               *)
LEMMA Descent ==
  ASSUME LinksInv, ~LoopMade, NEW m \in Paths \ {Root}, OverLink(m), Anchor(m) \notin Blurred,
         OverLink(Canonical(m)), Anchor(Canonical(m)) \notin Blurred
  PROVE  Remainder(Canonical(m)) < Remainder(m)
<1>0. Typed /\ unclear \subseteq Blurred
  <2>1. Typed
    BY DEF LinksInv, SeenInv, SafeInv
  <2> QED BY <2>1, BlurredHas
<1>a. PICK a, e, rest, m2, a2 : /\ a = Anchor(m) /\ e = LinkEnd(Anchor(m)) /\ rest = SubSeq(m, Len(Anchor(m)) + 1, Len(m))
                                /\ m2 = Canonical(m) /\ a2 = Anchor(Canonical(m))
  OBVIOUS
<1>1. a \in Names /\ a \notin Blurred /\ IsLink(a) /\ a2 \in Names /\ a2 \notin Blurred /\ IsLink(a2)
  <2>1. IsLink(a) /\ IsLink(a2)
    BY <1>a DEF OverLink
  <2> QED BY <1>0, <1>a, <2>1, LinkIs
<1>2. ~IsLink(e) /\ Ending(e)
  BY <1>1, <1>a, ChainEnds
<1>3. /\ a \in Paths /\ e \in Paths /\ rest \in Paths /\ rest # Root
      /\ Len(a) \in 0..(Len(m) - 1) /\ Len(rest) = Len(m) - Len(a)
  BY <1>0, <1>a, AnchorIs, EndsThere
<1>4. m2 = e \o rest
  BY <1>a DEF Canonical, Renamed
<1>5. m2 \in Paths \ {Root}
  BY <1>0, <1>a, CanonicalStays
<1>6. /\ Len(a2) \in 0..(Len(m2) - 1) /\ a2 = SubSeq(m2, 1, Len(a2))
      /\ \A j \in (Len(a2) + 1)..(Len(m2) - 1) : ~IsStored(SubSeq(m2, 1, j))
  BY <1>5, <1>a, AnchorIs
<1>x. PICK X : Paths = Seq(X)
  BY DEF Paths
<1>7. /\ Len(m) \in Nat /\ Len(m2) \in Nat /\ Len(e) \in Nat /\ Len(rest) \in Nat \ {0} /\ Len(a2) \in Nat
      /\ Len(m2) = Len(e) + Len(rest) /\ \A j \in 1..Len(e) : m2[j] = e[j]
  <2>1. m \in Seq(X) /\ m2 \in Seq(X) /\ e \in Seq(X) /\ rest \in Seq(X) /\ rest # <<>>
    BY <1>3, <1>5, <1>x DEF Root
  <2>2. a2 \in Seq(Parts)
    BY <1>1, Below
  <2>3. Len(rest) \in Nat \ {0}
    BY <2>1, EmptySeq
  <2>4. Len(e \o rest) = Len(e) + Len(rest) /\ \A j \in 1..Len(e) : (e \o rest)[j] = e[j]
    BY <2>1, ConcatProperties
  <2> QED BY <1>4, <2>1, <2>2, <2>3, <2>4, LenProperties
<1>8. Len(e) < Len(a2)
  <2> SUFFICES ASSUME ~(Len(e) < Len(a2)) PROVE FALSE
    OBVIOUS
  <2>1. \A j \in 1..Len(a2) : a2[j] = e[j]
    <3>1. \A j \in 1..Len(a2) : SubSeq(m2, 1, Len(a2))[j] = m2[j]
      BY <1>7, <1>6
    <3> QED BY <1>6, <1>7, <3>1
  <2>2. CASE Len(a2) = Len(e)
    <3>1. a2 = [j \in 1..Len(a2) |-> a2[j]] /\ e = [j \in 1..Len(e) |-> e[j]]
      BY <1>1, <1>3, <1>x, Below
    <3> QED BY <1>1, <1>2, <2>1, <2>2, <3>1
  <2>3. CASE Len(a2) < Len(e)
    <3>0. Len(a2) # 0
      BY <1>1, Below, EmptySeq DEF Root
    <3>1. e \in Names /\ e \notin Blurred /\ Visible[e].kind # "absent"
      <4>1. Len(NoTarget) = 1 /\ Len(Root) = 0
        BY DEF NoTarget, Root
      <4>2. e # NoTarget /\ e # Root
        BY <1>7, <2>3, <3>0, <4>1
      <4> QED BY <1>2, <4>2 DEF Ending
    <3>2. ~IsStored(e)
      <4>1. Len(e) \in (Len(a2) + 1)..(Len(m2) - 1)
        BY <1>7, <2>3
      <4>2. SubSeq(m2, 1, Len(e)) = e
        <5>1. SubSeq(m2, 1, Len(e)) = [j \in 1..Len(e) |-> m2[j]]
          BY <1>5, <1>7, <1>x
        <5>2. e = [j \in 1..Len(e) |-> e[j]]
          BY <1>3, <1>x
        <5> QED BY <1>7, <5>1, <5>2
      <4> QED BY <1>6, <4>1, <4>2
    <3>3. e \in Under(a2)
      <4>1. e \in Seq(Parts) /\ a2 \in Seq(Parts)
        BY <1>1, <3>1, Below
      <4>2. IsStrictPrefix(a2, e)
        BY <2>1, <2>3, <4>1, PrefixByIndex
      <4> QED BY <3>1, <4>2, Below
    <3>4. ~IsLink(a2)
      BY <1>0, <1>1, <3>1, <3>2, <3>3, NotBelowLinks
    <3> QED BY <1>1, <3>4
  <2> QED BY <1>7, <2>2, <2>3
<1>9. Len(m2) - Len(a2) < Len(m) - Len(a)
  BY <1>3, <1>7, <1>8
<1> QED BY <1>9, <1>a DEF Remainder

(* So it cannot go on for as many rounds as there are. *)
LEMMA LinksInvEnds == ASSUME LinksInv PROVE ResolveEnds
<1> SUFFICES ASSUME ~LoopMade, NEW n \in Names, ~Resolves(n),
                    \A k \in 0..Hops : \A m \in Course(n, Canonical)[k] : Anchor(m) \notin Blurred
             PROVE  FALSE
  BY Zenon DEF ResolveEnds
<1>0. Typed
  BY DEF LinksInv, SeenInv, SafeInv
<1>S. PICK S : S = Paths \ {Root}
  OBVIOUS
<1>1. n \in S /\ \A m \in S : Canonical(m) \in S
  BY <1>0, <1>S, NamesPaths, CanonicalStays
<1>2. PICK c : CourseIs(S, n, c)
  BY <1>1, CanonicalCourse
<1>3. /\ c \in [0..Hops -> S] /\ c[0] = n /\ \A k \in 1..Hops : c[k] = Canonical(c[k-1])
      /\ \A k \in 0..Hops : Course(n, Canonical)[k] = {c[k]}
      /\ ResolveLinks(n) = c[Hops]
  BY <1>2, Zenon DEF CourseIs
<1>4. \A k \in 0..Hops : Anchor(c[k]) \notin Blurred
  <2> TAKE k \in 0..Hops
  <2>1. Course(n, Canonical)[k] = {c[k]}
    BY <1>3, Zenon
  <2>2. c[k] \in Course(n, Canonical)[k]
    BY <2>1, Zenon
  <2> QED BY <2>2, Zenon
<1>5. c \in [0..Hops -> S] /\ c[0] = n /\ \A k \in 1..Hops : c[k] = Canonical(c[k-1])
  BY <1>3, Zenon
<1>6. OverLink(c[Hops])
  BY <1>3, Zenon DEF Resolves
<1>h. /\ Hops \in Nat /\ Hops \in 0..Hops /\ 0 \in 0..Hops
      /\ \A k \in 1..Hops : k \in 0..Hops /\ k - 1 \in 0..Hops
  BY HopsNumber
<1>7. \A k \in 0..Hops : OverLink(c[k])
  <2>1. PICK T : T = {k \in 0..Hops : OverLink(c[k])}
    OBVIOUS
  <2>2. ASSUME NEW k \in 1..Hops, k \in T PROVE k - 1 \in T
    <3>1. c[k] = Canonical(c[k-1]) /\ OverLink(c[k])
      BY <1>5, <2>1, <2>2
    <3>2. OverLink(c[k-1])
      BY <3>1 DEF Canonical
    <3> QED BY <1>h, <2>1, <3>2
  <2>3. T \in SUBSET (0..Hops) /\ Hops \in T
    BY <1>6, <1>h, <2>1
  <2>4. T = 0..Hops
    BY <1>h, <2>2, <2>3, CountDown
  <2> QED BY <2>1, <2>4
<1>8. \A k \in 0..Hops : Remainder(c[k]) \in Nat \ {0}
  <2> TAKE k \in 0..Hops
  <2>1. PICK m : m = c[k] /\ m \in Paths \ {Root}
    BY <1>5, <1>S
  <2>2. Len(Anchor(m)) \in 0..(Len(m) - 1)
    BY <2>1, AnchorIs
  <2>3. Len(m) \in Nat
    BY <2>1, LenProperties DEF Paths
  <2> QED BY <2>1, <2>2, <2>3 DEF Remainder
<1>9. \A k \in 1..Hops : Remainder(c[k]) < Remainder(c[k-1])
  <2> TAKE k \in 1..Hops
  <2>1. PICK m : m = c[k-1] /\ m \in Paths \ {Root}
    BY <1>5, <1>S, <1>h
  <2>2. c[k] = Canonical(m)
    BY <1>5, <2>1
  <2>3. OverLink(m) /\ Anchor(m) \notin Blurred
    BY <1>4, <1>7, <1>h, <2>1
  <2>4. OverLink(Canonical(m)) /\ Anchor(Canonical(m)) \notin Blurred
    BY <1>4, <1>7, <1>h, <2>2
  <2>5. Remainder(Canonical(m)) < Remainder(m)
    BY <2>1, <2>3, <2>4, Descent
  <2> QED BY <2>1, <2>2, <2>5
<1>l. Len(n) \in Nat /\ Len(n) <= Cardinality(Names) /\ Remainder(n) <= Len(n)
  <2>1. n \in Paths \ {Root}
    BY NamesPaths
  <2>2. Len(n) \in Nat
    BY <2>1, LenProperties DEF Paths
  <2>3. Len(Anchor(n)) \in 0..(Len(n) - 1)
    BY <2>1, AnchorIs
  <2> QED BY <2>2, <2>3, NameLength DEF Remainder
<1>10. \A k \in 0..Hops : Remainder(c[k]) + k <= Len(n)
  <2>1. PICK T : T = {k \in 0..Hops : Remainder(c[k]) + k <= Len(n)}
    OBVIOUS
  <2>2. ASSUME NEW k \in 1..Hops, k - 1 \in T PROVE k \in T
    <3>1. Remainder(c[k-1]) + (k - 1) <= Len(n) /\ Remainder(c[k]) < Remainder(c[k-1])
      BY <1>9, <2>1, <2>2
    <3>2. Remainder(c[k-1]) \in Nat /\ Remainder(c[k]) \in Nat /\ k \in Nat
      BY <1>8, <1>h
    <3>3. Remainder(c[k]) + k <= Len(n)
      BY <1>l, <3>1, <3>2
    <3> QED BY <1>h, <2>1, <3>3
  <2>3. T \in SUBSET (0..Hops) /\ 0 \in T
    <3>1. Remainder(c[0]) + 0 <= Len(n)
      BY <1>5, <1>8, <1>h, <1>l
    <3> QED BY <1>h, <2>1, <3>1
  <2>4. T = 0..Hops
    BY <1>h, <2>2, <2>3, CountUp
  <2> QED BY <2>1, <2>4
<1>11. Remainder(c[Hops]) + Hops <= Len(n) /\ Remainder(c[Hops]) \in Nat \ {0}
  BY <1>8, <1>10, <1>h
<1>12. Hops = Cardinality(Names) + 1 /\ Cardinality(Names) \in Nat
  BY HopsNumber DEF Hops
<1> QED BY <1>11, <1>12, <1>l

(* resolveLinks returns, for every name, any requests and trees, whatever      *)
(* connections are lost and statements fail: its two loops go on for good only *)
(* after a link was overwritten or something moved, or where the name leads    *)
(* over one at which requests met or failed.                                   *)
THEOREM LinksEnd == Spec => []ResolveEnds
BY LinksInvariant, LinksInvEnds, PTL
=============================================================================
