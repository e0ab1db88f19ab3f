--------------------------- MODULE NodeCache_proofs ---------------------------
(***************************************************************************)
(* Proofs about NodeCache, for every set of threads and of nodes and every *)
(* number of changes.  Control says where a thread's fields have a meaning;*)
(* it is what makes TypeOK inductive.  The safety properties need one more *)
(* fact, OwnOutsideVolatile: no entry of get_node()'s own is under an open *)
(* volatile section, so the changes made there make none of them wrong.    *)
(***************************************************************************)
EXTENDS NodeCache, TLAPS

Watching == {"fetch", "test", "set", "leave"}
WatchingChild == {"ktest", "kset", "kleave"}

ControlOf(t) ==
    /\ pc[t] \in Watching => watch[t] = arg[t]
    /\ pc[t] \in WatchingChild => watch[t] \in Files
    /\ watch[t] # None => pc[t] \in Watching \cup WatchingChild
    /\ pc[t] \in {"test", "set", "kids"} \cup WatchingChild => got[t] \in Nodes
    /\ todo[t] # {} => pc[t] \in {"test", "set", "leave", "kids"} \cup WatchingChild
    /\ todo[t] # {} => got[t] \in Nodes /\ todo[t] \subseteq DOMAIN got[t].kids
    /\ pc[t] \in {"ktest", "kset"} => watch[t] \in DOMAIN got[t].kids
    /\ pc[t] = "enter2" => dest[t] \in Files
    /\ pc[t] \in {"enter2", "change"} => arg[t] \in vol[t]
    /\ pc[t] = "change" /\ dest[t] # None => dest[t] \in vol[t]
    /\ pc[t] \notin {"enter2", "change", "exit"} => vol[t] = {} /\ dest[t] = None

Control == \A t \in Threads : ControlOf(t)

TypeInv == TypeOK /\ Control

\* What get_node() makes of an answer of the server, or of a cached child, is
\* a node.
LEMMA FetchedIsNode ==
    ASSUME TypeOK, NEW u \in Uris, server[u] # 0, NEW S \in Listed(u)
    PROVE  /\ Fetched(u, S) \in Nodes
           /\ S \subseteq Files
           /\ DOMAIN Fetched(u, S).kids = S
<1>1. /\ S \subseteq Files
      /\ \A c \in S : server[c] # 0
  BY DEF Listed
<1>2. /\ server[u] \in Changes
      /\ \A c \in S : server[c] \in Changes
  BY <1>1, BoundAssumption DEF TypeOK, Changes, Uris
<1>3. [c \in S |-> server[c]] \in [S -> Changes]
  BY <1>2
<1>4. [c \in S |-> server[c]] \in Listings
  BY <1>1, <1>3 DEF Listings
<1> QED
  BY <1>1, <1>2, <1>4 DEF Fetched, Nodes

LEMMA KidsOfNode ==
    ASSUME NEW n \in Nodes
    PROVE  /\ DOMAIN n.kids \subseteq Files
           /\ \A c \in DOMAIN n.kids :
                [self |-> n.kids[c], kids |-> NoKids] \in Nodes
<1>1. n.kids \in Listings
  BY DEF Nodes
<1>2. PICK S \in SUBSET Files : n.kids \in [S -> Changes]
  BY <1>1 DEF Listings
<1>3. NoKids \in [{} -> Changes]
  BY DEF NoKids
<1>4. NoKids \in Listings
  BY <1>3 DEF Listings
<1> QED
  BY <1>2, <1>4 DEF Nodes

\* The type invariant, with the meaning of a thread's fields.
LEMMA InitTypeInv == Init => TypeInv
<1> SUFFICES ASSUME Init PROVE TypeInv
  OBVIOUS
<1>1. TypeOK
  <2>1. server \in [Uris -> 0 .. MaxChanges]
    BY BoundAssumption DEF Init
  <2> QED
    BY <2>1, BoundAssumption DEF Init, TypeOK, Uris, Changes, Labels
<1>2. Control
  BY UriAssumption DEF Init, Control, ControlOf, Watching, WatchingChild, Uris
<1> QED
  BY <1>1, <1>2 DEF TypeInv

\* A step of t leaves the fields of the other threads alone, but for dirty.
OthersAlone(t) ==
    \A s \in Threads \ {t} :
        /\ pc'[s] = pc[s]
        /\ watch'[s] = watch[s]
        /\ arg'[s] = arg[s]
        /\ dest'[s] = dest[s]
        /\ got'[s] = got[s]
        /\ todo'[s] = todo[s]
        /\ vol'[s] = vol[s]

LEMMA ControlStep ==
    ASSUME Control, NEW t \in Threads, OthersAlone(t), ControlOf(t)'
    PROVE  Control'
<1> SUFFICES ASSUME NEW s \in Threads PROVE ControlOf(s)'
  BY DEF Control
<1>1. CASE s = t
  BY <1>1
<1>2. CASE s # t
  BY <1>2 DEF OthersAlone, Control, ControlOf
<1> QED
  BY <1>1, <1>2

LEMMA NextTypeInv == TypeInv /\ [Next]_vars => TypeInv'
<1> SUFFICES ASSUME TypeInv, [Next]_vars PROVE TypeInv'
  OBVIOUS
<1>0. TypeOK /\ Control
  BY DEF TypeInv
<1> USE UriAssumption, BoundAssumption DEF Labels, Uris, Goto, serverVars, threadVars
<1>1. ASSUME NEW t \in Threads, NEW u \in Uris, GetHit(t, u)
      PROVE  TypeInv'
  <2>a. cached[u] \in Nodes /\ DOMAIN cached[u].kids \subseteq Files
    BY <1>0, <1>1, KidsOfNode DEF GetHit, TypeOK
  <2>1. TypeOK'
    BY <1>0, <1>1, <2>a DEF GetHit, TypeOK
  <2>2. ControlOf(t)'
    BY <1>0, <1>1, <2>a DEF GetHit, TypeOK, Control, ControlOf, Watching, WatchingChild
  <2>3. OthersAlone(t)
    BY <1>0, <1>1 DEF GetHit, TypeOK, OthersAlone
  <2> QED
    BY <1>0, <2>1, <2>2, <2>3, ControlStep DEF TypeInv
<1>2. ASSUME NEW t \in Threads, NEW u \in Uris, GetMiss(t, u)
      PROVE  TypeInv'
  <2>1. TypeOK'
    BY <1>0, <1>2 DEF GetMiss, TypeOK, WatchEnter
  <2>2. ControlOf(t)'
    BY <1>0, <1>2 DEF GetMiss, TypeOK, Control, ControlOf, Watching, WatchingChild, WatchEnter
  <2>3. OthersAlone(t)
    BY <1>0, <1>2 DEF GetMiss, TypeOK, OthersAlone, WatchEnter
  <2> QED
    BY <1>0, <2>1, <2>2, <2>3, ControlStep DEF TypeInv
<1>3. ASSUME NEW t \in Threads, NEW u \in Uris, DeleteEnter(t, u)
      PROVE  TypeInv'
  <2>1. TypeOK'
    BY <1>0, <1>3 DEF DeleteEnter, TypeOK, VolatileEnter
  <2>2. ControlOf(t)'
    BY <1>0, <1>3 DEF DeleteEnter, TypeOK, Control, ControlOf, Watching, WatchingChild, VolatileEnter
  <2>3. OthersAlone(t)
    BY <1>0, <1>3 DEF DeleteEnter, TypeOK, OthersAlone, VolatileEnter
  <2> QED
    BY <1>0, <2>1, <2>2, <2>3, ControlStep DEF TypeInv
<1>4. ASSUME NEW t \in Threads, NEW u \in Uris, Create(t, u)
      PROVE  TypeInv'
  <2>1. TypeOK'
    BY <1>0, <1>4 DEF Create, TypeOK, Changes
  <2>2. ControlOf(t)'
    BY <1>0, <1>4 DEF Create, TypeOK, Control, ControlOf, Watching, WatchingChild, Changes
  <2>3. OthersAlone(t)
    BY <1>0, <1>4 DEF Create, TypeOK, OthersAlone, Changes
  <2> QED
    BY <1>0, <2>1, <2>2, <2>3, ControlStep DEF TypeInv
<1>5. ASSUME NEW t \in Threads, NEW u \in Uris, Update(t, u)
      PROVE  TypeInv'
  <2>1. TypeOK'
    BY <1>0, <1>5 DEF Update, TypeOK, Changes
  <2>2. ControlOf(t)'
    BY <1>0, <1>5 DEF Update, TypeOK, Control, ControlOf, Watching, WatchingChild, Changes
  <2>3. OthersAlone(t)
    BY <1>0, <1>5 DEF Update, TypeOK, OthersAlone, Changes
  <2> QED
    BY <1>0, <2>1, <2>2, <2>3, ControlStep DEF TypeInv
<1>6. ASSUME NEW t \in Threads, NEW u \in Files, NEW v \in Files, MoveEnter(t, u, v)
      PROVE  TypeInv'
  <2>1. TypeOK'
    BY <1>0, <1>6 DEF MoveEnter, TypeOK, VolatileEnter
  <2>2. ControlOf(t)'
    BY <1>0, <1>6 DEF MoveEnter, TypeOK, Control, ControlOf, Watching, WatchingChild, VolatileEnter
  <2>3. OthersAlone(t)
    BY <1>0, <1>6 DEF MoveEnter, TypeOK, OthersAlone, VolatileEnter
  <2> QED
    BY <1>0, <2>1, <2>2, <2>3, ControlStep DEF TypeInv
<1>7. ASSUME NEW t \in Threads, NEW c \in Files, ChildWatch(t, c)
      PROVE  TypeInv'
  <2>1. TypeOK'
    BY <1>0, <1>7 DEF ChildWatch, TypeOK, WatchEnter
  <2>2. ControlOf(t)'
    BY <1>0, <1>7 DEF ChildWatch, TypeOK, Control, ControlOf, Watching, WatchingChild, WatchEnter
  <2>3. OthersAlone(t)
    BY <1>0, <1>7 DEF ChildWatch, TypeOK, OthersAlone, WatchEnter
  <2> QED
    BY <1>0, <2>1, <2>2, <2>3, ControlStep DEF TypeInv
<1>8. ASSUME NEW t \in Threads, Fetch(t)
      PROVE  TypeInv'
  <2>a. arg[t] \in Uris
    BY <1>0 DEF TypeOK
  <2>b. PICK S \in Listed(arg[t]) :
          /\ got' = [got EXCEPT ![t] = Fetched(arg[t], S)]
          /\ todo' = [todo EXCEPT ![t] = S]
    BY <1>8 DEF Fetch
  <2>c. /\ Fetched(arg[t], S) \in Nodes
        /\ S \subseteq Files
        /\ DOMAIN Fetched(arg[t], S).kids = S
    BY <1>0, <1>8, <2>a, <2>b, FetchedIsNode DEF Fetch
  <2>1. TypeOK'
    BY <1>0, <1>8, <2>b, <2>c DEF Fetch, TypeOK
  <2>2. ControlOf(t)'
    BY <1>0, <1>8, <2>b, <2>c DEF Fetch, TypeOK, Control, ControlOf, Watching, WatchingChild
  <2>3. OthersAlone(t)
    BY <1>0, <1>8 DEF Fetch, TypeOK, OthersAlone
  <2> QED
    BY <1>0, <2>1, <2>2, <2>3, ControlStep DEF TypeInv
<1>9. ASSUME NEW t \in Threads, FetchFails(t)
      PROVE  TypeInv'
  <2>1. TypeOK'
    BY <1>0, <1>9 DEF FetchFails, TypeOK
  <2>2. ControlOf(t)'
    BY <1>0, <1>9 DEF FetchFails, TypeOK, Control, ControlOf, Watching, WatchingChild
  <2>3. OthersAlone(t)
    BY <1>0, <1>9 DEF FetchFails, TypeOK, OthersAlone
  <2> QED
    BY <1>0, <2>1, <2>2, <2>3, ControlStep DEF TypeInv
<1>10. ASSUME NEW t \in Threads, InsertTest(t)
      PROVE  TypeInv'
  <2>1. TypeOK'
    BY <1>0, <1>10 DEF InsertTest, TypeOK
  <2>2. ControlOf(t)'
    BY <1>0, <1>10 DEF InsertTest, TypeOK, Control, ControlOf, Watching, WatchingChild
  <2>3. OthersAlone(t)
    BY <1>0, <1>10 DEF InsertTest, TypeOK, OthersAlone
  <2> QED
    BY <1>0, <2>1, <2>2, <2>3, ControlStep DEF TypeInv
<1>11. ASSUME NEW t \in Threads, InsertSet(t)
      PROVE  TypeInv'
  <2>a. pc[t] = "set" => watch[t] \in Uris /\ got[t] \in Nodes
    BY <1>0 DEF Control, ControlOf, TypeOK, Watching, WatchingChild
  <2>b. pc[t] = "kset" =>
          /\ watch[t] \in Uris
          /\ [self |-> got[t].kids[watch[t]], kids |-> NoKids] \in Nodes
    BY <1>0, KidsOfNode DEF Control, ControlOf, Watching, WatchingChild
  <2>1. TypeOK'
    BY <1>0, <1>11, <2>a, <2>b DEF InsertSet, TypeOK
  <2>2. ControlOf(t)'
    BY <1>0, <1>11 DEF InsertSet, TypeOK, Control, ControlOf, Watching, WatchingChild
  <2>3. OthersAlone(t)
    BY <1>0, <1>11 DEF InsertSet, TypeOK, OthersAlone
  <2> QED
    BY <1>0, <2>1, <2>2, <2>3, ControlStep DEF TypeInv
<1>12. ASSUME NEW t \in Threads, WatchExit(t)
      PROVE  TypeInv'
  <2>1. TypeOK'
    BY <1>0, <1>12 DEF WatchExit, TypeOK, GoOn
  <2>2. ControlOf(t)'
    BY <1>0, <1>12 DEF WatchExit, TypeOK, Control, ControlOf, Watching, WatchingChild, GoOn
  <2>3. OthersAlone(t)
    BY <1>0, <1>12 DEF WatchExit, TypeOK, OthersAlone, GoOn
  <2> QED
    BY <1>0, <2>1, <2>2, <2>3, ControlStep DEF TypeInv
<1>13. ASSUME NEW t \in Threads, MoveEnter2(t)
      PROVE  TypeInv'
  <2>a. /\ pc'[t] = "change" /\ pc[t] = "enter2"
        /\ vol'[t] = vol[t] \cup {dest[t]}
        /\ watch'[t] = watch[t] /\ todo'[t] = todo[t]
        /\ arg'[t] = arg[t] /\ dest'[t] = dest[t]
    BY <1>0, <1>13 DEF MoveEnter2, TypeOK, VolatileEnter
  <2>b. watch[t] = None /\ todo[t] = {} /\ arg[t] \in vol[t]
        /\ dest[t] \in Files
    BY <1>0, <2>a DEF Control, ControlOf, Watching, WatchingChild
  <2>1. TypeOK'
    BY <1>0, <1>13, <2>b DEF MoveEnter2, TypeOK, VolatileEnter
  <2>2. ControlOf(t)'
    BY <1>0, <1>13, <2>a, <2>b DEF MoveEnter2, TypeOK, Control, ControlOf, Watching, WatchingChild, VolatileEnter
  <2>3. OthersAlone(t)
    BY <1>0, <1>13 DEF MoveEnter2, TypeOK, OthersAlone, VolatileEnter
  <2> QED
    BY <1>0, <2>1, <2>2, <2>3, ControlStep DEF TypeInv
<1>14. ASSUME NEW t \in Threads, Change(t)
      PROVE  TypeInv'
  <2>1. TypeOK'
    BY <1>0, <1>14 DEF Change, TypeOK, Changes, Under
  <2>2. ControlOf(t)'
    BY <1>0, <1>14 DEF Change, TypeOK, Control, ControlOf, Watching, WatchingChild, Changes, Under
  <2>3. OthersAlone(t)
    BY <1>0, <1>14 DEF Change, TypeOK, OthersAlone, Changes, Under
  <2> QED
    BY <1>0, <2>1, <2>2, <2>3, ControlStep DEF TypeInv
<1>15. ASSUME NEW t \in Threads, VolatileExit(t)
      PROVE  TypeInv'
  <2>1. TypeOK'
    BY <1>0, <1>15 DEF VolatileExit, TypeOK
  <2>2. ControlOf(t)'
    BY <1>0, <1>15 DEF VolatileExit, TypeOK, Control, ControlOf, Watching, WatchingChild
  <2>3. OthersAlone(t)
    BY <1>0, <1>15 DEF VolatileExit, TypeOK, OthersAlone
  <2> QED
    BY <1>0, <2>1, <2>2, <2>3, ControlStep DEF TypeInv
<1>16. CASE UNCHANGED vars
  BY <1>0, <1>16 DEF vars, TypeInv, TypeOK, Control, ControlOf
<1> QED
  BY <1>1, <1>2, <1>3, <1>4, <1>5, <1>6, <1>7, <1>8, <1>9, <1>10, <1>11, <1>12, <1>13, <1>14, <1>15, <1>16 DEF Next

\* Every reachable state is well formed (NodeCache.__init__() and every method
\* that follows it).
THEOREM TypeCorrect == Spec => []TypeOK
<1>1. Init => TypeInv
  BY InitTypeInv
<1>2. TypeInv /\ [Next]_vars => TypeInv'
  BY NextTypeInv
<1>3. TypeInv => TypeOK
  BY DEF TypeInv
<1> QED
  BY <1>1, <1>2, <1>3, PTL DEF Spec


-----------------------------------------------------------------------------
(***************************************************************************)
(* Safety.                                                                 *)
(***************************************************************************)
OwnOutsideVolatile ==
    \A s \in Threads : \A v \in vol[s] : \A u \in Uris :
        (Under(u, v) /\ cached[u] # None) => how[u] # "own"

\* What is taken for a node is there.
LEMMA NodeIsThere ==
    ASSUME NEW n \in Nodes
    PROVE  n.self # 0
  BY BoundAssumption DEF Nodes, Changes

SafeInv ==
    /\ TypeInv
    /\ DirtyWhenVolatile
    /\ OwnOutsideVolatile
    /\ CleanFetchCurrent
    /\ OwnEntryCurrent

\* Entering a watch and entering a volatile section each look for the other.
LEMMA NextDirty == TypeInv /\ DirtyWhenVolatile /\ [Next]_vars => DirtyWhenVolatile'
<1> SUFFICES ASSUME TypeInv /\ DirtyWhenVolatile, [Next]_vars PROVE DirtyWhenVolatile'
  OBVIOUS
<1>0. TypeOK /\ Control
  BY DEF TypeInv
<1> USE UriAssumption, BoundAssumption DEF Labels, Uris, Goto, serverVars, threadVars
<1>1. ASSUME NEW t \in Threads, NEW u \in Uris, GetHit(t, u)
      PROVE  DirtyWhenVolatile'
  BY <1>0, <1>1 DEF GetHit, TypeOK, DirtyWhenVolatile
<1>2. ASSUME NEW t \in Threads, NEW u \in Uris, GetMiss(t, u)
      PROVE  DirtyWhenVolatile'
  BY <1>0, <1>2 DEF GetMiss, TypeOK, DirtyWhenVolatile, WatchEnter
<1>3. ASSUME NEW t \in Threads, NEW u \in Uris, DeleteEnter(t, u)
      PROVE  DirtyWhenVolatile'
  BY <1>0, <1>3 DEF DeleteEnter, TypeOK, DirtyWhenVolatile, VolatileEnter
<1>4. ASSUME NEW t \in Threads, NEW u \in Uris, Create(t, u)
      PROVE  DirtyWhenVolatile'
  BY <1>0, <1>4 DEF Create, TypeOK, DirtyWhenVolatile
<1>5. ASSUME NEW t \in Threads, NEW u \in Uris, Update(t, u)
      PROVE  DirtyWhenVolatile'
  BY <1>0, <1>5 DEF Update, TypeOK, DirtyWhenVolatile
<1>6. ASSUME NEW t \in Threads, NEW u \in Files, NEW v \in Files, MoveEnter(t, u, v)
      PROVE  DirtyWhenVolatile'
  BY <1>0, <1>6 DEF MoveEnter, TypeOK, DirtyWhenVolatile, VolatileEnter
<1>7. ASSUME NEW t \in Threads, NEW c \in Files, ChildWatch(t, c)
      PROVE  DirtyWhenVolatile'
  BY <1>0, <1>7 DEF ChildWatch, TypeOK, DirtyWhenVolatile, WatchEnter
<1>8. ASSUME NEW t \in Threads, Fetch(t)
      PROVE  DirtyWhenVolatile'
  BY <1>0, <1>8 DEF Fetch, TypeOK, DirtyWhenVolatile, Fetched
<1>9. ASSUME NEW t \in Threads, FetchFails(t)
      PROVE  DirtyWhenVolatile'
  BY <1>0, <1>9 DEF FetchFails, TypeOK, DirtyWhenVolatile
<1>10. ASSUME NEW t \in Threads, InsertTest(t)
      PROVE  DirtyWhenVolatile'
  BY <1>0, <1>10 DEF InsertTest, TypeOK, DirtyWhenVolatile
<1>11. ASSUME NEW t \in Threads, InsertSet(t)
      PROVE  DirtyWhenVolatile'
  BY <1>0, <1>11 DEF InsertSet, TypeOK, DirtyWhenVolatile
<1>12. ASSUME NEW t \in Threads, WatchExit(t)
      PROVE  DirtyWhenVolatile'
  BY <1>0, <1>12 DEF WatchExit, TypeOK, DirtyWhenVolatile, GoOn
<1>13. ASSUME NEW t \in Threads, MoveEnter2(t)
      PROVE  DirtyWhenVolatile'
  BY <1>0, <1>13 DEF MoveEnter2, TypeOK, DirtyWhenVolatile, VolatileEnter
<1>14. ASSUME NEW t \in Threads, Change(t)
      PROVE  DirtyWhenVolatile'
  BY <1>0, <1>14 DEF Change, TypeOK, DirtyWhenVolatile, Under
<1>15. ASSUME NEW t \in Threads, VolatileExit(t)
      PROVE  DirtyWhenVolatile'
  BY <1>0, <1>15 DEF VolatileExit, TypeOK, DirtyWhenVolatile
<1>16. CASE UNCHANGED vars
  BY <1>0, <1>16 DEF vars, DirtyWhenVolatile
<1> QED
  BY <1>1, <1>2, <1>3, <1>4, <1>5, <1>6, <1>7, <1>8, <1>9, <1>10, <1>11, <1>12, <1>13, <1>14, <1>15, <1>16 DEF Next

\* An insert that counts as get_node()'s own finds its watch clean, so no
\* volatile section is open above it.
LEMMA NextOutside == TypeInv /\ DirtyWhenVolatile /\ OwnOutsideVolatile /\ [Next]_vars => OwnOutsideVolatile'
<1> SUFFICES ASSUME TypeInv /\ DirtyWhenVolatile /\ OwnOutsideVolatile, [Next]_vars PROVE OwnOutsideVolatile'
  OBVIOUS
<1>0. TypeOK /\ Control
  BY DEF TypeInv
<1> USE UriAssumption, BoundAssumption DEF Labels, Uris, Goto, serverVars, threadVars
<1>1. ASSUME NEW t \in Threads, NEW u \in Uris, GetHit(t, u)
      PROVE  OwnOutsideVolatile'
  BY <1>0, <1>1 DEF GetHit, TypeOK, OwnOutsideVolatile
<1>2. ASSUME NEW t \in Threads, NEW u \in Uris, GetMiss(t, u)
      PROVE  OwnOutsideVolatile'
  BY <1>0, <1>2 DEF GetMiss, TypeOK, OwnOutsideVolatile, WatchEnter
<1>3. ASSUME NEW t \in Threads, NEW u \in Uris, DeleteEnter(t, u)
      PROVE  OwnOutsideVolatile'
  BY <1>0, <1>3 DEF DeleteEnter, TypeOK, OwnOutsideVolatile, VolatileEnter
<1>4. ASSUME NEW t \in Threads, NEW u \in Uris, Create(t, u)
      PROVE  OwnOutsideVolatile'
  BY <1>0, <1>4 DEF Create, TypeOK, OwnOutsideVolatile
<1>5. ASSUME NEW t \in Threads, NEW u \in Uris, Update(t, u)
      PROVE  OwnOutsideVolatile'
  BY <1>0, <1>5 DEF Update, TypeOK, OwnOutsideVolatile
<1>6. ASSUME NEW t \in Threads, NEW u \in Files, NEW v \in Files, MoveEnter(t, u, v)
      PROVE  OwnOutsideVolatile'
  BY <1>0, <1>6 DEF MoveEnter, TypeOK, OwnOutsideVolatile, VolatileEnter
<1>7. ASSUME NEW t \in Threads, NEW c \in Files, ChildWatch(t, c)
      PROVE  OwnOutsideVolatile'
  BY <1>0, <1>7 DEF ChildWatch, TypeOK, OwnOutsideVolatile, WatchEnter
<1>8. ASSUME NEW t \in Threads, Fetch(t)
      PROVE  OwnOutsideVolatile'
  BY <1>0, <1>8 DEF Fetch, TypeOK, OwnOutsideVolatile, Fetched
<1>9. ASSUME NEW t \in Threads, FetchFails(t)
      PROVE  OwnOutsideVolatile'
  BY <1>0, <1>9 DEF FetchFails, TypeOK, OwnOutsideVolatile
<1>10. ASSUME NEW t \in Threads, InsertTest(t)
      PROVE  OwnOutsideVolatile'
  BY <1>0, <1>10 DEF InsertTest, TypeOK, OwnOutsideVolatile
<1>11. ASSUME NEW t \in Threads, InsertSet(t)
      PROVE  OwnOutsideVolatile'
  <2> SUFFICES ASSUME NEW s \in Threads, NEW v \in vol[s], NEW u \in Uris,
                      Under(u, v), cached'[u] # None
               PROVE  how'[u] # "own"
    BY <1>11 DEF OwnOutsideVolatile, InsertSet
  <2>1. CASE u # watch[t]
    BY <1>0, <1>11, <2>1 DEF InsertSet, TypeOK, OwnOutsideVolatile
  <2>2. CASE u = watch[t] /\ pc[t] = "set"
    <3>1. dirty[t]
      BY <2>2 DEF DirtyWhenVolatile
    <3> QED
      BY <1>0, <1>11, <2>2, <3>1 DEF InsertSet, TypeOK
  <2>3. CASE u = watch[t] /\ pc[t] = "kset"
    BY <1>0, <1>11, <2>3 DEF InsertSet, TypeOK
  <2> QED
    BY <1>11, <2>1, <2>2, <2>3 DEF InsertSet
<1>12. ASSUME NEW t \in Threads, WatchExit(t)
      PROVE  OwnOutsideVolatile'
  BY <1>0, <1>12 DEF WatchExit, TypeOK, OwnOutsideVolatile, GoOn
<1>13. ASSUME NEW t \in Threads, MoveEnter2(t)
      PROVE  OwnOutsideVolatile'
  BY <1>0, <1>13 DEF MoveEnter2, TypeOK, OwnOutsideVolatile, VolatileEnter
<1>14. ASSUME NEW t \in Threads, Change(t)
      PROVE  OwnOutsideVolatile'
  BY <1>0, <1>14 DEF Change, TypeOK, OwnOutsideVolatile, Under
<1>15. ASSUME NEW t \in Threads, VolatileExit(t)
      PROVE  OwnOutsideVolatile'
  BY <1>0, <1>15 DEF VolatileExit, TypeOK, OwnOutsideVolatile
<1>16. CASE UNCHANGED vars
  BY <1>0, <1>16 DEF vars, OwnOutsideVolatile
<1> QED
  BY <1>1, <1>2, <1>3, <1>4, <1>5, <1>6, <1>7, <1>8, <1>9, <1>10, <1>11, <1>12, <1>13, <1>14, <1>15, <1>16 DEF Next

\* A change makes the watches of all it touches dirty before it happens.
LEMMA NextFetch == TypeInv /\ DirtyWhenVolatile /\ CleanFetchCurrent /\ [Next]_vars => CleanFetchCurrent'
<1> SUFFICES ASSUME TypeInv /\ DirtyWhenVolatile /\ CleanFetchCurrent, [Next]_vars PROVE CleanFetchCurrent'
  OBVIOUS
<1>0. TypeOK /\ Control
  BY DEF TypeInv
<1> USE UriAssumption, BoundAssumption DEF Labels, Uris, Goto, serverVars, threadVars
<1>1. ASSUME NEW t \in Threads, NEW u \in Uris, GetHit(t, u)
      PROVE  CleanFetchCurrent'
  BY <1>0, <1>1 DEF GetHit, TypeOK, CleanFetchCurrent
<1>2. ASSUME NEW t \in Threads, NEW u \in Uris, GetMiss(t, u)
      PROVE  CleanFetchCurrent'
  BY <1>0, <1>2 DEF GetMiss, TypeOK, CleanFetchCurrent, WatchEnter
<1>3. ASSUME NEW t \in Threads, NEW u \in Uris, DeleteEnter(t, u)
      PROVE  CleanFetchCurrent'
  BY <1>0, <1>3 DEF DeleteEnter, TypeOK, CleanFetchCurrent, VolatileEnter
<1>4. ASSUME NEW t \in Threads, NEW u \in Uris, Create(t, u)
      PROVE  CleanFetchCurrent'
  <2> SUFFICES ASSUME NEW s \in Threads, pc[s] \in {"test", "set"},
                      ~dirty[s], arg[s] \notin loose
               PROVE  got[s].self = server'[arg[s]]
    BY <1>4 DEF CleanFetchCurrent, Create
  <2>1. got[s].self = server[arg[s]] /\ arg[s] \in Uris
    BY <1>0 DEF CleanFetchCurrent, TypeOK
  <2>2. got[s].self # 0
    BY <1>0, NodeIsThere DEF Control, ControlOf
  <2> QED
    BY <1>0, <1>4, <2>1, <2>2 DEF Create, TypeOK
<1>5. ASSUME NEW t \in Threads, NEW u \in Uris, Update(t, u)
      PROVE  CleanFetchCurrent'
  BY <1>0, <1>5 DEF Update, TypeOK, CleanFetchCurrent
<1>6. ASSUME NEW t \in Threads, NEW u \in Files, NEW v \in Files, MoveEnter(t, u, v)
      PROVE  CleanFetchCurrent'
  BY <1>0, <1>6 DEF MoveEnter, TypeOK, CleanFetchCurrent, VolatileEnter
<1>7. ASSUME NEW t \in Threads, NEW c \in Files, ChildWatch(t, c)
      PROVE  CleanFetchCurrent'
  BY <1>0, <1>7 DEF ChildWatch, TypeOK, CleanFetchCurrent, WatchEnter
<1>8. ASSUME NEW t \in Threads, Fetch(t)
      PROVE  CleanFetchCurrent'
  BY <1>0, <1>8 DEF Fetch, TypeOK, CleanFetchCurrent, Fetched
<1>9. ASSUME NEW t \in Threads, FetchFails(t)
      PROVE  CleanFetchCurrent'
  BY <1>0, <1>9 DEF FetchFails, TypeOK, CleanFetchCurrent
<1>10. ASSUME NEW t \in Threads, InsertTest(t)
      PROVE  CleanFetchCurrent'
  BY <1>0, <1>10 DEF InsertTest, TypeOK, CleanFetchCurrent
<1>11. ASSUME NEW t \in Threads, InsertSet(t)
      PROVE  CleanFetchCurrent'
  BY <1>0, <1>11 DEF InsertSet, TypeOK, CleanFetchCurrent
<1>12. ASSUME NEW t \in Threads, WatchExit(t)
      PROVE  CleanFetchCurrent'
  BY <1>0, <1>12 DEF WatchExit, TypeOK, CleanFetchCurrent, GoOn
<1>13. ASSUME NEW t \in Threads, MoveEnter2(t)
      PROVE  CleanFetchCurrent'
  BY <1>0, <1>13 DEF MoveEnter2, TypeOK, CleanFetchCurrent, VolatileEnter
<1>14. ASSUME NEW t \in Threads, Change(t)
      PROVE  CleanFetchCurrent'
  <2> SUFFICES ASSUME NEW s \in Threads, pc'[s] \in {"test", "set"},
                      ~dirty[s], arg[s] \notin loose
               PROVE  got[s].self = server'[arg[s]]
    BY <1>14 DEF CleanFetchCurrent, Change
  <2>1. pc[s] \in {"test", "set"}
    BY <1>0, <1>14 DEF Change, TypeOK
  <2>2. got[s].self = server[arg[s]] /\ arg[s] \in Uris
    BY <1>0, <2>1 DEF CleanFetchCurrent, TypeOK
  <2>3. watch[s] = arg[s] /\ watch[s] # None
    BY <1>0, <2>1, <2>2 DEF Control, ControlOf, Watching
  <2>4. pc[t] = "change" => arg[t] \in vol[t] /\ (dest[t] # None => dest[t] \in vol[t])
    BY <1>0 DEF Control, ControlOf
  <2>5. ~Under(arg[s], arg[t]) /\ arg[s] # dest[t]
    BY <1>14, <2>2, <2>3, <2>4 DEF DirtyWhenVolatile, Under, Change
  <2> QED
    BY <1>0, <1>14, <2>2, <2>5 DEF Change, TypeOK
<1>15. ASSUME NEW t \in Threads, VolatileExit(t)
      PROVE  CleanFetchCurrent'
  BY <1>0, <1>15 DEF VolatileExit, TypeOK, CleanFetchCurrent
<1>16. CASE UNCHANGED vars
  BY <1>0, <1>16 DEF vars, CleanFetchCurrent
<1> QED
  BY <1>1, <1>2, <1>3, <1>4, <1>5, <1>6, <1>7, <1>8, <1>9, <1>10, <1>11, <1>12, <1>13, <1>14, <1>15, <1>16 DEF Next

\* A change happens where no entry of get_node()'s own is.
LEMMA NextEntry == TypeInv /\ OwnOutsideVolatile /\ CleanFetchCurrent /\ OwnEntryCurrent /\ [Next]_vars => OwnEntryCurrent'
<1> SUFFICES ASSUME TypeInv /\ OwnOutsideVolatile /\ CleanFetchCurrent /\ OwnEntryCurrent, [Next]_vars PROVE OwnEntryCurrent'
  OBVIOUS
<1>0. TypeOK /\ Control
  BY DEF TypeInv
<1> USE UriAssumption, BoundAssumption DEF Labels, Uris, Goto, serverVars, threadVars
<1>1. ASSUME NEW t \in Threads, NEW u \in Uris, GetHit(t, u)
      PROVE  OwnEntryCurrent'
  BY <1>0, <1>1 DEF GetHit, TypeOK, OwnEntryCurrent
<1>2. ASSUME NEW t \in Threads, NEW u \in Uris, GetMiss(t, u)
      PROVE  OwnEntryCurrent'
  BY <1>0, <1>2 DEF GetMiss, TypeOK, OwnEntryCurrent, WatchEnter
<1>3. ASSUME NEW t \in Threads, NEW u \in Uris, DeleteEnter(t, u)
      PROVE  OwnEntryCurrent'
  BY <1>0, <1>3 DEF DeleteEnter, TypeOK, OwnEntryCurrent, VolatileEnter
<1>4. ASSUME NEW t \in Threads, NEW u \in Uris, Create(t, u)
      PROVE  OwnEntryCurrent'
  <2> SUFFICES ASSUME NEW x \in Uris, cached[x] # None, how[x] = "own",
                      x \notin loose
               PROVE  cached[x].self = server'[x]
    BY <1>4 DEF OwnEntryCurrent, Create
  <2>1. cached[x].self = server[x]
    BY DEF OwnEntryCurrent
  <2>2. cached[x].self # 0
    BY <1>0, NodeIsThere DEF TypeOK
  <2> QED
    BY <1>0, <1>4, <2>1, <2>2 DEF Create, TypeOK
<1>5. ASSUME NEW t \in Threads, NEW u \in Uris, Update(t, u)
      PROVE  OwnEntryCurrent'
  BY <1>0, <1>5 DEF Update, TypeOK, OwnEntryCurrent
<1>6. ASSUME NEW t \in Threads, NEW u \in Files, NEW v \in Files, MoveEnter(t, u, v)
      PROVE  OwnEntryCurrent'
  BY <1>0, <1>6 DEF MoveEnter, TypeOK, OwnEntryCurrent, VolatileEnter
<1>7. ASSUME NEW t \in Threads, NEW c \in Files, ChildWatch(t, c)
      PROVE  OwnEntryCurrent'
  BY <1>0, <1>7 DEF ChildWatch, TypeOK, OwnEntryCurrent, WatchEnter
<1>8. ASSUME NEW t \in Threads, Fetch(t)
      PROVE  OwnEntryCurrent'
  BY <1>0, <1>8 DEF Fetch, TypeOK, OwnEntryCurrent, Fetched
<1>9. ASSUME NEW t \in Threads, FetchFails(t)
      PROVE  OwnEntryCurrent'
  BY <1>0, <1>9 DEF FetchFails, TypeOK, OwnEntryCurrent
<1>10. ASSUME NEW t \in Threads, InsertTest(t)
      PROVE  OwnEntryCurrent'
  BY <1>0, <1>10 DEF InsertTest, TypeOK, OwnEntryCurrent
<1>11. ASSUME NEW t \in Threads, InsertSet(t)
      PROVE  OwnEntryCurrent'
  <2> SUFFICES ASSUME NEW x \in Uris, cached'[x] # None, how'[x] = "own",
                      x \notin loose
               PROVE  cached'[x].self = server[x]
    BY <1>11 DEF OwnEntryCurrent, InsertSet
  <2>1. CASE x # watch[t]
    BY <1>0, <1>11, <2>1 DEF InsertSet, TypeOK, OwnEntryCurrent
  <2>2. CASE x = watch[t] /\ pc[t] = "set"
    <3>1. ~dirty[t] /\ cached'[x] = got[t]
      BY <1>0, <1>11, <2>2 DEF InsertSet, TypeOK
    <3>2. watch[t] = arg[t]
      BY <1>0, <2>2 DEF Control, ControlOf, Watching
    <3> QED
      BY <2>2, <3>1, <3>2 DEF CleanFetchCurrent
  <2>3. CASE x = watch[t] /\ pc[t] = "kset"
    BY <1>0, <1>11, <2>3 DEF InsertSet, TypeOK
  <2> QED
    BY <1>11, <2>1, <2>2, <2>3 DEF InsertSet
<1>12. ASSUME NEW t \in Threads, WatchExit(t)
      PROVE  OwnEntryCurrent'
  BY <1>0, <1>12 DEF WatchExit, TypeOK, OwnEntryCurrent, GoOn
<1>13. ASSUME NEW t \in Threads, MoveEnter2(t)
      PROVE  OwnEntryCurrent'
  BY <1>0, <1>13 DEF MoveEnter2, TypeOK, OwnEntryCurrent, VolatileEnter
<1>14. ASSUME NEW t \in Threads, Change(t)
      PROVE  OwnEntryCurrent'
  <2> SUFFICES ASSUME NEW x \in Uris, cached[x] # None, how[x] = "own",
                      x \notin loose
               PROVE  cached[x].self = server'[x]
    BY <1>14 DEF OwnEntryCurrent, Change
  <2>1. cached[x].self = server[x]
    BY DEF OwnEntryCurrent
  <2>2. pc[t] = "change" => arg[t] \in vol[t] /\ (dest[t] # None => dest[t] \in vol[t])
    BY <1>0 DEF Control, ControlOf
  <2>3. ~Under(x, arg[t]) /\ x # dest[t]
    BY <1>14, <2>2 DEF OwnOutsideVolatile, Under, Change
  <2> QED
    BY <1>0, <1>14, <2>1, <2>3 DEF Change, TypeOK
<1>15. ASSUME NEW t \in Threads, VolatileExit(t)
      PROVE  OwnEntryCurrent'
  BY <1>0, <1>15 DEF VolatileExit, TypeOK, OwnEntryCurrent
<1>16. CASE UNCHANGED vars
  BY <1>0, <1>16 DEF vars, OwnEntryCurrent
<1> QED
  BY <1>1, <1>2, <1>3, <1>4, <1>5, <1>6, <1>7, <1>8, <1>9, <1>10, <1>11, <1>12, <1>13, <1>14, <1>15, <1>16 DEF Next

LEMMA SafeInvariant == Spec => []SafeInv
<1>1. Init => SafeInv
  <2> SUFFICES ASSUME Init PROVE SafeInv
    OBVIOUS
  <2>1. TypeInv
    BY InitTypeInv
  <2>2. DirtyWhenVolatile /\ OwnOutsideVolatile /\ CleanFetchCurrent /\ OwnEntryCurrent
    BY DEF Init, DirtyWhenVolatile, OwnOutsideVolatile, CleanFetchCurrent,
           OwnEntryCurrent
  <2> QED
    BY <2>1, <2>2 DEF SafeInv
<1>2. SafeInv /\ [Next]_vars => SafeInv'
  BY NextTypeInv, NextDirty, NextOutside, NextFetch, NextEntry DEF SafeInv
<1> QED
  BY <1>1, <1>2, PTL DEF Spec

\* NodeCache.py 20-21: a watch that overlaps a volatile section of its tree is
\* dirty, for any number of threads and whichever is entered first.
THEOREM WatchesTurnDirty == Spec => []DirtyWhenVolatile
<1>1. SafeInv => DirtyWhenVolatile
  BY DEF SafeInv
<1> QED
  BY <1>1, SafeInvariant, PTL

\* What get_node() has read under a watch that is still clean is what the
\* server has.
THEOREM CleanFetchesCurrent == Spec => []CleanFetchCurrent
<1>1. SafeInv => CleanFetchCurrent
  BY DEF SafeInv
<1> QED
  BY <1>1, SafeInvariant, PTL

\* Entries made under a clean watch stay current as long as they are there.
THEOREM OwnEntriesCurrent == Spec => []OwnEntryCurrent
<1>1. SafeInv => OwnEntryCurrent
  BY DEF SafeInv
<1> QED
  BY <1>1, SafeInvariant, PTL
=============================================================================
