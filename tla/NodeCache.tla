------------------------------ MODULE NodeCache ------------------------------
(***************************************************************************)
(* python/fuse/NodeCache.py and the operations of the VOSpace client       *)
(* (python/fuse/vos.py) that fill the cache and change nodes: what the FUSE*)
(* file system sees of a node that it has changed itself.                  *)
(*                                                                         *)
(* get_node() fetches a node while it holds a Watch of the node's URI and  *)
(* inserts it unless the watch became dirty; the operations that change    *)
(* nodes hold a Volatile, which clears the cached nodes under a URI and    *)
(* makes the watches of URIs under it dirty.  The methods of the cache run *)
(* under its lock, and are one step each, all but Watch.insert(), which    *)
(* takes no lock: its test and its assignment are two steps.               *)
(*                                                                         *)
(* The tree has one container, Top, and the nodes in it.  A node on the    *)
(* server is the number of its last change, 0 if it is not there.  What    *)
(* get_node() has in its hands is that number and those of the children    *)
(* that the listing names.  The pages after the first 500 children         *)
(* (lines 1495-1506) are not modelled.                                     *)
(***************************************************************************)
EXTENDS Naturals

CONSTANTS
    Threads,      \* threads that use the client
    Top,          \* URI of the container
    Files,        \* URIs of the nodes in it
    None,         \* no node, no URI
    MaxChanges    \* bound on the number of changes on the server

ASSUME UriAssumption == Top \notin Files /\ None \notin Files \cup {Top}

ASSUME BoundAssumption == MaxChanges \in Nat \ {0}

VARIABLES
    server,   \* the nodes on the server
    clock,    \* number of changes so far
    cached,   \* the cache, a dict with None for what it lacks
    vol,      \* volatileNodes: the URIs each thread's Volatiles protect
    watch,    \* watchedNodes: the URI each thread watches
    dirty,    \* the dirty flag of each thread's watch
    pc,       \* where each thread is
    arg,      \* URI of get_node(), or of the node changed
    dest,     \* where move() moves it
    got,      \* the node get_node() has
    todo,     \* its children still to be inserted
    how,      \* how each entry of the cache came there (auxiliary)
    loose     \* nodes changed outside a Volatile (auxiliary)

serverVars == <<server, clock>>
threadVars == <<arg, dest, got, todo>>
vars == <<server, clock, cached, vol, watch, dirty, pc, arg, dest, got, todo,
          how, loose>>

Uris == Files \cup {Top}
Changes == 1 .. MaxChanges
Listings == UNION {[S -> Changes] : S \in SUBSET Files}
Nodes == [self : Changes, kids : Listings]

NoKids == [c \in {} |-> 0]

\* u.startswith(v)
Under(u, v) == u = v \/ v = Top

(***************************************************************************)
(* "fetch" in lines 1465-1488, "test" and "set" in NodeCache.insert()      *)
(* called from line 1489, "leave" at the end of the watch, "kids" before   *)
(* line 1508, "ktest", "kset", "kleave" the same for a child.  "enter2"    *)
(* before the second volatile section of move(), "change" inside, "exit" at*)
(* the end.                                                                *)
(***************************************************************************)
Labels == {"idle", "fetch", "test", "set", "leave", "kids", "ktest", "kset",
           "kleave", "enter2", "change", "exit"}

Init ==
    /\ server \in [Uris -> 0 .. 1]
    /\ server[Top] = 1
    /\ clock = 1
    /\ cached = [u \in Uris |-> None]
    /\ vol = [t \in Threads |-> {}]
    /\ watch = [t \in Threads |-> None]
    /\ dirty = [t \in Threads |-> FALSE]
    /\ pc = [t \in Threads |-> "idle"]
    /\ arg = [t \in Threads |-> Top]
    /\ dest = [t \in Threads |-> None]
    /\ got = [t \in Threads |-> None]
    /\ todo = [t \in Threads |-> {}]
    /\ how = [u \in Uris |-> "own"]
    /\ loose = {}

Goto(t, label) == pc' = [pc EXCEPT ![t] = label]

-----------------------------------------------------------------------------
(* get_node()                                                              *)

\* Lines 1460-1461 and 1507: a cached node is used, and its children are
\* inserted again.
GetHit(t, u) ==
    /\ pc[t] = "idle"
    /\ cached[u] # None
    /\ cached[u].kids # NoKids
    /\ arg' = [arg EXCEPT ![t] = u]
    /\ got' = [got EXCEPT ![t] = cached[u]]
    /\ todo' = [todo EXCEPT ![t] = DOMAIN cached[u].kids]
    /\ Goto(t, "kids")
    /\ UNCHANGED <<serverVars, cached, vol, watch, dirty, dest, how, loose>>

\* Watch.__enter__(): a watch under a Volatile is dirty from the start.
WatchEnter(t, u, label) ==
    /\ watch' = [watch EXCEPT ![t] = u]
    /\ dirty' = [dirty EXCEPT ![t] =
                   \E s \in Threads : \E v \in vol[s] : Under(u, v)]
    /\ Goto(t, label)

\* Lines 1460-1464: force is set, or the node is not cached.
GetMiss(t, u) ==
    /\ pc[t] = "idle"
    /\ arg' = [arg EXCEPT ![t] = u]
    /\ WatchEnter(t, u, "fetch")
    /\ UNCHANGED <<serverVars, cached, vol, dest, got, todo, how, loose>>

\* What the server tells of u, with the children S.
Fetched(u, S) ==
    [self |-> server[u], kids |-> [c \in S |-> server[c]]]

\* The children that a listing of u may name: limit=0 asks for none.
Listed(u) == IF u = Top THEN {{}, {c \in Files : server[c] # 0}} ELSE {{}}

\* Lines 1469-1474.
Fetch(t) ==
    /\ pc[t] = "fetch"
    /\ server[arg[t]] # 0
    /\ \E S \in Listed(arg[t]) :
         /\ got' = [got EXCEPT ![t] = Fetched(arg[t], S)]
         /\ todo' = [todo EXCEPT ![t] = S]
    /\ Goto(t, "test")
    /\ UNCHANGED <<serverVars, cached, vol, watch, dirty, arg, dest, how, loose>>

\* The request fails, or the node is not there: the exception leaves the
\* watch and get_node().
FetchFails(t) ==
    /\ pc[t] = "fetch"
    /\ todo' = [todo EXCEPT ![t] = {}]
    /\ Goto(t, "leave")
    /\ UNCHANGED <<serverVars, cached, vol, watch, dirty, arg, dest, got, how,
                   loose>>

\* NodeCache.py 123.
InsertTest(t) ==
    /\ \/ pc[t] = "test" /\ Goto(t, IF dirty[t] THEN "leave" ELSE "set")
       \/ pc[t] = "ktest" /\ Goto(t, IF dirty[t] THEN "kleave" ELSE "kset")
    /\ UNCHANGED <<serverVars, cached, vol, watch, dirty, threadVars, how,
                   loose>>

\* NodeCache.py 124.
InsertSet(t) ==
    /\ \/ /\ pc[t] = "set"
          /\ cached' = [cached EXCEPT ![watch[t]] = got[t]]
          /\ how' = [how EXCEPT ![watch[t]] = IF dirty[t] THEN "late" ELSE "own"]
          /\ Goto(t, "leave")
       \/ /\ pc[t] = "kset"
          /\ cached' = [cached EXCEPT ![watch[t]] =
                          [self |-> got[t].kids[watch[t]], kids |-> NoKids]]
          /\ how' = [how EXCEPT ![watch[t]] = "child"]
          /\ Goto(t, "kleave")
    /\ UNCHANGED <<serverVars, vol, watch, dirty, threadVars, loose>>

\* get_node() goes on with the children that are left, or returns
\* (lines 1507-1510).
GoOn(t, left) ==
    /\ todo' = [todo EXCEPT ![t] = left]
    /\ IF left = {}
         THEN /\ got' = [got EXCEPT ![t] = None]
              /\ arg' = [arg EXCEPT ![t] = Top]
              /\ Goto(t, "idle")
         ELSE UNCHANGED <<got, arg>> /\ Goto(t, "kids")

\* Watch.__exit__()
WatchExit(t) ==
    /\ pc[t] \in {"leave", "kleave"}
    /\ watch' = [watch EXCEPT ![t] = None]
    /\ dirty' = [dirty EXCEPT ![t] = FALSE]
    /\ GoOn(t, todo[t] \ {watch[t]})
    /\ UNCHANGED <<serverVars, cached, vol, dest, how, loose>>

\* Line 1508.
ChildWatch(t, c) ==
    /\ pc[t] = "kids"
    /\ c \in todo[t]
    /\ WatchEnter(t, c, "ktest")
    /\ UNCHANGED <<serverVars, cached, vol, threadVars, how, loose>>

-----------------------------------------------------------------------------
(* Changes of nodes                                                        *)

\* Mutant: the cached nodes stay.
VolatileEnter_Keep(t, u, label) ==
    /\ vol' = [vol EXCEPT ![t] = @ \cup {u}]
    /\ cached' = cached
    /\ dirty' = [s \in Threads |->
                   dirty[s] \/ (watch[s] # None /\ Under(watch[s], u))]
    /\ Goto(t, label)
    /\ how' = how

\* Mutant: the watches in progress stay clean.
VolatileEnter_NoMark(t, u, label) ==
    /\ vol' = [vol EXCEPT ![t] = @ \cup {u}]
    /\ cached' = [x \in Uris |-> IF Under(x, u) THEN None ELSE cached[x]]
    /\ dirty' = dirty
    /\ Goto(t, label)
    /\ how' = [x \in Uris |-> IF Under(x, u) THEN "own" ELSE how[x]]

\* Volatile.__enter__()
VolatileEnter(t, u, label) ==
    /\ vol' = [vol EXCEPT ![t] = @ \cup {u}]
    /\ cached' = [x \in Uris |-> IF Under(x, u) THEN None ELSE cached[x]]
    /\ dirty' = [s \in Threads |->
                   dirty[s] \/ (watch[s] # None /\ Under(watch[s], u))]
    /\ Goto(t, label)
    /\ how' = [x \in Uris |-> IF Under(x, u) THEN "own" ELSE how[x]]

\* delete(), lines 2020-2024.
DeleteEnter(t, u) ==
    /\ pc[t] = "idle"
    /\ arg' = [arg EXCEPT ![t] = u]
    /\ VolatileEnter(t, u, "change")
    /\ UNCHANGED <<serverVars, watch, dest, got, todo, loose>>

\* move(), lines 1681-1693, and the second of its volatile sections.
MoveEnter(t, u, v) ==
    /\ pc[t] = "idle"
    /\ u # v
    /\ arg' = [arg EXCEPT ![t] = u]
    /\ dest' = [dest EXCEPT ![t] = v]
    /\ VolatileEnter(t, u, "enter2")
    /\ UNCHANGED <<serverVars, watch, got, todo, loose>>

MoveEnter2(t) ==
    /\ pc[t] = "enter2"
    /\ VolatileEnter(t, dest[t], "change")
    /\ UNCHANGED <<serverVars, watch, threadVars, loose>>

\* The request of delete() or of move(), and the change it makes on the
\* server, if it makes one.
Change(t) ==
    /\ pc[t] = "change"
    /\ \/ UNCHANGED serverVars
       \/ /\ clock < MaxChanges
          /\ server[arg[t]] # 0
          /\ dest[t] # None => server[dest[t]] = 0
          /\ clock' = clock + 1
          /\ server' = [x \in Uris |-> IF x = dest[t] THEN clock + 1
                                       ELSE IF Under(x, arg[t]) THEN 0
                                       ELSE server[x]]
    /\ Goto(t, "exit")
    /\ UNCHANGED <<cached, vol, watch, dirty, threadVars, how, loose>>

\* Volatile.__exit__(), of all sections at once: nothing happens in between.
VolatileExit(t) ==
    /\ pc[t] = "exit"
    /\ vol' = [vol EXCEPT ![t] = {}]
    /\ arg' = [arg EXCEPT ![t] = Top]
    /\ dest' = [dest EXCEPT ![t] = None]
    /\ Goto(t, "idle")
    /\ UNCHANGED <<serverVars, cached, watch, dirty, got, todo, how, loose>>

\* create(), mkdir(), link(): the request is not in a volatile section, and
\* makes a node that was not there.
Create(t, u) ==
    /\ pc[t] = "idle"
    /\ clock < MaxChanges
    /\ server[u] = 0
    /\ u # Top => server[Top] # 0
    /\ clock' = clock + 1
    /\ server' = [server EXCEPT ![u] = clock + 1]
    /\ UNCHANGED <<cached, vol, watch, dirty, pc, threadVars, how, loose>>

\* update() and the PUT of copy(): the same for a node that was there.  The
\* get_node() with force=True that follows (vofs.py 328 and 352, vos.py 1389)
\* is a GetMiss.
Update(t, u) ==
    /\ pc[t] = "idle"
    /\ clock < MaxChanges
    /\ server[u] # 0
    /\ clock' = clock + 1
    /\ server' = [server EXCEPT ![u] = clock + 1]
    /\ loose' = loose \cup {u}
    /\ UNCHANGED <<cached, vol, watch, dirty, pc, threadVars, how>>

-----------------------------------------------------------------------------
Next ==
    \E t \in Threads :
      \/ \E u \in Uris : \/ GetHit(t, u)
                         \/ GetMiss(t, u)
                         \/ DeleteEnter(t, u)
                         \/ Create(t, u)
                         \/ Update(t, u)
      \/ \E u, v \in Files : MoveEnter(t, u, v)
      \/ \E c \in Files : ChildWatch(t, c)
      \/ Fetch(t)
      \/ FetchFails(t)
      \/ InsertTest(t)
      \/ InsertSet(t)
      \/ WatchExit(t)
      \/ MoveEnter2(t)
      \/ Change(t)
      \/ VolatileExit(t)

Spec == Init /\ [][Next]_vars

-----------------------------------------------------------------------------
(***************************************************************************)
(* Properties.                                                             *)
(***************************************************************************)
TypeOK ==
    /\ server \in [Uris -> 0 .. MaxChanges]
    /\ clock \in Changes
    /\ cached \in [Uris -> Nodes \cup {None}]
    /\ vol \in [Threads -> SUBSET Uris]
    /\ watch \in [Threads -> Uris \cup {None}]
    /\ dirty \in [Threads -> BOOLEAN]
    /\ pc \in [Threads -> Labels]
    /\ arg \in [Threads -> Uris]
    /\ dest \in [Threads -> Files \cup {None}]
    /\ got \in [Threads -> Nodes \cup {None}]
    /\ todo \in [Threads -> SUBSET Files]
    /\ how \in [Uris -> {"own", "late", "child"}]
    /\ loose \subseteq Uris

(***************************************************************************)
(* A watch that is open together with a Volatile above it is dirty,        *)
(* whichever was entered first (NodeCache.py 20-21: "The node will not be  *)
(* cached if the tree became volatile at any point while the nodeURI was   *)
(* being watched").                                                        *)
(***************************************************************************)
DirtyWhenVolatile ==
    \A t, s \in Threads : \A v \in vol[s] :
        (watch[t] # None /\ Under(watch[t], v)) => dirty[t]

(***************************************************************************)
(* As long as its own watch is clean, what get_node() has read of its node *)
(* is what the server has: this is why a clean watch may insert.  Nodes    *)
(* that an update() changed are excepted, as update() holds no Volatile.   *)
(***************************************************************************)
CleanFetchCurrent ==
    \A t \in Threads :
        (pc[t] \in {"test", "set"} /\ ~dirty[t] /\ arg[t] \notin loose)
            => got[t].self = server[arg[t]]

(***************************************************************************)
(* An entry that get_node() made under a watch that was clean to the end is*)
(* current as long as it is in the cache, and no delete() or move() leaves *)
(* one behind.  Entries made by the listing of the container, and by an    *)
(* insert() overtaken between its test and its assignment, are not covered.*)
(***************************************************************************)
OwnEntryCurrent ==
    \A u \in Uris :
        (cached[u] # None /\ how[u] = "own" /\ u \notin loose)
            => cached[u].self = server[u]
=============================================================================
