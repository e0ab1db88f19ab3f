------------------------------ MODULE Namespace ------------------------------
(* What a client of the VOSpace server may count on: a tree of nodes that      *)
(* create, delete, move and copy change in one step each.  NodeStore is the    *)
(* code, where each of them is a sequence of SQL statements and file           *)
(* operations.  Nothing is promised about the node of a name that is Unclear:  *)
(* two requests met there, or one of them failed half way.                     *)
EXTENDS Paths

CONSTANT Creators     \* who can create a node
VARIABLE ns           \* name |-> the node there

Node(kind, by, target) == [kind |-> kind, by |-> by, target |-> target]
Absent  == Node("absent", "none", NoName)
Unclear == Node("unclear", "none", NoName)
Listed  == [kind : Kinds, by : Creators, target : Names \cup {NoName}]

MayHold(n) == IF n = Root THEN TRUE ELSE ns[n].kind \in {"container", "unclear"}
Target(l) == ns[l].target

(* Only what has no link in it, and nothing unclear, moves and is copied as it *)
(* should be.                                                                  *)
Whole(from, to) ==
  /\ ns[from] \in Listed /\ ns[to] = Absent /\ MayHold(Parent(to))
  /\ \A m \in Subtree(from) : ns[m].kind \notin {"link", "unclear"}

Init == ns \in [Names -> Listed \cup {Absent}]

Create(n) ==
  /\ ns[n] = Absent /\ MayHold(Parent(n))
  /\ ns'[n] \in Listed
  /\ ns' = [ns EXCEPT ![n] = ns'[n]]

Retarget(n) ==
  /\ ns[n].kind = "link"
  /\ \E target \in Names \cup {Root} : ns' = [ns EXCEPT ![n].target = target]

Delete(n) ==
  /\ ns[n] \in Listed /\ ns'[n] = Absent
  /\ LET gone == WithLinks(IF ns[n].kind = "container" THEN Subtree(n) ELSE {n}, Target)
     IN ns' = [m \in Names |-> IF m \in gone THEN Absent ELSE ns[m]]

Move(from, to) ==
  /\ Whole(from, to) /\ ns'[to] # Absent
  /\ ns' = [m \in Names |->
       IF m \in Subtree(from) THEN Absent
       ELSE IF m \in Subtree(to) /\ Renamed(m, to, from) \in Names
         THEN ns[Renamed(m, to, from)] ELSE ns[m]]

Copy(from, to, by) ==
  /\ Whole(from, to) /\ ns'[to] # Absent
  /\ ns' = [m \in Names |->
       LET src == Renamed(m, to, from)
       IN IF m \in Subtree(to) /\ src \in Names /\ ns[src] # Absent
            THEN [ns[src] EXCEPT !.by = by] ELSE ns[m]]

Spoil ==
  /\ \A m \in Names : ns'[m] \in {ns[m], Unclear}
  /\ ns' = [m \in Names |-> ns'[m]]

(* A container that is deleted undisturbed takes with it whatever is below it. *)
Recover(n) ==
  /\ ns[n] = Unclear /\ ns'[n] = Absent
  /\ ns' = [m \in Names |-> IF m \in Subtree(n) THEN Absent ELSE ns[m]]

Next ==
  \/ Spoil
  \/ \E n \in Names : Create(n) \/ Retarget(n) \/ Delete(n) \/ Recover(n)
  \/ \E from, to \in Names :
       Move(from, to) \/ \E by \in Creators : Copy(from, to, by)

Spec == Init /\ [][Next]_ns
=============================================================================
