-------------------------------- MODULE Paths -------------------------------
(* Names of nodes as sequences of path parts, and what lies below them.        *)
EXTENDS Naturals, Sequences, SequencesExt, FiniteSets

CONSTANT Names       \* the names nodes can have, without the root
Parts == UNION {Range(n) : n \in Names}
ASSUME NamesAssumption ==
  /\ IsFiniteSet(Names) /\ <<>> \notin Names
  /\ Names \subseteq Seq(Parts)
  /\ \A n \in Names : Len(n) > 1 => Front(n) \in Names

Root      == <<>>
NoName    == <<>>
Kinds     == {"container", "data", "link"}
Parent(n) == Front(n)
Under(n)  == {m \in Names : IsStrictPrefix(n, m)}
Subtree(n) == {n} \cup Under(n)
Renamed(m, from, to) == to \o SubSeq(m, Len(from) + 1, Len(m))

(* The names of S and of the links that lead, over links, to a name in S;      *)
(* Target(n) is where the link n leads, NoName if n is none.                   *)
WithLinks(S, Target(_)) ==
  LET goes == [n \in Names |-> Target(n)]
  IN {n \in Names : \A X \in SUBSET Names :
        (\A m \in Names : m \in S \/ goes[m] \in S \cup X => m \in X) => n \in X}
=============================================================================
