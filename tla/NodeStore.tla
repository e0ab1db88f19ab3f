------------------------------ MODULE NodeStore -----------------------------
(* The nodes of the VOSpace server: VOSpaceManager.create and delete, the      *)
(* moveNode and copyNode of a TransferJob, the SQL statements MySQLMetaStore   *)
(* turns them into, and the file operations of LocalFSStorageManager.          *)
(*                                                                             *)
(* A request reads first (Begin, Refuse), which settles the statements it is   *)
(* going to execute: its todo list.  Every statement commits by itself, so it  *)
(* is one step, and those of other requests come in between.  Statements that  *)
(* read in the middle (select, children, child) extend the list.               *)
EXTENDS Paths

CONSTANTS
  Requests,   \* HTTP requests and jobs, each handled in a thread of its own
  Ops,        \* what they may ask for (see Op)
  Existing,   \* the sets of nodes there may be at first, each [id, kind, target]
  Retries,    \* attempts of a statement whose connection is lost (5 in the code)
  MaxLosses   \* bound: connections lost, all in all

Op == [do : {"create", "delete", "move", "copy"}, id : Names, to : Names \cup {NoName},
       kind : Kinds, addl : BOOLEAN, overwrite : BOOLEAN]

ASSUME OpsAssumption == Ops \subseteq Op
ASSUME ExistingAssumption == \A E \in Existing :
  /\ IsFiniteSet(E) /\ E \subseteq [id : Names, kind : Kinds, target : Names \cup {NoName}]
  /\ \A x, y \in E : x.id = y.id => x = y
  /\ \A x \in E : Parent(x.id) = Root
                     \/ \E y \in E : y.id = Parent(x.id) /\ y.kind = "container"
(* At first the links lead somewhere, and not in a circle. *)
ASSUME LinksAssumption == \A E \in Existing :
  LET links == {x \in E : x.kind = "link"}
  IN /\ \A x \in links : x.target = Root \/ \E y \in E : y.id = x.target
     /\ \A S \in SUBSET links : S # {} => \E x \in S : \A y \in S : y.id # x.target
ASSUME BoundsAssumption ==
  Retries \in Nat \ {0} /\ MaxLosses \in Nat

VARIABLES
  rows,     \* the rows of all tables; no tells rows apart that are the same for SQL
  file,     \* name |-> what the backend has there, and who put it there
  pc,       \* request |-> idle, called, run, done, refused, failed
  op,       \* request |-> what it was asked
  todo,     \* request |-> the statements it has still to execute
  found,    \* request |-> removedLinks of the running call of removeData
  tries,    \* request |-> attempts left for its current statement
  losses,   \* connections lost so far
  before,   \* auxiliary: request |-> the nodes, when it began, of the names in its scope
  needs,    \* auxiliary: request |-> the names it has seen that must stay as they are
  sweeps,   \* auxiliary: deletions of containers that met no other request
  unclear   \* auxiliary: names where requests met or failed

store == <<rows, file>>
aux   == <<before, needs, sweeps, unclear>>
vars  == <<store, pc, op, todo, found, tries, losses, aux>>

Tables == <<"nodes", "properties", "addl_props", "links", "capabilities">>
NoTarget == <<"">>         \* null where a name should be: nothing is stored there
ASSUME NullAssumption == NoTarget \notin Names
NoFile == [kind |-> "none", by |-> "none"]

-----------------------------------------------------------------------------
(* Reading the tables *)

RowsOf(t, n)  == {w \in rows : w.t = t /\ w.id = n}
IsStored(n)   == n = Root \/ RowsOf("nodes", n) # {}
GetTypes(n)   == IF n = Root THEN {"container"} ELSE {w.kind : w \in RowsOf("nodes", n)}
GetType(n)    == IF GetTypes(n) = {} THEN "none" ELSE CHOOSE k \in GetTypes(n) : TRUE
GetTarget(n)  == IF RowsOf("links", n) = {} THEN NoTarget
                 ELSE CHOOSE m \in {w.target : w \in RowsOf("links", n)} : TRUE
IsLink(n)     == GetType(n) = "link"
LinkRow(l)    == IF RowsOf("links", l) = {} THEN NoName ELSE GetTarget(l)
(* Mutant: anything that is stored will do as a parent. *)
ValidParent_Stored(n) == IsStored(Parent(n))
ValidParent(n) == GetType(Parent(n)) = "container"

(* The two loops of resolveLinks: to the end of a chain of links, then again   *)
(* for the name this gives.  Hops is more than the links there can be, so who  *)
(* is still on a link after as many goes round a cycle of links for good.      *)
Hops == Cardinality(Names) + 1
Course(n, Go(_)) == LET at[k \in 0..Hops] == IF k = 0 THEN {n} ELSE {Go(m) : m \in at[k-1]}
                    IN at
After(n, Go(_)) == CHOOSE m \in Course(n, Go)[Hops] : TRUE
Hop(l)     == IF IsLink(l) THEN GetTarget(l) ELSE l
LinkEnd(l) == After(l, Hop)
Anchor(n)  == SubSeq(n, 1, CHOOSE i \in 0..(Len(n) - 1) :
                /\ IsStored(SubSeq(n, 1, i))
                /\ \A j \in (i + 1)..(Len(n) - 1) : ~IsStored(SubSeq(n, 1, j)))
OverLink(n) == ~IsStored(n) /\ IsLink(Anchor(n))
Canonical(n) == IF OverLink(n) THEN Renamed(n, Anchor(n), LinkEnd(Anchor(n))) ELSE n
ResolveLinks(n) == After(n, Canonical)
Resolves(n) == ~OverLink(ResolveLinks(n))

-----------------------------------------------------------------------------
(* Statements *)

Insert(t, n, kind, target) ==
  [do |-> "insert", t |-> t, id |-> n, kind |-> kind, target |-> target]
Delete(t, S)      == [do |-> "delete", t |-> t, ids |-> S]
Rename(t, n, to)  == [do |-> "rename", t |-> t, id |-> n, to |-> to]
Update(t, n)      == Rename(t, n, n)              \* changes values only
Retarget(n, m)    == [do |-> "retarget", id |-> n, target |-> m]
Select(S, last)   == [do |-> "select", ids |-> S, last |-> last]
Children(n, to)   == [do |-> "children", id |-> n, to |-> to]
Child(n, to)      == [do |-> "child", id |-> n, to |-> to]
Make(kind, n)     == [do |-> "make", kind |-> kind, id |-> n]
MoveBytes(n, to)  == [do |-> "movebytes", id |-> n, to |-> to]
CopyBytes(n, to)  == [do |-> "copybytes", id |-> n, to |-> to]
RemoveBytes(n, c) == [do |-> "removebytes", id |-> n, container |-> c]

Writes == {"insert", "delete", "rename", "retarget"}     \* go through update()
If(cond, stmts) == IF cond THEN stmts ELSE <<>>

(* storeData and storeProperties *)
StoreData(n, kind, target, addl) ==
  <<Insert("nodes", n, kind, NoName)>>
  \o If(kind = "link", <<Insert("links", n, "", target)>>)
  \o If(addl, <<Insert("addl_props", n, "", NoName)>>)
  \o <<Insert("properties", n, "", NoName)>>

(* updateProperties looks for the additional property under the identifier in  *)
(* the description, which is the new one.                                      *)
UpdateProperties(n, kind, target, addl) ==
  If(kind = "link", <<Retarget(n, target)>>)
  \o If(addl, <<IF RowsOf("addl_props", n) = {} THEN Insert("addl_props", n, "", NoName)
                ELSE Update("addl_props", n)>>)
  \o <<Update("properties", n)>>

(* updateData with a new identifier, for the node n as it is stored now *)
UpdateData(n, to) ==
  UpdateProperties(to, GetType(n), GetTarget(n), RowsOf("addl_props", n) # {})
  \o [i \in 1..3 |-> Rename(Tables[i], n, to)]

CopyData(n, to) == StoreData(to, GetType(n), GetTarget(n), RowsOf("addl_props", n) # {})

(* Mutant: the properties are left. *)
DeleteRows_NotProperties(S) ==
  [i \in 1..(Len(Tables) - 1) |-> Delete(Remove(Tables, "properties")[i], S)]
DeleteRows(S) == [i \in 1..Len(Tables) |-> Delete(Tables[i], S)]
(* Mutant: links into a container are not looked for. *)
RemoveData_KeepLinks(n, container) ==
  If(container, DeleteRows(Under(n))) \o DeleteRows({n}) \o <<Select({n}, TRUE)>>
RemoveData(n, container) ==
  If(container, DeleteRows(Under(n)) \o <<Select(Under(n), FALSE)>>)
  \o DeleteRows({n}) \o <<Select({n}, TRUE)>>

-----------------------------------------------------------------------------
(* What the operations check, and the statements that follow *)

(* Mutant: a link may lead to what is not there. *)
CreateAllowed_AnyTarget(o) ==
  /\ ValidParent(o.id)
  /\ IsStored(o.id) => o.overwrite /\ GetType(o.id) = o.kind
CreateAllowed(o) ==
  /\ ValidParent(o.id)
  /\ IsStored(o.id) => o.overwrite /\ GetType(o.id) = o.kind
  /\ o.kind = "link" => IsStored(o.to)
CreateStmts(o) ==
  IF IsStored(o.id)
  THEN UpdateProperties(o.id, o.kind, o.to, o.addl) \o <<Update("nodes", o.id)>>
  ELSE StoreData(o.id, o.kind, o.to, o.addl)
       \o If(o.kind = "container", <<Insert("capabilities", o.id, "", NoName)>>)
       \o <<Make(o.kind, o.id)>>

(* Mutant: a container is removed as if it were a file. *)
DeleteStmts_AsFile(n, container) ==
  RemoveData(n, container) \o <<RemoveBytes(n, FALSE)>>
DeleteStmts(n, container) ==
  RemoveData(n, container) \o <<RemoveBytes(n, container)>>

(* validateTransfer follows the links in both names; moveNode and copyNode put *)
(* the node into the direction if that is a container.  NoName is ".null".     *)
From(o) == IF o.do = "delete" THEN o.id ELSE ResolveLinks(o.id)
To(o)   == LET to == ResolveLinks(o.to)
           IN IF IsStored(to) THEN to \o <<Last(From(o))>> ELSE to
ToNull(o) == o.do = "delete" \/ o.to = NoName
JobAllowed(o) ==
  /\ IsStored(From(o))
  /\ ~ToNull(o) => /\ ValidParent(ResolveLinks(o.to))
                   /\ IsStored(ResolveLinks(o.to)) => GetType(ResolveLinks(o.to)) = "container"
MoveStmts(n, to) ==
  <<MoveBytes(n, to)>> \o UpdateData(n, to)
  \o If(GetType(n) = "container", <<Children(n, to)>>)
CopyStmts(n, to) ==
  <<CopyBytes(n, to)>> \o CopyData(n, to)
  \o If(GetType(n) = "container", <<Children(n, to)>>)

(* resolveLinks is only called where something is not there. *)
Asked(o) == IF o.do \in {"move", "copy"} THEN {o.id, o.to}
            ELSE {n \in {o.id} : ~IsStored(n)}
                 \cup {n \in {o.to} : o.do = "create" /\ o.kind = "link" /\ ~IsStored(n)}
Decided(o) == \A n \in Asked(o) : Resolves(n)

Allowed(o) == CASE o.do = "create" -> CreateAllowed(o)
                [] o.do = "delete" -> IsStored(o.id)
                [] OTHER           -> JobAllowed(o)
Stmts(o, container) ==
  IF o.do = "create" THEN CreateStmts(o)
  ELSE IF ToNull(o) THEN DeleteStmts(From(o), container)
  ELSE IF o.do = "move" THEN MoveStmts(From(o), To(o)) ELSE CopyStmts(From(o), To(o))

-----------------------------------------------------------------------------
(* Auxiliary: the nodes as a client sees them *)

Node(kind, by, target) == [kind |-> kind, by |-> by, target |-> target]
Absent  == Node("absent", "none", NoName)
Unclear == Node("unclear", "none", NoName)

Stored(n) == IF RowsOf("nodes", n) = {} THEN Absent
             ELSE LET w == CHOOSE w \in RowsOf("nodes", n) : TRUE
                  IN Node(w.kind, w.by, IF w.kind = "link" THEN GetTarget(n) ELSE NoName)

Running == {r \in Requests : pc[r] = "run"}
scope   == [r \in Requests |-> DOMAIN before[r]]
Busy    == UNION {scope[r] : r \in Running}
Visible == [n \in Names |->
  IF n \in unclear THEN Unclear
  ELSE IF n \in Busy THEN before[CHOOSE r \in Running : n \in scope[r]][n]
  ELSE Stored(n)]
SeenTarget(l) == Visible[l].target

(* The names that may be another thing after a request, and all that is below  *)
(* them; with the links that lead to what is deleted, as they are stored and   *)
(* as a client sees them.                                                      *)
Deleted(o) == IF "container" \in GetTypes(From(o)) THEN Subtree(From(o)) ELSE {From(o)}
Scope(o) ==
  IF o.do = "create" THEN IF IsStored(o.id) THEN {o.id} ELSE Subtree(o.id)
  ELSE IF ToNull(o) THEN Names \cap UNION {Subtree(n) :
    n \in {From(o)} \cup WithLinks(Deleted(o), LinkRow) \cup WithLinks(Deleted(o), SeenTarget)}
  ELSE (Subtree(From(o)) \cup Subtree(To(o))) \cap Names
Needs(o) ==
  (IF o.do = "create" THEN {Parent(o.id)} \cup IF o.kind = "link" THEN {o.to} ELSE {}
   ELSE IF ToNull(o) THEN {} ELSE {Parent(To(o))}) \cap Names

(* Auxiliary: the requests that r meets when it has S in its scope and needs N. *)
Met(r, S, N) == {q \in Running \ {r} : \/ scope[q] \cap (S \cup N) # {}
                                       \/ needs[q] \cap S # {}}

(* Where the code does not do what the operation is for: a copy over what is   *)
(* there already makes a second node of the name, links lose their links row   *)
(* when they move, and their copy is no link.                                  *)
Amiss(o) ==
  /\ o.do \in {"move", "copy"} /\ ~ToNull(o)
  /\ \/ o.do = "copy" /\ IsStored(To(o))
     \/ \E m \in Subtree(From(o)) : IsLink(m)

-----------------------------------------------------------------------------
Row(t, n, kind, target, by, no) ==
  [t |-> t, id |-> n, kind |-> kind, target |-> target, by |-> by, no |-> no]
RowsFor(x) ==
  {Row("nodes", x.id, x.kind, NoName, "init", 0),
   Row("properties", x.id, "", NoName, "init", 0)}
  \cup {Row("links", x.id, "", x.target, "init", 0) : k \in {x.kind} \cap {"link"}}
  \cup {Row("capabilities", x.id, "", NoName, "init", 0) : k \in {x.kind} \cap {"container"}}

Init ==
  /\ \E E \in Existing :
       /\ rows = UNION {RowsFor(x) : x \in E}
       /\ file = [n \in Names |-> IF \E x \in E : x.id = n
                    THEN [kind |-> (CHOOSE x \in E : x.id = n).kind, by |-> "init"]
                    ELSE NoFile]
  /\ pc = [r \in Requests |-> "idle"]
  /\ op \in [Requests -> Ops]
  /\ todo = [r \in Requests |-> <<>>]
  /\ found = [r \in Requests |-> {}]
  /\ tries = [r \in Requests |-> Retries]
  /\ losses = 0
  /\ before = [r \in Requests |-> <<>>]
  /\ needs = [r \in Requests |-> {}]
  /\ sweeps = {}
  /\ unclear = {}

(* Bound: nothing is created outside Names, and so nothing goes into itself.   *)
Fits(o) == o.do \in {"move", "copy"} /\ ~ToNull(o) =>
  /\ From(o) \in Names /\ To(o) \in Names \ Subtree(From(o))
  /\ \A m \in Under(From(o)) : Renamed(m, From(o), To(o)) \in Names

Call(r) ==
  /\ pc[r] = "idle"
  /\ pc' = [pc EXCEPT ![r] = "called"]
  /\ UNCHANGED <<store, op, todo, found, tries, losses, aux>>

Refuse(r) ==
  /\ pc[r] = "called" /\ Decided(op[r]) /\ ~Allowed(op[r])
  /\ pc' = [pc EXCEPT ![r] = "refused"]
  /\ UNCHANGED <<store, op, todo, found, tries, losses, aux>>

Begin(r) ==
  LET o == op[r]
      met == Met(r, Scope(o), Needs(o))
      doubts == (Scope(o) \cup Needs(o)) \cap unclear
  IN /\ pc[r] = "called" /\ Decided(o) /\ Allowed(o) /\ Fits(o)
     /\ pc' = [pc EXCEPT ![r] = "run"]
     /\ \E kind \in GetTypes(From(o)) \cup {"none"} :
          /\ kind = "none" => GetTypes(From(o)) = {}
          /\ todo' = [todo EXCEPT ![r] = Stmts(o, kind = "container")]
          /\ sweeps' = IF o.do = "delete" /\ kind = "container" /\ met = {}
                       THEN sweeps \cup {r} ELSE sweeps \ met
     /\ before' = [before EXCEPT ![r] = [n \in Scope(o) |-> Stored(n)]]
     /\ needs' = [needs EXCEPT ![r] = Needs(o)]
     /\ unclear' = unclear
          \cup (IF met # {} \/ doubts # {} \/ Amiss(o) THEN Scope(o) ELSE {})
          \cup UNION {scope[q] : q \in met}
     /\ UNCHANGED <<store, op, found, tries, losses>>

-----------------------------------------------------------------------------
(* Executing statements *)

Head1(r) == Head(todo[r])
Doing(r, kinds) == pc[r] = "run" /\ todo[r] # <<>> /\ Head1(r).do \in kinds
Advance(r, rest) ==
  /\ todo' = [todo EXCEPT ![r] = rest]
  /\ tries' = [tries EXCEPT ![r] = Retries]

RowsAfter(s, r) ==
  CASE s.do = "insert" ->
         rows \cup {Row(s.t, s.id, s.kind, s.target, r,
           Cardinality({w \in rows : w.t = s.t /\ w.id = s.id /\ w.by = r}))}
    [] s.do = "delete" -> {w \in rows : ~(w.t = s.t /\ w.id \in s.ids)}
    [] s.do = "rename" ->
         {IF w.t = s.t /\ w.id = s.id THEN [w EXCEPT !.id = s.to] ELSE w : w \in rows}
    [] OTHER ->
         {IF w.t = "links" /\ w.id = s.id THEN [w EXCEPT !.target = s.target] ELSE w : w \in rows}

(* update(): executed once *)
Execute(r) ==
  /\ Doing(r, Writes)
  /\ rows' = RowsAfter(Head1(r), r)
  /\ Advance(r, Tail(todo[r]))
  /\ UNCHANGED <<file, pc, op, found, losses, aux>>

(* Mutant: the attempts are not counted. *)
Lose_Uncounted(r) ==
  /\ Doing(r, Writes) /\ losses < MaxLosses
  /\ losses' = losses + 1
  /\ tries' = [tries EXCEPT ![r] = @ - Retries]
  /\ UNCHANGED <<todo, rows, file, pc, op, found, aux>>

(* update(): the connection is lost, before or after the statement was         *)
(* executed.  It is tried again, and given up without a word after Retries.    *)
Lose(r) ==
  /\ Doing(r, Writes) /\ losses < MaxLosses
  /\ losses' = losses + 1
  /\ IF tries[r] > 1 THEN tries' = [tries EXCEPT ![r] = @ - 1] /\ todo' = todo
     ELSE Advance(r, Tail(todo[r]))
  /\ \E executed \in BOOLEAN :
       /\ rows' = IF executed THEN RowsAfter(Head1(r), r) ELSE rows
       /\ IF IF executed THEN Head1(r).do = "insert" ELSE tries[r] = 1
          THEN unclear' = unclear \cup scope[r] /\ sweeps' = sweeps \ {r}
          ELSE UNCHANGED <<unclear, sweeps>>
  /\ UNCHANGED <<file, pc, op, found, before, needs>>

(* removeData: select the links to what was deleted; after the second select   *)
(* they are removed the same way, and their files at the end.  With links that *)
(* were made since the request began (late) it has met who made them.          *)
SelectLinks(r) ==
  LET s == Head1(r)
      links == found[r] \cup {w.id : w \in {v \in rows : v.t = "links" /\ v.target \in s.ids}}
      order == SetToSeq(links)
      late  == links \ scope[r]
      met   == Met(r, late, {})
  IN /\ Doing(r, {"select"})
     /\ IF s.last
        THEN /\ Advance(r, FlattenSeq([i \in 1..Len(order) |-> RemoveData(order[i], FALSE)])
                           \o Tail(todo[r])
                           \o [i \in 1..Len(order) |-> RemoveBytes(order[i], FALSE)])
             /\ found' = [found EXCEPT ![r] = {}]
        ELSE /\ Advance(r, Tail(todo[r]))
             /\ found' = [found EXCEPT ![r] = links]
     /\ before' = [before EXCEPT ![r] =
                     [n \in scope[r] \cup late |-> IF n \in late THEN Stored(n) ELSE @[n]]]
     /\ sweeps' = IF late = {} THEN sweeps ELSE sweeps \ (met \cup {r})
     /\ unclear' = unclear \cup (IF late = {} THEN {} ELSE scope[r] \cup late)
                            \cup UNION {scope[q] : q \in met}
     /\ UNCHANGED <<store, pc, op, losses, needs>>

(* moveNode and copyNode: getAllChildren, then getNode and updateData or       *)
(* storeData for each                                                          *)
FindChildren(r) ==
  LET s == Head1(r)
      order == SetToSeq({n \in Under(s.id) : IsStored(n)})
  IN /\ Doing(r, {"children"})
     /\ Advance(r, [i \in 1..Len(order) |-> Child(order[i], Renamed(order[i], s.id, s.to))]
                   \o Tail(todo[r]))
     /\ UNCHANGED <<store, pc, op, found, losses, aux>>

ReadChild(r) ==
  LET s == Head1(r)
  IN /\ Doing(r, {"child"}) /\ IsStored(s.id)
     /\ Advance(r, (IF op[r].do = "move" THEN UpdateData(s.id, s.to) ELSE CopyData(s.id, s.to))
                   \o Tail(todo[r]))
     /\ UNCHANGED <<store, pc, op, found, losses, aux>>

-----------------------------------------------------------------------------
(* The backend *)

FileAt(n)  == IF n = Root THEN [kind |-> "container", by |-> "init"] ELSE file[n]
Put(r, n, kind) == [kind |-> kind, by |-> r]
(* Parent directories that are not there are made on the way. *)
WithParents(f, n, r) ==
  [m \in Names |-> IF IsStrictPrefix(m, n) /\ f[m] = NoFile THEN Put(r, m, "container") ELSE f[m]]
ParentsOk(n) == \A m \in Names : IsStrictPrefix(m, n) => file[m].kind # "data"

(* createContainer and createLink want the parent and take what is there if it *)
(* is of their kind; touch makes what is missing and leaves what is there.     *)
MakeFile(r) ==
  LET s == Head1(r)
  IN /\ Doing(r, {"make"})
     /\ file[s.id].kind \in {"none"} \cup (IF s.kind = "data" THEN Kinds ELSE {s.kind})
     /\ IF s.kind = "data" THEN ParentsOk(s.id) ELSE FileAt(Parent(s.id)).kind = "container"
     /\ file' = IF file[s.id] # NoFile THEN file
                ELSE [WithParents(file, s.id, r) EXCEPT ![s.id] = Put(r, s.id, s.kind)]
     /\ Advance(r, Tail(todo[r]))
     /\ UNCHANGED <<rows, pc, op, found, losses, aux>>

Movable(s) == file[s.id] # NoFile /\ file[s.to] = NoFile /\ ParentsOk(s.to)
MoveFiles(r) ==
  LET s == Head1(r)
  IN /\ Doing(r, {"movebytes"}) /\ Movable(s)
     /\ file' = WithParents(
          [m \in Names |->
             IF m \in Subtree(s.to) /\ Renamed(m, s.to, s.id) \in Names
               THEN file[Renamed(m, s.to, s.id)]
             ELSE IF m \in Subtree(s.id) THEN NoFile ELSE file[m]], s.to, r)
     /\ Advance(r, Tail(todo[r]))
     /\ UNCHANGED <<rows, pc, op, found, losses, aux>>

(* A file is copied over a file and a directory into a directory; copies of    *)
(* links are copies of what they lead to.                                      *)
Copyable(s) == /\ file[s.id] # NoFile /\ ParentsOk(s.to)
               /\ file[s.to].kind \in {"none", file[s.id].kind}
CopyFiles(r) ==
  LET s == Head1(r)
  IN /\ Doing(r, {"copybytes"}) /\ Copyable(s)
     /\ \E led \in [{m \in Subtree(s.id) : file[m].kind = "link"} -> {"container", "data"}] :
          file' = WithParents(
            [m \in Names |->
               LET src == Renamed(m, s.to, s.id)
               IN IF m \in Subtree(s.to) /\ src \in Names /\ file[src] # NoFile
                  THEN Put(r, m, IF src \in DOMAIN led THEN led[src] ELSE file[src].kind)
                  ELSE file[m]], s.to, r)
     /\ Advance(r, Tail(todo[r]))
     /\ UNCHANGED <<rows, pc, op, found, losses, aux>>

(* deleteDirectory wants a directory, or nothing; File.delete leaves a         *)
(* directory that is not empty alone, without an error.                        *)
RemoveFiles(r) ==
  LET s == Head1(r)
      kept == ~s.container /\ \E m \in Under(s.id) : file[m] # NoFile
  IN /\ Doing(r, {"removebytes"})
     /\ s.container => file[s.id].kind # "data"
     /\ file' = IF kept THEN file
                ELSE [m \in Names |-> IF m \in Subtree(s.id) THEN NoFile ELSE file[m]]
     /\ Advance(r, Tail(todo[r]))
     /\ UNCHANGED <<rows, pc, op, found, losses, aux>>

-----------------------------------------------------------------------------
(* The end of a request *)

Finished(r) ==
  /\ before' = [before EXCEPT ![r] = <<>>]
  /\ needs' = [needs EXCEPT ![r] = {}]
  /\ sweeps' = sweeps \ {r}
  /\ todo' = [todo EXCEPT ![r] = <<>>]
  /\ found' = [found EXCEPT ![r] = {}]
  /\ tries' = [tries EXCEPT ![r] = Retries]
  /\ UNCHANGED <<store, op, losses>>

Return(r) ==
  /\ pc[r] = "run" /\ todo[r] = <<>>
  /\ pc' = [pc EXCEPT ![r] = "done"]
  /\ unclear' = IF r \in sweeps THEN unclear \ Subtree(op[r].id) ELSE unclear
  /\ Finished(r)

(* moveBytes and copyBytes come first and check before they change anything. *)
Unmoved(r) ==
  /\ \/ Doing(r, {"movebytes"}) /\ ~Movable(Head1(r))
     \/ Doing(r, {"copybytes"}) /\ ~Copyable(Head1(r))
  /\ pc' = [pc EXCEPT ![r] = "failed"]
  /\ UNCHANGED unclear
  /\ Finished(r)

(* Any statement and any file operation may raise an exception, and what       *)
(* cannot be done does.                                                        *)
Fail(r) ==
  /\ pc[r] = "run" /\ todo[r] # <<>>
  /\ pc' = [pc EXCEPT ![r] = "failed"]
  /\ unclear' = unclear \cup scope[r]
  /\ Finished(r)

Step(r) ==
  \/ Refuse(r) \/ Begin(r) \/ Return(r) \/ Unmoved(r) \/ Fail(r)
  \/ Execute(r) \/ SelectLinks(r) \/ FindChildren(r) \/ ReadChild(r)
  \/ MakeFile(r) \/ MoveFiles(r) \/ CopyFiles(r) \/ RemoveFiles(r)

Next == \E r \in Requests : Call(r) \/ Lose(r) \/ Step(r)
Spec == Init /\ [][Next]_vars

-----------------------------------------------------------------------------
(* The variables have their types. *)
TypeOK ==
  /\ \A w \in rows : w.id \in Names /\ w.by \in Requests \cup {"init"}
  /\ file \in [Names -> [kind : Kinds \cup {"none"}, by : Requests \cup {"init", "none"}]]
  /\ pc \in [Requests -> {"idle", "called", "run", "done", "refused", "failed"}]
  /\ op \in [Requests -> Ops]
  /\ tries \in [Requests -> 1..Retries]
  /\ losses \in 0..MaxLosses
  /\ needs \in [Requests -> SUBSET Names]
  /\ unclear \in SUBSET Names

(* Names no request is changing, and where no requests met and none failed. *)
Calm == Names \ (Busy \cup unclear)

(* A node has one row in nodes and in properties, one in links if it is a link *)
(* and nothing is left of what is no node: creations, deletions, moves and     *)
(* copies touch all the tables (MySQLMetaStore storeData, removeData and       *)
(* updateData), also when connections are lost in between.                     *)
RowsAgree ==
  \A n \in Calm :
    /\ Cardinality(RowsOf("nodes", n)) <= 1
    /\ Cardinality(RowsOf("properties", n)) = Cardinality(RowsOf("nodes", n))
    /\ Cardinality(RowsOf("links", n)) = IF IsLink(n) THEN 1 ELSE 0
    /\ RowsOf("addl_props", n) # {} => IsStored(n)

(* The backend has a file, directory or link for every node, put there by who  *)
(* inserted its row, and none for any other name.                              *)
FilesAgree ==
  \A n \in Calm : /\ ~IsStored(n) => file[n] = NoFile
                  /\ \A w \in RowsOf("nodes", n) : file[n] = [kind |-> w.kind, by |-> w.by]

(* What contains a node is a container, whatever was deleted or moved since    *)
(* validParent was asked.                                                      *)
Rooted ==
  \A n \in Calm : IsStored(n) =>
    Parent(n) \in {Root} \cup (Names \ Calm) \/ GetTypes(Parent(n)) = {"container"}

(* Requests that do not meet each other take effect in one step, completely or *)
(* (when they are refused or cannot move the bytes) not at all; deletions take *)
(* the links to what they delete with them; requests that meet or fail leave   *)
(* everything outside their own scopes as it is.                               *)
N == INSTANCE Namespace WITH Creators <- Requests \cup {"init"}, ns <- Visible
ImplementsNamespace == N!Spec

(* resolveLinks returns for every name: create checks the targets of links, so *)
(* they go round in a circle only after a link was overwritten or a move took  *)
(* the target of a link away, or over a name where requests met or one failed: *)
(* a link that is created while its target is deleted stays, and what is next  *)
(* created in the place of the target may be a link to the link (create,       *)
(* removeData).                                                                *)
LoopMaker(o) == o.do = "move" \/ (o.do = "create" /\ o.kind = "link" /\ o.overwrite)
LoopMade == \E r \in Requests : pc[r] \in {"run", "done", "failed"} /\ LoopMaker(op[r])
Blurred == WithLinks(unclear, LinkRow)
ResolveEnds ==
  LoopMade \/ \A n \in Names :
    Resolves(n) \/ \E k \in 0..Hops : \E m \in Course(n, Canonical)[k] : Anchor(m) \in Blurred
=============================================================================
