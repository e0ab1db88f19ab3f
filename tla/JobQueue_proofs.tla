--------------------------- MODULE JobQueue_proofs ---------------------------
(* Proofs about JobQueue, for any number of jobs, requests, Futures, posts and *)
(* failures.                                                                   *)
EXTENDS JobQueue, FiniteSetTheorems, SequenceTheorems, TLAPS

(* The values the steps below take apart are records with these fields, which  *)
(* with a few types is all the argument needs of their types.                  *)
FutureFields  == {"at", "job", "changed"}
PollFields    == {"at", "todo", "aborts", "i", "cur"}
RequestFields == {"at", "job", "what", "seen"}
ToldFields    == {"asked", "launches", "ended", "posts", "uses", "due", "early", "aborted",
                  "crossed", "stuck"}

Shape ==
  /\ DOMAIN row = Jobs /\ DOMAIN kind = Jobs /\ DOMAIN transfers = Jobs
  /\ DOMAIN fut = Futures /\ \A t \in Futures : DOMAIN fut[t] = FutureFields
  /\ DOMAIN req = Requests /\ \A r \in Requests : DOMAIN req[r] = RequestFields
  /\ DOMAIN told = Jobs /\ \A j \in Jobs : DOMAIN told[j] = ToldFields
  /\ DOMAIN poll = PollFields

Typed ==
  /\ Shape
  /\ list \in Seq(Futures)
  /\ poll.i \in Nat \ {0} /\ poll.todo \subseteq Jobs
  /\ \A j \in Jobs : told[j].launches \in Nat /\ told[j].asked \in Nat

(* What is going on is about jobs that are in the table. *)
Known ==
  /\ \A r \in Requests :
       req[r].at # "idle" => req[r].job \in Jobs /\ row[req[r].job] # "none"
  /\ \A r \in Requests :
       req[r].at = "write" => req[r].seen # "none" /\ req[r].what \in {"RUN", "ABORT"}
  /\ \A t \in Futures :
       fut[t].at # "free" => fut[t].job \in Jobs /\ row[fut[t].job] # "none"
  /\ \A j \in poll.todo : row[j] # "none"
  /\ \A j \in Jobs :
       row[j] = "none" =>
         transfers[j] = "none" /\ told[j].launches = 0 /\ told[j].ended = {}

(* A Future that is in the list, or whose end the polling thread records, is   *)
(* in use, and never both.                                                     *)
Injective(s) == \A i, k \in 1..Len(s) : s[i] = s[k] => i = k
Listed ==
  /\ Injective(list)
  /\ \A t \in ToSet(list) : fut[t].at # "free"
  /\ poll.at = "record" =>
       poll.cur \in Futures /\ fut[poll.cur].at # "free" /\ poll.cur \notin ToSet(list)

-----------------------------------------------------------------------------
(* Who takes a request, and who runs a job, is one of those that are free.     *)
LEMMA Launching ==
  ASSUME NEW j \in Jobs, Launch(j)
  PROVE  \E t \in Futures :
           /\ fut[t].at = "free"
           /\ fut' = [fut EXCEPT ![t] = [at |-> "run", job |-> j, changed |-> FALSE]]
           /\ list' = Append(list, t)
<1>1. FreeFutures # {}
  BY DEF Launch
<1>2. (CHOOSE u \in FreeFutures : TRUE) \in FreeFutures
  BY <1>1
<1> QED BY <1>2 DEF Launch, FreeFutures

(* What a list of Futures has after one was added, and after one was removed.  *)
LEMMA Adding ==
  ASSUME NEW s \in Seq(Futures), NEW t \in Futures
  PROVE  /\ ToSet(Append(s, t)) = ToSet(s) \cup {t}
         /\ Injective(s) /\ t \notin ToSet(s) => Injective(Append(s, t))
<1> DEFINE r == Append(s, t)
<1>1. /\ r \in Seq(Futures) /\ Len(r) = Len(s) + 1
      /\ \A k \in 1..Len(s) : r[k] = s[k]
      /\ r[Len(s) + 1] = t
  OBVIOUS
<1> HIDE DEF r
<1>2. ToSet(r) \subseteq ToSet(s) \cup {t}
  BY <1>1 DEF ToSet
<1>3. ToSet(s) \subseteq ToSet(r) /\ t \in ToSet(r)
  BY <1>1 DEF ToSet
<1>4. ASSUME Injective(s), t \notin ToSet(s) PROVE Injective(r)
  BY <1>1, <1>4 DEF ToSet, Injective
<1> QED BY <1>2, <1>3, <1>4 DEF r

LEMMA Removing ==
  ASSUME NEW s \in Seq(Futures), NEW i \in 1..Len(s)
  PROVE  /\ RemoveAt(s, i) \in Seq(Futures)
         /\ s[i] \in Futures /\ s[i] \in ToSet(s)
         /\ ToSet(RemoveAt(s, i)) \subseteq ToSet(s)
         /\ Injective(s) => Injective(RemoveAt(s, i)) /\ s[i] \notin ToSet(RemoveAt(s, i))
<1> DEFINE r == RemoveAt(s, i)
<1>1. SubSeq(s, 1, i-1) \in Seq(Futures) /\ SubSeq(s, i+1, Len(s)) \in Seq(Futures)
  OBVIOUS
<1>2. r \in Seq(Futures)
  BY <1>1 DEF RemoveAt
<1>3. /\ Len(r) = Len(s) - 1
      /\ \A k \in 1..Len(r) : r[k] = IF k < i THEN s[k] ELSE s[k+1]
  <2>1. /\ Len(SubSeq(s, 1, i-1)) = i - 1 /\ Len(SubSeq(s, i+1, Len(s))) = Len(s) - i
        /\ \A k \in 1..(i-1) : SubSeq(s, 1, i-1)[k] = s[k]
        /\ \A k \in 1..(Len(s)-i) : SubSeq(s, i+1, Len(s))[k] = s[i+k]
    OBVIOUS
  <2> DEFINE a == SubSeq(s, 1, i-1)
             b == SubSeq(s, i+1, Len(s))
  <2>2. /\ Len(r) = Len(a) + Len(b)
        /\ \A k \in 1..(Len(a) + Len(b)) :
             r[k] = IF k <= Len(a) THEN a[k] ELSE b[k - Len(a)]
    BY <1>1, ConcatProperties DEF RemoveAt
  <2> HIDE DEF a, b, r
  <2>3. /\ Len(a) = i - 1 /\ Len(b) = Len(s) - i
        /\ \A k \in 1..(i-1) : a[k] = s[k]
        /\ \A k \in 1..(Len(s)-i) : b[k] = s[i+k]
    BY <2>1 DEF a, b
  <2>4. i \in Nat /\ Len(s) \in Nat /\ 1 <= i /\ i <= Len(s)
    OBVIOUS
  <2>5. Len(a) + Len(b) = Len(s) - 1
    BY <2>3, <2>4
  <2>6. ASSUME NEW k \in 1..Len(r) PROVE r[k] = IF k < i THEN s[k] ELSE s[k+1]
    <3>1. k \in Nat /\ 1 <= k /\ k <= Len(s) - 1 /\ k \in 1..(Len(a) + Len(b))
      BY <2>2, <2>5, <2>4
    <3>2. r[k] = IF k <= i - 1 THEN a[k] ELSE b[k - (i - 1)]
      BY <2>2, <2>3, <3>1
    <3>3. CASE k < i
      <4>1. k \in 1..(i-1)
        BY <3>1, <3>3, <2>4
      <4> QED BY <3>2, <3>3, <4>1, <2>3, <2>4
    <3>4. CASE ~(k < i)
      <4>1. k - (i - 1) \in 1..(Len(s) - i) /\ i + (k - (i - 1)) = k + 1 /\ ~(k <= i - 1)
        BY <3>1, <3>4, <2>4
      <4>2. b[k - (i - 1)] = s[k + 1]
        BY <4>1, <2>3
      <4> QED BY <3>2, <3>4, <4>1, <4>2
    <3> QED BY <3>3, <3>4
  <2> QED BY <2>2, <2>5, <2>6
<1> HIDE DEF r
<1>4. ToSet(r) \subseteq ToSet(s)
  BY <1>2, <1>3 DEF ToSet
<1>5. ASSUME Injective(s) PROVE Injective(r) /\ s[i] \notin ToSet(r)
  <2>1. ASSUME NEW k \in 1..Len(r)
        PROVE  \E m \in 1..Len(s) : m # i /\ r[k] = s[m] /\ m = IF k < i THEN k ELSE k + 1
    BY <1>2, <1>3
  <2>2. Injective(r)
    <3>1. ASSUME NEW k \in 1..Len(r), NEW l \in 1..Len(r), r[k] = r[l] PROVE k = l
      <4>1. PICK m \in 1..Len(s) : r[k] = s[m] /\ m = IF k < i THEN k ELSE k + 1
        BY <2>1
      <4>2. PICK n \in 1..Len(s) : r[l] = s[n] /\ n = IF l < i THEN l ELSE l + 1
        BY <2>1
      <4>3. m = n
        BY <1>5, <3>1, <4>1, <4>2 DEF Injective
      <4>4. k \in Nat /\ l \in Nat /\ i \in Nat
        BY <1>2
      <4> QED BY <4>1, <4>2, <4>3, <4>4
    <3> QED BY <3>1 DEF Injective
  <2>3. ASSUME s[i] \in ToSet(r) PROVE FALSE
    <3>1. PICK k \in 1..Len(r) : r[k] = s[i]
      BY <2>3, <1>2 DEF ToSet
    <3>2. PICK m \in 1..Len(s) : m # i /\ r[k] = s[m]
      BY <2>1
    <3>3. m = i
      BY <1>5, <3>1, <3>2 DEF Injective
    <3> QED BY <3>2, <3>3
  <2> QED BY <2>2, <2>3
<1>6. s[i] \in Futures /\ s[i] \in ToSet(s)
  BY DEF ToSet
<1> QED BY <1>2, <1>4, <1>5, <1>6 DEF r

(* What an upload does to the Futures. *)
LEMMA Uploading ==
  ASSUME Shape, NEW r \in Requests, Upload(r), NEW t \in Futures
  PROVE  /\ fut'[t].at = fut[t].at /\ fut'[t].job = fut[t].job
         /\ fut'[t].changed # fut[t].changed => fut[t].job = req[r].job
<1>1. fut'[t] = fut[t] \/ (fut'[t] = [fut[t] EXCEPT !.changed = TRUE] /\ fut[t].job = req[r].job)
  BY DEF Upload
<1>2. DOMAIN fut[t] = FutureFields
  BY DEF Shape
<1> QED BY <1>1, <1>2 DEF FutureFields

(* Every step keeps the types. *)
LEMMA TypedStep == ASSUME Typed, Known, [Next]_vars PROVE Typed'
<1> USE DEF Typed, Shape, FutureFields, PollFields, RequestFields, ToldFields
<1>1. ASSUME NEW j \in Jobs, Launch(j)
      PROVE  /\ DOMAIN row' = Jobs
             /\ DOMAIN told' = Jobs /\ \A k \in Jobs : DOMAIN told'[k] = ToldFields
             /\ \A k \in Jobs : told'[k].launches \in Nat /\ told'[k].asked \in Nat
             /\ list' \in Seq(Futures)
             /\ DOMAIN fut' = Futures /\ \A t \in Futures : DOMAIN fut'[t] = FutureFields
  <2>1. PICK t \in Futures :
           /\ fut' = [fut EXCEPT ![t] = [at |-> "run", job |-> j, changed |-> FALSE]]
           /\ list' = Append(list, t)
    BY <1>1, Launching
  <2>2. /\ row' = [row EXCEPT ![j] = "EXECUTING"]
        /\ told' = [told EXCEPT ![j].launches = @ + 1,
                                ![j].crossed = @ \/ row[j] # "QUEUED"]
    BY <1>1 DEF Launch
  <2>3. /\ DOMAIN told' = Jobs /\ \A k \in Jobs : DOMAIN told'[k] = ToldFields
        /\ \A k \in Jobs : told'[k].launches \in Nat /\ told'[k].asked \in Nat
    BY <2>2
  <2> QED BY <2>1, <2>2, <2>3
<1>2. ASSUME NEW r \in Requests, AddJob(r) PROVE Typed'
  BY <1>2 DEF AddJob, Idle
<1>3. ASSUME NEW r \in Requests, AddLaunch(r) PROVE Typed'
  <2>1. req[r].job \in Jobs
    BY <1>3 DEF AddLaunch, Known
  <2>2. /\ UNCHANGED <<kind, transfers, poll>>
        /\ DOMAIN req' = Requests /\ \A q \in Requests : DOMAIN req'[q] = RequestFields
        /\ Launch(req[r].job)
    BY <1>3 DEF AddLaunch
  <2> QED BY <1>1, <2>1, <2>2
<1>4. ASSUME NEW r \in Requests, AddRegister(r) PROVE Typed'
  BY <1>4 DEF AddRegister, Idle
<1>5. ASSUME NEW r \in Requests, PostRead(r) PROVE Typed'
  BY <1>5 DEF PostRead
<1>6. ASSUME NEW r \in Requests, PostWrite(r) PROVE Typed'
  BY <1>6 DEF PostWrite, Idle
<1>7. ASSUME NEW r \in Requests, Check(r) PROVE Typed'
  BY <1>7 DEF Check, Idle
<1>8. ASSUME NEW r \in Requests, Serve(r) PROVE Typed'
  BY <1>8 DEF Serve, Idle
<1>9. ASSUME NEW r \in Requests, Upload(r) PROVE Typed'
  BY <1>9 DEF Upload, Idle
<1>10. ASSUME NEW t \in Futures, Work(t) PROVE Typed'
  <2>1. UNCHANGED <<row, kind, transfers, list, poll, req>>
    BY <1>10 DEF Work
  <2>2. CASE kind[fut[t].job] = "node"
    <3>1. Ends(t, "ok")
      BY <1>10, <2>2 DEF Work
    <3> QED BY <2>1, <3>1 DEF Ends, Free
  <2>3. CASE kind[fut[t].job] # "node"
    <3>1. fut' = [fut EXCEPT ![t].at = "log"] /\ told' = told
      BY <1>10, <2>3 DEF Work
    <3> QED BY <2>1, <3>1
  <2> QED BY <2>2, <2>3
<1>11. ASSUME NEW t \in Futures, Watch(t) PROVE Typed'
  BY <1>11 DEF Watch
<1>21. ASSUME NEW t \in Futures, Expire(t) PROVE Typed'
  BY <1>21 DEF Expire
<1>18. ASSUME NEW t \in Futures, Log(t) PROVE Typed'
  BY <1>18 DEF Log, Free
<1>19. ASSUME NEW t \in Futures, Raise(t) PROVE Typed'
  BY <1>19 DEF Raise, Ends, Free
<1>12. CASE PollQueued
  BY <1>12 DEF PollQueued
<1>22. CASE PollAborted
  BY <1>22 DEF PollAborted
<1>23. CASE PollSleep
  BY <1>23 DEF PollSleep, Asleep
<1>13. CASE PollLaunch
  <2>1. PICK j \in poll.todo : Launch(j) /\ poll' = [poll EXCEPT !.todo = @ \ {j}]
    BY <1>13 DEF PollLaunch
  <2>2. UNCHANGED <<kind, transfers, req>>
    BY <1>13 DEF PollLaunch
  <2>3. DOMAIN poll' = PollFields /\ poll'.i \in Nat \ {0} /\ poll'.todo \subseteq Jobs
    BY <2>1
  <2> QED BY <1>1, <2>1, <2>2, <2>3
<1>14. CASE PollScan
  <2>1. poll.i \in 1..Len(list)
    BY <1>14 DEF PollScan
  <2>2. RemoveAt(list, poll.i) \in Seq(Futures) /\ list[poll.i] \in Futures
    BY <2>1, Removing
  <2>3. list' \in Seq(Futures)
    BY <1>14, <2>2 DEF PollScan
  <2>4. UNCHANGED <<row, kind, transfers, fut, req, told>>
    BY <1>14 DEF PollScan
  <2>5. \/ poll' = [poll EXCEPT !.at = "record", !.cur = list[poll.i]]
        \/ poll' = [poll EXCEPT !.i = @ + 1]
    BY <1>14 DEF PollScan
  <2>6. DOMAIN poll' = PollFields /\ poll'.i \in Nat \ {0} /\ poll'.todo \subseteq Jobs
    <3>1. CASE poll' = [poll EXCEPT !.at = "record", !.cur = list[poll.i]]
      BY <3>1
    <3>2. CASE poll' = [poll EXCEPT !.i = @ + 1]
      BY <3>2
    <3> QED BY <2>5, <3>1, <3>2
  <2> QED BY <2>3, <2>4, <2>6
<1>15. CASE PollRecord
  BY <1>15 DEF PollRecord, Released, Free
<1>20. CASE PollFails
  BY <1>20 DEF PollFails, Released, Asleep, Free
<1>16. CASE Restart
  BY <1>16 DEF Restart, Asleep, Idle, Free
<1>17. CASE UNCHANGED vars
  BY <1>17 DEF vars
<1> QED
  BY <1>2, <1>3, <1>4, <1>5, <1>6, <1>7, <1>8, <1>9, <1>10, <1>11, <1>12, <1>13, <1>14, <1>15,
     <1>16, <1>17, <1>18, <1>19, <1>20, <1>21, <1>22, <1>23 DEF Next, PollStep, FutureStep

(* Every step keeps what is going on in the table. *)
LEMMA KnownStep ==
  ASSUME Typed, Known, Listed, [Next]_vars
  PROVE  Known'
<1> USE DEF Known, Typed, Shape, FutureFields, PollFields, RequestFields, ToldFields
<1>1. ASSUME NEW j \in Jobs, row[j] # "none", Launch(j), UNCHANGED <<kind, transfers>>,
           \/ \E r \in Requests : req[r].at = "launch" /\ req[r].job = j
                                  /\ req' = [req EXCEPT ![r].at = "register"] /\ poll' = poll
           \/ poll' = [poll EXCEPT !.todo = @ \ {j}] /\ req' = req
      PROVE  Known'
  <2>1. PICK t \in Futures :
           fut' = [fut EXCEPT ![t] = [at |-> "run", job |-> j, changed |-> FALSE]]
    BY <1>1, Launching
  <2>2. /\ row' = [row EXCEPT ![j] = "EXECUTING"]
        /\ told' = [told EXCEPT ![j].launches = @ + 1,
                                ![j].crossed = @ \/ row[j] # "QUEUED"]
    BY <1>1 DEF Launch
  <2>3. \A k \in Jobs :
          /\ row'[k] = "none" => row[k] = "none" /\ k # j
          /\ row[k] # "none" => row'[k] # "none"
          /\ k # j => told'[k] = told[k]
    BY <2>2
  <2>4. \A u \in Futures : fut'[u] = fut[u] \/ fut'[u].job = j
    BY <2>1
  <2>5. /\ poll'.todo \subseteq poll.todo
        /\ \A r \in Requests :
             /\ req'[r].job = req[r].job /\ req'[r].seen = req[r].seen
             /\ req'[r].what = req[r].what /\ (req'[r].at = "write" => req[r].at = "write")
             /\ (req'[r].at # "idle" => req[r].at # "idle")
    <3>1. CASE poll' = [poll EXCEPT !.todo = @ \ {j}] /\ req' = req
      BY <3>1
    <3>2. ASSUME NEW r \in Requests, req[r].at = "launch", poll' = poll,
                 req' = [req EXCEPT ![r].at = "register"]
          PROVE  <2>5
      BY <3>2
    <3> QED BY <1>1, <3>1, <3>2
  <2> QED BY <1>1, <2>2, <2>3, <2>4, <2>5
<1>2. ASSUME NEW r \in Requests, AddJob(r) PROVE Known'
  BY <1>2 DEF AddJob, Idle
<1>3. ASSUME NEW r \in Requests, AddRegister(r) PROVE Known'
  BY <1>3 DEF AddRegister, Idle
<1>4. ASSUME NEW r \in Requests, PostRead(r) PROVE Known'
  BY <1>4 DEF PostRead
<1>5. ASSUME NEW r \in Requests, PostWrite(r) PROVE Known'
  BY <1>5 DEF PostWrite, Idle, NewPhase
<1>6. ASSUME NEW r \in Requests, Check(r) PROVE Known'
  BY <1>6 DEF Check, Idle
<1>7. ASSUME NEW r \in Requests, Serve(r) PROVE Known'
  BY <1>7 DEF Serve, Idle
<1>8. ASSUME NEW r \in Requests, Upload(r) PROVE Known'
  BY <1>8 DEF Upload, Idle
<1>9. ASSUME NEW t \in Futures, Work(t) PROVE Known'
  <2>1. UNCHANGED <<row, kind, transfers, list, poll, req>> /\ fut[t].at = "run"
    BY <1>9 DEF Work
  <2>2. CASE kind[fut[t].job] = "node" /\ Ends(t, "ok")
    BY <2>1, <2>2 DEF Ends, Free
  <2>3. CASE kind[fut[t].job] # "node" /\ fut' = [fut EXCEPT ![t].at = "log"] /\ told' = told
    BY <2>1, <2>3
  <2> QED BY <1>9, <2>2, <2>3 DEF Work
<1>10. ASSUME NEW t \in Futures, Watch(t) PROVE Known'
  BY <1>10 DEF Watch
<1>11. ASSUME NEW t \in Futures, Expire(t) PROVE Known'
  BY <1>11 DEF Expire
<1>12. ASSUME NEW t \in Futures, Log(t) PROVE Known'
  BY <1>12 DEF Log, Free
<1>13. ASSUME NEW t \in Futures, Raise(t) PROVE Known'
  BY <1>13 DEF Raise, Ends, Free
<1>14. CASE PollQueued
  BY <1>14 DEF PollQueued
<1>15. CASE PollAborted
  BY <1>15 DEF PollAborted
<1>16. CASE PollSleep
  BY <1>16 DEF PollSleep, Asleep
<1>17. CASE PollRecord
  BY <1>17 DEF PollRecord, Released, Free
<1>18. CASE PollFails
  BY <1>18 DEF PollFails, Released, Asleep, Free
<1>19. CASE Restart
  <2>1. /\ UNCHANGED <<row, kind, transfers>>
        /\ \A r \in Requests : req'[r].at = "idle"
        /\ \A t \in Futures : fut'[t].at = "free"
        /\ poll'.todo = {}
    BY <1>19 DEF Restart, Asleep, Idle, Free
  <2>2. \A j \in Jobs : told'[j] = [told[j] EXCEPT !.stuck = @ \/ row[j] = "EXECUTING"]
    BY <1>19 DEF Restart
  <2>3. \A j \in Jobs : told'[j].launches = told[j].launches /\ told'[j].ended = told[j].ended
    <3>1. ASSUME NEW j \in Jobs
          PROVE  told'[j].launches = told[j].launches /\ told'[j].ended = told[j].ended
      <4>1. told'[j] = [told[j] EXCEPT !.stuck = @ \/ row[j] = "EXECUTING"]
        BY <2>2
      <4>2. "launches" \in DOMAIN told[j] /\ "ended" \in DOMAIN told[j]
        OBVIOUS
      <4> QED BY <4>1, <4>2
    <3> QED BY <3>1
  <2> QED BY <2>1, <2>3
<1>20. CASE PollScan
  <2>1. /\ UNCHANGED <<row, kind, transfers, fut, req, told>>
        /\ poll'.todo = poll.todo
    BY <1>20 DEF PollScan
  <2> QED BY <2>1
<1>21. CASE UNCHANGED vars
  BY <1>21 DEF vars
<1>22. ASSUME NEW r \in Requests, AddLaunch(r) PROVE Known'
  <2>1. req[r].at = "launch" /\ req[r].job \in Jobs /\ row[req[r].job] # "none"
    BY <1>22 DEF AddLaunch, Known
  <2>2. Launch(req[r].job) /\ UNCHANGED <<kind, transfers>>
    BY <1>22 DEF AddLaunch
  <2>3. req' = [req EXCEPT ![r].at = "register"] /\ poll' = poll
    BY <1>22 DEF AddLaunch
  <2> QED BY <2>1, <2>2, <2>3, <1>1
<1>23. CASE PollLaunch
  <2>1. PICK j \in poll.todo : Launch(j) /\ poll' = [poll EXCEPT !.todo = @ \ {j}]
    BY <1>23 DEF PollLaunch
  <2>2. j \in Jobs /\ row[j] # "none"
    BY DEF Typed, Known
  <2>3. UNCHANGED <<kind, transfers>> /\ req' = req
    BY <1>23 DEF PollLaunch
  <2> QED BY <2>1, <2>2, <2>3, <1>1
<1> QED
  BY <1>2, <1>3, <1>4, <1>5, <1>6, <1>7, <1>8, <1>9, <1>10, <1>11, <1>12,
     <1>13, <1>14, <1>15, <1>16, <1>17, <1>18, <1>19, <1>20, <1>21, <1>22,
     <1>23
  DEF Next, PollStep, FutureStep

(* Every step keeps the Futures of the list in use. *)
LEMMA ListedStep ==
  ASSUME Typed, Known, Listed, [Next]_vars
  PROVE  Listed'
<1> USE DEF Listed, Typed, Shape, FutureFields, PollFields
<1>1. ASSUME NEW j \in Jobs, row[j] # "none", Launch(j), UNCHANGED <<kind, transfers>>,
           \/ \E r \in Requests : req[r].at = "launch" /\ req[r].job = j
                                  /\ req' = [req EXCEPT ![r].at = "register"] /\ poll' = poll
           \/ poll' = [poll EXCEPT !.todo = @ \ {j}] /\ req' = req
      PROVE  Listed'
  <2>1. PICK t \in Futures :
           /\ fut[t].at = "free"
           /\ fut' = [fut EXCEPT ![t] = [at |-> "run", job |-> j, changed |-> FALSE]]
           /\ list' = Append(list, t)
    BY <1>1, Launching
  <2>2. ToSet(list') = ToSet(list) \cup {t} /\ Injective(list')
    BY <2>1, Adding
  <2>3. poll'.at = poll.at /\ poll'.cur = poll.cur
    BY <1>1
  <2> QED BY <2>1, <2>2, <2>3
<1>2. ASSUME NEW r \in Requests, AddJob(r) PROVE Listed'
  BY <1>2 DEF AddJob, Idle
<1>3. ASSUME NEW r \in Requests, AddRegister(r) PROVE Listed'
  BY <1>3 DEF AddRegister, Idle
<1>4. ASSUME NEW r \in Requests, PostRead(r) PROVE Listed'
  BY <1>4 DEF PostRead
<1>5. ASSUME NEW r \in Requests, PostWrite(r) PROVE Listed'
  BY <1>5 DEF PostWrite, Idle, NewPhase
<1>6. ASSUME NEW r \in Requests, Check(r) PROVE Listed'
  BY <1>6 DEF Check, Idle
<1>7. ASSUME NEW r \in Requests, Serve(r) PROVE Listed'
  BY <1>7 DEF Serve, Idle
<1>8. ASSUME NEW r \in Requests, Upload(r) PROVE Listed'
  <2>1. list' = list /\ poll' = poll
    BY <1>8 DEF Upload
  <2>2. ToSet(list) \subseteq Futures
    BY DEF ToSet
  <2>3. \A t \in Futures : fut'[t].at = fut[t].at
    BY <1>8, Uploading
  <2> QED BY <2>1, <2>2, <2>3
<1>9. ASSUME NEW t \in Futures, Work(t) PROVE Listed'
  <2>1. UNCHANGED <<row, kind, transfers, list, poll, req>> /\ fut[t].at = "run"
    BY <1>9 DEF Work
  <2>2. CASE kind[fut[t].job] = "node" /\ Ends(t, "ok")
    BY <2>1, <2>2 DEF Ends, Kept, Free
  <2>3. CASE kind[fut[t].job] # "node" /\ fut' = [fut EXCEPT ![t].at = "log"]
    BY <2>1, <2>3
  <2> QED BY <1>9, <2>2, <2>3 DEF Work
<1>10. ASSUME NEW t \in Futures, Watch(t) PROVE Listed'
  BY <1>10 DEF Watch
<1>11. ASSUME NEW t \in Futures, Expire(t) PROVE Listed'
  BY <1>11 DEF Expire
<1>12. ASSUME NEW t \in Futures, Log(t) PROVE Listed'
  BY <1>12 DEF Log, Kept, Free
<1>13. ASSUME NEW t \in Futures, Raise(t) PROVE Listed'
  BY <1>13 DEF Raise, Ends, Kept, Free
<1>14. CASE PollQueued
  BY <1>14 DEF PollQueued
<1>15. CASE PollAborted
  BY <1>15 DEF PollAborted
<1>16. CASE PollSleep
  BY <1>16 DEF PollSleep, Asleep
<1>17. CASE PollRecord
  BY <1>17 DEF PollRecord, Released, Free
<1>18. CASE PollFails
  BY <1>18 DEF PollFails, Released, Asleep, Free
<1>19. CASE Restart
  <2>1. list' = <<>> /\ poll'.at = "sleep"
    BY <1>19 DEF Restart, Asleep
  <2> QED BY <2>1 DEF ToSet, Injective
<1>20. CASE PollScan
  <2>1. poll.i \in 1..Len(list) /\ fut' = fut
    BY <1>20 DEF PollScan
  <2>2. CASE list' = RemoveAt(list, poll.i) /\ poll' = [poll EXCEPT !.at = "record", !.cur = list[poll.i]]
    BY <2>1, <2>2, Removing
  <2>3. CASE list' = list /\ poll' = [poll EXCEPT !.i = @ + 1]
    BY <2>1, <2>3
  <2> QED BY <1>20, <2>2, <2>3 DEF PollScan
<1>21. CASE UNCHANGED vars
  BY <1>21 DEF vars
<1>22. ASSUME NEW r \in Requests, AddLaunch(r) PROVE Listed'
  <2>1. req[r].at = "launch" /\ req[r].job \in Jobs /\ row[req[r].job] # "none"
    BY <1>22 DEF AddLaunch, Known
  <2>2. Launch(req[r].job) /\ UNCHANGED <<kind, transfers>>
    BY <1>22 DEF AddLaunch
  <2>3. req' = [req EXCEPT ![r].at = "register"] /\ poll' = poll
    BY <1>22 DEF AddLaunch
  <2> QED BY <2>1, <2>2, <2>3, <1>1
<1>23. CASE PollLaunch
  <2>1. PICK j \in poll.todo : Launch(j) /\ poll' = [poll EXCEPT !.todo = @ \ {j}]
    BY <1>23 DEF PollLaunch
  <2>2. j \in Jobs /\ row[j] # "none"
    BY DEF Typed, Known
  <2>3. UNCHANGED <<kind, transfers>> /\ req' = req
    BY <1>23 DEF PollLaunch
  <2> QED BY <2>1, <2>2, <2>3, <1>1
<1> QED
  BY <1>2, <1>3, <1>4, <1>5, <1>6, <1>7, <1>8, <1>9, <1>10, <1>11, <1>12,
     <1>13, <1>14, <1>15, <1>16, <1>17, <1>18, <1>19, <1>20, <1>21, <1>22,
     <1>23
  DEF Next, PollStep, FutureStep

(* What has happened to a job is never forgotten. *)
Grows(t, u) ==
  /\ t.ended \subseteq u.ended
  /\ t.aborted => u.aborted
  /\ t.due => u.due
  /\ t.early => u.early
  /\ t.crossed => u.crossed

LEMMA ToldGrows ==
  ASSUME Typed, Known, Listed, [Next]_vars
  PROVE  \A k \in Jobs : Grows(told[k], told'[k])
<1> USE DEF Grows, Known, Typed, Shape, ToldFields
<1>1. ASSUME NEW j \in Jobs, row[j] # "none", Launch(j), UNCHANGED <<kind, transfers>>,
           \/ \E r \in Requests : req[r].at = "launch" /\ req[r].job = j
                                  /\ req' = [req EXCEPT ![r].at = "register"] /\ poll' = poll
           \/ poll' = [poll EXCEPT !.todo = @ \ {j}] /\ req' = req
      PROVE  \A k \in Jobs : Grows(told[k], told'[k])
  <2>1. told' = [told EXCEPT ![j].launches = @ + 1,
                             ![j].crossed = @ \/ row[j] # "QUEUED"]
    BY <1>1 DEF Launch
  <2> QED BY <2>1
<1>2. ASSUME NEW r \in Requests, AddJob(r) PROVE \A k \in Jobs : Grows(told[k], told'[k])
  BY <1>2 DEF AddJob, Idle
<1>3. ASSUME NEW r \in Requests, AddRegister(r) PROVE \A k \in Jobs : Grows(told[k], told'[k])
  BY <1>3 DEF AddRegister, Idle
<1>4. ASSUME NEW r \in Requests, PostRead(r) PROVE \A k \in Jobs : Grows(told[k], told'[k])
  <2>0. PICK j \in Jobs, what \in {"RUN", "ABORT"} :
          told' = [told EXCEPT ![j].posts = @ + 1,
                               ![j].asked = IF what = "RUN" THEN @ + 1 ELSE @,
                               ![j].aborted = @ \/ what = "ABORT"]
    BY <1>4 DEF PostRead
  <2>1. told' = [told EXCEPT ![j].posts = @ + 1,
                             ![j].asked = IF what = "RUN" THEN @ + 1 ELSE @,
                             ![j].aborted = @ \/ what = "ABORT"]
    BY <1>4, <2>0 DEF PostRead
  <2>2. j \in Jobs /\ DOMAIN told = Jobs /\ DOMAIN told[j] = ToldFields
    BY <2>0
  <2>3. \A k \in Jobs : k # j => told'[k] = told[k]
    BY <2>1
  <2>4. Grows(told[j], told'[j])
    BY <2>1, <2>2
  <2> QED BY <2>3, <2>4
<1>5. ASSUME NEW r \in Requests, PostWrite(r) PROVE \A k \in Jobs : Grows(told[k], told'[k])
  <2> DEFINE i == req[r].job
  <2>1. PICK stuck :
          told' = [told EXCEPT ![i].crossed = @ \/ row[i] # req[r].seen, ![i].stuck = stuck]
    BY <1>5 DEF PostWrite
  <2>2. i \in Jobs /\ DOMAIN told = Jobs /\ DOMAIN told[i] = ToldFields
    BY <1>5 DEF PostWrite
  <2>3. \A k \in Jobs : k # i => told'[k] = told[k]
    BY <2>1
  <2>4. Grows(told[i], told'[i])
    BY <2>1, <2>2
  <2> QED BY <2>3, <2>4
<1>6. ASSUME NEW r \in Requests, Check(r) PROVE \A k \in Jobs : Grows(told[k], told'[k])
  BY <1>6 DEF Check, Idle
<1>7. ASSUME NEW r \in Requests, Serve(r) PROVE \A k \in Jobs : Grows(told[k], told'[k])
  BY <1>7 DEF Serve, Idle
<1>8. ASSUME NEW r \in Requests, Upload(r) PROVE \A k \in Jobs : Grows(told[k], told'[k])
  BY <1>8 DEF Upload, Idle
<1>9. ASSUME NEW t \in Futures, Work(t) PROVE \A k \in Jobs : Grows(told[k], told'[k])
  <2>1. UNCHANGED <<row, kind, transfers, list, poll, req>> /\ fut[t].at = "run"
    BY <1>9 DEF Work
  <2>2. CASE kind[fut[t].job] = "node" /\ Ends(t, "ok")
    BY <2>1, <2>2 DEF Ends, Free
  <2>3. CASE kind[fut[t].job] # "node" /\ fut' = [fut EXCEPT ![t].at = "log"] /\ told' = told
    BY <2>1, <2>3
  <2> QED BY <1>9, <2>2, <2>3 DEF Work
<1>10. ASSUME NEW t \in Futures, Watch(t) PROVE \A k \in Jobs : Grows(told[k], told'[k])
  <2>1. told' = [told EXCEPT ![fut[t].job].early = @ \/ transfers[fut[t].job] = "none"]
    BY <1>10 DEF Watch
  <2>2. fut[t].job \in Jobs /\ DOMAIN told = Jobs /\ DOMAIN told[fut[t].job] = ToldFields
    BY <1>10 DEF Watch
  <2>3. \A k \in Jobs : k # fut[t].job => told'[k] = told[k]
    BY <2>1
  <2>4. Grows(told[fut[t].job], told'[fut[t].job])
    BY <2>1, <2>2
  <2> QED BY <2>3, <2>4
<1>11. ASSUME NEW t \in Futures, Expire(t) PROVE \A k \in Jobs : Grows(told[k], told'[k])
  BY <1>11 DEF Expire
<1>12. ASSUME NEW t \in Futures, Log(t) PROVE \A k \in Jobs : Grows(told[k], told'[k])
  <2>1. told' = [told EXCEPT ![fut[t].job].ended = @ \cup {"ok"},
                             ![fut[t].job].early = @ \/ transfers[fut[t].job] = "none"]
    BY <1>12 DEF Log
  <2>2. fut[t].job \in Jobs /\ DOMAIN told = Jobs /\ DOMAIN told[fut[t].job] = ToldFields
    BY <1>12 DEF Log
  <2>3. \A k \in Jobs : k # fut[t].job => told'[k] = told[k]
    BY <2>1
  <2>4. Grows(told[fut[t].job], told'[fut[t].job])
    BY <2>1, <2>2
  <2> QED BY <2>3, <2>4
<1>13. ASSUME NEW t \in Futures, Raise(t) PROVE \A k \in Jobs : Grows(told[k], told'[k])
  BY <1>13 DEF Raise, Ends, Free
<1>14. CASE PollQueued
  BY <1>14 DEF PollQueued
<1>15. CASE PollAborted
  BY <1>15 DEF PollAborted
<1>16. CASE PollSleep
  BY <1>16 DEF PollSleep, Asleep
<1>17. CASE PollRecord
  BY <1>17 DEF PollRecord, Released, Free
<1>18. CASE PollFails
  BY <1>18 DEF PollFails, Released, Asleep, Free
<1>19. CASE Restart
  <2>1. ASSUME NEW j \in Jobs PROVE Grows(told[j], told'[j])
    <3>1. told'[j] = [told[j] EXCEPT !.stuck = @ \/ row[j] = "EXECUTING"]
      BY <1>19 DEF Restart
    <3> QED BY <3>1
  <2> QED BY <2>1
<1>20. CASE PollScan
  BY <1>20 DEF PollScan
<1>21. CASE UNCHANGED vars
  BY <1>21 DEF vars
<1>22. ASSUME NEW r \in Requests, AddLaunch(r) PROVE \A k \in Jobs : Grows(told[k], told'[k])
  <2>1. req[r].at = "launch" /\ req[r].job \in Jobs /\ row[req[r].job] # "none"
    BY <1>22 DEF AddLaunch, Known
  <2>2. Launch(req[r].job) /\ UNCHANGED <<kind, transfers>>
    BY <1>22 DEF AddLaunch
  <2>3. req' = [req EXCEPT ![r].at = "register"] /\ poll' = poll
    BY <1>22 DEF AddLaunch
  <2> QED BY <2>1, <2>2, <2>3, <1>1
<1>23. CASE PollLaunch
  <2>1. PICK j \in poll.todo : Launch(j) /\ poll' = [poll EXCEPT !.todo = @ \ {j}]
    BY <1>23 DEF PollLaunch
  <2>2. j \in Jobs /\ row[j] # "none"
    BY DEF Typed, Known
  <2>3. UNCHANGED <<kind, transfers>> /\ req' = req
    BY <1>23 DEF PollLaunch
  <2> QED BY <2>1, <2>2, <2>3, <1>1
<1> QED
  BY <1>2, <1>3, <1>4, <1>5, <1>6, <1>7, <1>8, <1>9, <1>10, <1>11, <1>12,
     <1>13, <1>14, <1>15, <1>16, <1>17, <1>18, <1>19, <1>20, <1>21, <1>22,
     <1>23
  DEF Next, PollStep, FutureStep
-----------------------------------------------------------------------------
(* EndIsTold.  A Future that has ended is told, and so is a job that was       *)
(* aborted; what is known of a phase goes with it, into the table from the     *)
(* polling thread, and from there to requests that will write it back.         *)
Justified(phase, t) ==
  /\ phase = "COMPLETED" => "ok" \in t.ended \/ t.aborted
  /\ phase = "ERROR" => "failed" \in t.ended
  /\ phase = "ABORTED" => t.aborted

EndedRows == \A j \in Jobs : Justified(row[j], told[j])
EndedRequests ==
  \A r \in Requests :
    req[r].at = "write" =>
      /\ Justified(req[r].seen, told[req[r].job])
      /\ req[r].what = "ABORT" => told[req[r].job].aborted
EndedFutures ==
  \A t \in Futures : fut[t].at \in {"ok", "failed"} => fut[t].at \in told[fut[t].job].ended
EndedPoll ==
  /\ \A j \in poll.aborts : j \in Jobs /\ told[j].aborted
  /\ poll.at = "record" =>
       fut[poll.cur].at \in {"ok", "failed"} \/ told[fut[poll.cur].job].aborted
Ended == EndedRows /\ EndedRequests /\ EndedFutures /\ EndedPoll

LEMMA JustifiedStays ==
  ASSUME NEW phase, NEW t, NEW u, Grows(t, u), Justified(phase, t) PROVE Justified(phase, u)
BY DEF Grows, Justified

(* What a step leaves alone is justified as before. *)
LEMMA EndedFrame ==
  ASSUME Typed, Known, Listed, Ended, \A k \in Jobs : Grows(told[k], told'[k])
  PROVE  /\ row' = row => EndedRows'
         /\ req' = req => EndedRequests'
         /\ fut' = fut => EndedFutures'
         /\ fut' = fut /\ poll' = poll => EndedPoll'
<1> USE DEF Typed, Shape, Known
<1>1. ASSUME row' = row PROVE EndedRows'
  BY <1>1, JustifiedStays DEF Ended, EndedRows
<1>2. ASSUME req' = req PROVE EndedRequests'
  BY <1>2, JustifiedStays DEF Ended, EndedRequests, Grows
<1>3. ASSUME fut' = fut PROVE EndedFutures'
  BY <1>3 DEF Ended, EndedFutures, Grows
<1>4. ASSUME fut' = fut, poll' = poll PROVE EndedPoll'
  BY <1>4 DEF Ended, EndedPoll, Grows, Listed
<1> QED BY <1>1, <1>2, <1>3, <1>4

LEMMA EndedOthers ==
  ASSUME Typed, Known, Ended, \A k \in Jobs : Grows(told[k], told'[k])
  PROVE  /\ (\A r \in Requests : req'[r].at = "write" => req'[r] = req[r]) => EndedRequests'
         /\ (\A t \in Futures : \/ fut'[t] = fut[t]
                                \/ fut'[t].at \in {"ok", "failed"} =>
                                     fut'[t].at \in told'[fut'[t].job].ended) => EndedFutures'
<1> USE DEF Known, Ended, Grows
<1>1. ASSUME NEW r \in Requests, req[r].at = "write"
      PROVE  /\ Justified(req[r].seen, told'[req[r].job])
             /\ req[r].what = "ABORT" => told'[req[r].job].aborted
  BY <1>1, JustifiedStays DEF EndedRequests
<1>2. ASSUME NEW t \in Futures, fut[t].at \in {"ok", "failed"}
      PROVE  fut[t].at \in told'[fut[t].job].ended
  BY <1>2 DEF EndedFutures
<1> QED BY <1>1, <1>2 DEF EndedRequests, EndedFutures

(* Every step keeps it. *)
LEMMA EndedStep ==
  ASSUME Typed, Known, Listed, Ended, \A k \in Jobs : Grows(told[k], told'[k]), [Next]_vars
  PROVE  Ended'
<1> USE DEF Known, Typed, Shape, FutureFields, PollFields, RequestFields, ToldFields
<1>1. ASSUME NEW j \in Jobs, row[j] # "none", Launch(j), UNCHANGED <<kind, transfers>>,
           \/ \E r \in Requests : req[r].at = "launch" /\ req[r].job = j
                                  /\ req' = [req EXCEPT ![r].at = "register"] /\ poll' = poll
           \/ poll' = [poll EXCEPT !.todo = @ \ {j}] /\ req' = req
      PROVE  Ended'
  <2>1. PICK t \in Futures :
           /\ fut[t].at = "free"
           /\ fut' = [fut EXCEPT ![t] = [at |-> "run", job |-> j, changed |-> FALSE]]
    BY <1>1, Launching
  <2>2. row' = [row EXCEPT ![j] = "EXECUTING"]
    BY <1>1 DEF Launch
  <2>Rows. EndedRows'
    BY <2>2, JustifiedStays DEF Ended, EndedRows, Justified
  <2>Requests. EndedRequests'
    <3>1. CASE req' = req
      BY <3>1, EndedFrame
    <3>2. ASSUME NEW r \in Requests, req' = [req EXCEPT ![r].at = "register"]
          PROVE  EndedRequests'
      BY <3>2, EndedOthers
    <3> QED BY <1>1, <3>1, <3>2
  <2>Futures. EndedFutures'
    BY <2>1 DEF Ended, EndedFutures, Grows
  <2>Poll. EndedPoll'
    <3>1. poll'.at = poll.at /\ poll'.cur = poll.cur /\ poll'.aborts = poll.aborts
      BY <1>1
    <3> QED BY <2>1, <3>1 DEF Ended, EndedPoll, Grows, Listed
  <2> QED BY <2>Rows, <2>Requests, <2>Futures, <2>Poll DEF Ended
<1>2. ASSUME NEW r \in Requests, AddJob(r) PROVE Ended'
  <2>u. UNCHANGED <<fut, poll>>
    BY <1>2 DEF AddJob
  <2>Rows. EndedRows'
    BY <1>2, JustifiedStays DEF AddJob, Ended, EndedRows, Justified
  <2>Requests. EndedRequests'
    <3>1. \A q \in Requests : req'[q].at = "write" => req'[q] = req[q]
      BY <1>2 DEF AddJob, Idle
    <3> QED BY <3>1, EndedOthers
  <2> QED BY <2>u, <2>Rows, <2>Requests, EndedFrame DEF Ended
<1>3. ASSUME NEW r \in Requests, AddRegister(r) PROVE Ended'
  <2>u. UNCHANGED <<row, fut, poll>>
    BY <1>3 DEF AddRegister
  <2>Requests. EndedRequests'
    <3>1. \A q \in Requests : req'[q].at = "write" => req'[q] = req[q]
      BY <1>3 DEF AddRegister, Idle
    <3> QED BY <3>1, EndedOthers
  <2> QED BY <2>u, <2>Requests, EndedFrame DEF Ended
<1>4. ASSUME NEW r \in Requests, PostRead(r) PROVE Ended'
  <2>u. UNCHANGED <<row, fut, poll>>
    BY <1>4 DEF PostRead
  <2>Requests. EndedRequests'
    <3>1. PICK j \in Jobs, what \in {"RUN", "ABORT"} :
            /\ req' = [req EXCEPT ![r] = [at |-> "write", job |-> j, what |-> what, seen |-> row[j]]]
            /\ told' = [told EXCEPT ![j].posts = @ + 1,
                                    ![j].asked = IF what = "RUN" THEN @ + 1 ELSE @,
                                    ![j].aborted = @ \/ what = "ABORT"]
      BY <1>4 DEF PostRead
    <3>2. DOMAIN told[j] = ToldFields /\ j \in DOMAIN told
      OBVIOUS
    <3>3. what = "ABORT" => told'[j].aborted
      BY <3>1, <3>2
    <3>4. Justified(row[j], told'[j])
      BY JustifiedStays DEF Ended, EndedRows
    <3>5. ASSUME NEW q \in Requests, q # r, req[q].at = "write"
          PROVE  /\ Justified(req[q].seen, told'[req[q].job])
                 /\ req[q].what = "ABORT" => told'[req[q].job].aborted
      BY <3>5, JustifiedStays DEF Ended, EndedRequests, Grows
    <3> QED BY <3>1, <3>3, <3>4, <3>5 DEF EndedRequests
  <2> QED BY <2>u, <2>Requests, EndedFrame DEF Ended
<1>5. ASSUME NEW r \in Requests, PostWrite(r) PROVE Ended'
  <2>u. UNCHANGED <<fut, poll>>
    BY <1>5 DEF PostWrite
  <2>Rows. EndedRows'
    <3>1. Justified(NewPhase(req[r].what, req[r].seen), told[req[r].job])
      BY <1>5 DEF PostWrite, NewPhase, Ended, EndedRequests, Justified
    <3>2. row' = [row EXCEPT ![req[r].job] = NewPhase(req[r].what, req[r].seen)]
      BY <1>5 DEF PostWrite
    <3>3. req[r].job \in Jobs
      BY <1>5 DEF PostWrite
    <3> QED BY <3>1, <3>2, <3>3, JustifiedStays DEF Ended, EndedRows
  <2>Requests. EndedRequests'
    <3>1. \A q \in Requests : req'[q].at = "write" => req'[q] = req[q]
      BY <1>5 DEF PostWrite, Idle
    <3> QED BY <3>1, EndedOthers
  <2> QED BY <2>u, <2>Rows, <2>Requests, EndedFrame DEF Ended
<1>6. ASSUME NEW r \in Requests, Check(r) PROVE Ended'
  <2>u. UNCHANGED <<row, fut, poll>>
    BY <1>6 DEF Check
  <2>Requests. EndedRequests'
    <3>1. \A q \in Requests : req'[q].at = "write" => req'[q] = req[q]
      BY <1>6 DEF Check, Idle
    <3> QED BY <3>1, EndedOthers
  <2> QED BY <2>u, <2>Requests, EndedFrame DEF Ended
<1>7. ASSUME NEW r \in Requests, Serve(r) PROVE Ended'
  <2>u. UNCHANGED <<row, fut, poll>>
    BY <1>7 DEF Serve
  <2>Requests. EndedRequests'
    <3>1. \A q \in Requests : req'[q].at = "write" => req'[q] = req[q]
      BY <1>7 DEF Serve, Idle
    <3> QED BY <3>1, EndedOthers
  <2> QED BY <2>u, <2>Requests, EndedFrame DEF Ended
<1>8. ASSUME NEW r \in Requests, Upload(r) PROVE Ended'
  <2>u. UNCHANGED <<row>>
    BY <1>8 DEF Upload
  <2>Requests. EndedRequests'
    <3>1. \A q \in Requests : req'[q].at = "write" => req'[q] = req[q]
      BY <1>8 DEF Upload, Idle
    <3> QED BY <3>1, EndedOthers
  <2>Futures. EndedFutures'
    BY <1>8, Uploading DEF Ended, EndedFutures, Grows
  <2>Poll. EndedPoll'
    <3>1. poll' = poll
      BY <1>8 DEF Upload
    <3>2. poll.at = "record" => poll.cur \in Futures
      BY DEF Listed
    <3> QED BY <1>8, <3>1, <3>2, Uploading DEF Ended, EndedPoll, Grows, Listed
  <2> QED BY <2>u, <2>Requests, <2>Futures, <2>Poll, EndedFrame DEF Ended
<1>9. ASSUME NEW t \in Futures, Work(t) PROVE Ended'
  <2>a. CASE kind[fut[t].job] = "node"
    <3>u. UNCHANGED <<row, req>>
      BY <1>9, <2>a DEF Work
    <3>Futures. EndedFutures'
      <4>1. fut' = [fut EXCEPT ![t] = Free] \/ fut' = [fut EXCEPT ![t].at = "ok"]
        BY <1>9, <2>a DEF Work, Ends
      <4>2. "ok" \in told'[fut[t].job].ended
        <5>1. told' = [told EXCEPT ![fut[t].job].ended = @ \cup {"ok"}]
          BY <1>9, <2>a DEF Work, Ends
        <5> QED BY <1>9, <2>a, <5>1 DEF Work
      <4>3. \A u \in Futures :
              \/ fut'[u] = fut[u]
              \/ fut'[u].at \in {"ok", "failed"} => fut'[u].at \in told'[fut'[u].job].ended
        BY <4>1, <4>2 DEF Free
      <4> QED BY <4>3, EndedOthers
    <3>Poll. EndedPoll'
      <4>1. poll' = poll /\ fut[t].at \in {"run", "log"}
        BY <1>9, <2>a DEF Work, Ends
      <4>2. CASE poll.at = "record" /\ poll.cur = t
        <5>1. fut' = [fut EXCEPT ![t].at = "ok"]
          BY <1>9, <2>a, <4>2 DEF Work, Ends, Kept
        <5> QED BY <4>1, <4>2, <5>1 DEF Ended, EndedPoll, Grows
      <4>3. CASE ~(poll.at = "record" /\ poll.cur = t)
        <5>1. poll.at = "record" => fut'[poll.cur] = fut[poll.cur]
          BY <1>9, <2>a, <4>3 DEF Work, Ends, Listed
        <5> QED BY <4>1, <5>1 DEF Ended, EndedPoll, Grows, Listed
      <4> QED BY <4>2, <4>3
    <3> QED BY <3>u, <3>Futures, <3>Poll, EndedFrame DEF Ended
  <2>b. CASE kind[fut[t].job] # "node"
    <3>u. UNCHANGED <<row, req>>
      BY <1>9, <2>b DEF Work
    <3>Futures. EndedFutures'
      <4>1. fut' = [fut EXCEPT ![t].at = "log"]
        BY <1>9, <2>b DEF Work
      <4> QED BY <4>1 DEF Ended, EndedFutures, Grows
    <3>Poll. EndedPoll'
      <4>1. fut' = [fut EXCEPT ![t].at = "log"] /\ poll' = poll /\ fut[t].at = "run"
        BY <1>9, <2>b DEF Work
      <4> QED BY <4>1 DEF Ended, EndedPoll, Grows, Listed
    <3> QED BY <3>u, <3>Futures, <3>Poll, EndedFrame DEF Ended
  <2> QED BY <2>a, <2>b
<1>10. ASSUME NEW t \in Futures, Watch(t) PROVE Ended'
  <2>u. UNCHANGED <<row, req>>
    BY <1>10 DEF Watch
  <2>Futures. EndedFutures'
    <3>1. fut' = [fut EXCEPT ![t].at = "log"]
      BY <1>10 DEF Watch
    <3> QED BY <3>1 DEF Ended, EndedFutures, Grows
  <2>Poll. EndedPoll'
    <3>1. fut' = [fut EXCEPT ![t].at = "log"] /\ poll' = poll /\ fut[t].at = "run"
      BY <1>10 DEF Watch
    <3> QED BY <3>1 DEF Ended, EndedPoll, Grows, Listed
  <2> QED BY <2>u, <2>Futures, <2>Poll, EndedFrame DEF Ended
<1>11. ASSUME NEW t \in Futures, Expire(t) PROVE Ended'
  <2>u. UNCHANGED <<row, req>>
    BY <1>11 DEF Expire
  <2>Futures. EndedFutures'
    <3>1. fut' = [fut EXCEPT ![t].at = "log"]
      BY <1>11 DEF Expire
    <3> QED BY <3>1 DEF Ended, EndedFutures, Grows
  <2>Poll. EndedPoll'
    <3>1. fut' = [fut EXCEPT ![t].at = "log"] /\ poll' = poll /\ fut[t].at = "run"
      BY <1>11 DEF Expire
    <3> QED BY <3>1 DEF Ended, EndedPoll, Grows, Listed
  <2> QED BY <2>u, <2>Futures, <2>Poll, EndedFrame DEF Ended
<1>12. ASSUME NEW t \in Futures, Log(t) PROVE Ended'
  <2>u. UNCHANGED <<row, req>>
    BY <1>12 DEF Log
  <2>Futures. EndedFutures'
    <3>1. fut' = [fut EXCEPT ![t] = Free] \/ fut' = [fut EXCEPT ![t].at = "ok"]
      BY <1>12 DEF Log
    <3>2. "ok" \in told'[fut[t].job].ended
      <4>1. told' = [told EXCEPT ![fut[t].job].ended = @ \cup {"ok"},
                               ![fut[t].job].early = @ \/ transfers[fut[t].job] = "none"]
        BY <1>12 DEF Log
      <4> QED BY <1>12, <4>1 DEF Log
    <3>3. \A u \in Futures :
            \/ fut'[u] = fut[u]
            \/ fut'[u].at \in {"ok", "failed"} => fut'[u].at \in told'[fut'[u].job].ended
      BY <3>1, <3>2 DEF Free
    <3> QED BY <3>3, EndedOthers
  <2>Poll. EndedPoll'
    <3>1. poll' = poll /\ fut[t].at \in {"run", "log"}
      BY <1>12 DEF Log
    <3>2. CASE poll.at = "record" /\ poll.cur = t
      <4>1. fut' = [fut EXCEPT ![t].at = "ok"]
        BY <1>12, <3>2 DEF Log, Kept
      <4> QED BY <3>1, <3>2, <4>1 DEF Ended, EndedPoll, Grows
    <3>3. CASE ~(poll.at = "record" /\ poll.cur = t)
      <4>1. poll.at = "record" => fut'[poll.cur] = fut[poll.cur]
        BY <1>12, <3>3 DEF Log, Listed
      <4> QED BY <3>1, <4>1 DEF Ended, EndedPoll, Grows, Listed
    <3> QED BY <3>2, <3>3
  <2> QED BY <2>u, <2>Futures, <2>Poll, EndedFrame DEF Ended
<1>13. ASSUME NEW t \in Futures, Raise(t) PROVE Ended'
  <2>u. UNCHANGED <<row, req>>
    BY <1>13 DEF Raise
  <2>Futures. EndedFutures'
    <3>1. fut' = [fut EXCEPT ![t] = Free] \/ fut' = [fut EXCEPT ![t].at = "failed"]
      BY <1>13 DEF Raise, Ends
    <3>2. "failed" \in told'[fut[t].job].ended
      <4>1. told' = [told EXCEPT ![fut[t].job].ended = @ \cup {"failed"}]
        BY <1>13 DEF Raise, Ends
      <4> QED BY <1>13, <4>1 DEF Raise
    <3>3. \A u \in Futures :
            \/ fut'[u] = fut[u]
            \/ fut'[u].at \in {"ok", "failed"} => fut'[u].at \in told'[fut'[u].job].ended
      BY <3>1, <3>2 DEF Free
    <3> QED BY <3>3, EndedOthers
  <2>Poll. EndedPoll'
    <3>1. poll' = poll /\ fut[t].at \in {"run", "log"}
      BY <1>13 DEF Raise, Ends
    <3>2. CASE poll.at = "record" /\ poll.cur = t
      <4>1. fut' = [fut EXCEPT ![t].at = "failed"]
        BY <1>13, <3>2 DEF Raise, Ends, Kept
      <4> QED BY <3>1, <3>2, <4>1 DEF Ended, EndedPoll, Grows
    <3>3. CASE ~(poll.at = "record" /\ poll.cur = t)
      <4>1. poll.at = "record" => fut'[poll.cur] = fut[poll.cur]
        BY <1>13, <3>3 DEF Raise, Ends, Listed
      <4> QED BY <3>1, <4>1 DEF Ended, EndedPoll, Grows, Listed
    <3> QED BY <3>2, <3>3
  <2> QED BY <2>u, <2>Futures, <2>Poll, EndedFrame DEF Ended
<1>14. CASE PollQueued
  <2>u. UNCHANGED <<row, req, fut>>
    BY <1>14 DEF PollQueued
  <2>Poll. EndedPoll'
    BY <1>14 DEF PollQueued, Ended, EndedPoll, Grows
  <2> QED BY <2>u, <2>Poll, EndedFrame DEF Ended
<1>15. CASE PollAborted
  <2>u. UNCHANGED <<row, req, fut>>
    BY <1>15 DEF PollAborted
  <2>Poll. EndedPoll'
    <3>1. /\ poll'.at = "scan" /\ poll'.aborts = {j \in Jobs : row[j] = "ABORTED"}
          /\ told' = told
      BY <1>15 DEF PollAborted
    <3> QED BY <3>1 DEF Ended, EndedRows, Justified, EndedPoll
  <2> QED BY <2>u, <2>Poll, EndedFrame DEF Ended
<1>16. CASE PollSleep
  <2>u. UNCHANGED <<row, req, fut>>
    BY <1>16 DEF PollSleep
  <2>Poll. EndedPoll'
    BY <1>16 DEF PollSleep, Asleep, EndedPoll
  <2> QED BY <2>u, <2>Poll, EndedFrame DEF Ended
<1>17. CASE PollRecord
  <2>u. UNCHANGED <<req>>
    BY <1>17 DEF PollRecord
  <2>Rows. EndedRows'
    <3>1. row' = [row EXCEPT ![fut[poll.cur].job] =
                     IF fut[poll.cur].at = "failed" THEN "ERROR" ELSE "COMPLETED"]
      BY <1>17 DEF PollRecord
    <3>2. poll.at = "record" /\ poll.cur \in Futures /\ fut[poll.cur].job \in Jobs
      BY <1>17 DEF PollRecord, Listed
    <3>3. /\ fut[poll.cur].at \in {"ok", "failed"} \/ told[fut[poll.cur].job].aborted
          /\ fut[poll.cur].at \in {"ok", "failed"} =>
               fut[poll.cur].at \in told[fut[poll.cur].job].ended
      BY <3>2 DEF Ended, EndedPoll, EndedFutures
    <3>4. Justified(row'[fut[poll.cur].job], told[fut[poll.cur].job])
      BY <3>1, <3>2, <3>3 DEF Justified
    <3>5. told' = told
      BY <1>17 DEF PollRecord
    <3> QED BY <3>1, <3>2, <3>4, <3>5 DEF Ended, EndedRows
  <2>Futures. EndedFutures'
    BY <1>17 DEF PollRecord, Released, Free, Ended, EndedFutures, Grows
  <2>Poll. EndedPoll'
    BY <1>17 DEF PollRecord, Ended, EndedPoll, Grows
  <2> QED BY <2>u, <2>Rows, <2>Futures, <2>Poll, EndedFrame DEF Ended
<1>18. CASE PollFails
  <2>u. UNCHANGED <<row, req>>
    BY <1>18 DEF PollFails
  <2>Futures. EndedFutures'
    BY <1>18 DEF PollFails, Released, Free, Ended, EndedFutures, Grows
  <2>Poll. EndedPoll'
    BY <1>18 DEF PollFails, Asleep, EndedPoll
  <2> QED BY <2>u, <2>Futures, <2>Poll, EndedFrame DEF Ended
<1>19. CASE Restart
  <2>u. UNCHANGED <<row>>
    BY <1>19 DEF Restart
  <2>Requests. EndedRequests'
    BY <1>19 DEF Restart, Idle, EndedRequests
  <2>Futures. EndedFutures'
    BY <1>19 DEF Restart, Free, EndedFutures
  <2>Poll. EndedPoll'
    BY <1>19 DEF Restart, Asleep, EndedPoll
  <2> QED BY <2>u, <2>Requests, <2>Futures, <2>Poll, EndedFrame DEF Ended
<1>20. CASE PollScan
  <2>u. UNCHANGED <<row, req, fut>>
    BY <1>20 DEF PollScan
  <2>Poll. EndedPoll'
    <3>1. poll.i \in 1..Len(list) /\ UNCHANGED <<fut, told>>
      BY <1>20 DEF PollScan
    <3>2. list[poll.i] \in Futures
      BY <3>1, Removing
    <3>3. CASE /\ fut[list[poll.i]].at \in {"ok", "failed"} \/ fut[list[poll.i]].job \in poll.aborts
               /\ poll' = [poll EXCEPT !.at = "record", !.cur = list[poll.i]]
      BY <3>1, <3>3 DEF Ended, EndedPoll
    <3>4. CASE poll' = [poll EXCEPT !.i = @ + 1]
      BY <1>20, <3>1, <3>4 DEF PollScan, Ended, EndedPoll
    <3> QED BY <1>20, <3>3, <3>4 DEF PollScan
  <2> QED BY <2>u, <2>Poll, EndedFrame DEF Ended
<1>21. CASE UNCHANGED vars
  BY <1>21, EndedFrame DEF vars, Ended
<1>22. ASSUME NEW r \in Requests, AddLaunch(r) PROVE Ended'
  <2>1. req[r].at = "launch" /\ req[r].job \in Jobs /\ row[req[r].job] # "none"
    BY <1>22 DEF AddLaunch, Known
  <2>2. Launch(req[r].job) /\ UNCHANGED <<kind, transfers>>
    BY <1>22 DEF AddLaunch
  <2>3. req' = [req EXCEPT ![r].at = "register"] /\ poll' = poll
    BY <1>22 DEF AddLaunch
  <2> QED BY <2>1, <2>2, <2>3, <1>1
<1>23. CASE PollLaunch
  <2>1. PICK j \in poll.todo : Launch(j) /\ poll' = [poll EXCEPT !.todo = @ \ {j}]
    BY <1>23 DEF PollLaunch
  <2>2. j \in Jobs /\ row[j] # "none"
    BY DEF Typed, Known
  <2>3. UNCHANGED <<kind, transfers>> /\ req' = req
    BY <1>23 DEF PollLaunch
  <2> QED BY <2>1, <2>2, <2>3, <1>1
<1> QED
  BY <1>2, <1>3, <1>4, <1>5, <1>6, <1>7, <1>8, <1>9, <1>10, <1>11, <1>12,
     <1>13, <1>14, <1>15, <1>16, <1>17, <1>18, <1>19, <1>20, <1>21, <1>22,
     <1>23
  DEF Next, PollStep, FutureStep
-----------------------------------------------------------------------------
(* RunAsAsked.  Who may still run a job counts with its launches: the requests *)
(* that will launch it or put it into the queue, and the queue itself, which   *)
(* is the row or what the polling thread has read of it.                       *)
Pending(j) ==
  {r \in Requests : /\ req[r].job = j
                    /\ \/ req[r].at = "launch"
                       \/ req[r].at = "write" /\ req[r].what = "RUN"}
Waits(j)   == row[j] = "QUEUED" \/ j \in poll.todo
Queued(j)  == IF Waits(j) THEN 1 ELSE 0
CountedJob(j) == told[j].launches + Queued(j) + Cardinality(Pending(j)) <= told[j].asked
Counted    == \A j \in Jobs : CountedJob(j)

LEMMA PendingFinite ==
  ASSUME NEW j
  PROVE  /\ IsFiniteSet(Pending(j)) /\ Cardinality(Pending(j)) \in Nat
         /\ IsFiniteSet(Pending(j)') /\ Cardinality(Pending(j)') \in Nat
<1>1. IsFiniteSet(Requests) /\ Pending(j) \subseteq Requests /\ Pending(j)' \subseteq Requests
  BY RequestsAssumption DEF Pending
<1>2. IsFiniteSet(Pending(j)) /\ IsFiniteSet(Pending(j)')
  BY <1>1, FS_Subset
<1> QED BY <1>2, FS_CardinalityType

(* A job nobody may run more often than before. *)
LEMMA CountFrame ==
  ASSUME Typed, Counted, NEW j \in Jobs,
         told'[j].launches = told[j].launches, told'[j].asked = told[j].asked,
         Waits(j)' => Waits(j), Pending(j)' \subseteq Pending(j)
  PROVE  CountedJob(j)'
<1>1. Cardinality(Pending(j)') <= Cardinality(Pending(j))
  BY PendingFinite, FS_Subset
<1>2. Queued(j)' <= Queued(j) /\ Queued(j)' \in {0, 1} /\ Queued(j) \in {0, 1}
  BY DEF Queued
<1>3. told[j].launches \in Nat /\ told[j].asked \in Nat
  BY DEF Typed
<1>4. Cardinality(Pending(j)') \in Nat /\ Cardinality(Pending(j)) \in Nat
  BY PendingFinite
<1>5. told[j].launches + Queued(j) + Cardinality(Pending(j)) <= told[j].asked
  BY DEF Counted, CountedJob
<1> QED BY <1>1, <1>2, <1>3, <1>4, <1>5 DEF CountedJob

(* One request less, or one more, may run the job. *)
LEMMA PendingLess ==
  ASSUME NEW j, NEW r \in Pending(j), Pending(j)' \subseteq Pending(j) \ {r}
  PROVE  Cardinality(Pending(j)') + 1 <= Cardinality(Pending(j))
<1>1. Cardinality(Pending(j) \ {r}) = Cardinality(Pending(j)) - 1 /\ IsFiniteSet(Pending(j) \ {r})
  BY PendingFinite, FS_RemoveElement
<1>2. Cardinality(Pending(j)') <= Cardinality(Pending(j) \ {r})
  BY <1>1, FS_Subset
<1> QED BY <1>1, <1>2, PendingFinite

LEMMA PendingMore ==
  ASSUME NEW j, NEW r, Pending(j)' \subseteq Pending(j) \cup {r}
  PROVE  Cardinality(Pending(j)') <= Cardinality(Pending(j)) + 1
<1>1. /\ Cardinality(Pending(j) \cup {r}) <= Cardinality(Pending(j)) + 1
      /\ IsFiniteSet(Pending(j) \cup {r})
  <2>1. IsFiniteSet(Pending(j)) /\ Cardinality(Pending(j)) \in Nat
    BY PendingFinite
  <2>2. /\ IsFiniteSet(Pending(j) \cup {r})
        /\ \/ Cardinality(Pending(j) \cup {r}) = Cardinality(Pending(j))
           \/ Cardinality(Pending(j) \cup {r}) = Cardinality(Pending(j)) + 1
    BY <2>1, FS_AddElement
  <2> QED BY <2>1, <2>2
<1>2. Cardinality(Pending(j)') <= Cardinality(Pending(j) \cup {r})
  BY <1>1, FS_Subset
<1>3. Cardinality(Pending(j) \cup {r}) \in Nat
  BY <1>1, FS_CardinalityType
<1> QED BY <1>1, <1>2, <1>3, PendingFinite

(* Every step keeps the count. *)
LEMMA CountedStep ==
  ASSUME Typed, Known, Listed, Counted, [Next]_vars
  PROVE  Counted'
<1> USE DEF Known, Typed, Shape, FutureFields, PollFields, RequestFields, ToldFields
<1>1. ASSUME NEW j \in Jobs, row[j] # "none", Launch(j), UNCHANGED <<kind, transfers>>,
           \/ \E r \in Requests : req[r].at = "launch" /\ req[r].job = j
                                  /\ req' = [req EXCEPT ![r].at = "register"] /\ poll' = poll
           \/ poll' = [poll EXCEPT !.todo = @ \ {j}] /\ req' = req /\ j \in poll.todo
      PROVE  Counted'
  <2>1. /\ row' = [row EXCEPT ![j] = "EXECUTING"]
        /\ told' = [told EXCEPT ![j].launches = @ + 1,
                                ![j].crossed = @ \/ row[j] # "QUEUED"]
    BY <1>1 DEF Launch
  <2>2. /\ \A k \in Jobs : told'[k].asked = told[k].asked
        /\ \A k \in Jobs : k # j => told'[k].launches = told[k].launches
        /\ told'[j].launches = told[j].launches + 1
    BY <2>1
  <2>3. told[j].launches + Queued(j) + Cardinality(Pending(j)) <= told[j].asked
    BY DEF Counted, CountedJob
  <2>4. told[j].launches \in Nat /\ told[j].asked \in Nat
    OBVIOUS
  <2>5. CASE poll' = [poll EXCEPT !.todo = @ \ {j}] /\ req' = req /\ j \in poll.todo
    <3>1. \A k \in Jobs : Waits(k)' => Waits(k)
      BY <2>1, <2>5 DEF Waits
    <3>2. \A k \in Jobs : Pending(k)' \subseteq Pending(k)
      BY <2>5 DEF Pending
    <3>5. Cardinality(Pending(j)') <= Cardinality(Pending(j))
      BY <3>2, PendingFinite, FS_Subset
    <3>3. Queued(j) = 1 /\ Queued(j)' = 0
      BY <2>1, <2>5 DEF Queued, Waits
    <3>4. told'[j].launches + Queued(j)' + Cardinality(Pending(j)') <= told'[j].asked
      BY <2>2, <2>3, <2>4, <3>3, <3>5, PendingFinite
    <3> QED BY <2>2, <3>1, <3>2, <3>4, CountFrame DEF Counted, CountedJob
  <2>6. ASSUME NEW r \in Requests, req[r].at = "launch", req[r].job = j,
               req' = [req EXCEPT ![r].at = "register"], poll' = poll
        PROVE  Counted'
    <3>1. \A k \in Jobs : Waits(k)' => Waits(k)
      BY <2>1, <2>6 DEF Waits
    <3>2. \A k \in Jobs : Pending(k)' \subseteq Pending(k)
      BY <2>6 DEF Pending
    <3>3. r \in Pending(j) /\ Pending(j)' \subseteq Pending(j) \ {r}
      BY <2>6 DEF Pending
    <3>4. Cardinality(Pending(j)') + 1 <= Cardinality(Pending(j))
      BY <3>3, PendingLess
    <3>5. Queued(j)' <= Queued(j) /\ Queued(j)' \in {0, 1} /\ Queued(j) \in {0, 1}
      BY <3>1 DEF Queued
    <3>6. told'[j].launches + Queued(j)' + Cardinality(Pending(j)') <= told'[j].asked
      BY <2>2, <2>3, <2>4, <3>4, <3>5, PendingFinite
    <3> QED BY <2>2, <3>1, <3>2, <3>6, CountFrame DEF Counted, CountedJob
  <2> QED BY <1>1, <2>5, <2>6
<1>2. ASSUME NEW r \in Requests, AddJob(r) PROVE Counted'
  <2>0. PICK j \in Jobs, run \in BOOLEAN :
          /\ row[j] = "none"
          /\ row' = [row EXCEPT ![j] = IF run THEN "QUEUED" ELSE "PENDING"]
          /\ told' = [told EXCEPT ![j].asked = IF run THEN 2 ELSE 0,
                                  ![j].posts = IF run THEN 1 ELSE 0]
          /\ req' = [req EXCEPT ![r] = [Idle EXCEPT !.at = IF run THEN "launch" ELSE "register",
                                                    !.job = j]]
          /\ poll' = poll
    BY <1>2 DEF AddJob
  <2>1. ASSUME NEW k \in Jobs, k # j PROVE CountedJob(k)'
    <3>1. told'[k].launches = told[k].launches /\ told'[k].asked = told[k].asked
      BY <2>0, <2>1
    <3>2. Waits(k)' => Waits(k)
      BY <2>0, <2>1 DEF Waits
    <3>3. Pending(k)' \subseteq Pending(k)
      BY <2>0, <2>1 DEF Pending, Idle
    <3> QED BY <3>1, <3>2, <3>3, CountFrame
  <2>2. CountedJob(j)'
    <3>a. \A q \in Requests : req[q].at # "idle" => req[q].job # j
      BY <2>0
    <3>b. Pending(j) = {}
      BY <3>a DEF Pending
    <3>c. ~Waits(j)
      BY <2>0 DEF Waits
    <3>1. Pending(j) = {} /\ ~Waits(j) /\ told[j].launches = 0
      BY <2>0, <3>b, <3>c
    <3>2. told'[j].launches = 0 /\ told'[j].asked = IF run THEN 2 ELSE 0
      BY <2>0, <3>1
    <3>3. CASE run
      <4>1. Cardinality(Pending(j)') <= 1
        <5>1. Pending(j)' \subseteq Pending(j) \cup {r}
          BY <2>0 DEF Pending
        <5>2. Cardinality(Pending(j)) = 0
          BY <3>1, FS_EmptySet
        <5>3. Cardinality(Pending(j)') <= Cardinality(Pending(j)) + 1
          BY <5>1, PendingMore
        <5> QED BY <5>2, <5>3, PendingFinite
      <4> QED BY <3>2, <3>3, <4>1, PendingFinite DEF CountedJob, Queued
    <3>4. CASE ~run
      <4>1. Pending(j)' = {}
        BY <2>0, <3>1, <3>4 DEF Pending, Idle
      <4>2. ~Waits(j)'
        BY <2>0, <3>1, <3>4 DEF Waits
      <4> QED BY <3>2, <3>4, <4>1, <4>2, FS_EmptySet DEF CountedJob, Queued
    <3> QED BY <3>3, <3>4
  <2> QED BY <2>1, <2>2 DEF Counted
<1>3. ASSUME NEW r \in Requests, AddRegister(r) PROVE Counted'
  <2>1. \A k \in Jobs : told'[k].launches = told[k].launches /\ told'[k].asked = told[k].asked
    BY <1>3 DEF AddRegister, Idle
  <2>2. \A k \in Jobs : Waits(k)' => Waits(k)
    BY <1>3 DEF AddRegister, Waits, Idle
  <2>3. \A k \in Jobs : Pending(k)' \subseteq Pending(k)
    BY <1>3 DEF AddRegister, Pending, Idle
  <2> QED BY <2>1, <2>2, <2>3, CountFrame DEF Counted
<1>4. ASSUME NEW r \in Requests, PostRead(r) PROVE Counted'
  <2>0. PICK j \in Jobs, what \in {"RUN", "ABORT"} :
          /\ req' = [req EXCEPT ![r] = [at |-> "write", job |-> j, what |-> what, seen |-> row[j]]]
          /\ told' = [told EXCEPT ![j].posts = @ + 1,
                                  ![j].asked = IF what = "RUN" THEN @ + 1 ELSE @,
                                  ![j].aborted = @ \/ what = "ABORT"]
          /\ row' = row /\ poll' = poll
    BY <1>4 DEF PostRead
  <2>1. \A k \in Jobs : Waits(k)' => Waits(k)
    BY <2>0 DEF Waits
  <2>2. \A k \in Jobs : told'[k].launches = told[k].launches
    BY <2>0
  <2>3. ASSUME NEW k \in Jobs, k # j \/ what = "ABORT" PROVE CountedJob(k)'
    <3>1. told'[k].asked = told[k].asked
      BY <2>0, <2>3
    <3>2. Pending(k)' \subseteq Pending(k)
      BY <2>0, <2>3 DEF Pending
    <3> QED BY <2>1, <2>2, <3>1, <3>2, CountFrame
  <2>4. ASSUME what = "RUN" PROVE CountedJob(j)'
    <3>1. told'[j].asked = told[j].asked + 1
      BY <2>0, <2>4
    <3>2. Pending(j)' \subseteq Pending(j) \cup {r}
      BY <2>0, <2>4 DEF Pending
    <3>3. Cardinality(Pending(j)') <= Cardinality(Pending(j)) + 1
      BY <3>2, PendingMore
    <3>4. Queued(j)' <= Queued(j) /\ Queued(j)' \in {0, 1} /\ Queued(j) \in {0, 1}
      BY <2>1 DEF Queued
    <3>5. told[j].launches + Queued(j) + Cardinality(Pending(j)) <= told[j].asked
      BY DEF Counted, CountedJob
    <3>6. told[j].launches \in Nat /\ told[j].asked \in Nat
      OBVIOUS
    <3>7. told'[j].launches + Queued(j)' + Cardinality(Pending(j)') <= told'[j].asked
      BY <2>2, <3>1, <3>3, <3>4, <3>5, <3>6, PendingFinite
    <3> QED BY <3>7 DEF CountedJob
  <2> QED BY <2>3, <2>4 DEF Counted
<1>5. ASSUME NEW r \in Requests, PostWrite(r) PROVE Counted'
  <2>0. PICK j \in Jobs : j = req[r].job
    BY <1>5 DEF PostWrite
  <2>1. /\ row' = [row EXCEPT ![j] = NewPhase(req[r].what, req[r].seen)]
        /\ req' = [req EXCEPT ![r] = Idle] /\ poll' = poll
        /\ req[r].at = "write" /\ req[r].what \in {"RUN", "ABORT"}
    BY <1>5, <2>0 DEF PostWrite
  <2>2. \A k \in Jobs : told'[k].launches = told[k].launches /\ told'[k].asked = told[k].asked
    BY <1>5 DEF PostWrite
  <2>3. \A k \in Jobs : Pending(k)' \subseteq Pending(k)
    BY <2>1 DEF Pending, Idle
  <2>4. ASSUME NEW k \in Jobs, k # j \/ req[r].what = "ABORT" PROVE CountedJob(k)'
    <3>1. Waits(k)' => Waits(k)
      BY <2>1, <2>4 DEF Waits, NewPhase
    <3> QED BY <2>2, <2>3, <3>1, CountFrame
  <2>5. ASSUME req[r].what = "RUN" PROVE CountedJob(j)'
    <3>1. r \in Pending(j) /\ Pending(j)' \subseteq Pending(j) \ {r}
      BY <2>0, <2>1, <2>5 DEF Pending, Idle
    <3>2. Cardinality(Pending(j)') + 1 <= Cardinality(Pending(j))
      BY <3>1, PendingLess
    <3>3. Queued(j)' \in {0, 1} /\ Queued(j) \in {0, 1}
      BY DEF Queued
    <3>4. told[j].launches + Queued(j) + Cardinality(Pending(j)) <= told[j].asked
      BY <2>1 DEF Counted, CountedJob
    <3>5. told[j].launches \in Nat /\ told[j].asked \in Nat
      BY <2>1
    <3>6. told'[j].launches + Queued(j)' + Cardinality(Pending(j)') <= told'[j].asked
      BY <2>1, <2>2, <3>2, <3>3, <3>4, <3>5, PendingFinite
    <3> QED BY <3>6 DEF CountedJob
  <2> QED BY <2>1, <2>4, <2>5 DEF Counted
<1>6. ASSUME NEW r \in Requests, Check(r) PROVE Counted'
  <2>1. \A k \in Jobs : told'[k].launches = told[k].launches /\ told'[k].asked = told[k].asked
    BY <1>6 DEF Check, Idle
  <2>2. \A k \in Jobs : Waits(k)' => Waits(k)
    BY <1>6 DEF Check, Waits, Idle
  <2>3. \A k \in Jobs : Pending(k)' \subseteq Pending(k)
    BY <1>6 DEF Check, Pending, Idle
  <2> QED BY <2>1, <2>2, <2>3, CountFrame DEF Counted
<1>7. ASSUME NEW r \in Requests, Serve(r) PROVE Counted'
  <2>1. \A k \in Jobs : told'[k].launches = told[k].launches /\ told'[k].asked = told[k].asked
    BY <1>7 DEF Serve, Idle
  <2>2. \A k \in Jobs : Waits(k)' => Waits(k)
    BY <1>7 DEF Serve, Waits, Idle
  <2>3. \A k \in Jobs : Pending(k)' \subseteq Pending(k)
    BY <1>7 DEF Serve, Pending, Idle
  <2> QED BY <2>1, <2>2, <2>3, CountFrame DEF Counted
<1>8. ASSUME NEW r \in Requests, Upload(r) PROVE Counted'
  <2>1. \A k \in Jobs : told'[k].launches = told[k].launches /\ told'[k].asked = told[k].asked
    BY <1>8 DEF Upload, Idle
  <2>2. \A k \in Jobs : Waits(k)' => Waits(k)
    BY <1>8 DEF Upload, Waits, Idle
  <2>3. \A k \in Jobs : Pending(k)' \subseteq Pending(k)
    BY <1>8 DEF Upload, Pending, Idle
  <2> QED BY <2>1, <2>2, <2>3, CountFrame DEF Counted
<1>9. ASSUME NEW t \in Futures, Work(t) PROVE Counted'
  <2>1. told' = told \/ told' = [told EXCEPT ![fut[t].job].ended = @ \cup {"ok"}]
    BY <1>9 DEF Work, Ends
  <2>2. \A k \in Jobs : told'[k].launches = told[k].launches /\ told'[k].asked = told[k].asked
    <3>1. CASE told' = told
      BY <3>1
    <3>2. CASE told' = [told EXCEPT ![fut[t].job].ended = @ \cup {"ok"}]
      BY <3>2
    <3> QED BY <2>1, <3>1, <3>2
  <2>3. \A k \in Jobs : Waits(k)' => Waits(k)
    BY <1>9 DEF Work, Waits
  <2>4. \A k \in Jobs : Pending(k)' \subseteq Pending(k)
    BY <1>9 DEF Work, Pending
  <2> QED BY <2>2, <2>3, <2>4, CountFrame DEF Counted
<1>10. ASSUME NEW t \in Futures, Watch(t) PROVE Counted'
  <2>1. \A k \in Jobs : told'[k].launches = told[k].launches /\ told'[k].asked = told[k].asked
    BY <1>10 DEF Watch
  <2>2. \A k \in Jobs : Waits(k)' => Waits(k)
    BY <1>10 DEF Watch, Waits
  <2>3. \A k \in Jobs : Pending(k)' \subseteq Pending(k)
    BY <1>10 DEF Watch, Pending
  <2> QED BY <2>1, <2>2, <2>3, CountFrame DEF Counted
<1>11. ASSUME NEW t \in Futures, Expire(t) PROVE Counted'
  <2>1. \A k \in Jobs : told'[k].launches = told[k].launches /\ told'[k].asked = told[k].asked
    BY <1>11 DEF Expire
  <2>2. \A k \in Jobs : Waits(k)' => Waits(k)
    BY <1>11 DEF Expire, Waits
  <2>3. \A k \in Jobs : Pending(k)' \subseteq Pending(k)
    BY <1>11 DEF Expire, Pending
  <2> QED BY <2>1, <2>2, <2>3, CountFrame DEF Counted
<1>12. ASSUME NEW t \in Futures, Log(t) PROVE Counted'
  <2>1. \A k \in Jobs : told'[k].launches = told[k].launches /\ told'[k].asked = told[k].asked
    BY <1>12 DEF Log
  <2>2. \A k \in Jobs : Waits(k)' => Waits(k)
    BY <1>12 DEF Log, Waits
  <2>3. \A k \in Jobs : Pending(k)' \subseteq Pending(k)
    BY <1>12 DEF Log, Pending
  <2> QED BY <2>1, <2>2, <2>3, CountFrame DEF Counted
<1>13. ASSUME NEW t \in Futures, Raise(t) PROVE Counted'
  <2>1. \A k \in Jobs : told'[k].launches = told[k].launches /\ told'[k].asked = told[k].asked
    BY <1>13 DEF Raise, Ends
  <2>2. \A k \in Jobs : Waits(k)' => Waits(k)
    BY <1>13 DEF Raise, Waits, Ends
  <2>3. \A k \in Jobs : Pending(k)' \subseteq Pending(k)
    BY <1>13 DEF Raise, Pending, Ends
  <2> QED BY <2>1, <2>2, <2>3, CountFrame DEF Counted
<1>14. CASE PollQueued
  <2>1. \A k \in Jobs : told'[k].launches = told[k].launches /\ told'[k].asked = told[k].asked
    BY <1>14 DEF PollQueued
  <2>2. \A k \in Jobs : Waits(k)' => Waits(k)
    BY <1>14 DEF PollQueued, Waits
  <2>3. \A k \in Jobs : Pending(k)' \subseteq Pending(k)
    BY <1>14 DEF PollQueued, Pending
  <2> QED BY <2>1, <2>2, <2>3, CountFrame DEF Counted
<1>15. CASE PollAborted
  <2>1. \A k \in Jobs : told'[k].launches = told[k].launches /\ told'[k].asked = told[k].asked
    BY <1>15 DEF PollAborted
  <2>2. \A k \in Jobs : Waits(k)' => Waits(k)
    BY <1>15 DEF PollAborted, Waits
  <2>3. \A k \in Jobs : Pending(k)' \subseteq Pending(k)
    BY <1>15 DEF PollAborted, Pending
  <2> QED BY <2>1, <2>2, <2>3, CountFrame DEF Counted
<1>16. CASE PollSleep
  <2>1. \A k \in Jobs : told'[k].launches = told[k].launches /\ told'[k].asked = told[k].asked
    BY <1>16 DEF PollSleep, Asleep
  <2>2. \A k \in Jobs : Waits(k)' => Waits(k)
    BY <1>16 DEF PollSleep, Waits, Asleep
  <2>3. \A k \in Jobs : Pending(k)' \subseteq Pending(k)
    BY <1>16 DEF PollSleep, Pending, Asleep
  <2> QED BY <2>1, <2>2, <2>3, CountFrame DEF Counted
<1>17. CASE PollRecord
  <2>1. \A k \in Jobs : told'[k].launches = told[k].launches /\ told'[k].asked = told[k].asked
    BY <1>17 DEF PollRecord
  <2>2. \A k \in Jobs : Waits(k)' => Waits(k)
    BY <1>17 DEF PollRecord, Waits
  <2>3. \A k \in Jobs : Pending(k)' \subseteq Pending(k)
    BY <1>17 DEF PollRecord, Pending
  <2> QED BY <2>1, <2>2, <2>3, CountFrame DEF Counted
<1>18. CASE PollFails
  <2>1. \A k \in Jobs : told'[k].launches = told[k].launches /\ told'[k].asked = told[k].asked
    BY <1>18 DEF PollFails, Asleep
  <2>2. \A k \in Jobs : Waits(k)' => Waits(k)
    BY <1>18 DEF PollFails, Waits, Asleep
  <2>3. \A k \in Jobs : Pending(k)' \subseteq Pending(k)
    BY <1>18 DEF PollFails, Pending, Asleep
  <2> QED BY <2>1, <2>2, <2>3, CountFrame DEF Counted
<1>19. CASE Restart
  <2>1. ASSUME NEW k \in Jobs
        PROVE  told'[k].launches = told[k].launches /\ told'[k].asked = told[k].asked
    <3>1. told'[k] = [told[k] EXCEPT !.stuck = @ \/ row[k] = "EXECUTING"]
      BY <1>19 DEF Restart
    <3>2. "launches" \in DOMAIN told[k] /\ "asked" \in DOMAIN told[k]
      OBVIOUS
    <3> QED BY <3>1, <3>2
  <2>2. \A k \in Jobs : Waits(k)' => Waits(k)
    BY <1>19 DEF Restart, Waits, Asleep
  <2>3. \A k \in Jobs : Pending(k)' \subseteq Pending(k)
    BY <1>19 DEF Restart, Pending, Idle
  <2> QED BY <2>1, <2>2, <2>3, CountFrame DEF Counted
<1>20. CASE PollScan
  <2>1. /\ \/ poll' = [poll EXCEPT !.at = "record", !.cur = list[poll.i]]
           \/ poll' = [poll EXCEPT !.i = @ + 1]
        /\ UNCHANGED <<row, req, told>>
    BY <1>20 DEF PollScan
  <2>2. poll'.todo = poll.todo
    BY <2>1
  <2>3. \A k \in Jobs : Waits(k)' => Waits(k)
    BY <2>1, <2>2 DEF Waits
  <2>4. \A k \in Jobs : Pending(k)' \subseteq Pending(k)
    BY <2>1 DEF Pending
  <2> QED BY <2>1, <2>3, <2>4, CountFrame DEF Counted
<1>21. CASE UNCHANGED vars
  <2>1. \A k \in Jobs : /\ told'[k] = told[k] /\ Pending(k)' = Pending(k)
                         /\ Waits(k)' = Waits(k)
    BY <1>21 DEF vars, Pending, Waits
  <2> QED BY <2>1, CountFrame DEF Counted
<1>22. ASSUME NEW r \in Requests, AddLaunch(r) PROVE Counted'
  <2>1. req[r].at = "launch" /\ req[r].job \in Jobs /\ row[req[r].job] # "none"
    BY <1>22 DEF AddLaunch, Known
  <2>2. Launch(req[r].job) /\ UNCHANGED <<kind, transfers>>
    BY <1>22 DEF AddLaunch
  <2>3. req' = [req EXCEPT ![r].at = "register"] /\ poll' = poll
    BY <1>22 DEF AddLaunch
  <2> QED BY <2>1, <2>2, <2>3, <1>1
<1>23. CASE PollLaunch
  <2>1. PICK j \in poll.todo : Launch(j) /\ poll' = [poll EXCEPT !.todo = @ \ {j}]
    BY <1>23 DEF PollLaunch
  <2>2. j \in Jobs /\ row[j] # "none"
    BY DEF Typed, Known
  <2>3. UNCHANGED <<kind, transfers>> /\ req' = req
    BY <1>23 DEF PollLaunch
  <2> QED BY <2>1, <2>2, <2>3, <1>1
<1> QED
  BY <1>2, <1>3, <1>4, <1>5, <1>6, <1>7, <1>8, <1>9, <1>10, <1>11, <1>12,
     <1>13, <1>14, <1>15, <1>16, <1>17, <1>18, <1>19, <1>20, <1>21, <1>22,
     <1>23
  DEF Next, PollStep, FutureStep
-----------------------------------------------------------------------------
(* The types of the tables. *)
Tables ==
  /\ row \in [Jobs -> Phases] /\ kind \in [Jobs -> AllKinds]
  /\ transfers \in [Jobs -> {"none", "open", "completed"}]
  /\ \A r \in Requests : req[r].at = "write" => req[r].seen \in Phases

LEMMA TablesStep ==
  ASSUME Typed, Known, Tables, [Next]_vars
  PROVE  Tables'
<1> USE DEF Tables, Phases, AllKinds, External, Known, Typed, Shape, RequestFields
<1>1. ASSUME NEW j \in Jobs, row[j] # "none", Launch(j), UNCHANGED <<kind, transfers>>,
           \/ \E r \in Requests : req[r].at = "launch" /\ req[r].job = j
                                  /\ req' = [req EXCEPT ![r].at = "register"] /\ poll' = poll
           \/ poll' = [poll EXCEPT !.todo = @ \ {j}] /\ req' = req
      PROVE  Tables'
  <2>1. row' = [row EXCEPT ![j] = "EXECUTING"]
    BY <1>1 DEF Launch
  <2>2. row' \in [Jobs -> Phases]
    BY <2>1
  <2>3. ASSUME NEW r \in Requests, req'[r].at = "write" PROVE req'[r].seen \in Phases
    <3>1. CASE req' = req
      BY <2>3, <3>1
    <3>2. ASSUME NEW q \in Requests, req' = [req EXCEPT ![q].at = "register"]
          PROVE  req'[r].seen \in Phases
      BY <2>3, <3>2
    <3> QED BY <1>1, <3>1, <3>2
  <2> QED BY <1>1, <2>2, <2>3
<1>2. ASSUME NEW r \in Requests, AddJob(r) PROVE Tables'
  BY <1>2, KindsAssumption DEF AddJob, Idle
<1>3. ASSUME NEW r \in Requests, AddRegister(r) PROVE Tables'
  BY <1>3 DEF AddRegister, Idle
<1>4. ASSUME NEW r \in Requests, PostRead(r) PROVE Tables'
  BY <1>4 DEF PostRead
<1>5. ASSUME NEW r \in Requests, PostWrite(r) PROVE Tables'
  BY <1>5 DEF PostWrite, Idle, NewPhase
<1>6. ASSUME NEW r \in Requests, Check(r) PROVE Tables'
  BY <1>6 DEF Check, Idle
<1>7. ASSUME NEW r \in Requests, Serve(r) PROVE Tables'
  BY <1>7 DEF Serve, Idle
<1>8. ASSUME NEW r \in Requests, Upload(r) PROVE Tables'
  BY <1>8 DEF Upload, Idle
<1>9. ASSUME NEW t \in Futures, Work(t) PROVE Tables'
  <2>1. UNCHANGED <<row, kind, transfers, list, poll, req>> /\ fut[t].at = "run"
    BY <1>9 DEF Work
  <2>2. CASE kind[fut[t].job] = "node" /\ Ends(t, "ok")
    BY <2>1, <2>2 DEF Ends, Free
  <2>3. CASE kind[fut[t].job] # "node" /\ fut' = [fut EXCEPT ![t].at = "log"] /\ told' = told
    BY <2>1, <2>3
  <2> QED BY <1>9, <2>2, <2>3 DEF Work
<1>10. ASSUME NEW t \in Futures, Watch(t) PROVE Tables'
  BY <1>10 DEF Watch
<1>11. ASSUME NEW t \in Futures, Expire(t) PROVE Tables'
  BY <1>11 DEF Expire
<1>12. ASSUME NEW t \in Futures, Log(t) PROVE Tables'
  BY <1>12 DEF Log, Free
<1>13. ASSUME NEW t \in Futures, Raise(t) PROVE Tables'
  BY <1>13 DEF Raise, Ends, Free
<1>14. CASE PollQueued
  BY <1>14 DEF PollQueued
<1>15. CASE PollAborted
  BY <1>15 DEF PollAborted
<1>16. CASE PollSleep
  BY <1>16 DEF PollSleep, Asleep
<1>17. CASE PollRecord
  BY <1>17 DEF PollRecord, Released, Free
<1>18. CASE PollFails
  BY <1>18 DEF PollFails, Released, Asleep, Free
<1>19. CASE Restart
  BY <1>19 DEF Restart, Asleep, Idle, Free
<1>20. CASE PollScan
  BY <1>20 DEF PollScan
<1>21. CASE UNCHANGED vars
  BY <1>21 DEF vars
<1>22. ASSUME NEW r \in Requests, AddLaunch(r) PROVE Tables'
  <2>1. req[r].at = "launch" /\ req[r].job \in Jobs /\ row[req[r].job] # "none"
    BY <1>22 DEF AddLaunch, Known
  <2>2. Launch(req[r].job) /\ UNCHANGED <<kind, transfers>>
    BY <1>22 DEF AddLaunch
  <2>3. req' = [req EXCEPT ![r].at = "register"] /\ poll' = poll
    BY <1>22 DEF AddLaunch
  <2> QED BY <2>1, <2>2, <2>3, <1>1
<1>23. CASE PollLaunch
  <2>1. PICK j \in poll.todo : Launch(j) /\ poll' = [poll EXCEPT !.todo = @ \ {j}]
    BY <1>23 DEF PollLaunch
  <2>2. j \in Jobs /\ row[j] # "none"
    BY DEF Typed, Known
  <2>3. UNCHANGED <<kind, transfers>> /\ req' = req
    BY <1>23 DEF PollLaunch
  <2> QED BY <2>1, <2>2, <2>3, <1>1
<1> QED
  BY <1>2, <1>3, <1>4, <1>5, <1>6, <1>7, <1>8, <1>9, <1>10, <1>11, <1>12,
     <1>13, <1>14, <1>15, <1>16, <1>17, <1>18, <1>19, <1>20, <1>21, <1>22,
     <1>23
  DEF Next, PollStep, FutureStep
-----------------------------------------------------------------------------
(* EndpointClosed.  The endpoints of a job are registered by the one request   *)
(* that made it, and only used after that.                                     *)
(* What a request that makes a job does. *)
JobAdded(r, j, k) ==
  /\ row[j] = "none" /\ transfers[j] = "none"
  /\ \A i \in Jobs : i # j => kind'[i] = kind[i]
  /\ req'[r].job = j /\ req'[r].at \in {"launch", "register"}
  /\ \A q \in Requests : q # r => req'[q] = req[q] /\ (req[q].at # "idle" => req[q].job # j)
  /\ \A t \in Futures : fut[t].at # "free" => fut[t].job # j
  /\ UNCHANGED <<transfers, fut, poll>>

LEMMA AddingJob ==
  ASSUME Typed, Known, NEW r \in Requests, AddJob(r)
  PROVE  \E j \in Jobs, k \in Kinds : JobAdded(r, j, k)
<1>1. PICK j \in Jobs, k \in Kinds, run \in BOOLEAN :
        /\ row[j] = "none"
        /\ kind' = [kind EXCEPT ![j] = k]
        /\ req' = [req EXCEPT ![r] = [Idle EXCEPT !.at = IF run THEN "launch" ELSE "register",
                                                  !.job = j]]
  BY DEF AddJob
<1>2. req'[r].job = j /\ req'[r].at \in {"launch", "register"}
  BY <1>1 DEF Idle, Typed, Shape
<1>3. \A q \in Requests : q # r => req'[q] = req[q] /\ (req[q].at # "idle" => req[q].job # j)
  BY <1>1 DEF Typed, Shape, Known
<1>4. \A t \in Futures : fut[t].at # "free" => fut[t].job # j
  BY <1>1 DEF Known
<1>5. \A i \in Jobs : i # j => kind'[i] = kind[i]
  BY <1>1 DEF Typed, Shape
<1>6. UNCHANGED <<transfers, fut, poll>> /\ transfers[j] = "none"
  BY <1>1 DEF AddJob, Known
<1> QED BY <1>1, <1>2, <1>3, <1>4, <1>5, <1>6 DEF JobAdded

Registering(r) == req[r].at \in {"launch", "register"}
Registered ==
  /\ \A r \in Requests : Registering(r) => transfers[req[r].job] = "none"
  /\ \A r, q \in Requests :
       Registering(r) /\ Registering(q) /\ req[r].job = req[q].job => r = q
  /\ \A r \in Requests : req[r].at = "serve" => transfers[req[r].job] # "none"
  /\ \A j \in Jobs : kind[j] = "node" => transfers[j] = "none"
  /\ \A t \in Futures : fut[t].at = "log" => kind[fut[t].job] # "node"

(* Every step keeps that. *)
LEMMA RegisteredStep ==
  ASSUME Typed, Known, Listed, Tables, Registered, [Next]_vars
  PROVE  Registered'
<1> USE DEF Registered, Registering, Known, Tables, Typed, Shape, FutureFields, PollFields, RequestFields, ToldFields
<1>1. ASSUME NEW j \in Jobs, row[j] # "none", Launch(j), UNCHANGED <<kind, transfers>>,
           \/ \E r \in Requests : req[r].at = "launch" /\ req[r].job = j
                                  /\ req' = [req EXCEPT ![r].at = "register"] /\ poll' = poll
           \/ poll' = [poll EXCEPT !.todo = @ \ {j}] /\ req' = req
      PROVE  Registered'
  <2>1. PICK t \in Futures :
           fut' = [fut EXCEPT ![t] = [at |-> "run", job |-> j, changed |-> FALSE]]
    BY <1>1, Launching
  <2>2. \A u \in Futures : fut'[u].at = "log" => fut'[u] = fut[u]
    BY <2>1
  <2>3. \A r \in Requests : /\ req'[r].job = req[r].job
                            /\ req'[r].at # req[r].at => req[r].at = "launch" /\ req'[r].at = "register"
    <3>1. CASE req' = req
      BY <3>1
    <3>2. ASSUME NEW q \in Requests, req[q].at = "launch", req' = [req EXCEPT ![q].at = "register"]
          PROVE  <2>3
      BY <3>2
    <3> QED BY <1>1, <3>1, <3>2
  <2>4. \A r \in Requests : /\ Registering(r)' => Registering(r)
                            /\ req'[r].at = "serve" => req[r].at = "serve"
    BY <2>3
  <2> HIDE DEF Registering
  <2> QED BY <1>1, <2>2, <2>3, <2>4
<1>2. ASSUME NEW r \in Requests, AddJob(r) PROVE Registered'
  <2>1. PICK j \in Jobs, k \in Kinds : JobAdded(r, j, k)
    BY <1>2, AddingJob
  <2>2. \A q \in Requests : q # r => req'[q] = req[q] /\ (req[q].at # "idle" => req[q].job # j)
    BY <2>1 DEF JobAdded
  <2>3. /\ \A t \in Futures : fut[t].at # "free" => fut[t].job # j
        /\ UNCHANGED <<transfers, fut>>
    BY <2>1 DEF JobAdded
  <2>4. req'[r].job = j /\ req'[r].at # "serve"
    BY <2>1 DEF JobAdded
  <2>5. transfers[j] = "none" /\ \A i \in Jobs : i # j => kind'[i] = kind[i]
    BY <2>1 DEF JobAdded
  <2>6. \A q \in Requests : q # r /\ Registering(q)' => /\ Registering(q) /\ req'[q] = req[q]
                                                     /\ req'[q].job # j
    BY <2>2
  <2>7. \A q \in Requests : Registering(q)' => transfers'[req'[q].job] = "none"
    BY <2>3, <2>4, <2>5, <2>6
  <2>8. \A p, q \in Requests : Registering(p)' /\ Registering(q)' /\ req'[p].job = req'[q].job => p = q
    <3>1. \A p, q \in Requests : /\ p # r /\ q # r
                               /\ Registering(p)' /\ Registering(q)' /\ req'[p].job = req'[q].job => p = q
      BY <2>6
    <3> QED BY <2>4, <2>6, <3>1
  <2>9. \A q \in Requests : req'[q].at = "serve" => transfers'[req'[q].job] # "none"
    <3>1. \A q \in Requests : req'[q].at = "serve" => q # r /\ req'[q] = req[q]
      BY <2>2, <2>4
    <3> QED BY <2>3, <3>1
  <2>10. \A i \in Jobs : kind'[i] = "node" => transfers'[i] = "none"
    BY <2>3, <2>5
  <2>11. \A t \in Futures : fut'[t].at = "log" => kind'[fut'[t].job] # "node"
    BY <2>3, <2>5
  <2> HIDE DEF Registering
  <2> QED BY <2>7, <2>8, <2>9, <2>10, <2>11
<1>3. ASSUME NEW r \in Requests, AddRegister(r) PROVE Registered'
  <2>1. /\ req[r].at = "register" /\ req[r].job \in Jobs
        /\ req' = [req EXCEPT ![r] = Idle] /\ UNCHANGED <<kind, fut>>
        /\ \A i \in Jobs : i # req[r].job => transfers'[i] = transfers[i]
        /\ \/ transfers'[req[r].job] = "open" /\ kind[req[r].job] \in External
           \/ transfers' = transfers
    BY <1>3 DEF AddRegister
  <2>2. \A q \in Requests : /\ q # r => req'[q] = req[q]
                            /\ q # r /\ Registering(q) => req[q].job # req[r].job
    BY <2>1
  <2>3. req'[r].at = "idle"
    BY <2>1 DEF Idle
  <2>4. \A q \in Requests : req'[q].at = "serve" => transfers'[req'[q].job] # "none"
    BY <2>1, <2>2, <2>3
  <2>5. \A i \in Jobs : kind'[i] = "node" => transfers'[i] = "none"
    BY <2>1 DEF External
  <2>6. ASSUME NEW q \in Requests, Registering(q)'
        PROVE  /\ transfers'[req'[q].job] = "none"
               /\ \A p \in Requests : Registering(p)' /\ req'[q].job = req'[p].job => q = p
    BY <2>1, <2>2, <2>3, <2>6
  <2> QED BY <2>1, <2>4, <2>5, <2>6
<1>4. ASSUME NEW r \in Requests, PostRead(r) PROVE Registered'
  BY <1>4 DEF PostRead
<1>5. ASSUME NEW r \in Requests, PostWrite(r) PROVE Registered'
  BY <1>5 DEF PostWrite, Idle, NewPhase
<1>6. ASSUME NEW r \in Requests, Check(r) PROVE Registered'
  BY <1>6 DEF Check, Idle
<1>7. ASSUME NEW r \in Requests, Serve(r) PROVE Registered'
  BY <1>7 DEF Serve, Idle
<1>8. ASSUME NEW r \in Requests, Upload(r) PROVE Registered'
  <2>1. UNCHANGED <<kind, transfers>>
    BY <1>8 DEF Upload
  <2>2. \A t \in Futures : fut'[t].at = fut[t].at /\ fut'[t].job = fut[t].job
    BY <1>8, Uploading
  <2>3. /\ \A q \in Requests : q # r => req'[q] = req[q]
        /\ req'[r].at \in {"put", "idle"}
    BY <1>8 DEF Upload, Idle
  <2>4. \A q \in Requests : /\ Registering(q)' => Registering(q) /\ req'[q] = req[q]
                            /\ req'[q].at = "serve" => req'[q] = req[q]
    BY <2>3
  <2>5. /\ \A j \in Jobs : kind'[j] = "node" => transfers'[j] = "none"
        /\ \A t \in Futures : fut'[t].at = "log" => kind'[fut'[t].job] # "node"
    BY <2>1, <2>2
  <2>6. ASSUME NEW q \in Requests, Registering(q)'
        PROVE  /\ transfers'[req'[q].job] = "none"
               /\ \A p \in Requests : Registering(p)' /\ req'[q].job = req'[p].job => q = p
    BY <2>1, <2>4, <2>6
  <2> QED BY <2>1, <2>4, <2>5, <2>6
<1>9. ASSUME NEW t \in Futures, Work(t) PROVE Registered'
  <2>1. UNCHANGED <<row, kind, transfers, list, poll, req>> /\ fut[t].at = "run"
    BY <1>9 DEF Work
  <2>2. CASE kind[fut[t].job] = "node" /\ Ends(t, "ok")
    BY <2>1, <2>2 DEF Ends, Free
  <2>3. CASE kind[fut[t].job] # "node" /\ fut' = [fut EXCEPT ![t].at = "log"] /\ told' = told
    BY <2>1, <2>3
  <2> QED BY <1>9, <2>2, <2>3 DEF Work
<1>10. ASSUME NEW t \in Futures, Watch(t) PROVE Registered'
  BY <1>10 DEF Watch
<1>11. ASSUME NEW t \in Futures, Expire(t) PROVE Registered'
  BY <1>11 DEF Expire
<1>12. ASSUME NEW t \in Futures, Log(t) PROVE Registered'
  BY <1>12 DEF Log, Free
<1>13. ASSUME NEW t \in Futures, Raise(t) PROVE Registered'
  BY <1>13 DEF Raise, Ends, Free
<1>14. CASE PollQueued
  BY <1>14 DEF PollQueued
<1>15. CASE PollAborted
  BY <1>15 DEF PollAborted
<1>16. CASE PollSleep
  BY <1>16 DEF PollSleep, Asleep
<1>17. CASE PollRecord
  BY <1>17 DEF PollRecord, Released, Free
<1>18. CASE PollFails
  BY <1>18 DEF PollFails, Released, Asleep, Free
<1>19. CASE Restart
  BY <1>19 DEF Restart, Asleep, Idle, Free
<1>20. CASE PollScan
  BY <1>20 DEF PollScan
<1>21. CASE UNCHANGED vars
  BY <1>21 DEF vars
<1>22. ASSUME NEW r \in Requests, AddLaunch(r) PROVE Registered'
  <2>1. req[r].at = "launch" /\ req[r].job \in Jobs /\ row[req[r].job] # "none"
    BY <1>22 DEF AddLaunch, Known
  <2>2. Launch(req[r].job) /\ UNCHANGED <<kind, transfers>>
    BY <1>22 DEF AddLaunch
  <2>3. req' = [req EXCEPT ![r].at = "register"] /\ poll' = poll
    BY <1>22 DEF AddLaunch
  <2> QED BY <2>1, <2>2, <2>3, <1>1
<1>23. CASE PollLaunch
  <2>1. PICK j \in poll.todo : Launch(j) /\ poll' = [poll EXCEPT !.todo = @ \ {j}]
    BY <1>23 DEF PollLaunch
  <2>2. j \in Jobs /\ row[j] # "none"
    BY DEF Typed, Known
  <2>3. UNCHANGED <<kind, transfers>> /\ req' = req
    BY <1>23 DEF PollLaunch
  <2> QED BY <2>1, <2>2, <2>3, <1>1
<1> QED
  BY <1>2, <1>3, <1>4, <1>5, <1>6, <1>7, <1>8, <1>9, <1>10, <1>11, <1>12,
     <1>13, <1>14, <1>15, <1>16, <1>17, <1>18, <1>19, <1>20, <1>21, <1>22,
     <1>23
  DEF Next, PollStep, FutureStep
-----------------------------------------------------------------------------
(* EndHasCause and EndpointClosed.  A Future that will log a transfer of the   *)
(* client as completed has seen a cause, and so has who completed its rows.    *)
Client     == {"pull", "push"}
Excused(u) == u.due \/ u.early
CausedFuture(t) ==
  fut[t].at # "free" =>
    /\ fut[t].changed => told[fut[t].job].due
    /\ fut[t].at = "log" /\ kind[fut[t].job] \in Client => Excused(told[fut[t].job])
CausedJob(j) ==
  /\ kind[j] \in Client /\ transfers[j] = "completed" => Excused(told[j])
  /\ "ok" \in told[j].ended =>
       /\ kind[j] \in Client => Excused(told[j])
       /\ transfers[j] = "completed" \/ told[j].early \/ kind[j] = "node"
Caused == (\A t \in Futures : CausedFuture(t)) /\ (\A j \in Jobs : CausedJob(j))

(* What a step may do to a Future, and to a job. *)
FutureKept(t) ==
  \/ fut'[t].at = "free"
  \/ fut'[t].at = "run" /\ fut'[t].changed = FALSE
  \/ /\ fut[t].at # "free" /\ fut'[t].job = fut[t].job
     /\ kind'[fut[t].job] = kind[fut[t].job]
     /\ fut'[t].changed => fut[t].changed \/ told'[fut[t].job].due
     /\ fut'[t].at = "log" =>
          fut[t].at = "log" \/ (kind[fut[t].job] \in Client => Excused(told'[fut[t].job]))
JobKept(j) ==
  \/ transfers'[j] = "none" /\ told'[j].ended = {}
  \/ /\ kind'[j] = kind[j]
     /\ \/ transfers'[j] = transfers[j]
        \/ transfers'[j] = "completed" /\ (kind[j] \in Client => Excused(told'[j]))
        \/ transfers'[j] = "open" /\ transfers[j] = "none"
     /\ "ok" \in told'[j].ended =>
          \/ "ok" \in told[j].ended
          \/ /\ kind[j] \in Client => Excused(told'[j])
             /\ transfers'[j] = "completed" \/ told'[j].early \/ kind[j] = "node"

LEMMA FutureSame ==
  ASSUME NEW t \in Futures, fut'[t] = fut[t], kind' = kind
  PROVE  FutureKept(t)
BY DEF FutureKept

LEMMA CausedKept ==
  ASSUME Known, Caused, \A j \in Jobs : Grows(told[j], told'[j]),
         \A t \in Futures : FutureKept(t), \A j \in Jobs : JobKept(j)
  PROVE  Caused'
<1>1. ASSUME NEW t \in Futures, fut'[t].at # "free" PROVE CausedFuture(t)'
  <2>1. CASE fut'[t].at = "run" /\ fut'[t].changed = FALSE
    BY <2>1 DEF CausedFuture
  <2>2. CASE /\ fut[t].at # "free" /\ fut'[t].job = fut[t].job
             /\ kind'[fut[t].job] = kind[fut[t].job]
             /\ fut'[t].changed => fut[t].changed \/ told'[fut[t].job].due
             /\ fut'[t].at = "log" =>
                  fut[t].at = "log" \/ (kind[fut[t].job] \in Client => Excused(told'[fut[t].job]))
    <3>1. CausedFuture(t) /\ fut[t].job \in Jobs /\ Grows(told[fut[t].job], told'[fut[t].job])
      BY <2>2 DEF Caused, Known
    <3> QED BY <2>2, <3>1 DEF CausedFuture, Grows, Excused
  <2> QED BY <1>1, <2>1, <2>2 DEF FutureKept
<1>2. ASSUME NEW j \in Jobs PROVE CausedJob(j)'
  <2>1. CASE transfers'[j] = "none" /\ told'[j].ended = {}
    BY <2>1 DEF CausedJob
  <2>2. CASE /\ kind'[j] = kind[j]
             /\ \/ transfers'[j] = transfers[j]
                \/ transfers'[j] = "completed" /\ (kind[j] \in Client => Excused(told'[j]))
                \/ transfers'[j] = "open" /\ transfers[j] = "none"
             /\ "ok" \in told'[j].ended =>
                  \/ "ok" \in told[j].ended
                  \/ /\ kind[j] \in Client => Excused(told'[j])
                     /\ transfers'[j] = "completed" \/ told'[j].early \/ kind[j] = "node"
    <3>1. CausedJob(j) /\ Grows(told[j], told'[j])
      BY DEF Caused
    <3> QED BY <2>2, <3>1 DEF CausedJob, Grows, Excused
  <2> QED BY <2>1, <2>2 DEF JobKept
<1>3. \A t \in Futures : fut'[t].at = "free" => CausedFuture(t)'
  BY DEF CausedFuture
<1> QED BY <1>1, <1>2, <1>3 DEF Caused

(* Most steps leave the kinds, the endpoints and the ends alone. *)
LEMMA CausedFrame ==
  ASSUME Known, Caused, \A j \in Jobs : Grows(told[j], told'[j]),
         UNCHANGED <<kind, transfers>>,
         \A j \in Jobs : "ok" \in told'[j].ended => "ok" \in told[j].ended,
         \A t \in Futures :
           \/ fut'[t] = fut[t] \/ fut'[t].at = "free"
           \/ fut'[t].at = "run" /\ fut'[t].changed = FALSE
           \/ /\ fut[t].at # "free" /\ fut'[t].job = fut[t].job
              /\ fut'[t].changed = fut[t].changed /\ fut'[t].at # "log"
  PROVE  Caused'
<1>1. \A t \in Futures : FutureKept(t)
  BY DEF FutureKept
<1>2. \A j \in Jobs : JobKept(j)
  BY DEF JobKept
<1> QED BY <1>1, <1>2, CausedKept

(* Every step keeps that. *)
LEMMA CausedStep ==
  ASSUME Typed, Known, Listed, Tables, Registered, Caused, [Next]_vars
  PROVE  Caused'
<1> USE DEF Known, Typed, Shape, FutureFields, PollFields, RequestFields, ToldFields
<1>1. ASSUME NEW j \in Jobs, row[j] # "none", Launch(j), UNCHANGED <<kind, transfers>>,
           \/ \E r \in Requests : req[r].at = "launch" /\ req[r].job = j
                                  /\ req' = [req EXCEPT ![r].at = "register"] /\ poll' = poll
           \/ poll' = [poll EXCEPT !.todo = @ \ {j}] /\ req' = req
      PROVE  Caused'
  <2>1. UNCHANGED <<kind, transfers>> /\ \A k \in Jobs : told'[k].ended = told[k].ended
    BY <1>1 DEF Launch
  <2>2. \A t \in Futures : fut'[t] = fut[t] \/ (fut'[t].at = "run" /\ fut'[t].changed = FALSE)
    BY <1>1, Launching
  <2> QED BY <2>1, <2>2, ToldGrows, CausedFrame
<1>2. ASSUME NEW r \in Requests, AddJob(r) PROVE Caused'
  <2>1. PICK j \in Jobs, k \in Kinds : JobAdded(r, j, k)
    BY <1>2, AddingJob
  <2>2. \A i \in Jobs : told'[i].ended = told[i].ended
    BY <1>2 DEF AddJob
  <2>3. row[j] = "none" /\ told[j].ended = {} /\ transfers' = transfers /\ transfers[j] = "none"
    BY <2>1 DEF JobAdded
  <2>4. \A i \in Jobs : i # j => kind'[i] = kind[i]
    BY <2>1 DEF JobAdded
  <2>5. fut' = fut /\ \A t \in Futures : fut[t].at # "free" => fut[t].job \in Jobs \ {j}
    BY <2>1 DEF JobAdded
  <2>8. \A t \in Futures : FutureKept(t)
    BY <2>4, <2>5 DEF FutureKept
  <2>9. \A i \in Jobs : JobKept(i)
    BY <2>2, <2>3, <2>4 DEF JobKept
  <2> QED BY <2>8, <2>9, ToldGrows, CausedKept
<1>3. ASSUME NEW r \in Requests, AddRegister(r) PROVE Caused'
  <2>1. /\ req[r].at = "register" /\ req[r].job \in Jobs
        /\ UNCHANGED <<kind, fut, told>>
        /\ \A i \in Jobs : i # req[r].job => transfers'[i] = transfers[i]
        /\ transfers'[req[r].job] = "open" \/ transfers' = transfers
    BY <1>3 DEF AddRegister
  <2>2. transfers[req[r].job] = "none"
    BY <2>1 DEF Registered, Registering
  <2>8. \A t \in Futures : FutureKept(t)
    BY <2>1 DEF FutureKept
  <2>9. \A i \in Jobs : JobKept(i)
    BY <2>1, <2>2 DEF JobKept
  <2> QED BY <2>8, <2>9, ToldGrows, CausedKept
<1>4. ASSUME NEW r \in Requests, PostRead(r) PROVE Caused'
  <2>1. UNCHANGED <<kind, transfers>> /\ \A j \in Jobs : told'[j].ended = told[j].ended
    BY <1>4 DEF PostRead
  <2>2. \A t \in Futures : fut'[t] = fut[t]
    BY <1>4 DEF PostRead
  <2> QED BY <2>1, <2>2, ToldGrows, CausedFrame
<1>5. ASSUME NEW r \in Requests, PostWrite(r) PROVE Caused'
  <2>1. UNCHANGED <<kind, transfers>> /\ \A j \in Jobs : told'[j].ended = told[j].ended
    BY <1>5 DEF PostWrite, Idle, NewPhase
  <2>2. \A t \in Futures : fut'[t] = fut[t]
    BY <1>5 DEF PostWrite, Idle, NewPhase
  <2> QED BY <2>1, <2>2, ToldGrows, CausedFrame
<1>6. ASSUME NEW r \in Requests, Check(r) PROVE Caused'
  <2>1. UNCHANGED <<kind, transfers>> /\ \A j \in Jobs : told'[j].ended = told[j].ended
    BY <1>6 DEF Check, Idle
  <2>2. \A t \in Futures : fut'[t] = fut[t]
    BY <1>6 DEF Check, Idle
  <2> QED BY <2>1, <2>2, ToldGrows, CausedFrame
<1>7. ASSUME NEW r \in Requests, Serve(r) PROVE Caused'
  <2>1. /\ req[r].job \in Jobs /\ UNCHANGED <<kind, fut>>
        /\ \A i \in Jobs : i # req[r].job => transfers'[i] = transfers[i]
        /\ transfers'[req[r].job] = "completed"
    BY <1>7 DEF Serve
  <2>2. told'[req[r].job].due /\ \A i \in Jobs : told'[i].ended = told[i].ended
    BY <1>7, <2>1 DEF Serve
  <2>8. \A t \in Futures : FutureKept(t)
    BY <2>1 DEF FutureKept
  <2>9. \A i \in Jobs : JobKept(i)
    BY <2>1, <2>2 DEF JobKept, Excused
  <2> QED BY <2>8, <2>9, ToldGrows, CausedKept
<1>8. ASSUME NEW r \in Requests, Upload(r) PROVE Caused'
  <2>1. UNCHANGED <<kind, transfers>>
    BY <1>8 DEF Upload
  <2>2. \A t \in Futures : /\ fut'[t].at = fut[t].at /\ fut'[t].job = fut[t].job
                           /\ fut'[t].changed # fut[t].changed => fut[t].job = req[r].job
    BY <1>8, Uploading
  <2>3. /\ req[r].job \in Jobs /\ told'[req[r].job].due
        /\ \A i \in Jobs : told'[i].ended = told[i].ended
    BY <1>8 DEF Upload
  <2>8. \A t \in Futures : FutureKept(t)
    BY <2>1, <2>2, <2>3 DEF FutureKept
  <2>9. \A i \in Jobs : JobKept(i)
    BY <2>1, <2>3 DEF JobKept
  <2> QED BY <2>8, <2>9, ToldGrows, CausedKept
<1>9. ASSUME NEW t \in Futures, Work(t) PROVE Caused'
  <2>1. UNCHANGED <<kind, transfers>> /\ fut[t].at = "run" /\ fut[t].job \in Jobs
        /\ kind[fut[t].job] \in {"node", "server"}
    BY <1>9 DEF Work
  <2>2. CASE kind[fut[t].job] = "node" /\ Ends(t, "ok")
    <3>1. /\ \A u \in Futures : u # t => fut'[u] = fut[u]
          /\ fut'[t].at = "free" \/ fut'[t] = [fut[t] EXCEPT !.at = "ok"]
      BY <2>2 DEF Ends, Free
    <3>2. \A i \in Jobs : i # fut[t].job => told'[i] = told[i]
      BY <2>2 DEF Ends
    <3>3. fut'[t].at # "free" => /\ fut'[t].at = "ok" /\ fut'[t].job = fut[t].job
                                 /\ fut'[t].changed = fut[t].changed
      BY <3>1
    <3>4. FutureKept(t)
      BY <2>1, <3>3 DEF FutureKept
    <3>8. \A u \in Futures : FutureKept(u)
      BY <2>1, <3>1, <3>4, FutureSame
    <3>9. \A i \in Jobs : JobKept(i)
      BY <2>1, <2>2, <3>2 DEF JobKept, Client
    <3> QED BY <3>8, <3>9, ToldGrows, CausedKept
  <2>3. CASE kind[fut[t].job] # "node" /\ fut' = [fut EXCEPT ![t].at = "log"] /\ told' = told
    <3>1. /\ \A u \in Futures : u # t => fut'[u] = fut[u]
          /\ fut'[t] = [fut[t] EXCEPT !.at = "log"]
      BY <2>3
    <3>3. /\ fut'[t].at = "log" /\ fut'[t].job = fut[t].job
          /\ fut'[t].changed = fut[t].changed
      BY <3>1
    <3>4. FutureKept(t)
      BY <2>1, <2>3, <3>3 DEF FutureKept, Client
    <3>8. \A u \in Futures : FutureKept(u)
      BY <2>1, <3>1, <3>4, FutureSame
    <3>9. \A i \in Jobs : JobKept(i)
      BY <2>1, <2>3 DEF JobKept
    <3> QED BY <3>8, <3>9, ToldGrows, CausedKept
  <2> QED BY <1>9, <2>2, <2>3 DEF Work
<1>10. ASSUME NEW t \in Futures, Watch(t) PROVE Caused'
  <2>1. UNCHANGED <<kind, transfers>> /\ fut[t].at = "run" /\ fut[t].job \in Jobs
        /\ kind[fut[t].job] \in Client
    BY <1>10 DEF Watch, Client
  <2>2. /\ \A u \in Futures : u # t => fut'[u] = fut[u]
        /\ fut'[t] = [fut[t] EXCEPT !.at = "log"]
    BY <1>10 DEF Watch
  <2>3. \A i \in Jobs : told'[i].ended = told[i].ended
    BY <1>10 DEF Watch
  <2>4. Excused(told'[fut[t].job])
    <3>1. Grows(told[fut[t].job], told'[fut[t].job])
      BY <2>1, ToldGrows
    <3>2. Seen(t) /\ told' = [told EXCEPT ![fut[t].job].early = @ \/ transfers[fut[t].job] = "none"]
      BY <1>10 DEF Watch
    <3>3. CASE kind[fut[t].job] = "push"
      <4>1. fut[t].changed
        BY <3>2, <3>3 DEF Seen
      <4> QED BY <2>1, <3>1, <4>1 DEF Caused, CausedFuture, Excused, Grows
    <3>4. CASE kind[fut[t].job] = "pull" /\ transfers[fut[t].job] = "none"
      <4>1. /\ told' = [told EXCEPT ![fut[t].job].early = @ \/ transfers[fut[t].job] = "none"]
            /\ fut[t].job \in Jobs
        BY <2>1, <3>2
      <4>2. transfers[fut[t].job] = "none" => told'[fut[t].job].early
        <5> DEFINE i == fut[t].job
        <5>1. told'[i] = [told[i] EXCEPT !.early = @ \/ transfers[i] = "none"] /\ "early" \in DOMAIN told[i]
          BY <4>1
        <5>2. told'[i].early = (told[i].early \/ transfers[i] = "none")
          BY <5>1, Zenon
        <5> QED BY <5>2, Zenon
      <4> QED BY <3>4, <4>2 DEF Excused
    <3>5. CASE kind[fut[t].job] = "pull" /\ transfers[fut[t].job] # "none"
      <4>1. transfers[fut[t].job] = "completed"
        BY <2>1, <3>2, <3>5 DEF Seen, Tables
      <4> QED BY <2>1, <3>1, <4>1 DEF Caused, CausedJob, Excused, Grows
    <3> QED BY <2>1, <3>3, <3>4, <3>5 DEF Client
  <2>5. fut'[t].at = "log" /\ fut'[t].job = fut[t].job /\ fut'[t].changed = fut[t].changed
    BY <2>2
  <2>6. FutureKept(t)
    BY <2>1, <2>4, <2>5 DEF FutureKept
  <2>8. \A u \in Futures : FutureKept(u)
    BY <2>1, <2>2, <2>6, FutureSame
  <2>9. \A i \in Jobs : JobKept(i)
    BY <2>1, <2>3 DEF JobKept
  <2> QED BY <2>8, <2>9, ToldGrows, CausedKept
<1>11. ASSUME NEW t \in Futures, Expire(t) PROVE Caused'
  <2>1. UNCHANGED <<kind, transfers>> /\ fut[t].at = "run" /\ fut[t].job \in Jobs
        /\ kind[fut[t].job] \in Client
    BY <1>11 DEF Expire, Client
  <2>2. /\ \A u \in Futures : u # t => fut'[u] = fut[u]
        /\ fut'[t] = [fut[t] EXCEPT !.at = "log"]
    BY <1>11 DEF Expire
  <2>3. \A i \in Jobs : told'[i].ended = told[i].ended
    BY <1>11 DEF Expire
  <2>4. Excused(told'[fut[t].job])
    BY <1>11, <2>1 DEF Expire, Excused
  <2>5. fut'[t].at = "log" /\ fut'[t].job = fut[t].job /\ fut'[t].changed = fut[t].changed
    BY <2>2
  <2>6. FutureKept(t)
    BY <2>1, <2>4, <2>5 DEF FutureKept
  <2>8. \A u \in Futures : FutureKept(u)
    BY <2>1, <2>2, <2>6, FutureSame
  <2>9. \A i \in Jobs : JobKept(i)
    BY <2>1, <2>3 DEF JobKept
  <2> QED BY <2>8, <2>9, ToldGrows, CausedKept
<1>12. ASSUME NEW t \in Futures, Log(t) PROVE Caused'
  <2>1. UNCHANGED kind /\ fut[t].at = "log" /\ fut[t].job \in Jobs
    BY <1>12 DEF Log
  <2>2. /\ \A u \in Futures : u # t => fut'[u] = fut[u]
        /\ fut'[t].at = "free" \/ fut'[t] = [fut[t] EXCEPT !.at = "ok"]
    BY <1>12 DEF Log, Free
  <2>3. told' = [told EXCEPT ![fut[t].job].ended = @ \cup {"ok"},
                             ![fut[t].job].early = @ \/ transfers[fut[t].job] = "none"]
    BY <1>12 DEF Log
  <2>4. \A i \in Jobs : i # fut[t].job => told'[i] = told[i] /\ transfers'[i] = transfers[i]
    BY <1>12, <2>3 DEF Log
  <2>5. transfers[fut[t].job] = "none" => told'[fut[t].job].early
    BY <2>1, <2>3
  <2>6. /\ transfers[fut[t].job] # "none" => transfers'[fut[t].job] = "completed"
        /\ transfers[fut[t].job] = "none" => transfers'[fut[t].job] = transfers[fut[t].job]
    BY <1>12, <2>1 DEF Log, Tables
  <2>7. kind[fut[t].job] \in Client => Excused(told'[fut[t].job])
    <3>1. kind[fut[t].job] \in Client => Excused(told[fut[t].job])
      BY <2>1 DEF Caused, CausedFuture
    <3>2. Grows(told[fut[t].job], told'[fut[t].job])
      BY <2>1, ToldGrows
    <3> QED BY <3>1, <3>2 DEF Grows, Excused
  <2>10. fut'[t].at # "free" => /\ fut'[t].at = "ok" /\ fut'[t].job = fut[t].job
                                /\ fut'[t].changed = fut[t].changed
    BY <2>2
  <2>11. FutureKept(t)
    BY <2>1, <2>10 DEF FutureKept
  <2>8. \A u \in Futures : FutureKept(u)
    BY <2>1, <2>2, <2>11, FutureSame
  <2>9. \A i \in Jobs : JobKept(i)
    <3>1. JobKept(fut[t].job)
      BY <2>1, <2>5, <2>6, <2>7 DEF JobKept
    <3> QED BY <2>1, <2>4, <3>1 DEF JobKept
  <2> QED BY <2>8, <2>9, ToldGrows, CausedKept
<1>13. ASSUME NEW t \in Futures, Raise(t) PROVE Caused'
  <2>1. UNCHANGED <<kind, transfers>> /\ fut[t].job \in Jobs /\ fut[t].at # "free"
    BY <1>13 DEF Raise
  <2>2. \A j \in Jobs : "ok" \in told'[j].ended => "ok" \in told[j].ended
    BY <1>13, <2>1 DEF Raise, Ends
  <2>3. \A u \in Futures :
          fut'[u] = fut[u] \/ fut'[u].at = "free" \/ (u = t /\ fut'[u] = [fut[u] EXCEPT !.at = "failed"])
    BY <1>13 DEF Raise, Ends, Free
  <2>5. \/ fut'[t] = fut[t] \/ fut'[t].at = "free"
        \/ fut'[t].at = "failed" /\ fut'[t].job = fut[t].job /\ fut'[t].changed = fut[t].changed
    <3>1. DOMAIN fut[t] = FutureFields
      OBVIOUS
    <3>2. CASE fut'[t] = [fut[t] EXCEPT !.at = "failed"]
      BY <3>1, <3>2
    <3> QED BY <2>3, <3>2
  <2>4. \A u \in Futures :
          \/ fut'[u] = fut[u] \/ fut'[u].at = "free"
          \/ /\ fut[u].at # "free" /\ fut'[u].job = fut[u].job
             /\ fut'[u].changed = fut[u].changed /\ fut'[u].at # "log"
    BY <2>1, <2>3, <2>5
  <2> QED BY <2>1, <2>2, <2>4, ToldGrows, CausedFrame
<1>14. CASE PollQueued
  <2>1. UNCHANGED <<kind, transfers>> /\ \A j \in Jobs : told'[j].ended = told[j].ended
    BY <1>14 DEF PollQueued
  <2>2. \A t \in Futures : fut'[t] = fut[t]
    BY <1>14 DEF PollQueued
  <2> QED BY <2>1, <2>2, ToldGrows, CausedFrame
<1>15. CASE PollAborted
  <2>1. UNCHANGED <<kind, transfers>> /\ \A j \in Jobs : told'[j].ended = told[j].ended
    BY <1>15 DEF PollAborted
  <2>2. \A t \in Futures : fut'[t] = fut[t]
    BY <1>15 DEF PollAborted
  <2> QED BY <2>1, <2>2, ToldGrows, CausedFrame
<1>16. CASE PollSleep
  <2>1. UNCHANGED <<kind, transfers>> /\ \A j \in Jobs : told'[j].ended = told[j].ended
    BY <1>16 DEF PollSleep, Asleep
  <2>2. \A t \in Futures : fut'[t] = fut[t]
    BY <1>16 DEF PollSleep, Asleep
  <2> QED BY <2>1, <2>2, ToldGrows, CausedFrame
<1>17. CASE PollRecord
  <2>1. UNCHANGED <<kind, transfers>> /\ \A j \in Jobs : told'[j].ended = told[j].ended
    BY <1>17 DEF PollRecord, Released, Free
  <2>2. \A t \in Futures : fut'[t] = fut[t] \/ fut'[t].at = "free"
    BY <1>17 DEF PollRecord, Released, Free
  <2> QED BY <2>1, <2>2, ToldGrows, CausedFrame
<1>18. CASE PollFails
  <2>1. UNCHANGED <<kind, transfers>> /\ \A j \in Jobs : told'[j].ended = told[j].ended
    BY <1>18 DEF PollFails, Released, Asleep, Free
  <2>2. \A t \in Futures : fut'[t] = fut[t] \/ fut'[t].at = "free"
    BY <1>18 DEF PollFails, Released, Asleep, Free
  <2> QED BY <2>1, <2>2, ToldGrows, CausedFrame
<1>19. CASE Restart
  <2>1. UNCHANGED <<kind, transfers>> /\ \A j \in Jobs : told'[j].ended = told[j].ended
    BY <1>19 DEF Restart, Asleep, Idle, Free
  <2>2. \A t \in Futures : fut'[t] = fut[t] \/ fut'[t].at = "free"
    BY <1>19 DEF Restart, Asleep, Idle, Free
  <2> QED BY <2>1, <2>2, ToldGrows, CausedFrame
<1>20. CASE PollScan
  <2>1. UNCHANGED <<kind, transfers>> /\ \A j \in Jobs : told'[j].ended = told[j].ended
    BY <1>20 DEF PollScan
  <2>2. \A t \in Futures : fut'[t] = fut[t]
    BY <1>20 DEF PollScan
  <2> QED BY <2>1, <2>2, ToldGrows, CausedFrame
<1>21. CASE UNCHANGED vars
  <2>1. UNCHANGED <<kind, transfers, fut, told>>
    BY <1>21 DEF vars
  <2> QED BY <2>1, ToldGrows, CausedFrame
<1>22. ASSUME NEW r \in Requests, AddLaunch(r) PROVE Caused'
  <2>1. req[r].at = "launch" /\ req[r].job \in Jobs /\ row[req[r].job] # "none"
    BY <1>22 DEF AddLaunch, Known
  <2>2. Launch(req[r].job) /\ UNCHANGED <<kind, transfers>>
    BY <1>22 DEF AddLaunch
  <2>3. req' = [req EXCEPT ![r].at = "register"] /\ poll' = poll
    BY <1>22 DEF AddLaunch
  <2> QED BY <2>1, <2>2, <2>3, <1>1
<1>23. CASE PollLaunch
  <2>1. PICK j \in poll.todo : Launch(j) /\ poll' = [poll EXCEPT !.todo = @ \ {j}]
    BY <1>23 DEF PollLaunch
  <2>2. j \in Jobs /\ row[j] # "none"
    BY DEF Typed, Known
  <2>3. UNCHANGED <<kind, transfers>> /\ req' = req
    BY <1>23 DEF PollLaunch
  <2> QED BY <2>1, <2>2, <2>3, <1>1
<1> QED
  BY <1>2, <1>3, <1>4, <1>5, <1>6, <1>7, <1>8, <1>9, <1>10, <1>11, <1>12,
     <1>13, <1>14, <1>15, <1>16, <1>17, <1>18, <1>19, <1>20, <1>21, <1>22,
     <1>23
  DEF Next, PollStep, FutureStep
-----------------------------------------------------------------------------
(* As long as every phase was written over the one that was read, a job has    *)
(* one Future at a time whose end is not recorded, and while it has one its    *)
(* phase is EXECUTING, or ABORTED by a request.                                *)
KeptFor(j) ==
  {t \in Futures : fut[t].job = j /\ (t \in ToSet(list) \/ (poll.at = "record" /\ poll.cur = t))}
SoloJob(j) ==
  \/ told[j].crossed
  \/ /\ \A t, u \in KeptFor(j) : t = u
     /\ KeptFor(j) # {} => row[j] \in {"EXECUTING", "ABORTED"}
Solo == \A j \in Jobs : SoloJob(j)

(* What PhaseOrder says of a step of one job. *)
InOrder(j) ==
  \/ row'[j] = row[j] \/ told'[j].crossed
  \/ <<row[j], row'[j]>> \in
       {<<"none", "PENDING">>, <<"none", "QUEUED">>, <<"PENDING", "QUEUED">>,
        <<"QUEUED", "EXECUTING">>, <<"EXECUTING", "COMPLETED">>, <<"EXECUTING", "ERROR">>,
        <<"ABORTED", "COMPLETED">>, <<"ABORTED", "ERROR">>}
  \/ row'[j] = "ABORTED" /\ told[j].aborted

(* A job that gets no Future remains alone with the one it has, also when it   *)
(* is aborted.                                                                 *)
LEMMA SoloKept ==
  ASSUME Solo, NEW j \in Jobs, Grows(told[j], told'[j]), KeptFor(j)' \subseteq KeptFor(j),
         row'[j] = row[j] \/ row'[j] = "ABORTED" \/ KeptFor(j)' = {} \/ told'[j].crossed
  PROVE  SoloJob(j)'
<1> DEFINE a == KeptFor(j)
<1>1. SoloJob(j) /\ (told[j].crossed => told'[j].crossed)
  BY DEF Solo, Grows
<1>2. SoloJob(j) = \/ told[j].crossed
                   \/ (\A t, u \in a : t = u) /\ (a # {} => row[j] \in {"EXECUTING", "ABORTED"})
  BY DEF SoloJob
<1>3. SoloJob(j)' = \/ told'[j].crossed
                    \/ /\ \A t, u \in a' : t = u
                       /\ a' # {} => row'[j] \in {"EXECUTING", "ABORTED"}
  BY DEF SoloJob
<1>4. a' \subseteq a /\ (row'[j] = row[j] \/ row'[j] = "ABORTED" \/ a' = {} \/ told'[j].crossed)
  OBVIOUS
<1> HIDE DEF a
<1> QED BY <1>1, <1>2, <1>3, <1>4

(* Steps that leave the list, the polling thread and the phases alone. *)
LEMMA SoloFrame ==
  ASSUME Solo, \A j \in Jobs : Grows(told[j], told'[j]),
         UNCHANGED <<row, list>>, poll'.at = poll.at, poll'.cur = poll.cur,
         \A t \in ToSet(list) \cup {poll.cur} :
           t \in Futures /\ fut'[t].job # fut[t].job => t \notin ToSet(list) /\ poll.at # "record"
  PROVE  Solo' /\ \A j \in Jobs : InOrder(j)
<1>1. ASSUME NEW j \in Jobs PROVE KeptFor(j)' \subseteq KeptFor(j)
  <2>1. ASSUME NEW t \in KeptFor(j)' PROVE t \in KeptFor(j)
    <3>1. /\ t \in Futures /\ fut'[t].job = j
          /\ t \in ToSet(list) \/ (poll.at = "record" /\ poll.cur = t)
      BY <2>1 DEF KeptFor
    <3> QED BY <3>1 DEF KeptFor
  <2> QED BY <2>1
<1> QED BY <1>1, SoloKept DEF Solo, InOrder

(* Every step keeps it, and takes the phases in their order. *)
LEMMA SoloStep ==
  ASSUME Typed, Known, Listed, Tables, Ended, Solo, \A k \in Jobs : Grows(told[k], told'[k]),
         [Next]_vars
  PROVE  Solo' /\ \A j \in Jobs : InOrder(j)
<1> USE DEF Typed, Known, Shape, FutureFields, PollFields, RequestFields, ToldFields
<1>0. ToSet(list) \subseteq Futures /\ \A t \in ToSet(list) : fut[t].at # "free"
  BY DEF ToSet, Listed
<1>1. ASSUME NEW j \in Jobs, row[j] # "none", Launch(j), UNCHANGED <<kind, transfers>>,
           \/ \E r \in Requests : req[r].at = "launch" /\ req[r].job = j
                                  /\ req' = [req EXCEPT ![r].at = "register"] /\ poll' = poll
           \/ poll' = [poll EXCEPT !.todo = @ \ {j}] /\ req' = req
      PROVE  Solo' /\ \A k \in Jobs : InOrder(k)
  <2>1. PICK t \in Futures :
           /\ fut[t].at = "free"
           /\ fut' = [fut EXCEPT ![t] = [at |-> "run", job |-> j, changed |-> FALSE]]
           /\ list' = Append(list, t)
    BY <1>1, Launching
  <2>2. ToSet(list') = ToSet(list) \cup {t}
    BY <2>1, Adding
  <2>3. poll'.at = poll.at /\ poll'.cur = poll.cur
    BY <1>1
  <2>4. row' = [row EXCEPT ![j] = "EXECUTING"]
    BY <1>1 DEF Launch
  <2>5. told' = [told EXCEPT ![j].launches = @ + 1,
                             ![j].crossed = @ \/ row[j] # "QUEUED"]
    BY <1>1 DEF Launch
  <2>6. row[j] # "QUEUED" => told'[j].crossed
    <3>1. told'[j] = [told[j] EXCEPT !.launches = @ + 1, !.crossed = @ \/ row[j] # "QUEUED"]
      BY <2>5
    <3>2. "crossed" \in DOMAIN told[j]
      OBVIOUS
    <3>3. told'[j].crossed = (told[j].crossed \/ row[j] # "QUEUED")
      BY <3>1, <3>2
    <3> QED BY <3>3, Zenon
  <2>7. t \notin ToSet(list) /\ ~(poll.at = "record" /\ poll.cur = t)
    BY <1>0, <2>1 DEF Listed
  <2>8. ASSUME NEW k \in Jobs, k # j PROVE SoloJob(k)' /\ InOrder(k)
    <3>1. KeptFor(k)' \subseteq KeptFor(k)
      <4>1. ASSUME NEW u \in KeptFor(k)' PROVE u \in KeptFor(k)
        <5>1. /\ u \in Futures /\ fut'[u].job = k
              /\ u \in ToSet(list) \cup {t} \/ (poll.at = "record" /\ poll.cur = u)
          BY <2>2, <2>3, <4>1 DEF KeptFor
        <5>2. u # t
          BY <2>1, <2>8, <5>1
        <5>3. fut'[u] = fut[u]
          BY <2>1, <5>2
        <5> QED BY <5>1, <5>2, <5>3 DEF KeptFor
      <4> QED BY <4>1
    <3>2. row'[k] = row[k]
      BY <2>4, <2>8
    <3> QED BY <3>1, <3>2, SoloKept DEF InOrder
  <2>9. InOrder(j)
    BY <2>4, <2>6 DEF InOrder
  <2>10. SoloJob(j)'
    <3>1. CASE told'[j].crossed
      BY <3>1 DEF SoloJob
    <3>2. CASE ~told'[j].crossed
      <4>1. row[j] = "QUEUED" /\ ~told[j].crossed
        BY <2>6, <3>2 DEF Grows
      <4>2. KeptFor(j) = {}
        BY <4>1 DEF Solo, SoloJob
      <4>3. ASSUME NEW u \in KeptFor(j)' PROVE u = t
        <5>1. /\ u \in Futures /\ fut'[u].job = j
              /\ u \in ToSet(list) \cup {t} \/ (poll.at = "record" /\ poll.cur = u)
          BY <2>2, <2>3, <4>3 DEF KeptFor
        <5>2. u # t => fut'[u] = fut[u]
          BY <2>1, <5>1
        <5>3. u # t => u \in KeptFor(j)
          BY <5>1, <5>2 DEF KeptFor
        <5> QED BY <4>2, <5>3
      <4>4. row'[j] = "EXECUTING"
        BY <2>4
      <4> QED BY <4>3, <4>4 DEF SoloJob
    <3> QED BY <3>1, <3>2
  <2> QED BY <2>8, <2>9, <2>10 DEF Solo
<1>2. ASSUME NEW r \in Requests, AddJob(r) PROVE Solo' /\ \A j \in Jobs : InOrder(j)
  <2>1. UNCHANGED <<list, fut, poll>>
    BY <1>2 DEF AddJob
  <2>2. \A j \in Jobs :
          row'[j] = row[j] \/ (row[j] = "none" /\ row'[j] \in {"PENDING", "QUEUED"})
    BY <1>2 DEF AddJob
  <2>3. ASSUME NEW j \in Jobs PROVE SoloJob(j)'
    <3>1. KeptFor(j)' = KeptFor(j)
      BY <2>1 DEF KeptFor
    <3>2. row[j] = "none" => KeptFor(j) = {}
      BY <1>0 DEF KeptFor, Listed
    <3> QED BY <2>2, <3>1, <3>2, SoloKept
  <2> QED BY <2>2, <2>3 DEF Solo, InOrder
<1>3. ASSUME NEW r \in Requests, AddRegister(r) PROVE Solo' /\ \A j \in Jobs : InOrder(j)
  BY <1>3, SoloFrame DEF AddRegister
<1>4. ASSUME NEW r \in Requests, PostRead(r) PROVE Solo' /\ \A j \in Jobs : InOrder(j)
  BY <1>4, SoloFrame DEF PostRead
<1>5. ASSUME NEW r \in Requests, PostWrite(r) PROVE Solo' /\ \A j \in Jobs : InOrder(j)
  <2> DEFINE i == req[r].job
  <2>1. UNCHANGED <<list, fut, poll>> /\ i \in Jobs /\ req[r].what \in {"RUN", "ABORT"}
    BY <1>5 DEF PostWrite
  <2>2. row' = [row EXCEPT ![i] = NewPhase(req[r].what, req[r].seen)]
    BY <1>5 DEF PostWrite
  <2>3. row[i] # req[r].seen => told'[i].crossed
    <3>1. told' = [told EXCEPT
                     ![i].crossed = @ \/ row[i] # req[r].seen,
                     ![i].stuck = @ \/ (NewPhase(req[r].what, req[r].seen) = "EXECUTING"
                                        /\ row[i] # NewPhase(req[r].what, req[r].seen))]
      BY <1>5 DEF PostWrite
    <3>2. "crossed" \in DOMAIN told[i] /\ "stuck" \in DOMAIN told[i] /\ i \in DOMAIN told
      BY <2>1
    <3>3. told'[i].crossed = (told[i].crossed \/ row[i] # req[r].seen)
      BY <3>1, <3>2
    <3> QED BY <3>3, Zenon
  <2>4. req[r].what = "ABORT" => told[i].aborted
    BY <1>5 DEF PostWrite, Ended, EndedRequests
  <2>5. \/ told'[i].crossed
        \/ row'[i] = "ABORTED" /\ told[i].aborted
        \/ row'[i] = row[i]
        \/ row[i] = "PENDING" /\ row'[i] = "QUEUED"
    BY <2>1, <2>2, <2>3, <2>4 DEF NewPhase
  <2>6. \A j \in Jobs : j # i => row'[j] = row[j]
    BY <2>2
  <2> HIDE DEF i
  <2>7. ASSUME NEW j \in Jobs PROVE SoloJob(j)' /\ InOrder(j)
    <3>1. KeptFor(j)' = KeptFor(j)
      BY <2>1 DEF KeptFor
    <3>2. CASE j # i
      BY <2>6, <3>1, <3>2, SoloKept DEF InOrder
    <3>3. CASE j = i
      <4>1. InOrder(j)
        BY <2>5, <3>3 DEF InOrder
      <4>2. row[i] = "PENDING" => told[i].crossed \/ KeptFor(j) = {}
        BY <3>3 DEF Solo, SoloJob
      <4>3. told[j].crossed => told'[j].crossed
        BY DEF Grows
      <4> QED BY <2>5, <3>1, <3>3, <4>1, <4>2, <4>3, SoloKept
    <3> QED BY <3>2, <3>3
  <2> QED BY <2>7 DEF Solo
<1>6. ASSUME NEW r \in Requests, Check(r) PROVE Solo' /\ \A j \in Jobs : InOrder(j)
  BY <1>6, SoloFrame DEF Check
<1>7. ASSUME NEW r \in Requests, Serve(r) PROVE Solo' /\ \A j \in Jobs : InOrder(j)
  BY <1>7, SoloFrame DEF Serve
<1>8. ASSUME NEW r \in Requests, Upload(r) PROVE Solo' /\ \A j \in Jobs : InOrder(j)
  <2>1. UNCHANGED <<row, list, poll>>
    BY <1>8 DEF Upload
  <2>2. \A t \in Futures : fut'[t].job = fut[t].job
    BY <1>8, Uploading
  <2> QED BY <2>1, <2>2, SoloFrame
<1>9. ASSUME NEW t \in Futures, fut[t].at \in {"run", "log"}, UNCHANGED <<row, list, poll>>,
             \/ fut' = [fut EXCEPT ![t] = Free] /\ ~Kept(t)
             \/ \E a \in {"log", "ok", "failed"} : fut' = [fut EXCEPT ![t].at = a]
      PROVE  Solo' /\ \A j \in Jobs : InOrder(j)
  <2>1. CASE fut' = [fut EXCEPT ![t] = Free] /\ ~Kept(t)
    <3>1. \A u \in Futures : u # t => fut'[u] = fut[u]
      BY <2>1
    <3>2. t \notin ToSet(list) /\ t # poll.cur
      BY <2>1 DEF Kept
    <3> QED BY <1>9, <3>1, <3>2, SoloFrame
  <2>2. ASSUME NEW a \in {"log", "ok", "failed"}, fut' = [fut EXCEPT ![t].at = a]
        PROVE  Solo' /\ \A j \in Jobs : InOrder(j)
    <3>1. \A u \in Futures : fut'[u].job = fut[u].job
      BY <2>2
    <3> QED BY <1>9, <3>1, SoloFrame
  <2> QED BY <1>9, <2>1, <2>2
<1>10. ASSUME NEW t \in Futures, Work(t) PROVE Solo' /\ \A j \in Jobs : InOrder(j)
  BY <1>9, <1>10 DEF Work, Ends
<1>11. ASSUME NEW t \in Futures, Watch(t) PROVE Solo' /\ \A j \in Jobs : InOrder(j)
  BY <1>9, <1>11 DEF Watch
<1>12. ASSUME NEW t \in Futures, Expire(t) PROVE Solo' /\ \A j \in Jobs : InOrder(j)
  BY <1>9, <1>12 DEF Expire
<1>13. ASSUME NEW t \in Futures, Log(t) PROVE Solo' /\ \A j \in Jobs : InOrder(j)
  BY <1>9, <1>13 DEF Log
<1>14. ASSUME NEW t \in Futures, Raise(t) PROVE Solo' /\ \A j \in Jobs : InOrder(j)
  BY <1>9, <1>14 DEF Raise, Ends
<1>15. ASSUME UNCHANGED <<row, fut>>, ToSet(list)' \subseteq ToSet(list),
              poll'.at = "record" => poll'.cur \in ToSet(list)
                                     \/ (poll.at = "record" /\ poll'.cur = poll.cur)
       PROVE  Solo' /\ \A j \in Jobs : InOrder(j)
  <2>1. ASSUME NEW j \in Jobs PROVE KeptFor(j)' \subseteq KeptFor(j)
    BY <1>15 DEF KeptFor
  <2> QED BY <1>15, <2>1, SoloKept DEF Solo, InOrder
<1>16. CASE PollQueued
  BY <1>16, <1>15 DEF PollQueued
<1>17. CASE PollAborted
  BY <1>17, <1>15 DEF PollAborted
<1>18. CASE PollSleep
  BY <1>18, <1>15 DEF PollSleep, Asleep
<1>19. CASE PollRecord
  <2> DEFINE c == poll.cur
             i == fut[c].job
  <2>1. /\ poll.at = "record" /\ c \in Futures /\ c \notin ToSet(list) /\ i \in Jobs
        /\ UNCHANGED list /\ poll'.at = "scan"
        /\ \A t \in Futures : t # c => fut'[t] = fut[t]
    BY <1>19 DEF PollRecord, Released, Listed
  <2>2. row' = [row EXCEPT ![i] = IF fut[c].at = "failed" THEN "ERROR" ELSE "COMPLETED"]
    BY <1>19 DEF PollRecord
  <2>3. row'[i] \in {"COMPLETED", "ERROR"} /\ \A j \in Jobs : j # i => row'[j] = row[j]
    BY <2>1, <2>2
  <2>4. c \in KeptFor(i)
    BY <2>1 DEF KeptFor
  <2> HIDE DEF c, i
  <2>5. ASSUME NEW j \in Jobs PROVE KeptFor(j)' \subseteq KeptFor(j) \ {c}
    <3>1. ASSUME NEW t \in KeptFor(j)' PROVE t \in KeptFor(j) \ {c}
      <4>1. t \in Futures /\ fut'[t].job = j /\ t \in ToSet(list)
        BY <2>1, <3>1 DEF KeptFor
      <4>2. t # c /\ fut[t].job = j
        BY <2>1, <4>1
      <4> QED BY <4>1, <4>2 DEF KeptFor
    <3> QED BY <3>1
  <2>6. \A j \in Jobs : j # i => SoloJob(j)' /\ InOrder(j)
    BY <2>3, <2>5, SoloKept DEF InOrder
  <2>7. \/ told[i].crossed
        \/ row[i] \in {"EXECUTING", "ABORTED"} /\ KeptFor(i) = {c}
    BY <2>1, <2>4 DEF Solo, SoloJob
  <2>8. told[i].crossed => told'[i].crossed
    BY <2>1 DEF Grows
  <2>9. ASSUME NEW j \in Jobs, j = i PROVE SoloJob(j)'
    <3>1. KeptFor(j)' = {} \/ told'[j].crossed
      BY <2>1, <2>5, <2>7, <2>8, <2>9
    <3> QED BY <2>5, <3>1, SoloKept
  <2>10. InOrder(i)
    BY <2>3, <2>7, <2>8 DEF InOrder
  <2>11. ASSUME NEW j \in Jobs PROVE SoloJob(j)' /\ InOrder(j)
    BY <2>6, <2>9, <2>10
  <2> QED BY <2>11 DEF Solo
<1>20. CASE PollFails
  <2>1. UNCHANGED <<row, list>> /\ poll'.at = "sleep"
    BY <1>20 DEF PollFails, Asleep
  <2>2. \A t \in ToSet(list) : fut'[t] = fut[t]
    BY <1>0, <1>20 DEF PollFails, Released, Listed
  <2>3. ASSUME NEW j \in Jobs PROVE KeptFor(j)' \subseteq KeptFor(j)
    <3>1. ASSUME NEW t \in KeptFor(j)' PROVE t \in KeptFor(j)
      <4>1. t \in Futures /\ fut'[t].job = j /\ t \in ToSet(list)
        BY <2>1, <3>1 DEF KeptFor
      <4> QED BY <2>2, <4>1 DEF KeptFor
    <3> QED BY <3>1
  <2> QED BY <2>1, <2>3, SoloKept DEF Solo, InOrder
<1>21. CASE Restart
  <2>1. row' = row /\ list' = <<>> /\ poll'.at = "sleep"
    BY <1>21 DEF Restart, Asleep
  <2>2. ASSUME NEW j \in Jobs PROVE KeptFor(j)' = {}
    BY <2>1 DEF KeptFor, ToSet
  <2> QED BY <2>1, <2>2, SoloKept DEF Solo, InOrder
<1>22. CASE PollScan
  <2>1. poll.i \in 1..Len(list) /\ UNCHANGED <<row, fut>> /\ poll.at = "scan"
    BY <1>22 DEF PollScan
  <2>2. CASE list' = RemoveAt(list, poll.i)
             /\ poll' = [poll EXCEPT !.at = "record", !.cur = list[poll.i]]
    <3>1. ToSet(list') \subseteq ToSet(list) /\ poll'.cur \in ToSet(list)
      BY <2>1, <2>2, Removing
    <3> QED BY <2>1, <3>1, <1>15
  <2>3. CASE list' = list /\ poll' = [poll EXCEPT !.i = @ + 1]
    BY <2>1, <2>3, <1>15
  <2> QED BY <1>22, <2>2, <2>3 DEF PollScan
<1>23. CASE UNCHANGED vars
  BY <1>23, SoloFrame DEF vars
<1>24. ASSUME NEW r \in Requests, AddLaunch(r) PROVE Solo' /\ \A j \in Jobs : InOrder(j)
  <2>1. req[r].at = "launch" /\ req[r].job \in Jobs /\ row[req[r].job] # "none"
    BY <1>24 DEF AddLaunch, Known
  <2>2. Launch(req[r].job) /\ UNCHANGED <<kind, transfers>>
    BY <1>24 DEF AddLaunch
  <2>3. req' = [req EXCEPT ![r].at = "register"] /\ poll' = poll
    BY <1>24 DEF AddLaunch
  <2> QED BY <2>1, <2>2, <2>3, <1>1
<1>25. CASE PollLaunch
  <2>1. PICK j \in poll.todo : Launch(j) /\ poll' = [poll EXCEPT !.todo = @ \ {j}]
    BY <1>25 DEF PollLaunch
  <2>2. j \in Jobs /\ row[j] # "none"
    BY DEF Typed, Known
  <2>3. UNCHANGED <<kind, transfers>> /\ req' = req
    BY <1>25 DEF PollLaunch
  <2> QED BY <2>1, <2>2, <2>3, <1>1
<1> QED
  BY <1>2, <1>3, <1>4, <1>5, <1>6, <1>7, <1>8, <1>10, <1>11, <1>12,
     <1>13, <1>14, <1>16, <1>17, <1>18, <1>19, <1>20, <1>21, <1>22,
     <1>23, <1>24, <1>25
  DEF Next, PollStep, FutureStep

-----------------------------------------------------------------------------
(* The inductive invariant. *)
IInv ==
  /\ Typed /\ Known /\ Listed /\ Tables /\ Ended /\ Counted /\ Registered /\ Caused
  /\ Solo

LEMMA InitIInv == Init => IInv
<1> SUFFICES ASSUME Init PROVE IInv
  OBVIOUS
<1> USE DEF Init, Untold, Idle, Asleep, Free
<1>1. Shape
  BY DEF Shape, FutureFields, PollFields, RequestFields, ToldFields
<1>2. Typed
  BY <1>1 DEF Typed
<1>3. Known
  BY DEF Known
<1>4. Listed
  BY DEF Listed, Injective, ToSet
<1>5. Tables
  BY DEF Tables, Phases, AllKinds
<1>6. Ended
  BY DEF Ended, EndedRows, EndedRequests, EndedFutures, EndedPoll, Justified
<1>7. Counted
  <2>1. ASSUME NEW j \in Jobs PROVE CountedJob(j)
    <3>1. Pending(j) = {} /\ ~Waits(j)
      BY DEF Pending, Waits
    <3>2. Cardinality(Pending(j)) = 0 /\ Queued(j) = 0
      BY <3>1, FS_EmptySet DEF Queued
    <3> QED BY <3>2 DEF CountedJob
  <2> QED BY <2>1 DEF Counted
<1>8. Registered
  BY DEF Registered, Registering
<1>9. Caused
  BY DEF Caused, CausedFuture, CausedJob
<1>10. Solo
  BY DEF Solo, SoloJob, KeptFor, ToSet
<1> QED BY <1>2, <1>3, <1>4, <1>5, <1>6, <1>7, <1>8, <1>9, <1>10 DEF IInv

LEMMA IInvStep == IInv /\ [Next]_vars => IInv'
<1> SUFFICES ASSUME IInv, [Next]_vars PROVE IInv'
  OBVIOUS
<1>1. /\ Typed /\ Known /\ Listed /\ Tables /\ Ended /\ Counted /\ Registered /\ Caused
      /\ Solo
  BY DEF IInv
<1> QED BY <1>1, TypedStep, KnownStep, ListedStep, TablesStep, ToldGrows, EndedStep, CountedStep,
           RegisteredStep, CausedStep, SoloStep DEF IInv

LEMMA Invariance == Spec => []IInv
BY InitIInv, IInvStep, PTL DEF Spec

(* The types of the tables, the list and the Futures. *)
THEOREM TypeCorrect == Spec => []TypeOK
<1>1. IInv => TypeOK
  <2> SUFFICES ASSUME IInv PROVE TypeOK
    OBVIOUS
  <2>1. poll.at = "record" => poll.cur \in Futures /\ fut[poll.cur].job \in Jobs
    BY DEF IInv, Listed, Known
  <2> QED BY <2>1 DEF IInv, Typed, Known, Tables, TypeOK
<1> QED BY <1>1, Invariance, PTL

(* No job is run more often than it was asked for, whatever threads, failing   *)
(* statements and restarts come between (_launch_job, check_jobs).             *)
THEOREM NoExtraRuns == Spec => []RunAsAsked
<1>1. IInv => RunAsAsked
  <2> SUFFICES ASSUME IInv, NEW j \in Jobs PROVE told[j].launches <= told[j].asked
    BY DEF RunAsAsked
  <2>1. told[j].launches + Queued(j) + Cardinality(Pending(j)) <= told[j].asked
    BY DEF IInv, Counted, CountedJob
  <2>2. told[j].launches \in Nat /\ told[j].asked \in Nat
    BY DEF IInv, Typed
  <2> QED BY <2>1, <2>2, PendingFinite DEF Queued
<1> QED BY <1>1, Invariance, PTL

(* A phase that says how a job ended is that of one of its Futures, unless the *)
(* job was aborted (check_jobs, Future).                                       *)
THEOREM EndsAreTold == Spec => []EndIsTold
<1>1. IInv => EndIsTold
  BY DEF IInv, Ended, EndedRows, Justified, EndIsTold
<1> QED BY <1>1, Invariance, PTL

(* A transfer by the client ends because its endpoint was used, an hour passed *)
(* or its endpoints were not there yet (pull_from_vospace, push_to_vospace).   *)
THEOREM EndsHaveCauses == Spec => []EndHasCause
<1>1. IInv => EndHasCause
  BY DEF IInv, Caused, CausedJob, Client, Excused, EndHasCause
<1> QED BY <1>1, Invariance, PTL

(* No endpoint of a transfer that has ended is open, unless it was registered  *)
(* after the end (complete_transfers, add_transfer).                           *)
THEOREM EndpointsClose == Spec => []EndpointClosed
<1>1. IInv => EndpointClosed
  BY DEF IInv, Caused, CausedJob, Registered, EndpointClosed
<1> QED BY <1>1, Invariance, PTL

(* The phases come in their order as long as none is written over one that was *)
(* not read (_launch_job, check_jobs, _handle_transfers).                      *)
THEOREM PhasesInOrder == Spec => PhaseOrder
<1> DEFINE Step == \A j \in Jobs : InOrder(j)
<1>1. IInv /\ [Next]_vars => [Step]_vars
  <2> SUFFICES ASSUME IInv, [Next]_vars PROVE Step
    OBVIOUS
  <2>1. Typed /\ Known /\ Listed /\ Tables /\ Ended /\ Solo
    BY DEF IInv
  <2> QED BY <2>1, ToldGrows, SoloStep
<1>2. PhaseOrder <=> [][Step]_vars
  BY DEF PhaseOrder, InOrder
<1> HIDE DEF Step
<1> QED BY <1>1, <1>2, Invariance, PTL DEF Spec
=============================================================================
