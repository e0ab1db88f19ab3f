------------------------------ MODULE JobQueue ------------------------------
(* python/src, the reference server: the queue of UWS jobs.  HTTP threads add  *)
(* jobs and post phases (controller.py), one thread polls the table of jobs,   *)
(* launches those that are queued and records the end of those that are done   *)
(* (admin.py, JobManager.check_jobs), and a thread of its own runs each job    *)
(* (Future).  They share the tables of the database, one statement at a time   *)
(* and no transaction, and the list of Futures, without a lock.                *)
EXTENDS Integers, FiniteSets, SequencesExt

CONSTANTS
  Jobs,       \* identifiers of jobs, never used twice (uuid4)
  Requests,   \* bound: HTTP requests served at one time
  Futures,    \* bound: Future objects in use at one time
  NoFuture, NoJob,
  Kinds,      \* directions of a transfer, of those below
  MaxPosts,   \* bound: POST sync and POST ../phase requests of one job
  MaxUses,    \* bound: requests for the data endpoint of one job
  MaxFaults   \* bound: failing statements of the polling thread, and restarts

AllKinds == {"node", "server", "pull", "push"}
External == AllKinds \ {"node"}    \* not between two nodes of the space

ASSUME KindsAssumption == Kinds \subseteq AllKinds
ASSUME NoneAssumption == NoFuture \notin Futures /\ NoJob \notin Jobs
ASSUME RequestsAssumption == IsFiniteSet(Requests)
ASSUME BoundsAssumption == MaxPosts \in Nat /\ MaxUses \in Nat /\ MaxFaults \in Nat

VARIABLES
  row,        \* table jobs: the phase of each job
  kind,       \* ... and its method
  transfers,  \* table transfers: the endpoints of the job
  list,       \* JobManager.threads
  fut,        \* the Futures
  poll,       \* the polling thread
  req,        \* the HTTP threads
  faults,
  told        \* auxiliary: what has happened to each job

vars == <<row, kind, transfers, list, fut, poll, req, faults, told>>

Phases == {"none", "PENDING", "QUEUED", "EXECUTING", "COMPLETED", "ERROR", "ABORTED"}
Free   == [at |-> "free", job |-> NoJob, changed |-> FALSE]
Asleep == [at |-> "sleep", todo |-> {}, aborts |-> {}, i |-> 1, cur |-> NoFuture]
Idle   == [at |-> "idle", job |-> NoJob, what |-> "none", seen |-> "none"]
(* asked: how often the job may be run; launches: how often it was; ended: how *)
(* its Futures ended; due: its endpoint was used or an hour passed; early: a    *)
(* Future did not find the rows of the table transfers; aborted: ABORT was     *)
(* posted; crossed: a phase was written over one that was not read; stuck: *)
(* nobody is left to record the end.                                           *)
Untold == [asked |-> 0, launches |-> 0, ended |-> {}, posts |-> 0, uses |-> 0,
           due |-> FALSE, early |-> FALSE, aborted |-> FALSE, crossed |-> FALSE, stuck |-> FALSE]

Init ==
  /\ row = [j \in Jobs |-> "none"] /\ kind = [j \in Jobs |-> "node"]
  /\ transfers = [j \in Jobs |-> "none"]
  /\ list = <<>> /\ fut = [t \in Futures |-> Free]
  /\ poll = Asleep /\ req = [r \in Requests |-> Idle]
  /\ faults = 0 /\ told = [j \in Jobs |-> Untold]

-----------------------------------------------------------------------------
(* _launch_job: the row is updated, then a Future starts. *)
FreeFutures == {t \in Futures : fut[t].at = "free"}
Launch(j) ==
  /\ FreeFutures # {}
  /\ LET t == CHOOSE u \in FreeFutures : TRUE
     IN /\ fut' = [fut EXCEPT ![t] = [at |-> "run", job |-> j, changed |-> FALSE]]
        /\ list' = Append(list, t)
  /\ row' = [row EXCEPT ![j] = "EXECUTING"]
  /\ told' = [told EXCEPT ![j].launches = @ + 1,
                          ![j].crossed = @ \/ row[j] # "QUEUED"]

(* A request takes any thread that serves none. *)
Idles(r) == req[r].at = "idle" /\ r = CHOOSE u \in Requests : req[u].at = "idle"

(* add_job: POST transfers leaves the job pending, POST sync launches it.      *)
(* The row can be seen queued by the polling thread before that.               *)
AddJob(r) ==
  /\ Idles(r)
  /\ \E j \in Jobs, k \in Kinds, run \in BOOLEAN :
       /\ row[j] = "none"
       /\ row' = [row EXCEPT ![j] = IF run THEN "QUEUED" ELSE "PENDING"]
       /\ kind' = [kind EXCEPT ![j] = k]
       /\ told' = [told EXCEPT ![j].asked = IF run THEN 2 ELSE 0,
                               ![j].posts = IF run THEN 1 ELSE 0]
       /\ req' = [req EXCEPT ![r] = [Idle EXCEPT !.at = IF run THEN "launch" ELSE "register",
                                                 !.job = j]]
  /\ UNCHANGED <<transfers, list, fut, poll, faults>>

AddLaunch(r) ==
  /\ req[r].at = "launch"
  /\ Launch(req[r].job)
  /\ req' = [req EXCEPT ![r].at = "register"]
  /\ UNCHANGED <<kind, transfers, poll, faults>>

(* add_transfer registers the endpoints when the job is in the queue already.  *)
AddRegister(r) ==
  /\ req[r].at = "register"
  /\ transfers' = IF kind[req[r].job] \in External
                  THEN [transfers EXCEPT ![req[r].job] = "open"] ELSE transfers
  /\ req' = [req EXCEPT ![r] = Idle]
  /\ UNCHANGED <<row, kind, list, fut, poll, faults, told>>

(* _handle_transfers: the whole job is read, and written with its new phase.   *)
PostRead(r) ==
  /\ Idles(r)
  /\ \E j \in Jobs, what \in {"RUN", "ABORT"} :
       /\ row[j] # "none" /\ told[j].posts < MaxPosts
       /\ req' = [req EXCEPT ![r] = [at |-> "write", job |-> j, what |-> what, seen |-> row[j]]]
       /\ told' = [told EXCEPT ![j].posts = @ + 1,
                               ![j].asked = IF what = "RUN" THEN @ + 1 ELSE @,
                               ![j].aborted = @ \/ what = "ABORT"]
  /\ UNCHANGED <<row, kind, transfers, list, fut, poll, faults>>

\* Mutant: RUN puts a job into the queue whatever its phase.
NewPhase_Always(what, seen) == IF what = "ABORT" THEN "ABORTED" ELSE "QUEUED"

NewPhase(what, seen) ==
  IF what = "ABORT" THEN "ABORTED" ELSE IF seen = "PENDING" THEN "QUEUED" ELSE seen

PostWrite(r) ==
  /\ req[r].at = "write"
  /\ LET j == req[r].job
         phase == NewPhase(req[r].what, req[r].seen)
     IN /\ row' = [row EXCEPT ![j] = phase]
        /\ told' = [told EXCEPT ![j].crossed = @ \/ row[j] # req[r].seen,
                                ![j].stuck = @ \/ (phase = "EXECUTING" /\ row[j] # phase)]
  /\ req' = [req EXCEPT ![r] = Idle]
  /\ UNCHANGED <<kind, transfers, list, fut, poll, faults>>

(* GET and PUT data/<endpoint>: _check_endpoint, which also refuses after an   *)
(* hour.  A download completes the transfer before the file is served; an      *)
(* upload changes the file when it is opened and when it is written.           *)
Check(r) ==
  /\ Idles(r)
  /\ \E j \in Jobs :
       /\ transfers[j] = "open" /\ kind[j] \in {"pull", "push"} /\ told[j].uses < MaxUses
       /\ req' = [req EXCEPT ![r] = [Idle EXCEPT !.job = j,
                                       !.at = IF kind[j] = "pull" THEN "serve" ELSE "open"]]
       /\ told' = [told EXCEPT ![j].uses = @ + 1]
  /\ UNCHANGED <<row, kind, transfers, list, fut, poll, faults>>

Serve(r) ==
  /\ req[r].at = "serve"
  /\ transfers' = [transfers EXCEPT ![req[r].job] = "completed"]
  /\ told' = [told EXCEPT ![req[r].job].due = TRUE]
  /\ req' = [req EXCEPT ![r] = Idle]
  /\ UNCHANGED <<row, kind, list, fut, poll, faults>>

Upload(r) ==
  /\ req[r].at \in {"open", "put"}
  /\ fut' = [t \in Futures |-> IF fut[t].job = req[r].job /\ fut[t].at = "run"
                               THEN [fut[t] EXCEPT !.changed = TRUE] ELSE fut[t]]
  /\ told' = [told EXCEPT ![req[r].job].due = TRUE]
  /\ req' = [req EXCEPT ![r] = IF @.at = "open" THEN [@ EXCEPT !.at = "put"] ELSE Idle]
  /\ UNCHANGED <<row, kind, transfers, list, poll, faults>>

-----------------------------------------------------------------------------
\* Mutant: nobody keeps a Future that has left the list.
Kept_Listed(t) == t \in ToSet(list)

(* The Futures.  Wrapper keeps the result or the exception, for as long as the *)
(* list or the polling thread has the Future.                                  *)
Kept(t) == t \in ToSet(list) \/ poll.cur = t

Ends(t, how) ==
  /\ fut' = [fut EXCEPT ![t] = IF Kept(t) THEN [@ EXCEPT !.at = how] ELSE Free]
  /\ told' = [told EXCEPT ![fut[t].job].ended = @ \cup {how}]

(* move_node, copy_node; pull_to_vospace and push_from_vospace, which log the  *)
(* transfer as completed. *)
Work(t) ==
  /\ fut[t].at = "run" /\ kind[fut[t].job] \in {"node", "server"}
  /\ IF kind[fut[t].job] = "node" THEN Ends(t, "ok")
     ELSE fut' = [fut EXCEPT ![t].at = "log"] /\ UNCHANGED told
  /\ UNCHANGED <<row, kind, transfers, list, poll, req, faults>>

\* Mutant: no more endpoints have to be completed than there are.
Seen_AtMost(t) == kind[fut[t].job] = "pull" \/ fut[t].changed

(* pull_from_vospace counts the completed rows; when there is none of any kind *)
(* they are all completed.  push_to_vospace looks for a file that has changed  *)
(* and is not being changed for five seconds.                                  *)
Seen(t) ==
  IF kind[fut[t].job] = "pull" THEN transfers[fut[t].job] # "open" ELSE fut[t].changed

Watch(t) ==
  /\ fut[t].at = "run" /\ kind[fut[t].job] \in {"pull", "push"} /\ Seen(t)
  /\ fut' = [fut EXCEPT ![t].at = "log"]
  /\ told' = [told EXCEPT ![fut[t].job].early = @ \/ transfers[fut[t].job] = "none"]
  /\ UNCHANGED <<row, kind, transfers, list, poll, req, faults>>

(* An hour has passed. *)
Expire(t) ==
  /\ fut[t].at = "run" /\ kind[fut[t].job] \in {"pull", "push"}
  /\ fut' = [fut EXCEPT ![t].at = "log"]
  /\ told' = [told EXCEPT ![fut[t].job].due = TRUE]
  /\ UNCHANGED <<row, kind, transfers, list, poll, req, faults>>

\* Mutant: the transfer is not logged as completed.
Log_Not(t) ==
  /\ fut[t].at = "log"
  /\ fut' = [fut EXCEPT ![t] = IF Kept(t) THEN [@ EXCEPT !.at = "ok"] ELSE Free]
  /\ told' = [told EXCEPT ![fut[t].job].ended = @ \cup {"ok"},
                          ![fut[t].job].early = @ \/ transfers[fut[t].job] = "none"]
  /\ UNCHANGED <<row, kind, transfers, list, poll, req, faults>>

Log(t) ==
  /\ fut[t].at = "log"
  /\ LET j == fut[t].job
     IN /\ transfers' = IF transfers[j] = "open" THEN [transfers EXCEPT ![j] = "completed"]
                        ELSE transfers
        /\ fut' = [fut EXCEPT ![t] = IF Kept(t) THEN [@ EXCEPT !.at = "ok"] ELSE Free]
        /\ told' = [told EXCEPT ![j].ended = @ \cup {"ok"},
                                ![j].early = @ \/ transfers[j] = "none"]
  /\ UNCHANGED <<row, kind, list, poll, req, faults>>

(* The method raises an exception. *)
Raise(t) ==
  /\ fut[t].at \in {"run", "log"}
  /\ Ends(t, "failed")
  /\ UNCHANGED <<row, kind, transfers, list, poll, req, faults>>

-----------------------------------------------------------------------------
(* check_jobs, every THREAD_POLLING_FREQ seconds *)

PollQueued ==
  /\ poll.at = "sleep"
  /\ poll' = [poll EXCEPT !.at = "launch", !.todo = {j \in Jobs : row[j] = "QUEUED"}]
  /\ UNCHANGED <<row, kind, transfers, list, fut, req, faults, told>>

\* Mutant: the job is launched before its row says so.
PollLaunch_NoUpdate ==
  /\ poll.at = "launch"
  /\ \E j \in poll.todo :
       /\ FreeFutures # {}
       /\ LET t == CHOOSE u \in FreeFutures : TRUE
          IN /\ fut' = [fut EXCEPT ![t] = [at |-> "run", job |-> j, changed |-> FALSE]]
             /\ list' = Append(list, t)
       /\ told' = [told EXCEPT ![j].launches = @ + 1]
       /\ poll' = [poll EXCEPT !.todo = @ \ {j}]
  /\ UNCHANGED <<row, kind, transfers, req, faults>>

PollLaunch ==
  /\ poll.at = "launch"
  /\ \E j \in poll.todo : Launch(j) /\ poll' = [poll EXCEPT !.todo = @ \ {j}]
  /\ UNCHANGED <<kind, transfers, req, faults>>

PollAborted ==
  /\ poll.at = "launch" /\ poll.todo = {}
  /\ poll' = [poll EXCEPT !.at = "scan", !.i = 1, !.aborts = {j \in Jobs : row[j] = "ABORTED"}]
  /\ UNCHANGED <<row, kind, transfers, list, fut, req, faults, told>>

(* The list loses the Future the loop is at, so that the loop passes over the  *)
(* next one, until the next poll.                                              *)
PollScan ==
  /\ poll.at = "scan" /\ poll.i <= Len(list)
  /\ LET t == list[poll.i]
     IN IF fut[t].at \in {"ok", "failed"} \/ fut[t].job \in poll.aborts
        THEN /\ list' = RemoveAt(list, poll.i)
             /\ poll' = [poll EXCEPT !.at = "record", !.cur = t]
        ELSE /\ poll' = [poll EXCEPT !.i = @ + 1]
             /\ UNCHANGED list
  /\ UNCHANGED <<row, kind, transfers, fut, req, faults, told>>

PollSleep ==
  /\ poll.at = "scan" /\ poll.i > Len(list)
  /\ poll' = Asleep
  /\ UNCHANGED <<row, kind, transfers, list, fut, req, faults, told>>

Released(t) == IF fut[t].at \in {"ok", "failed"} THEN [fut EXCEPT ![t] = Free] ELSE fut

\* Mutant: the exception is not looked at.
PollRecord_Completed ==
  /\ poll.at = "record"
  /\ row' = [row EXCEPT ![fut[poll.cur].job] = "COMPLETED"]
  /\ fut' = Released(poll.cur)
  /\ poll' = [poll EXCEPT !.at = "scan", !.i = @ + 1, !.cur = NoFuture]
  /\ UNCHANGED <<kind, transfers, list, req, faults, told>>

(* The phase says how the Future ended; that of an aborted job, which goes on, *)
(* has no exception yet.                                                       *)
PollRecord ==
  /\ poll.at = "record"
  /\ row' = [row EXCEPT ![fut[poll.cur].job] =
               IF fut[poll.cur].at = "failed" THEN "ERROR" ELSE "COMPLETED"]
  /\ fut' = Released(poll.cur)
  /\ poll' = [poll EXCEPT !.at = "scan", !.i = @ + 1, !.cur = NoFuture]
  /\ UNCHANGED <<kind, transfers, list, req, faults, told>>

\* Mutant: the exception ends the polling thread.
PollFails_Dies ==
  /\ poll.at \in {"launch", "record"} /\ faults < MaxFaults
  /\ faults' = faults + 1
  /\ poll' = [Asleep EXCEPT !.at = "dead"]
  /\ fut' = IF poll.at = "record" THEN Released(poll.cur) ELSE fut
  /\ told' = IF poll.at = "record" THEN [told EXCEPT ![fut[poll.cur].job].stuck = TRUE] ELSE told
  /\ UNCHANGED <<row, kind, transfers, list, req>>

(* A statement fails: the rest waits for the next poll, except for the Future  *)
(* that has left the list.                                                     *)
PollFails ==
  /\ poll.at \in {"launch", "record"} /\ faults < MaxFaults
  /\ faults' = faults + 1
  /\ poll' = Asleep
  /\ fut' = IF poll.at = "record" THEN Released(poll.cur) ELSE fut
  /\ told' = IF poll.at = "record" THEN [told EXCEPT ![fut[poll.cur].job].stuck = TRUE] ELSE told
  /\ UNCHANGED <<row, kind, transfers, list, req>>

(* The server is started again: the tables are what it left. *)
Restart ==
  /\ faults < MaxFaults
  /\ faults' = faults + 1
  /\ list' = <<>> /\ fut' = [t \in Futures |-> Free]
  /\ poll' = Asleep /\ req' = [r \in Requests |-> Idle]
  /\ told' = [j \in Jobs |-> [told[j] EXCEPT !.stuck = @ \/ row[j] = "EXECUTING"]]
  /\ UNCHANGED <<row, kind, transfers>>

-----------------------------------------------------------------------------
PollStep == PollQueued \/ PollLaunch \/ PollAborted \/ PollScan \/ PollRecord \/ PollSleep
FutureStep(t) == Work(t) \/ Watch(t) \/ Expire(t) \/ Log(t)

Next ==
  \/ \E r \in Requests :
       \/ AddJob(r) \/ AddLaunch(r) \/ AddRegister(r) \/ PostRead(r) \/ PostWrite(r)
       \/ Check(r) \/ Serve(r) \/ Upload(r)
  \/ \E t \in Futures : FutureStep(t) \/ Raise(t)
  \/ PollStep \/ PollFails \/ Restart

Spec == Init /\ [][Next]_vars

(* The polling thread sleeps and polls for ever, and a Future runs until its   *)
(* method returns, after an hour at the latest.                                *)
FairSpec ==
  /\ Spec
  /\ WF_vars(PollStep)
  /\ \A t \in Futures : WF_vars(FutureStep(t))

-----------------------------------------------------------------------------
TypeOK ==
  /\ row \in [Jobs -> Phases] /\ kind \in [Jobs -> AllKinds]
  /\ transfers \in [Jobs -> {"none", "open", "completed"}]
  /\ list \in Seq(Futures)
  /\ \A t \in Futures : fut[t].at # "free" => fut[t].job \in Jobs
  /\ poll.at = "record" => poll.cur \in Futures /\ fut[poll.cur].job \in Jobs
  /\ \A r \in Requests : req[r].at # "idle" => req[r].job \in Jobs

(* A job is run once for each time it is asked for, whatever RUN and ABORT     *)
(* requests, polls, failing statements and restarts come between: its phase    *)
(* leaves QUEUED before it starts (_launch_job).  A job of POST sync may be    *)
(* run twice, by the request and by the polling thread.                        *)
RunAsAsked == \A j \in Jobs : told[j].launches <= told[j].asked

(* The end that is recorded is the end of a run: COMPLETED of one that         *)
(* returned, ERROR of one that raised an exception (check_jobs, Future).  Of   *)
(* a job that was aborted COMPLETED says nothing: check_jobs finds no          *)
(* exception and records it as completed while it goes on.                     *)
EndIsTold ==
  \A j \in Jobs :
    /\ row[j] = "COMPLETED" => "ok" \in told[j].ended \/ told[j].aborted
    /\ row[j] = "ERROR" => "failed" \in told[j].ended

(* A transfer by the client does not end by itself: its endpoint was used, or  *)
(* an hour passed, or it started before its endpoints were in the table        *)
(* (pull_from_vospace, push_to_vospace, add_transfer).                         *)
EndHasCause ==
  \A j \in Jobs :
    kind[j] \in {"pull", "push"} /\ "ok" \in told[j].ended =>
      told[j].due \/ told[j].early

(* The endpoints of a transfer that has ended are closed (complete_transfers), *)
(* with the exception of one that ended before they were registered.           *)
EndpointClosed ==
  \A j \in Jobs : "ok" \in told[j].ended => transfers[j] # "open" \/ told[j].early

(* The phases of UWS come in their order, as long as no request and no poll    *)
(* wrote a phase over one it had not read.  Abort is no end: check_jobs        *)
(* records the end of an aborted job that was running like any other.          *)
PhaseOrder ==
  [][\A j \in Jobs :
       \/ row'[j] = row[j] \/ told'[j].crossed
       \/ <<row[j], row'[j]>> \in
            {<<"none", "PENDING">>, <<"none", "QUEUED">>, <<"PENDING", "QUEUED">>,
             <<"QUEUED", "EXECUTING">>, <<"EXECUTING", "COMPLETED">>, <<"EXECUTING", "ERROR">>,
             <<"ABORTED", "COMPLETED">>, <<"ABORTED", "ERROR">>}
       \/ row'[j] = "ABORTED" /\ told[j].aborted]_vars

(* Every run ends in the table, although check_jobs passes over Futures in its *)
(* list and may fail: EXECUTING is left, unless the server was restarted, the  *)
(* statement that records the end failed, or a request wrote back what it had  *)
(* read.                                                                       *)
RunEnds ==
  \A j \in Jobs : row[j] = "EXECUTING" ~> row[j] # "EXECUTING" \/ told[j].stuck
=============================================================================
