----------------------------- MODULE TransferJob -----------------------------
(***************************************************************************)
(* The transfers of one data node on the VOSpace server: the UWS jobs of   *)
(* TransferJob.java, the data endpoint of DataResource.java through which  *)
(* clients PUT and GET the bytes, the callers who wait for the details of  *)
(* a transfer in TransferResource.java, and the tables they share.         *)
(*                                                                         *)
(* A pushToVoSpace job opens an endpoint, marks the node busy and polls    *)
(* the transfers table once a second until a client has used the endpoint; *)
(* it then brings the length up to date and frees the node.  A             *)
(* pullFromVoSpace job opens an endpoint for a download and waits two      *)
(* seconds; a pullToVoSpace job fetches the bytes itself.  Nothing locks   *)
(* the node: every write of its description is a read-modify-write of all  *)
(* its properties, spread over several statements.                         *)
(*                                                                         *)
(* Bounds: the node exists throughout (creation and deletion are another   *)
(* component's), a job has one protocol and so one endpoint, one caller    *)
(* waits for the details of each job.                                      *)
(***************************************************************************)
EXTENDS Naturals

CONSTANTS
    PushJobs,      \* the pushToVoSpace jobs
    PullJobs,      \* the pullFromVoSpace jobs
    ImportJobs,    \* the pullToVoSpace jobs
    Requests,      \* the HTTP requests to the data endpoint
    None,          \* a request that has no endpoint yet
    MaxSize        \* bound: the largest file

Jobs == PushJobs \cup PullJobs \cup ImportJobs
UploadJobs == PushJobs \cup ImportJobs    \* they write to the node
OfferJobs == PushJobs \cup PullJobs        \* they open an endpoint and have details
Sizes == 0 .. MaxSize

ASSUME JobKindsDisjoint ==
    /\ PushJobs \cap PullJobs = {}
    /\ PushJobs \cap ImportJobs = {}
    /\ PullJobs \cap ImportJobs = {}
ASSUME NoneIsNoJob == None \notin Jobs
ASSUME MaxSizeIsNat == MaxSize \in Nat

VARIABLES
    pc,            \* where each job is in jobWork
    snap,          \* the length in the node description a job holds
    interrupted,   \* the jobs whose thread has been interrupted
    transfers,     \* the transfers table: the state of each job's endpoint
    results,       \* the results table: the jobs with details
    status,        \* nodes.status
    length,        \* the length property of the node
    size,          \* the size of the file in the backend
    fileNewer,     \* the file was written after the last update of the row
    req,           \* where each request is in putNode or getData
    via,           \* the job whose endpoint a request uses
    seen,          \* the size a PUT has measured
    asker          \* the caller waiting in getResultsDetails for each job

jobVars  == <<pc, snap, interrupted>>
nodeVars == <<status, length, size, fileNewer>>
reqVars  == <<req, via, seen>>
vars == <<jobVars, transfers, results, nodeVars, reqVars, asker>>

Ended == {"completed", "aborted", "error"}
Running == {"begin", "busy", "save", "fetch", "fill", "result", "wait", "check",
            "store", "reset", "unbusy", "unsave", "end"}
PutPart == {"open", "fill", "measure", "update"}

(* The phase the UWS reports for a job whose thread runs. *)
Executing(j) == pc[j] \in Running

TypeOK ==
    /\ pc \in [Jobs -> Running \cup Ended \cup {"new"}]
    /\ snap \in [Jobs -> Sizes]
    /\ interrupted \subseteq Jobs
    /\ transfers \in [Jobs -> {"none", "open", "done"}]
    /\ results \subseteq Jobs
    /\ status \in {"free", "busy"}
    /\ length \in Sizes /\ size \in Sizes /\ fileNewer \in BOOLEAN
    /\ req \in [Requests -> PutPart \cup {"idle", "close", "done"}]
    /\ via \in [Requests -> Jobs \cup {None}]
    /\ seen \in [Requests -> Sizes]
    /\ asker \in [OfferJobs -> {"none", "phase", "sleep", "got", "empty"}]

Init ==
    /\ pc = [j \in Jobs |-> "new"]
    /\ snap = [j \in Jobs |-> 0]
    /\ interrupted = {}
    /\ transfers = [j \in Jobs |-> "none"]
    /\ results = {}
    /\ status = "free"
    /\ length \in Sizes /\ size = length /\ fileNewer = FALSE
    /\ req = [r \in Requests |-> "idle"]
    /\ via = [r \in Requests |-> None]
    /\ seen = [r \in Requests |-> 0]
    /\ asker = [j \in OfferJobs |-> "none"]

(***************************************************************************)
(* The store and the backend                                               *)
(***************************************************************************)
(* store.updateData(uri, node): all the properties of the description, then *)
(* the modification date of the row.                                        *)
UpdateData(len) == length' = len /\ fileNewer' = FALSE

(* store.setStatus; MySQL dates a row anew when an update changes it. *)
SetStatus(new) == status' = new /\ fileNewer' = (fileNewer /\ status = new)

(* backend.putBytes, first half: opening the stream empties the file. *)
Truncate == size' = 0 /\ fileNewer' = TRUE

\* Mutant: the stream appends to the file it was opened on.
FillAppends(n) == size' = size + n /\ fileNewer' = TRUE

(* backend.putBytes, second half.  A writer of the same file keeps its own  *)
(* position, so the longer of two overlapping contents decides the size.    *)
Fill(n) == size' = (IF n > size THEN n ELSE size) /\ fileNewer' = TRUE

(* manager.hasBeenUpdated: the row's date has whole seconds, so a file      *)
(* written before the row may look newer; one written after it does not     *)
(* look older (one clock).                                                  *)
MayLookUpdated == IF fileNewer THEN {TRUE} ELSE BOOLEAN

Goto(j, label) == pc' = [pc EXCEPT ![j] = label]

(* The description a job has sent back is not used again. *)
Forget(j) == snap' = [snap EXCEPT ![j] = 0]

(* The thread of a job ends, and with it what only the thread knew. *)
Finish(j, phase) == Goto(j, phase) /\ Forget(j) /\ interrupted' = interrupted \ {j}

(***************************************************************************)
(* TransferJob.jobWork                                                     *)
(***************************************************************************)
(* The UWS starts the thread of a job. *)
Submit(j) ==
    /\ pc[j] = "new"
    /\ Goto(j, "begin")
    /\ UNCHANGED <<snap, interrupted, transfers, results, nodeVars, reqVars, asker>>

(* The UWS aborts a job: it interrupts the thread. *)
Abort(j) ==
    /\ Executing(j) /\ j \notin interrupted
    /\ interrupted' = interrupted \cup {j}
    /\ UNCHANGED <<pc, snap, transfers, results, nodeVars, reqVars, asker>>

(* Any statement may throw; jobWork wraps and rethrows, and cleans up       *)
(* nothing.                                                                 *)
JobFails(j) ==
    /\ Executing(j)
    /\ Finish(j, "error")
    /\ UNCHANGED <<transfers, results, nodeVars, reqVars, asker>>

(* Dispatch.  The upload directions read the node; a job that offers an     *)
(* endpoint registers it (store.storeTransfer), unknown to anybody yet.     *)
Begin(j) ==
    /\ pc[j] = "begin"
    /\ IF j \in interrupted
         THEN Goto(j, "end") /\ UNCHANGED <<snap, transfers>>
         ELSE /\ Goto(j, IF j \in UploadJobs THEN "busy" ELSE "result")
              /\ snap' = IF j \in UploadJobs THEN [snap EXCEPT ![j] = length] ELSE snap
              /\ transfers' = IF j \in OfferJobs THEN [transfers EXCEPT ![j] = "open"]
                                                 ELSE transfers
    /\ UNCHANGED <<interrupted, results, nodeVars, reqVars, asker>>

(* setNodeStatus(node, STATUS_BUSY), first statement *)
MarkBusy(j) ==
    /\ pc[j] = "busy"
    /\ SetStatus("busy")
    /\ Goto(j, "save")
    /\ UNCHANGED <<snap, interrupted, transfers, results, length, size, reqVars, asker>>

(* setNodeStatus(node, STATUS_BUSY), second statement: the whole node goes  *)
(* back as it was read.                                                     *)
SaveBusy(j) ==
    /\ pc[j] = "save"
    /\ UpdateData(snap[j]) /\ Forget(j)
    /\ Goto(j, IF j \in ImportJobs THEN "fetch" ELSE "result")
    /\ UNCHANGED <<interrupted, transfers, results, status, size, reqVars, asker>>

(* store.addResult: only now can a caller learn the endpoint. *)
AddResult(j) ==
    /\ pc[j] = "result"
    /\ results' = results \cup {j}
    /\ Goto(j, "wait")
    /\ UNCHANGED <<snap, interrupted, transfers, nodeVars, reqVars, asker>>

(* performTransfer: the other server has answered and the file is opened *)
Fetch(j) ==
    /\ pc[j] = "fetch"
    /\ Truncate
    /\ Goto(j, "fill")
    /\ UNCHANGED <<snap, interrupted, transfers, results, status, length, reqVars, asker>>

(* performTransfer: the bytes are in the file *)
FetchFill(j) ==
    /\ pc[j] = "fill"
    /\ \E n \in Sizes : Fill(n)
    /\ Goto(j, "reset")
    /\ UNCHANGED <<snap, interrupted, transfers, results, status, length, reqVars, asker>>

\* Mutant: a push job stops waiting after a while, as a pull job does.
PollTimesOut(j) ==
    /\ pc[j] = "wait" /\ j \notin interrupted
    /\ Goto(j, "check")
    /\ UNCHANGED <<snap, interrupted, transfers, results, nodeVars, reqVars, asker>>

(* The waiting loop ends: a push job has seen its transfer completed; a     *)
(* pull job goes on once its two seconds are over, used or not.             *)
Poll(j) ==
    /\ pc[j] = "wait" /\ j \notin interrupted
    /\ j \in PushJobs => transfers[j] = "done"
    /\ Goto(j, "check")
    /\ UNCHANGED <<snap, interrupted, transfers, results, nodeVars, reqVars, asker>>

(* An interrupt during the sleep leaves jobWork at once; one that is seen   *)
(* by the loop condition only leaves the loop.                              *)
WaitInterrupted(j) ==
    /\ pc[j] = "wait" /\ j \in interrupted
    /\ \/ Finish(j, "aborted")
       \/ Goto(j, "check") /\ UNCHANGED <<snap, interrupted>>
    /\ UNCHANGED <<transfers, results, nodeVars, reqVars, asker>>

\* Mutant: the job trusts the length that the upload left behind.
CheckSkipped(j) ==
    /\ pc[j] = "check"
    /\ Goto(j, "reset")
    /\ UNCHANGED <<snap, interrupted, transfers, results, nodeVars, reqVars, asker>>

(* if (manager.hasBeenUpdated(target)): getNode, manager.setLength(node) *)
Check(j) ==
    /\ pc[j] = "check"
    /\ \E updated \in MayLookUpdated :
         /\ Goto(j, IF updated THEN "store" ELSE "reset")
         /\ snap' = IF updated THEN [snap EXCEPT ![j] = size] ELSE snap
    /\ UNCHANGED <<interrupted, transfers, results, nodeVars, reqVars, asker>>

(* store.updateData(target, node.toString()) *)
StoreLength(j) ==
    /\ pc[j] = "store"
    /\ UpdateData(snap[j]) /\ Forget(j)
    /\ Goto(j, "reset")
    /\ UNCHANGED <<interrupted, transfers, results, status, size, reqVars, asker>>

\* Mutant: only a pushToVoSpace job frees its node.
ResetPushOnly(j) ==
    /\ pc[j] = "reset"
    /\ IF j \in PushJobs /\ j \notin interrupted
         THEN Goto(j, "unbusy") /\ snap' = [snap EXCEPT ![j] = length]
         ELSE Goto(j, "end") /\ UNCHANGED snap
    /\ UNCHANGED <<interrupted, transfers, results, nodeVars, reqVars, asker>>

(* Reset node status: the upload directions read the node once more, unless *)
(* the job was interrupted.                                                 *)
Reset(j) ==
    /\ pc[j] = "reset"
    /\ IF j \in UploadJobs /\ j \notin interrupted
         THEN Goto(j, "unbusy") /\ snap' = [snap EXCEPT ![j] = length]
         ELSE Goto(j, "end") /\ UNCHANGED snap
    /\ UNCHANGED <<interrupted, transfers, results, nodeVars, reqVars, asker>>

(* setNodeStatus(node, STATUS_FREE), first statement *)
MarkFree(j) ==
    /\ pc[j] = "unbusy"
    /\ SetStatus("free")
    /\ Goto(j, "unsave")
    /\ UNCHANGED <<snap, interrupted, transfers, results, length, size, reqVars, asker>>

(* setNodeStatus(node, STATUS_FREE), second statement *)
SaveFree(j) ==
    /\ pc[j] = "unsave"
    /\ UpdateData(snap[j]) /\ Forget(j)
    /\ Goto(j, "end")
    /\ UNCHANGED <<interrupted, transfers, results, status, size, reqVars, asker>>

(* The end of jobWork: an interrupted job reports it. *)
End(j) ==
    /\ pc[j] = "end"
    /\ Finish(j, IF j \in interrupted THEN "aborted" ELSE "completed")
    /\ UNCHANGED <<transfers, results, nodeVars, reqVars, asker>>

JobStep(j) ==
    \/ Begin(j) \/ MarkBusy(j) \/ SaveBusy(j) \/ AddResult(j)
    \/ Fetch(j) \/ FetchFill(j) \/ Poll(j) \/ WaitInterrupted(j)
    \/ Check(j) \/ StoreLength(j)
    \/ Reset(j) \/ MarkFree(j) \/ SaveFree(j) \/ End(j)

(***************************************************************************)
(* TransferResource.getResultsDetails                                      *)
(***************************************************************************)
(* A caller asks for the details of a job that was run, or asks again. *)
Ask(j) ==
    /\ asker[j] \in {"none", "empty"} /\ pc[j] # "new"
    /\ asker' = [asker EXCEPT ![j] = "phase"]
    /\ UNCHANGED <<jobVars, transfers, results, nodeVars, reqVars>>

(* while (phase == EXECUTING && details == null); without details the       *)
(* answer is an empty transfer.                                             *)
AskPhase(j) ==
    /\ asker[j] = "phase"
    /\ asker' = [asker EXCEPT ![j] = IF Executing(j) THEN "sleep" ELSE "empty"]
    /\ UNCHANGED <<jobVars, transfers, results, nodeVars, reqVars>>

\* Mutant: the caller is answered after one look at the results.
AskReadOnce(j) ==
    /\ asker[j] = "sleep"
    /\ asker' = [asker EXCEPT ![j] = IF j \in results THEN "got" ELSE "empty"]
    /\ UNCHANGED <<jobVars, transfers, results, nodeVars, reqVars>>

\* Mutant: the caller never looks at the phase again.
AskReadForever(j) ==
    /\ asker[j] = "sleep"
    /\ asker' = [asker EXCEPT ![j] = IF j \in results THEN "got" ELSE "sleep"]
    /\ UNCHANGED <<jobVars, transfers, results, nodeVars, reqVars>>

(* sleep(1000); details = store.getResult(id) *)
AskRead(j) ==
    /\ asker[j] = "sleep"
    /\ asker' = [asker EXCEPT ![j] = IF j \in results THEN "got" ELSE "phase"]
    /\ UNCHANGED <<jobVars, transfers, results, nodeVars, reqVars>>

(***************************************************************************)
(* DataResource: putNode and getData                                       *)
(***************************************************************************)
ReqGoto(r, label) == req' = [req EXCEPT ![r] = label]

(* A client that got the details PUTs: resolveLocation rejects a completed  *)
(* transfer, and the finally clause runs for a rejected one too.            *)
PutResolve(r) ==
    /\ req[r] = "idle"
    /\ \E j \in PushJobs :
         /\ asker[j] = "got"
         /\ via' = [via EXCEPT ![r] = j]
         /\ ReqGoto(r, IF transfers[j] = "open" THEN "open" ELSE "close")
    /\ UNCHANGED <<seen, jobVars, transfers, results, nodeVars, asker>>

(* backend.putBytes *)
PutOpen(r) ==
    /\ req[r] = "open"
    /\ Truncate
    /\ ReqGoto(r, "fill")
    /\ UNCHANGED <<via, seen, jobVars, transfers, results, status, length, asker>>

PutFill(r) ==
    /\ req[r] = "fill"
    /\ \E n \in Sizes : Fill(n)
    /\ ReqGoto(r, "measure")
    /\ UNCHANGED <<via, seen, jobVars, transfers, results, status, length, asker>>

(* backend.size(location), the argument of updateSize *)
PutMeasure(r) ==
    /\ req[r] = "measure"
    /\ seen' = [seen EXCEPT ![r] = size]
    /\ ReqGoto(r, "update")
    /\ UNCHANGED <<via, jobVars, transfers, results, nodeVars, asker>>

(* manager.updateSize *)
PutUpdate(r) ==
    /\ req[r] = "update"
    /\ UpdateData(seen[r]) /\ seen' = [seen EXCEPT ![r] = 0]
    /\ ReqGoto(r, "close")
    /\ UNCHANGED <<via, jobVars, transfers, results, status, size, asker>>

\* Mutant: a failed upload leaves without the finally clause.
PutFailsOut(r) ==
    /\ req[r] \in PutPart
    /\ ReqGoto(r, "done")
    /\ seen' = [seen EXCEPT ![r] = 0]
    /\ UNCHANGED <<via, jobVars, transfers, results, nodeVars, asker>>

(* Any of these steps may throw; the finally clause is next. *)
PutFails(r) ==
    /\ req[r] \in PutPart
    /\ ReqGoto(r, "close")
    /\ seen' = [seen EXCEPT ![r] = 0]
    /\ UNCHANGED <<via, jobVars, transfers, results, nodeVars, asker>>

(* getData resolves in the same way; a rejected request ends. *)
GetResolve(r) ==
    /\ req[r] = "idle"
    /\ \E j \in PullJobs :
         /\ asker[j] = "got"
         /\ via' = [via EXCEPT ![r] = j]
         /\ ReqGoto(r, IF transfers[j] = "open" THEN "close" ELSE "done")
    /\ UNCHANGED <<seen, jobVars, transfers, results, nodeVars, asker>>

(* invalidateLocation: in the finally clause of a PUT, before the bytes are *)
(* sent in a GET.                                                           *)
Invalidate(r) ==
    /\ req[r] = "close"
    /\ transfers' = [transfers EXCEPT ![via[r]] = "done"]
    /\ ReqGoto(r, "done")
    /\ UNCHANGED <<via, seen, jobVars, results, nodeVars, asker>>

RequestStep(r) ==
    PutOpen(r) \/ PutFill(r) \/ PutMeasure(r) \/ PutUpdate(r) \/ Invalidate(r)

Next ==
    \/ \E j \in Jobs : Submit(j) \/ Abort(j) \/ JobFails(j) \/ JobStep(j)
    \/ \E j \in OfferJobs : Ask(j) \/ AskPhase(j) \/ AskRead(j)
    \/ \E r \in Requests : PutResolve(r) \/ GetResolve(r) \/ PutFails(r) \/ RequestStep(r)

Spec == Init /\ [][Next]_vars

(* Threads of the container run on; nobody has to start, abort or ask. *)
FairSpec ==
    /\ Spec
    /\ \A j \in Jobs : WF_vars(JobStep(j))
    /\ \A j \in OfferJobs : WF_vars(AskPhase(j)) /\ WF_vars(AskRead(j))
    /\ \A r \in Requests : WF_vars(RequestStep(r))

(***************************************************************************)
(* Properties                                                              *)
(***************************************************************************)
(* A push job reports success only if a request for its endpoint has come   *)
(* and gone: the polling loop cannot be left in any other way.              *)
CompletedAfterUse ==
    \A j \in PushJobs : pc[j] = "completed" =>
        \E r \in Requests : via[r] = j /\ req[r] = "done"

(* The client that is to upload is never sent away without an endpoint      *)
(* unless the job was aborted or failed: getResultsDetails gives up only    *)
(* when the job is over, and a push job cannot be over before the client    *)
(* has its details.                                                         *)
UploaderGetsEndpoint ==
    \A j \in PushJobs : asker[j] = "empty" => pc[j] \in {"aborted", "error"}

(* A node is marked busy only while an upload job will still free it, or    *)
(* because one ended badly: jobs that complete leave it free, whatever the  *)
(* order of their two status updates.                                       *)
WillFree(j) ==
    \/ pc[j] \in {"save", "fetch", "fill", "result", "wait", "check",
                  "store", "reset", "unbusy"}
    \/ pc[j] = "end" /\ j \in interrupted
    \/ pc[j] \in {"aborted", "error"}
BusyHasCause == status = "busy" => \E j \in UploadJobs : WillFree(j)

(* An upload that nothing else overlaps (no other job was run, one request  *)
(* was made) leaves the length equal to the size of the stored file, also   *)
(* when the request failed half way: the job measures the file itself       *)
(* unless the row was updated after the file.                               *)
Lone(j) ==
    /\ \A k \in Jobs \ {j} : pc[k] = "new"
    /\ \A q, r \in Requests : q # r => req[q] = "idle" \/ req[r] = "idle"
LoneUploadLength ==
    \A j \in PushJobs : Lone(j) /\ pc[j] = "completed" => length = size

(* A PUT that was let in ends its job, whether the upload succeeds or       *)
(* fails: invalidateLocation is in a finally clause and the job polls.      *)
UploadEndsJob ==
    \A r \in Requests, j \in PushJobs :
        (req[r] = "open" /\ via[r] = j) ~> (pc[j] \in Ended)

(* A caller of getResultsDetails is answered, whatever becomes of the job. *)
AskerAnswered == \A j \in OfferJobs : asker[j] = "sleep" ~> asker[j] \in {"got", "empty"}
=============================================================================
