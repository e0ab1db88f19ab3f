-------------------------- MODULE TransferJob_proofs --------------------------
(***************************************************************************)
(* Proofs about the transfers of a node, for any sets of jobs and requests *)
(* and any file sizes.  The inductive invariant joins four arguments: a    *)
(* push job leaves its loop only after its transfer was completed, and     *)
(* that only a request does (UseInv); a request for an upload exists only  *)
(* when its client has been given the details (AskInv); whoever marks the  *)
(* node busy still has its own reset to do (BusyHasCause); and a job that  *)
(* nothing overlaps knows what it left in the node (LoneInv).              *)
(***************************************************************************)
EXTENDS TransferJob, TLAPS

(* Where a push job is once its loop is over. *)
AfterLoop == {"check", "store", "reset", "unbusy", "unsave", "end"}

(* A completed transfer was completed by a request that is over, and a push *)
(* job that was not interrupted gets past its loop only by seeing that.     *)
UseInv ==
    /\ \A r \in Requests : req[r] # "idle" => via[r] \in OfferJobs
    /\ \A j \in PushJobs : transfers[j] = "done" =>
          \E r \in Requests : via[r] = j /\ req[r] = "done"
    /\ \A j \in PushJobs : pc[j] \in AfterLoop /\ j \notin interrupted =>
          transfers[j] = "done"
    /\ \A j \in PushJobs : pc[j] = "completed" => transfers[j] = "done"

(* Requests come from clients that have the details, and nobody asks about  *)
(* a job that was not run.                                                  *)
AskInv ==
    /\ \A r \in Requests : via[r] \in PushJobs => asker[via[r]] = "got"
    /\ \A j \in OfferJobs : asker[j] # "none" => pc[j] # "new"

(* Which direction a job has, where it can be told from its place. *)
Control ==
    /\ \A j \in Jobs : pc[j] = "busy" => j \in UploadJobs
    /\ \A j \in Jobs : pc[j] \in {"fetch", "fill"} => j \in ImportJobs

(* Every step keeps the types: what goes into the node is 0, a size that    *)
(* was measured, or a length that was read. *)
LEMMA TypeStep ==
    ASSUME TypeOK, [Next]_vars
    PROVE  TypeOK'
<1> USE DEF Jobs, UploadJobs, OfferJobs, Running, Ended, PutPart
<1>sizes. /\ 0 \in Sizes
          /\ \A m, n \in Sizes : (IF n > m THEN n ELSE m) \in Sizes
  BY MaxSizeIsNat DEF Sizes
<1>Submit. ASSUME NEW j \in Jobs, Submit(j)
      PROVE  TypeOK'
  BY <1>Submit DEF Submit, Goto, TypeOK, jobVars, nodeVars, reqVars
<1>Abort. ASSUME NEW j \in Jobs, Abort(j)
      PROVE  TypeOK'
  BY <1>Abort DEF Abort, TypeOK, jobVars, nodeVars, reqVars
<1>JobFails. ASSUME NEW j \in Jobs, JobFails(j)
      PROVE  TypeOK'
  BY <1>JobFails, <1>sizes DEF JobFails, Finish, Goto, Forget, TypeOK, jobVars, nodeVars, reqVars
<1>Begin. ASSUME NEW j \in Jobs, Begin(j)
      PROVE  TypeOK'
  BY <1>Begin DEF Begin, Goto, TypeOK, jobVars, nodeVars, reqVars
<1>MarkBusy. ASSUME NEW j \in Jobs, MarkBusy(j)
      PROVE  TypeOK'
  BY <1>MarkBusy DEF MarkBusy, Goto, SetStatus, TypeOK, jobVars, nodeVars, reqVars
<1>SaveBusy. ASSUME NEW j \in Jobs, SaveBusy(j)
      PROVE  TypeOK'
  <2>1. snap[j] \in Sizes /\ UpdateData(snap[j])
    BY <1>SaveBusy DEF SaveBusy, TypeOK
  <2>2. length' \in Sizes /\ fileNewer' \in BOOLEAN
    BY <2>1 DEF UpdateData
  <2> QED
    BY <1>SaveBusy, <1>sizes, <2>2 DEF SaveBusy, Goto, Forget, TypeOK, jobVars, nodeVars, reqVars
<1>AddResult. ASSUME NEW j \in Jobs, AddResult(j)
      PROVE  TypeOK'
  BY <1>AddResult DEF AddResult, Goto, TypeOK, jobVars, nodeVars, reqVars
<1>Fetch. ASSUME NEW j \in Jobs, Fetch(j)
      PROVE  TypeOK'
  BY <1>Fetch, <1>sizes DEF Fetch, Goto, Truncate, TypeOK, jobVars, nodeVars, reqVars
<1>FetchFill. ASSUME NEW j \in Jobs, FetchFill(j)
      PROVE  TypeOK'
  BY <1>FetchFill, <1>sizes DEF FetchFill, Goto, Fill, TypeOK, jobVars, nodeVars, reqVars
<1>Poll. ASSUME NEW j \in Jobs, Poll(j)
      PROVE  TypeOK'
  BY <1>Poll DEF Poll, Goto, TypeOK, jobVars, nodeVars, reqVars
<1>WaitInterrupted. ASSUME NEW j \in Jobs, WaitInterrupted(j)
      PROVE  TypeOK'
  BY <1>WaitInterrupted, <1>sizes DEF WaitInterrupted, Goto, Finish, Forget, TypeOK, jobVars, nodeVars, reqVars
<1>Check. ASSUME NEW j \in Jobs, Check(j)
      PROVE  TypeOK'
  BY <1>Check, <1>sizes DEF Check, Goto, MayLookUpdated, TypeOK, jobVars, nodeVars, reqVars
<1>StoreLength. ASSUME NEW j \in Jobs, StoreLength(j)
      PROVE  TypeOK'
  <2>1. snap[j] \in Sizes /\ UpdateData(snap[j])
    BY <1>StoreLength DEF StoreLength, TypeOK
  <2>2. length' \in Sizes /\ fileNewer' \in BOOLEAN
    BY <2>1 DEF UpdateData
  <2> QED
    BY <1>StoreLength, <1>sizes, <2>2 DEF StoreLength, Goto, Forget, TypeOK, jobVars, nodeVars, reqVars
<1>Reset. ASSUME NEW j \in Jobs, Reset(j)
      PROVE  TypeOK'
  BY <1>Reset DEF Reset, Goto, TypeOK, jobVars, nodeVars, reqVars
<1>MarkFree. ASSUME NEW j \in Jobs, MarkFree(j)
      PROVE  TypeOK'
  BY <1>MarkFree DEF MarkFree, Goto, SetStatus, TypeOK, jobVars, nodeVars, reqVars
<1>SaveFree. ASSUME NEW j \in Jobs, SaveFree(j)
      PROVE  TypeOK'
  <2>1. snap[j] \in Sizes /\ UpdateData(snap[j])
    BY <1>SaveFree DEF SaveFree, TypeOK
  <2>2. length' \in Sizes /\ fileNewer' \in BOOLEAN
    BY <2>1 DEF UpdateData
  <2> QED
    BY <1>SaveFree, <1>sizes, <2>2 DEF SaveFree, Goto, Forget, TypeOK, jobVars, nodeVars, reqVars
<1>End. ASSUME NEW j \in Jobs, End(j)
      PROVE  TypeOK'
  BY <1>End, <1>sizes DEF End, Goto, Finish, Forget, TypeOK, jobVars, nodeVars, reqVars
<1>Ask. ASSUME NEW j \in OfferJobs, Ask(j)
      PROVE  TypeOK'
  BY <1>Ask DEF Ask, TypeOK, jobVars, nodeVars, reqVars
<1>AskPhase. ASSUME NEW j \in OfferJobs, AskPhase(j)
      PROVE  TypeOK'
  BY <1>AskPhase DEF AskPhase, TypeOK, jobVars, nodeVars, reqVars
<1>AskRead. ASSUME NEW j \in OfferJobs, AskRead(j)
      PROVE  TypeOK'
  BY <1>AskRead DEF AskRead, TypeOK, jobVars, nodeVars, reqVars
<1>PutResolve. ASSUME NEW r \in Requests, PutResolve(r)
      PROVE  TypeOK'
  BY <1>PutResolve DEF PutResolve, ReqGoto, TypeOK, jobVars, nodeVars, reqVars
<1>GetResolve. ASSUME NEW r \in Requests, GetResolve(r)
      PROVE  TypeOK'
  BY <1>GetResolve DEF GetResolve, ReqGoto, TypeOK, jobVars, nodeVars, reqVars
<1>PutFails. ASSUME NEW r \in Requests, PutFails(r)
      PROVE  TypeOK'
  BY <1>PutFails, <1>sizes DEF PutFails, ReqGoto, TypeOK, jobVars, nodeVars, reqVars
<1>PutOpen. ASSUME NEW r \in Requests, PutOpen(r)
      PROVE  TypeOK'
  BY <1>PutOpen, <1>sizes DEF PutOpen, ReqGoto, Truncate, TypeOK, jobVars, nodeVars, reqVars
<1>PutFill. ASSUME NEW r \in Requests, PutFill(r)
      PROVE  TypeOK'
  BY <1>PutFill, <1>sizes DEF PutFill, ReqGoto, Fill, TypeOK, jobVars, nodeVars, reqVars
<1>PutMeasure. ASSUME NEW r \in Requests, PutMeasure(r)
      PROVE  TypeOK'
  BY <1>PutMeasure DEF PutMeasure, ReqGoto, TypeOK, jobVars, nodeVars, reqVars
<1>PutUpdate. ASSUME NEW r \in Requests, PutUpdate(r)
      PROVE  TypeOK'
  <2>1. seen[r] \in Sizes /\ UpdateData(seen[r])
    BY <1>PutUpdate DEF PutUpdate, TypeOK
  <2>2. length' \in Sizes /\ fileNewer' \in BOOLEAN
    BY <2>1 DEF UpdateData
  <2> QED
    BY <1>PutUpdate, <1>sizes, <2>2 DEF PutUpdate, ReqGoto, TypeOK, jobVars, nodeVars, reqVars
<1>Invalidate. ASSUME NEW r \in Requests, Invalidate(r)
      PROVE  TypeOK'
  BY <1>Invalidate DEF Invalidate, ReqGoto, TypeOK, jobVars, nodeVars, reqVars
<1>stutter. CASE UNCHANGED vars
  BY <1>stutter DEF vars, TypeOK, jobVars, nodeVars, reqVars
<1> QED
  BY <1>Submit, <1>Abort, <1>JobFails, <1>Begin, <1>MarkBusy, <1>SaveBusy,
     <1>AddResult, <1>Fetch, <1>FetchFill, <1>Poll, <1>WaitInterrupted,
     <1>Check, <1>StoreLength, <1>Reset, <1>MarkFree, <1>SaveFree, <1>End,
     <1>Ask, <1>AskPhase, <1>AskRead, <1>PutResolve, <1>GetResolve,
     <1>PutFails, <1>PutOpen, <1>PutFill, <1>PutMeasure, <1>PutUpdate,
     <1>Invalidate, <1>stutter
  DEF Next, JobStep, RequestStep

(* No step completes a transfer but that of a request that ends with it, and *)
(* no push job that was not interrupted passes its loop without it. *)
LEMMA UseStep ==
    ASSUME TypeOK, UseInv, AskInv, Control, TypeOK', [Next]_vars
    PROVE  UseInv'
<1> USE NoneIsNoJob, JobKindsDisjoint DEF Jobs, UploadJobs, OfferJobs, Running, Ended, PutPart
<1>Submit. ASSUME NEW j \in Jobs, Submit(j)
      PROVE  UseInv'
  BY <1>Submit DEF Submit, Goto, TypeOK, Control, UseInv, AskInv, AfterLoop, jobVars, nodeVars, reqVars
<1>Abort. ASSUME NEW j \in Jobs, Abort(j)
      PROVE  UseInv'
  BY <1>Abort DEF Abort, TypeOK, Control, UseInv, AskInv, AfterLoop, jobVars, nodeVars, reqVars
<1>JobFails. ASSUME NEW j \in Jobs, JobFails(j)
      PROVE  UseInv'
  BY <1>JobFails DEF JobFails, Finish, Goto, Forget, TypeOK, Control, UseInv, AskInv, AfterLoop, jobVars, nodeVars, reqVars
<1>Begin. ASSUME NEW j \in Jobs, Begin(j)
      PROVE  UseInv'
  BY <1>Begin DEF Begin, Goto, TypeOK, Control, UseInv, AskInv, AfterLoop, jobVars, nodeVars, reqVars
<1>MarkBusy. ASSUME NEW j \in Jobs, MarkBusy(j)
      PROVE  UseInv'
  BY <1>MarkBusy DEF MarkBusy, Goto, SetStatus, TypeOK, Control, UseInv, AskInv, AfterLoop, jobVars, nodeVars, reqVars
<1>SaveBusy. ASSUME NEW j \in Jobs, SaveBusy(j)
      PROVE  UseInv'
  BY <1>SaveBusy DEF SaveBusy, Goto, Forget, TypeOK, Control, UseInv, AskInv, AfterLoop, jobVars, nodeVars, reqVars
<1>AddResult. ASSUME NEW j \in Jobs, AddResult(j)
      PROVE  UseInv'
  BY <1>AddResult DEF AddResult, Goto, TypeOK, Control, UseInv, AskInv, AfterLoop, jobVars, nodeVars, reqVars
<1>Fetch. ASSUME NEW j \in Jobs, Fetch(j)
      PROVE  UseInv'
  BY <1>Fetch DEF Fetch, Goto, TypeOK, Control, UseInv, AskInv, AfterLoop, jobVars, nodeVars, reqVars
<1>FetchFill. ASSUME NEW j \in Jobs, FetchFill(j)
      PROVE  UseInv'
  BY <1>FetchFill DEF FetchFill, Goto, TypeOK, Control, UseInv, AskInv, AfterLoop, jobVars, nodeVars, reqVars
<1>Poll. ASSUME NEW j \in Jobs, Poll(j)
      PROVE  UseInv'
  BY <1>Poll DEF Poll, Goto, TypeOK, Control, UseInv, AskInv, AfterLoop, jobVars, nodeVars, reqVars
<1>WaitInterrupted. ASSUME NEW j \in Jobs, WaitInterrupted(j)
      PROVE  UseInv'
  BY <1>WaitInterrupted DEF WaitInterrupted, Goto, Finish, Forget, TypeOK, Control, UseInv, AskInv, AfterLoop, jobVars, nodeVars, reqVars
<1>Check. ASSUME NEW j \in Jobs, Check(j)
      PROVE  UseInv'
  BY <1>Check DEF Check, Goto, TypeOK, Control, UseInv, AskInv, AfterLoop, jobVars, nodeVars, reqVars
<1>StoreLength. ASSUME NEW j \in Jobs, StoreLength(j)
      PROVE  UseInv'
  BY <1>StoreLength DEF StoreLength, Goto, Forget, TypeOK, Control, UseInv, AskInv, AfterLoop, jobVars, nodeVars, reqVars
<1>Reset. ASSUME NEW j \in Jobs, Reset(j)
      PROVE  UseInv'
  BY <1>Reset DEF Reset, Goto, TypeOK, Control, UseInv, AskInv, AfterLoop, jobVars, nodeVars, reqVars
<1>MarkFree. ASSUME NEW j \in Jobs, MarkFree(j)
      PROVE  UseInv'
  BY <1>MarkFree DEF MarkFree, Goto, SetStatus, TypeOK, Control, UseInv, AskInv, AfterLoop, jobVars, nodeVars, reqVars
<1>SaveFree. ASSUME NEW j \in Jobs, SaveFree(j)
      PROVE  UseInv'
  BY <1>SaveFree DEF SaveFree, Goto, Forget, TypeOK, Control, UseInv, AskInv, AfterLoop, jobVars, nodeVars, reqVars
<1>End. ASSUME NEW j \in Jobs, End(j)
      PROVE  UseInv'
  BY <1>End DEF End, Goto, Finish, Forget, TypeOK, Control, UseInv, AskInv, AfterLoop, jobVars, nodeVars, reqVars
<1>Ask. ASSUME NEW j \in OfferJobs, Ask(j)
      PROVE  UseInv'
  BY <1>Ask DEF Ask, TypeOK, Control, UseInv, AskInv, AfterLoop, jobVars, nodeVars, reqVars
<1>AskPhase. ASSUME NEW j \in OfferJobs, AskPhase(j)
      PROVE  UseInv'
  BY <1>AskPhase DEF AskPhase, TypeOK, Control, UseInv, AskInv, AfterLoop, jobVars, nodeVars, reqVars
<1>AskRead. ASSUME NEW j \in OfferJobs, AskRead(j)
      PROVE  UseInv'
  BY <1>AskRead DEF AskRead, TypeOK, Control, UseInv, AskInv, AfterLoop, jobVars, nodeVars, reqVars
<1>PutResolve. ASSUME NEW r \in Requests, PutResolve(r)
      PROVE  UseInv'
  BY <1>PutResolve DEF PutResolve, ReqGoto, TypeOK, Control, UseInv, AskInv, AfterLoop, jobVars, nodeVars, reqVars
<1>GetResolve. ASSUME NEW r \in Requests, GetResolve(r)
      PROVE  UseInv'
  BY <1>GetResolve DEF GetResolve, ReqGoto, TypeOK, Control, UseInv, AskInv, AfterLoop, jobVars, nodeVars, reqVars
<1>PutFails. ASSUME NEW r \in Requests, PutFails(r)
      PROVE  UseInv'
  BY <1>PutFails DEF PutFails, ReqGoto, TypeOK, Control, UseInv, AskInv, AfterLoop, jobVars, nodeVars, reqVars
<1>PutOpen. ASSUME NEW r \in Requests, PutOpen(r)
      PROVE  UseInv'
  BY <1>PutOpen DEF PutOpen, ReqGoto, TypeOK, Control, UseInv, AskInv, AfterLoop, jobVars, nodeVars, reqVars
<1>PutFill. ASSUME NEW r \in Requests, PutFill(r)
      PROVE  UseInv'
  BY <1>PutFill DEF PutFill, ReqGoto, TypeOK, Control, UseInv, AskInv, AfterLoop, jobVars, nodeVars, reqVars
<1>PutMeasure. ASSUME NEW r \in Requests, PutMeasure(r)
      PROVE  UseInv'
  BY <1>PutMeasure DEF PutMeasure, ReqGoto, TypeOK, Control, UseInv, AskInv, AfterLoop, jobVars, nodeVars, reqVars
<1>PutUpdate. ASSUME NEW r \in Requests, PutUpdate(r)
      PROVE  UseInv'
  BY <1>PutUpdate DEF PutUpdate, ReqGoto, TypeOK, Control, UseInv, AskInv, AfterLoop, jobVars, nodeVars, reqVars
<1>Invalidate. ASSUME NEW r \in Requests, Invalidate(r)
      PROVE  UseInv'
  BY <1>Invalidate DEF Invalidate, ReqGoto, TypeOK, Control, UseInv, AskInv, AfterLoop, jobVars, nodeVars, reqVars
<1>stutter. CASE UNCHANGED vars
  BY <1>stutter DEF vars, TypeOK, Control, UseInv, AskInv, AfterLoop, jobVars, nodeVars, reqVars
<1> QED
  BY <1>Submit, <1>Abort, <1>JobFails, <1>Begin, <1>MarkBusy, <1>SaveBusy,
     <1>AddResult, <1>Fetch, <1>FetchFill, <1>Poll, <1>WaitInterrupted,
     <1>Check, <1>StoreLength, <1>Reset, <1>MarkFree, <1>SaveFree, <1>End,
     <1>Ask, <1>AskPhase, <1>AskRead, <1>PutResolve, <1>GetResolve,
     <1>PutFails, <1>PutOpen, <1>PutFill, <1>PutMeasure, <1>PutUpdate,
     <1>Invalidate, <1>stutter
  DEF Next, JobStep, RequestStep

(* A request keeps its job, and a client that has its details keeps them. *)
LEMMA AskStep ==
    ASSUME TypeOK, UseInv, AskInv, [Next]_vars
    PROVE  AskInv'
<1> USE NoneIsNoJob, JobKindsDisjoint DEF Jobs, UploadJobs, OfferJobs, Running, Ended, PutPart
<1>Submit. ASSUME NEW j \in Jobs, Submit(j)
      PROVE  AskInv'
  BY <1>Submit DEF Submit, Goto, TypeOK, UseInv, AskInv, jobVars, nodeVars, reqVars
<1>Abort. ASSUME NEW j \in Jobs, Abort(j)
      PROVE  AskInv'
  BY <1>Abort DEF Abort, TypeOK, UseInv, AskInv, jobVars, nodeVars, reqVars
<1>JobFails. ASSUME NEW j \in Jobs, JobFails(j)
      PROVE  AskInv'
  BY <1>JobFails DEF JobFails, Finish, Goto, Forget, TypeOK, UseInv, AskInv, jobVars, nodeVars, reqVars
<1>Begin. ASSUME NEW j \in Jobs, Begin(j)
      PROVE  AskInv'
  BY <1>Begin DEF Begin, Goto, TypeOK, UseInv, AskInv, jobVars, nodeVars, reqVars
<1>MarkBusy. ASSUME NEW j \in Jobs, MarkBusy(j)
      PROVE  AskInv'
  BY <1>MarkBusy DEF MarkBusy, Goto, SetStatus, TypeOK, UseInv, AskInv, jobVars, nodeVars, reqVars
<1>SaveBusy. ASSUME NEW j \in Jobs, SaveBusy(j)
      PROVE  AskInv'
  BY <1>SaveBusy DEF SaveBusy, Goto, Forget, TypeOK, UseInv, AskInv, jobVars, nodeVars, reqVars
<1>AddResult. ASSUME NEW j \in Jobs, AddResult(j)
      PROVE  AskInv'
  BY <1>AddResult DEF AddResult, Goto, TypeOK, UseInv, AskInv, jobVars, nodeVars, reqVars
<1>Fetch. ASSUME NEW j \in Jobs, Fetch(j)
      PROVE  AskInv'
  BY <1>Fetch DEF Fetch, Goto, TypeOK, UseInv, AskInv, jobVars, nodeVars, reqVars
<1>FetchFill. ASSUME NEW j \in Jobs, FetchFill(j)
      PROVE  AskInv'
  BY <1>FetchFill DEF FetchFill, Goto, TypeOK, UseInv, AskInv, jobVars, nodeVars, reqVars
<1>Poll. ASSUME NEW j \in Jobs, Poll(j)
      PROVE  AskInv'
  BY <1>Poll DEF Poll, Goto, TypeOK, UseInv, AskInv, jobVars, nodeVars, reqVars
<1>WaitInterrupted. ASSUME NEW j \in Jobs, WaitInterrupted(j)
      PROVE  AskInv'
  BY <1>WaitInterrupted DEF WaitInterrupted, Goto, Finish, Forget, TypeOK, UseInv, AskInv, jobVars, nodeVars, reqVars
<1>Check. ASSUME NEW j \in Jobs, Check(j)
      PROVE  AskInv'
  BY <1>Check DEF Check, Goto, TypeOK, UseInv, AskInv, jobVars, nodeVars, reqVars
<1>StoreLength. ASSUME NEW j \in Jobs, StoreLength(j)
      PROVE  AskInv'
  BY <1>StoreLength DEF StoreLength, Goto, Forget, TypeOK, UseInv, AskInv, jobVars, nodeVars, reqVars
<1>Reset. ASSUME NEW j \in Jobs, Reset(j)
      PROVE  AskInv'
  BY <1>Reset DEF Reset, Goto, TypeOK, UseInv, AskInv, jobVars, nodeVars, reqVars
<1>MarkFree. ASSUME NEW j \in Jobs, MarkFree(j)
      PROVE  AskInv'
  BY <1>MarkFree DEF MarkFree, Goto, SetStatus, TypeOK, UseInv, AskInv, jobVars, nodeVars, reqVars
<1>SaveFree. ASSUME NEW j \in Jobs, SaveFree(j)
      PROVE  AskInv'
  BY <1>SaveFree DEF SaveFree, Goto, Forget, TypeOK, UseInv, AskInv, jobVars, nodeVars, reqVars
<1>End. ASSUME NEW j \in Jobs, End(j)
      PROVE  AskInv'
  BY <1>End DEF End, Goto, Finish, Forget, TypeOK, UseInv, AskInv, jobVars, nodeVars, reqVars
<1>Ask. ASSUME NEW j \in OfferJobs, Ask(j)
      PROVE  AskInv'
  BY <1>Ask DEF Ask, TypeOK, UseInv, AskInv, jobVars, nodeVars, reqVars
<1>AskPhase. ASSUME NEW j \in OfferJobs, AskPhase(j)
      PROVE  AskInv'
  BY <1>AskPhase DEF AskPhase, TypeOK, UseInv, AskInv, jobVars, nodeVars, reqVars
<1>AskRead. ASSUME NEW j \in OfferJobs, AskRead(j)
      PROVE  AskInv'
  BY <1>AskRead DEF AskRead, TypeOK, UseInv, AskInv, jobVars, nodeVars, reqVars
<1>PutResolve. ASSUME NEW r \in Requests, PutResolve(r)
      PROVE  AskInv'
  BY <1>PutResolve DEF PutResolve, ReqGoto, TypeOK, UseInv, AskInv, jobVars, nodeVars, reqVars
<1>GetResolve. ASSUME NEW r \in Requests, GetResolve(r)
      PROVE  AskInv'
  BY <1>GetResolve DEF GetResolve, ReqGoto, TypeOK, UseInv, AskInv, jobVars, nodeVars, reqVars
<1>PutFails. ASSUME NEW r \in Requests, PutFails(r)
      PROVE  AskInv'
  BY <1>PutFails DEF PutFails, ReqGoto, TypeOK, UseInv, AskInv, jobVars, nodeVars, reqVars
<1>PutOpen. ASSUME NEW r \in Requests, PutOpen(r)
      PROVE  AskInv'
  BY <1>PutOpen DEF PutOpen, ReqGoto, TypeOK, UseInv, AskInv, jobVars, nodeVars, reqVars
<1>PutFill. ASSUME NEW r \in Requests, PutFill(r)
      PROVE  AskInv'
  BY <1>PutFill DEF PutFill, ReqGoto, TypeOK, UseInv, AskInv, jobVars, nodeVars, reqVars
<1>PutMeasure. ASSUME NEW r \in Requests, PutMeasure(r)
      PROVE  AskInv'
  BY <1>PutMeasure DEF PutMeasure, ReqGoto, TypeOK, UseInv, AskInv, jobVars, nodeVars, reqVars
<1>PutUpdate. ASSUME NEW r \in Requests, PutUpdate(r)
      PROVE  AskInv'
  BY <1>PutUpdate DEF PutUpdate, ReqGoto, TypeOK, UseInv, AskInv, jobVars, nodeVars, reqVars
<1>Invalidate. ASSUME NEW r \in Requests, Invalidate(r)
      PROVE  AskInv'
  BY <1>Invalidate DEF Invalidate, ReqGoto, TypeOK, UseInv, AskInv, jobVars, nodeVars, reqVars
<1>stutter. CASE UNCHANGED vars
  BY <1>stutter DEF vars, TypeOK, UseInv, AskInv, jobVars, nodeVars, reqVars
<1> QED
  BY <1>Submit, <1>Abort, <1>JobFails, <1>Begin, <1>MarkBusy, <1>SaveBusy,
     <1>AddResult, <1>Fetch, <1>FetchFill, <1>Poll, <1>WaitInterrupted,
     <1>Check, <1>StoreLength, <1>Reset, <1>MarkFree, <1>SaveFree, <1>End,
     <1>Ask, <1>AskPhase, <1>AskRead, <1>PutResolve, <1>GetResolve,
     <1>PutFails, <1>PutOpen, <1>PutFill, <1>PutMeasure, <1>PutUpdate,
     <1>Invalidate, <1>stutter
  DEF Next, JobStep, RequestStep

(* A caller is sent away only when the job is over; a push job that was     *)
(* completed had its caller served. *)
LEMMA EndpointStep ==
    ASSUME TypeOK, UseInv, AskInv, UploaderGetsEndpoint, [Next]_vars
    PROVE  UploaderGetsEndpoint'
<1> USE DEF Jobs, UploadJobs, OfferJobs, Running, Ended, PutPart
<1>Submit. ASSUME NEW j \in Jobs, Submit(j)
      PROVE  UploaderGetsEndpoint'
  BY <1>Submit DEF Submit, Goto, TypeOK, UseInv, AskInv, UploaderGetsEndpoint, Executing, jobVars, nodeVars, reqVars
<1>Abort. ASSUME NEW j \in Jobs, Abort(j)
      PROVE  UploaderGetsEndpoint'
  BY <1>Abort DEF Abort, TypeOK, UseInv, AskInv, UploaderGetsEndpoint, Executing, jobVars, nodeVars, reqVars
<1>JobFails. ASSUME NEW j \in Jobs, JobFails(j)
      PROVE  UploaderGetsEndpoint'
  BY <1>JobFails DEF JobFails, Finish, Goto, Forget, TypeOK, UseInv, AskInv, UploaderGetsEndpoint, Executing, jobVars, nodeVars, reqVars
<1>Begin. ASSUME NEW j \in Jobs, Begin(j)
      PROVE  UploaderGetsEndpoint'
  BY <1>Begin DEF Begin, Goto, TypeOK, UseInv, AskInv, UploaderGetsEndpoint, Executing, jobVars, nodeVars, reqVars
<1>MarkBusy. ASSUME NEW j \in Jobs, MarkBusy(j)
      PROVE  UploaderGetsEndpoint'
  BY <1>MarkBusy DEF MarkBusy, Goto, SetStatus, TypeOK, UseInv, AskInv, UploaderGetsEndpoint, Executing, jobVars, nodeVars, reqVars
<1>SaveBusy. ASSUME NEW j \in Jobs, SaveBusy(j)
      PROVE  UploaderGetsEndpoint'
  BY <1>SaveBusy DEF SaveBusy, Goto, Forget, TypeOK, UseInv, AskInv, UploaderGetsEndpoint, Executing, jobVars, nodeVars, reqVars
<1>AddResult. ASSUME NEW j \in Jobs, AddResult(j)
      PROVE  UploaderGetsEndpoint'
  BY <1>AddResult DEF AddResult, Goto, TypeOK, UseInv, AskInv, UploaderGetsEndpoint, Executing, jobVars, nodeVars, reqVars
<1>Fetch. ASSUME NEW j \in Jobs, Fetch(j)
      PROVE  UploaderGetsEndpoint'
  BY <1>Fetch DEF Fetch, Goto, TypeOK, UseInv, AskInv, UploaderGetsEndpoint, Executing, jobVars, nodeVars, reqVars
<1>FetchFill. ASSUME NEW j \in Jobs, FetchFill(j)
      PROVE  UploaderGetsEndpoint'
  BY <1>FetchFill DEF FetchFill, Goto, TypeOK, UseInv, AskInv, UploaderGetsEndpoint, Executing, jobVars, nodeVars, reqVars
<1>Poll. ASSUME NEW j \in Jobs, Poll(j)
      PROVE  UploaderGetsEndpoint'
  BY <1>Poll DEF Poll, Goto, TypeOK, UseInv, AskInv, UploaderGetsEndpoint, Executing, jobVars, nodeVars, reqVars
<1>WaitInterrupted. ASSUME NEW j \in Jobs, WaitInterrupted(j)
      PROVE  UploaderGetsEndpoint'
  BY <1>WaitInterrupted DEF WaitInterrupted, Goto, Finish, Forget, TypeOK, UseInv, AskInv, UploaderGetsEndpoint, Executing, jobVars, nodeVars, reqVars
<1>Check. ASSUME NEW j \in Jobs, Check(j)
      PROVE  UploaderGetsEndpoint'
  BY <1>Check DEF Check, Goto, TypeOK, UseInv, AskInv, UploaderGetsEndpoint, Executing, jobVars, nodeVars, reqVars
<1>StoreLength. ASSUME NEW j \in Jobs, StoreLength(j)
      PROVE  UploaderGetsEndpoint'
  BY <1>StoreLength DEF StoreLength, Goto, Forget, TypeOK, UseInv, AskInv, UploaderGetsEndpoint, Executing, jobVars, nodeVars, reqVars
<1>Reset. ASSUME NEW j \in Jobs, Reset(j)
      PROVE  UploaderGetsEndpoint'
  BY <1>Reset DEF Reset, Goto, TypeOK, UseInv, AskInv, UploaderGetsEndpoint, Executing, jobVars, nodeVars, reqVars
<1>MarkFree. ASSUME NEW j \in Jobs, MarkFree(j)
      PROVE  UploaderGetsEndpoint'
  BY <1>MarkFree DEF MarkFree, Goto, SetStatus, TypeOK, UseInv, AskInv, UploaderGetsEndpoint, Executing, jobVars, nodeVars, reqVars
<1>SaveFree. ASSUME NEW j \in Jobs, SaveFree(j)
      PROVE  UploaderGetsEndpoint'
  BY <1>SaveFree DEF SaveFree, Goto, Forget, TypeOK, UseInv, AskInv, UploaderGetsEndpoint, Executing, jobVars, nodeVars, reqVars
<1>End. ASSUME NEW j \in Jobs, End(j)
      PROVE  UploaderGetsEndpoint'
  BY <1>End DEF End, Goto, Finish, Forget, TypeOK, UseInv, AskInv, UploaderGetsEndpoint, Executing, jobVars, nodeVars, reqVars
<1>Ask. ASSUME NEW j \in OfferJobs, Ask(j)
      PROVE  UploaderGetsEndpoint'
  BY <1>Ask DEF Ask, TypeOK, UseInv, AskInv, UploaderGetsEndpoint, Executing, jobVars, nodeVars, reqVars
<1>AskPhase. ASSUME NEW j \in OfferJobs, AskPhase(j)
      PROVE  UploaderGetsEndpoint'
  BY <1>AskPhase DEF AskPhase, TypeOK, UseInv, AskInv, UploaderGetsEndpoint, Executing, jobVars, nodeVars, reqVars
<1>AskRead. ASSUME NEW j \in OfferJobs, AskRead(j)
      PROVE  UploaderGetsEndpoint'
  BY <1>AskRead DEF AskRead, TypeOK, UseInv, AskInv, UploaderGetsEndpoint, Executing, jobVars, nodeVars, reqVars
<1>PutResolve. ASSUME NEW r \in Requests, PutResolve(r)
      PROVE  UploaderGetsEndpoint'
  BY <1>PutResolve DEF PutResolve, ReqGoto, TypeOK, UseInv, AskInv, UploaderGetsEndpoint, Executing, jobVars, nodeVars, reqVars
<1>GetResolve. ASSUME NEW r \in Requests, GetResolve(r)
      PROVE  UploaderGetsEndpoint'
  BY <1>GetResolve DEF GetResolve, ReqGoto, TypeOK, UseInv, AskInv, UploaderGetsEndpoint, Executing, jobVars, nodeVars, reqVars
<1>PutFails. ASSUME NEW r \in Requests, PutFails(r)
      PROVE  UploaderGetsEndpoint'
  BY <1>PutFails DEF PutFails, ReqGoto, TypeOK, UseInv, AskInv, UploaderGetsEndpoint, Executing, jobVars, nodeVars, reqVars
<1>PutOpen. ASSUME NEW r \in Requests, PutOpen(r)
      PROVE  UploaderGetsEndpoint'
  BY <1>PutOpen DEF PutOpen, ReqGoto, TypeOK, UseInv, AskInv, UploaderGetsEndpoint, Executing, jobVars, nodeVars, reqVars
<1>PutFill. ASSUME NEW r \in Requests, PutFill(r)
      PROVE  UploaderGetsEndpoint'
  BY <1>PutFill DEF PutFill, ReqGoto, TypeOK, UseInv, AskInv, UploaderGetsEndpoint, Executing, jobVars, nodeVars, reqVars
<1>PutMeasure. ASSUME NEW r \in Requests, PutMeasure(r)
      PROVE  UploaderGetsEndpoint'
  BY <1>PutMeasure DEF PutMeasure, ReqGoto, TypeOK, UseInv, AskInv, UploaderGetsEndpoint, Executing, jobVars, nodeVars, reqVars
<1>PutUpdate. ASSUME NEW r \in Requests, PutUpdate(r)
      PROVE  UploaderGetsEndpoint'
  BY <1>PutUpdate DEF PutUpdate, ReqGoto, TypeOK, UseInv, AskInv, UploaderGetsEndpoint, Executing, jobVars, nodeVars, reqVars
<1>Invalidate. ASSUME NEW r \in Requests, Invalidate(r)
      PROVE  UploaderGetsEndpoint'
  BY <1>Invalidate DEF Invalidate, ReqGoto, TypeOK, UseInv, AskInv, UploaderGetsEndpoint, Executing, jobVars, nodeVars, reqVars
<1>stutter. CASE UNCHANGED vars
  BY <1>stutter DEF vars, TypeOK, UseInv, AskInv, UploaderGetsEndpoint, Executing, jobVars, nodeVars, reqVars
<1> QED
  BY <1>Submit, <1>Abort, <1>JobFails, <1>Begin, <1>MarkBusy, <1>SaveBusy,
     <1>AddResult, <1>Fetch, <1>FetchFill, <1>Poll, <1>WaitInterrupted,
     <1>Check, <1>StoreLength, <1>Reset, <1>MarkFree, <1>SaveFree, <1>End,
     <1>Ask, <1>AskPhase, <1>AskRead, <1>PutResolve, <1>GetResolve,
     <1>PutFails, <1>PutOpen, <1>PutFill, <1>PutMeasure, <1>PutUpdate,
     <1>Invalidate, <1>stutter
  DEF Next, JobStep, RequestStep

(* A job goes only where its direction takes it. *)
LEMMA ControlStep ==
    ASSUME TypeOK, Control, [Next]_vars
    PROVE  Control'
<1> USE JobKindsDisjoint DEF Jobs, UploadJobs, OfferJobs, Running, Ended, PutPart
<1>Submit. ASSUME NEW j \in Jobs, Submit(j)
      PROVE  Control'
  BY <1>Submit DEF Submit, Goto, TypeOK, Control, jobVars, nodeVars, reqVars
<1>Abort. ASSUME NEW j \in Jobs, Abort(j)
      PROVE  Control'
  BY <1>Abort DEF Abort, TypeOK, Control, jobVars, nodeVars, reqVars
<1>JobFails. ASSUME NEW j \in Jobs, JobFails(j)
      PROVE  Control'
  BY <1>JobFails DEF JobFails, Finish, Goto, Forget, TypeOK, Control, jobVars, nodeVars, reqVars
<1>Begin. ASSUME NEW j \in Jobs, Begin(j)
      PROVE  Control'
  BY <1>Begin DEF Begin, Goto, TypeOK, Control, jobVars, nodeVars, reqVars
<1>MarkBusy. ASSUME NEW j \in Jobs, MarkBusy(j)
      PROVE  Control'
  BY <1>MarkBusy DEF MarkBusy, Goto, SetStatus, TypeOK, Control, jobVars, nodeVars, reqVars
<1>SaveBusy. ASSUME NEW j \in Jobs, SaveBusy(j)
      PROVE  Control'
  BY <1>SaveBusy DEF SaveBusy, Goto, Forget, TypeOK, Control, jobVars, nodeVars, reqVars
<1>AddResult. ASSUME NEW j \in Jobs, AddResult(j)
      PROVE  Control'
  BY <1>AddResult DEF AddResult, Goto, TypeOK, Control, jobVars, nodeVars, reqVars
<1>Fetch. ASSUME NEW j \in Jobs, Fetch(j)
      PROVE  Control'
  BY <1>Fetch DEF Fetch, Goto, TypeOK, Control, jobVars, nodeVars, reqVars
<1>FetchFill. ASSUME NEW j \in Jobs, FetchFill(j)
      PROVE  Control'
  BY <1>FetchFill DEF FetchFill, Goto, TypeOK, Control, jobVars, nodeVars, reqVars
<1>Poll. ASSUME NEW j \in Jobs, Poll(j)
      PROVE  Control'
  BY <1>Poll DEF Poll, Goto, TypeOK, Control, jobVars, nodeVars, reqVars
<1>WaitInterrupted. ASSUME NEW j \in Jobs, WaitInterrupted(j)
      PROVE  Control'
  BY <1>WaitInterrupted DEF WaitInterrupted, Goto, Finish, Forget, TypeOK, Control, jobVars, nodeVars, reqVars
<1>Check. ASSUME NEW j \in Jobs, Check(j)
      PROVE  Control'
  BY <1>Check DEF Check, Goto, TypeOK, Control, jobVars, nodeVars, reqVars
<1>StoreLength. ASSUME NEW j \in Jobs, StoreLength(j)
      PROVE  Control'
  BY <1>StoreLength DEF StoreLength, Goto, Forget, TypeOK, Control, jobVars, nodeVars, reqVars
<1>Reset. ASSUME NEW j \in Jobs, Reset(j)
      PROVE  Control'
  BY <1>Reset DEF Reset, Goto, TypeOK, Control, jobVars, nodeVars, reqVars
<1>MarkFree. ASSUME NEW j \in Jobs, MarkFree(j)
      PROVE  Control'
  BY <1>MarkFree DEF MarkFree, Goto, SetStatus, TypeOK, Control, jobVars, nodeVars, reqVars
<1>SaveFree. ASSUME NEW j \in Jobs, SaveFree(j)
      PROVE  Control'
  BY <1>SaveFree DEF SaveFree, Goto, Forget, TypeOK, Control, jobVars, nodeVars, reqVars
<1>End. ASSUME NEW j \in Jobs, End(j)
      PROVE  Control'
  BY <1>End DEF End, Goto, Finish, Forget, TypeOK, Control, jobVars, nodeVars, reqVars
<1>Ask. ASSUME NEW j \in OfferJobs, Ask(j)
      PROVE  Control'
  BY <1>Ask DEF Ask, TypeOK, Control, jobVars, nodeVars, reqVars
<1>AskPhase. ASSUME NEW j \in OfferJobs, AskPhase(j)
      PROVE  Control'
  BY <1>AskPhase DEF AskPhase, TypeOK, Control, jobVars, nodeVars, reqVars
<1>AskRead. ASSUME NEW j \in OfferJobs, AskRead(j)
      PROVE  Control'
  BY <1>AskRead DEF AskRead, TypeOK, Control, jobVars, nodeVars, reqVars
<1>PutResolve. ASSUME NEW r \in Requests, PutResolve(r)
      PROVE  Control'
  BY <1>PutResolve DEF PutResolve, ReqGoto, TypeOK, Control, jobVars, nodeVars, reqVars
<1>GetResolve. ASSUME NEW r \in Requests, GetResolve(r)
      PROVE  Control'
  BY <1>GetResolve DEF GetResolve, ReqGoto, TypeOK, Control, jobVars, nodeVars, reqVars
<1>PutFails. ASSUME NEW r \in Requests, PutFails(r)
      PROVE  Control'
  BY <1>PutFails DEF PutFails, ReqGoto, TypeOK, Control, jobVars, nodeVars, reqVars
<1>PutOpen. ASSUME NEW r \in Requests, PutOpen(r)
      PROVE  Control'
  BY <1>PutOpen DEF PutOpen, ReqGoto, TypeOK, Control, jobVars, nodeVars, reqVars
<1>PutFill. ASSUME NEW r \in Requests, PutFill(r)
      PROVE  Control'
  BY <1>PutFill DEF PutFill, ReqGoto, TypeOK, Control, jobVars, nodeVars, reqVars
<1>PutMeasure. ASSUME NEW r \in Requests, PutMeasure(r)
      PROVE  Control'
  BY <1>PutMeasure DEF PutMeasure, ReqGoto, TypeOK, Control, jobVars, nodeVars, reqVars
<1>PutUpdate. ASSUME NEW r \in Requests, PutUpdate(r)
      PROVE  Control'
  BY <1>PutUpdate DEF PutUpdate, ReqGoto, TypeOK, Control, jobVars, nodeVars, reqVars
<1>Invalidate. ASSUME NEW r \in Requests, Invalidate(r)
      PROVE  Control'
  BY <1>Invalidate DEF Invalidate, ReqGoto, TypeOK, Control, jobVars, nodeVars, reqVars
<1>stutter. CASE UNCHANGED vars
  BY <1>stutter DEF vars, TypeOK, Control, jobVars, nodeVars, reqVars
<1> QED
  BY <1>Submit, <1>Abort, <1>JobFails, <1>Begin, <1>MarkBusy, <1>SaveBusy,
     <1>AddResult, <1>Fetch, <1>FetchFill, <1>Poll, <1>WaitInterrupted,
     <1>Check, <1>StoreLength, <1>Reset, <1>MarkFree, <1>SaveFree, <1>End,
     <1>Ask, <1>AskPhase, <1>AskRead, <1>PutResolve, <1>GetResolve,
     <1>PutFails, <1>PutOpen, <1>PutFill, <1>PutMeasure, <1>PutUpdate,
     <1>Invalidate, <1>stutter
  DEF Next, JobStep, RequestStep

(* Whoever marks the node busy passes its own reset, is interrupted, or fails. *)
LEMMA BusyStep ==
    ASSUME TypeOK, Control, BusyHasCause, [Next]_vars
    PROVE  BusyHasCause'
<1> USE DEF Jobs, UploadJobs, OfferJobs, Running, Ended, PutPart
<1>Submit. ASSUME NEW j \in Jobs, Submit(j)
      PROVE  BusyHasCause'
  BY <1>Submit DEF Submit, Goto, TypeOK, Control, BusyHasCause, WillFree, jobVars, nodeVars, reqVars
<1>Abort. ASSUME NEW j \in Jobs, Abort(j)
      PROVE  BusyHasCause'
  BY <1>Abort DEF Abort, TypeOK, Control, BusyHasCause, WillFree, jobVars, nodeVars, reqVars
<1>JobFails. ASSUME NEW j \in Jobs, JobFails(j)
      PROVE  BusyHasCause'
  BY <1>JobFails DEF JobFails, Finish, Goto, Forget, TypeOK, Control, BusyHasCause, WillFree, jobVars, nodeVars, reqVars
<1>Begin. ASSUME NEW j \in Jobs, Begin(j)
      PROVE  BusyHasCause'
  BY <1>Begin DEF Begin, Goto, TypeOK, Control, BusyHasCause, WillFree, jobVars, nodeVars, reqVars
<1>MarkBusy. ASSUME NEW j \in Jobs, MarkBusy(j)
      PROVE  BusyHasCause'
  BY <1>MarkBusy DEF MarkBusy, Goto, SetStatus, TypeOK, Control, BusyHasCause, WillFree, jobVars, nodeVars, reqVars
<1>SaveBusy. ASSUME NEW j \in Jobs, SaveBusy(j)
      PROVE  BusyHasCause'
  BY <1>SaveBusy DEF SaveBusy, Goto, Forget, TypeOK, Control, BusyHasCause, WillFree, jobVars, nodeVars, reqVars
<1>AddResult. ASSUME NEW j \in Jobs, AddResult(j)
      PROVE  BusyHasCause'
  BY <1>AddResult DEF AddResult, Goto, TypeOK, Control, BusyHasCause, WillFree, jobVars, nodeVars, reqVars
<1>Fetch. ASSUME NEW j \in Jobs, Fetch(j)
      PROVE  BusyHasCause'
  BY <1>Fetch DEF Fetch, Goto, TypeOK, Control, BusyHasCause, WillFree, jobVars, nodeVars, reqVars
<1>FetchFill. ASSUME NEW j \in Jobs, FetchFill(j)
      PROVE  BusyHasCause'
  BY <1>FetchFill DEF FetchFill, Goto, TypeOK, Control, BusyHasCause, WillFree, jobVars, nodeVars, reqVars
<1>Poll. ASSUME NEW j \in Jobs, Poll(j)
      PROVE  BusyHasCause'
  BY <1>Poll DEF Poll, Goto, TypeOK, Control, BusyHasCause, WillFree, jobVars, nodeVars, reqVars
<1>WaitInterrupted. ASSUME NEW j \in Jobs, WaitInterrupted(j)
      PROVE  BusyHasCause'
  BY <1>WaitInterrupted DEF WaitInterrupted, Goto, Finish, Forget, TypeOK, Control, BusyHasCause, WillFree, jobVars, nodeVars, reqVars
<1>Check. ASSUME NEW j \in Jobs, Check(j)
      PROVE  BusyHasCause'
  BY <1>Check DEF Check, Goto, TypeOK, Control, BusyHasCause, WillFree, jobVars, nodeVars, reqVars
<1>StoreLength. ASSUME NEW j \in Jobs, StoreLength(j)
      PROVE  BusyHasCause'
  BY <1>StoreLength DEF StoreLength, Goto, Forget, TypeOK, Control, BusyHasCause, WillFree, jobVars, nodeVars, reqVars
<1>Reset. ASSUME NEW j \in Jobs, Reset(j)
      PROVE  BusyHasCause'
  BY <1>Reset DEF Reset, Goto, TypeOK, Control, BusyHasCause, WillFree, jobVars, nodeVars, reqVars
<1>MarkFree. ASSUME NEW j \in Jobs, MarkFree(j)
      PROVE  BusyHasCause'
  BY <1>MarkFree DEF MarkFree, Goto, SetStatus, TypeOK, Control, BusyHasCause, WillFree, jobVars, nodeVars, reqVars
<1>SaveFree. ASSUME NEW j \in Jobs, SaveFree(j)
      PROVE  BusyHasCause'
  BY <1>SaveFree DEF SaveFree, Goto, Forget, TypeOK, Control, BusyHasCause, WillFree, jobVars, nodeVars, reqVars
<1>End. ASSUME NEW j \in Jobs, End(j)
      PROVE  BusyHasCause'
  BY <1>End DEF End, Goto, Finish, Forget, TypeOK, Control, BusyHasCause, WillFree, jobVars, nodeVars, reqVars
<1>Ask. ASSUME NEW j \in OfferJobs, Ask(j)
      PROVE  BusyHasCause'
  BY <1>Ask DEF Ask, TypeOK, Control, BusyHasCause, WillFree, jobVars, nodeVars, reqVars
<1>AskPhase. ASSUME NEW j \in OfferJobs, AskPhase(j)
      PROVE  BusyHasCause'
  BY <1>AskPhase DEF AskPhase, TypeOK, Control, BusyHasCause, WillFree, jobVars, nodeVars, reqVars
<1>AskRead. ASSUME NEW j \in OfferJobs, AskRead(j)
      PROVE  BusyHasCause'
  BY <1>AskRead DEF AskRead, TypeOK, Control, BusyHasCause, WillFree, jobVars, nodeVars, reqVars
<1>PutResolve. ASSUME NEW r \in Requests, PutResolve(r)
      PROVE  BusyHasCause'
  BY <1>PutResolve DEF PutResolve, ReqGoto, TypeOK, Control, BusyHasCause, WillFree, jobVars, nodeVars, reqVars
<1>GetResolve. ASSUME NEW r \in Requests, GetResolve(r)
      PROVE  BusyHasCause'
  BY <1>GetResolve DEF GetResolve, ReqGoto, TypeOK, Control, BusyHasCause, WillFree, jobVars, nodeVars, reqVars
<1>PutFails. ASSUME NEW r \in Requests, PutFails(r)
      PROVE  BusyHasCause'
  BY <1>PutFails DEF PutFails, ReqGoto, TypeOK, Control, BusyHasCause, WillFree, jobVars, nodeVars, reqVars
<1>PutOpen. ASSUME NEW r \in Requests, PutOpen(r)
      PROVE  BusyHasCause'
  BY <1>PutOpen DEF PutOpen, ReqGoto, TypeOK, Control, BusyHasCause, WillFree, jobVars, nodeVars, reqVars
<1>PutFill. ASSUME NEW r \in Requests, PutFill(r)
      PROVE  BusyHasCause'
  BY <1>PutFill DEF PutFill, ReqGoto, TypeOK, Control, BusyHasCause, WillFree, jobVars, nodeVars, reqVars
<1>PutMeasure. ASSUME NEW r \in Requests, PutMeasure(r)
      PROVE  BusyHasCause'
  BY <1>PutMeasure DEF PutMeasure, ReqGoto, TypeOK, Control, BusyHasCause, WillFree, jobVars, nodeVars, reqVars
<1>PutUpdate. ASSUME NEW r \in Requests, PutUpdate(r)
      PROVE  BusyHasCause'
  BY <1>PutUpdate DEF PutUpdate, ReqGoto, TypeOK, Control, BusyHasCause, WillFree, jobVars, nodeVars, reqVars
<1>Invalidate. ASSUME NEW r \in Requests, Invalidate(r)
      PROVE  BusyHasCause'
  BY <1>Invalidate DEF Invalidate, ReqGoto, TypeOK, Control, BusyHasCause, WillFree, jobVars, nodeVars, reqVars
<1>stutter. CASE UNCHANGED vars
  BY <1>stutter DEF vars, TypeOK, Control, BusyHasCause, WillFree, jobVars, nodeVars, reqVars
<1> QED
  BY <1>Submit, <1>Abort, <1>JobFails, <1>Begin, <1>MarkBusy, <1>SaveBusy,
     <1>AddResult, <1>Fetch, <1>FetchFill, <1>Poll, <1>WaitInterrupted,
     <1>Check, <1>StoreLength, <1>Reset, <1>MarkFree, <1>SaveFree, <1>End,
     <1>Ask, <1>AskPhase, <1>AskRead, <1>PutResolve, <1>GetResolve,
     <1>PutFails, <1>PutOpen, <1>PutFill, <1>PutMeasure, <1>PutUpdate,
     <1>Invalidate, <1>stutter
  DEF Next, JobStep, RequestStep

(* Who has the details has them from the results table, which a job enters  *)
(* on its way to the waiting loop, and no job goes back behind that point.  *)
Early == {"new", "begin", "busy", "save", "result"}
GotInv ==
    /\ \A j \in OfferJobs : asker[j] = "got" => j \in results
    /\ \A j \in Jobs : j \in results => pc[j] \notin Early

LEMMA GotStep ==
    ASSUME TypeOK, GotInv, [Next]_vars
    PROVE  GotInv'
<1> USE DEF Jobs, UploadJobs, OfferJobs, Running, Ended, TypeOK, GotInv, Early,
            jobVars, nodeVars, reqVars
<1>Submit. ASSUME NEW j \in Jobs, Submit(j) PROVE GotInv'
  BY <1>Submit DEF Submit, Goto
<1>Abort. ASSUME NEW j \in Jobs, Abort(j) PROVE GotInv'
  BY <1>Abort DEF Abort
<1>JobFails. ASSUME NEW j \in Jobs, JobFails(j) PROVE GotInv'
  BY <1>JobFails DEF JobFails, Finish, Goto, Forget
<1>Begin. ASSUME NEW j \in Jobs, Begin(j) PROVE GotInv'
  BY <1>Begin DEF Begin, Goto
<1>MarkBusy. ASSUME NEW j \in Jobs, MarkBusy(j) PROVE GotInv'
  BY <1>MarkBusy DEF MarkBusy, Goto, SetStatus
<1>SaveBusy. ASSUME NEW j \in Jobs, SaveBusy(j) PROVE GotInv'
  BY <1>SaveBusy DEF SaveBusy, Goto, Forget, UpdateData
<1>AddResult. ASSUME NEW j \in Jobs, AddResult(j) PROVE GotInv'
  BY <1>AddResult DEF AddResult, Goto
<1>Fetch. ASSUME NEW j \in Jobs, Fetch(j) PROVE GotInv'
  BY <1>Fetch DEF Fetch, Goto, Truncate
<1>FetchFill. ASSUME NEW j \in Jobs, FetchFill(j) PROVE GotInv'
  BY <1>FetchFill DEF FetchFill, Goto, Fill
<1>Poll. ASSUME NEW j \in Jobs, Poll(j) PROVE GotInv'
  BY <1>Poll DEF Poll, Goto
<1>WaitInterrupted. ASSUME NEW j \in Jobs, WaitInterrupted(j) PROVE GotInv'
  BY <1>WaitInterrupted DEF WaitInterrupted, Goto, Finish, Forget
<1>Check. ASSUME NEW j \in Jobs, Check(j) PROVE GotInv'
  BY <1>Check DEF Check, Goto, MayLookUpdated
<1>StoreLength. ASSUME NEW j \in Jobs, StoreLength(j) PROVE GotInv'
  BY <1>StoreLength DEF StoreLength, Goto, Forget, UpdateData
<1>Reset. ASSUME NEW j \in Jobs, Reset(j) PROVE GotInv'
  BY <1>Reset DEF Reset, Goto
<1>MarkFree. ASSUME NEW j \in Jobs, MarkFree(j) PROVE GotInv'
  BY <1>MarkFree DEF MarkFree, Goto, SetStatus
<1>SaveFree. ASSUME NEW j \in Jobs, SaveFree(j) PROVE GotInv'
  BY <1>SaveFree DEF SaveFree, Goto, Forget, UpdateData
<1>End. ASSUME NEW j \in Jobs, End(j) PROVE GotInv'
  BY <1>End DEF End, Goto, Finish, Forget
<1>Ask. ASSUME NEW j \in OfferJobs, Ask(j) PROVE GotInv'
  BY <1>Ask DEF Ask
<1>AskPhase. ASSUME NEW j \in OfferJobs, AskPhase(j) PROVE GotInv'
  BY <1>AskPhase DEF AskPhase
<1>AskRead. ASSUME NEW j \in OfferJobs, AskRead(j) PROVE GotInv'
  BY <1>AskRead DEF AskRead
<1>PutResolve. ASSUME NEW r \in Requests, PutResolve(r) PROVE GotInv'
  BY <1>PutResolve DEF PutResolve, ReqGoto
<1>GetResolve. ASSUME NEW r \in Requests, GetResolve(r) PROVE GotInv'
  BY <1>GetResolve DEF GetResolve, ReqGoto
<1>PutFails. ASSUME NEW r \in Requests, PutFails(r) PROVE GotInv'
  BY <1>PutFails DEF PutFails, ReqGoto
<1>PutOpen. ASSUME NEW r \in Requests, PutOpen(r) PROVE GotInv'
  BY <1>PutOpen DEF PutOpen, ReqGoto, Truncate
<1>PutFill. ASSUME NEW r \in Requests, PutFill(r) PROVE GotInv'
  BY <1>PutFill DEF PutFill, ReqGoto, Fill
<1>PutMeasure. ASSUME NEW r \in Requests, PutMeasure(r) PROVE GotInv'
  BY <1>PutMeasure DEF PutMeasure, ReqGoto
<1>PutUpdate. ASSUME NEW r \in Requests, PutUpdate(r) PROVE GotInv'
  BY <1>PutUpdate DEF PutUpdate, ReqGoto, UpdateData
<1>Invalidate. ASSUME NEW r \in Requests, Invalidate(r) PROVE GotInv'
  BY <1>Invalidate DEF Invalidate, ReqGoto
<1>stutter. CASE UNCHANGED vars
  BY <1>stutter DEF vars
<1> QED
  BY <1>Submit, <1>Abort, <1>JobFails, <1>Begin, <1>MarkBusy, <1>SaveBusy,
     <1>AddResult, <1>Fetch, <1>FetchFill, <1>Poll, <1>WaitInterrupted,
     <1>Check, <1>StoreLength, <1>Reset, <1>MarkFree, <1>SaveFree, <1>End,
     <1>Ask, <1>AskPhase, <1>AskRead, <1>PutResolve, <1>GetResolve,
     <1>PutFails, <1>PutOpen, <1>PutFill, <1>PutMeasure, <1>PutUpdate,
     <1>Invalidate, <1>stutter
  DEF Next, JobStep, RequestStep

(* What a job leaves in the node that no other job and no second request    *)
(* disturbs: until it waits, the file and its length are as they were; while *)
(* it waits, only an update that is older than the file may have a wrong     *)
(* length; and from its last look at the file on the length is right.        *)
Alone(j) ==
    \/ pc[j] \in {"aborted", "error"}
    \/ j \in interrupted /\ pc[j] # "completed"
    \/ /\ pc[j] \in Early
       /\ \A r \in Requests : req[r] = "idle"
       /\ length = size /\ (pc[j] \in {"busy", "save"} => snap[j] = length)
    \/ /\ pc[j] \in {"wait", "check"}
       /\ ~fileNewer => length = size
       /\ \A r \in Requests : req[r] = "update" => seen[r] = size
    \/ pc[j] = "store" /\ snap[j] = size
    \/ /\ pc[j] \in {"reset", "unbusy", "unsave", "end", "completed"}
       /\ length = size /\ (pc[j] \in {"unbusy", "unsave"} => snap[j] = length)
LoneInv == \A j \in PushJobs : Lone(j) => Alone(j)

(* A job that is alone was alone before: nothing becomes new or idle again.  *)
LEMMA LoneBefore ==
    ASSUME TypeOK, [Next]_vars, NEW j \in PushJobs, Lone(j)'
    PROVE  Lone(j)
<1>1. \A k \in Jobs : pc'[k] = "new" => pc[k] = "new"
  <2> USE DEF Goto, Finish, TypeOK, Jobs, OfferJobs, jobVars
  <2>1. ASSUME NEW i \in Jobs, Submit(i) \/ Abort(i) \/ JobFails(i)
        PROVE  \A k \in Jobs : pc'[k] = "new" => pc[k] = "new"
    BY <2>1 DEF Submit, Abort, JobFails
  <2>2. ASSUME NEW i \in Jobs, JobStep(i)
        PROVE  \A k \in Jobs : pc'[k] = "new" => pc[k] = "new"
    <3>1. \/ pc' = pc
          \/ \E l \in Running \cup Ended : pc' = [pc EXCEPT ![i] = l]
      BY <2>2 DEF JobStep, Begin, MarkBusy, SaveBusy, AddResult, Fetch, FetchFill, Poll,
                  WaitInterrupted, Check, StoreLength, Reset, MarkFree, SaveFree, End,
                  Running, Ended
    <3> QED BY <3>1 DEF Running, Ended
  <2>3. ASSUME NEW i \in OfferJobs, Ask(i) \/ AskPhase(i) \/ AskRead(i)
        PROVE  \A k \in Jobs : pc'[k] = "new" => pc[k] = "new"
    BY <2>3 DEF Ask, AskPhase, AskRead
  <2>4. ASSUME NEW r \in Requests,
               PutResolve(r) \/ GetResolve(r) \/ PutFails(r) \/ RequestStep(r)
        PROVE  \A k \in Jobs : pc'[k] = "new" => pc[k] = "new"
    BY <2>4 DEF PutResolve, GetResolve, PutFails, RequestStep, PutOpen, PutFill, PutMeasure,
                PutUpdate, Invalidate
  <2>5. CASE UNCHANGED vars
    BY <2>5 DEF vars
  <2> QED BY <2>1, <2>2, <2>3, <2>4, <2>5 DEF Next
<1>2. \A q \in Requests : req'[q] = "idle" => req[q] = "idle"
  <2> USE DEF ReqGoto, TypeOK, reqVars
  <2>1. ASSUME NEW i \in Jobs, Submit(i) \/ Abort(i) \/ JobFails(i) \/ JobStep(i)
        PROVE  \A q \in Requests : req'[q] = "idle" => req[q] = "idle"
    BY <2>1 DEF Submit, Abort, JobFails, JobStep, Begin, MarkBusy, SaveBusy, AddResult, Fetch,
                FetchFill, Poll, WaitInterrupted, Check, StoreLength, Reset, MarkFree,
                SaveFree, End
  <2>2. ASSUME NEW i \in OfferJobs, Ask(i) \/ AskPhase(i) \/ AskRead(i)
        PROVE  \A q \in Requests : req'[q] = "idle" => req[q] = "idle"
    BY <2>2 DEF Ask, AskPhase, AskRead
  <2>3. ASSUME NEW r \in Requests, PutResolve(r) \/ GetResolve(r) \/ PutFails(r)
        PROVE  \A q \in Requests : req'[q] = "idle" => req[q] = "idle"
    BY <2>3 DEF PutResolve, GetResolve, PutFails, PutPart
  <2>4. ASSUME NEW r \in Requests, RequestStep(r)
        PROVE  \A q \in Requests : req'[q] = "idle" => req[q] = "idle"
    BY <2>4 DEF RequestStep, PutOpen, PutFill, PutMeasure, PutUpdate, Invalidate
  <2>5. CASE UNCHANGED vars
    BY <2>5 DEF vars
  <2> QED BY <2>1, <2>2, <2>3, <2>4, <2>5 DEF Next
<1> QED BY <1>1, <1>2 DEF Lone

(* Once a lone job has left its loop the request it waited for is over, and  *)
(* there is no other.                                                        *)
LEMMA LoneQuiet ==
    ASSUME UseInv, NEW j \in PushJobs, Lone(j),
           pc[j] = "completed" \/ (pc[j] \in AfterLoop /\ j \notin interrupted)
    PROVE  \A r \in Requests : req[r] \in {"idle", "done"}
<1>1. PICK q \in Requests : req[q] = "done"
  BY DEF UseInv
<1> QED BY <1>1 DEF Lone

(* Every step of the job, of its client and of the request keeps it. *)
LEMMA LoneStep ==
    ASSUME TypeOK, UseInv, UseInv', AskInv, Control, GotInv, LoneInv, [Next]_vars
    PROVE  LoneInv'
<1> SUFFICES ASSUME NEW i \in PushJobs, Lone(i)' PROVE Alone(i)'
  BY DEF LoneInv
<1>lone. Lone(i) /\ Alone(i) /\ i \in Jobs /\ i \in OfferJobs /\ i \in UploadJobs
  BY LoneBefore DEF LoneInv, Jobs, OfferJobs, UploadJobs
<1>pull. \A j \in PullJobs : asker[j] = "got" => j # i /\ pc[j] # "new"
  BY JobKindsDisjoint DEF AskInv, OfferJobs
<1>kind. i \notin ImportJobs /\ pc[i] \notin {"fetch", "fill"}
  BY <1>lone, JobKindsDisjoint DEF Control
<1>quiet. pc[i] = "completed" \/ (pc[i] \in AfterLoop /\ i \notin interrupted) =>
             \A r \in Requests : req[r] \in {"idle", "done"}
  BY <1>lone, LoneQuiet
<1>early. asker[i] = "got" => pc[i] \notin Early
  BY <1>lone DEF GotInv
<1>other. \A j \in Jobs : j # i => pc[j] = "new" /\ pc'[j] = "new"
  BY <1>lone DEF Lone
<1> USE DEF TypeOK, Alone, Early, jobVars, nodeVars, reqVars
<1>Submit. ASSUME NEW j \in Jobs, Submit(j) PROVE Alone(i)'
  <2>1. j = i
    BY <1>Submit, <1>other DEF Submit, Goto
  <2> QED BY <1>Submit, <1>lone, <2>1 DEF Submit, Goto
<1>Abort. ASSUME NEW j \in Jobs, Abort(j) PROVE Alone(i)'
  <2>1. j = i
    BY <1>Abort, <1>other DEF Abort, Executing, Running
  <2> QED BY <1>Abort, <1>lone, <1>kind, <1>quiet, <2>1 DEF Abort, AfterLoop
<1>JobFails. ASSUME NEW j \in Jobs, JobFails(j) PROVE Alone(i)'
  <2>1. j = i
    BY <1>JobFails, <1>other DEF JobFails, Executing, Running
  <2> QED BY <1>JobFails, <1>lone, <1>kind, <1>quiet, <2>1 DEF JobFails, Finish, Goto, Forget, AfterLoop
<1>Begin. ASSUME NEW j \in Jobs, Begin(j) PROVE Alone(i)'
  <2>1. j = i
    BY <1>Begin, <1>other DEF Begin
  <2> QED BY <1>Begin, <1>lone, <1>kind, <1>quiet, <2>1 DEF Begin, Goto, AfterLoop
<1>MarkBusy. ASSUME NEW j \in Jobs, MarkBusy(j) PROVE Alone(i)'
  <2>1. j = i
    BY <1>MarkBusy, <1>other DEF MarkBusy
  <2> QED BY <1>MarkBusy, <1>lone, <1>kind, <1>quiet, <2>1 DEF MarkBusy, Goto, SetStatus, AfterLoop
<1>SaveBusy. ASSUME NEW j \in Jobs, SaveBusy(j) PROVE Alone(i)'
  <2>1. j = i
    BY <1>SaveBusy, <1>other DEF SaveBusy
  <2> QED BY <1>SaveBusy, <1>lone, <1>kind, <1>quiet, <2>1 DEF SaveBusy, Goto, Forget, UpdateData, AfterLoop
<1>AddResult. ASSUME NEW j \in Jobs, AddResult(j) PROVE Alone(i)'
  <2>1. j = i
    BY <1>AddResult, <1>other DEF AddResult
  <2> QED BY <1>AddResult, <1>lone, <1>kind, <1>quiet, <2>1 DEF AddResult, Goto, AfterLoop
<1>Fetch. ASSUME NEW j \in Jobs, Fetch(j) PROVE Alone(i)'
  <2>1. j = i
    BY <1>Fetch, <1>other DEF Fetch
  <2> QED BY <1>Fetch, <1>lone, <1>kind, <1>quiet, <2>1 DEF Fetch, Goto, Truncate, AfterLoop
<1>FetchFill. ASSUME NEW j \in Jobs, FetchFill(j) PROVE Alone(i)'
  <2>1. j = i
    BY <1>FetchFill, <1>other DEF FetchFill
  <2> QED BY <1>FetchFill, <1>lone, <1>kind, <1>quiet, <2>1 DEF FetchFill, Goto, Fill, AfterLoop
<1>Poll. ASSUME NEW j \in Jobs, Poll(j) PROVE Alone(i)'
  <2>1. j = i
    BY <1>Poll, <1>other DEF Poll
  <2> QED BY <1>Poll, <1>lone, <1>kind, <1>quiet, <2>1 DEF Poll, Goto, AfterLoop
<1>WaitInterrupted. ASSUME NEW j \in Jobs, WaitInterrupted(j) PROVE Alone(i)'
  <2>1. j = i
    BY <1>WaitInterrupted, <1>other DEF WaitInterrupted
  <2> QED BY <1>WaitInterrupted, <1>lone, <1>kind, <1>quiet, <2>1 DEF WaitInterrupted, Goto, Finish, Forget, AfterLoop
<1>Check. ASSUME NEW j \in Jobs, Check(j) PROVE Alone(i)'
  <2>1. j = i
    BY <1>Check, <1>other DEF Check
  <2> QED BY <1>Check, <1>lone, <1>kind, <1>quiet, <2>1 DEF Check, Goto, MayLookUpdated, AfterLoop
<1>StoreLength. ASSUME NEW j \in Jobs, StoreLength(j) PROVE Alone(i)'
  <2>1. j = i
    BY <1>StoreLength, <1>other DEF StoreLength
  <2> QED BY <1>StoreLength, <1>lone, <1>kind, <1>quiet, <2>1 DEF StoreLength, Goto, Forget, UpdateData, AfterLoop
<1>Reset. ASSUME NEW j \in Jobs, Reset(j) PROVE Alone(i)'
  <2>1. j = i
    BY <1>Reset, <1>other DEF Reset
  <2> QED BY <1>Reset, <1>lone, <1>kind, <1>quiet, <2>1 DEF Reset, Goto, AfterLoop
<1>MarkFree. ASSUME NEW j \in Jobs, MarkFree(j) PROVE Alone(i)'
  <2>1. j = i
    BY <1>MarkFree, <1>other DEF MarkFree
  <2> QED BY <1>MarkFree, <1>lone, <1>kind, <1>quiet, <2>1 DEF MarkFree, Goto, SetStatus, AfterLoop
<1>SaveFree. ASSUME NEW j \in Jobs, SaveFree(j) PROVE Alone(i)'
  <2>1. j = i
    BY <1>SaveFree, <1>other DEF SaveFree
  <2> QED BY <1>SaveFree, <1>lone, <1>kind, <1>quiet, <2>1 DEF SaveFree, Goto, Forget, UpdateData, AfterLoop
<1>End. ASSUME NEW j \in Jobs, End(j) PROVE Alone(i)'
  <2>1. j = i
    BY <1>End, <1>other DEF End
  <2> QED BY <1>End, <1>lone, <1>kind, <1>quiet, <2>1 DEF End, Goto, Finish, Forget, AfterLoop
<1>Ask. ASSUME NEW j \in OfferJobs, Ask(j) PROVE Alone(i)'
  BY <1>Ask, <1>lone DEF Ask
<1>AskPhase. ASSUME NEW j \in OfferJobs, AskPhase(j) PROVE Alone(i)'
  BY <1>AskPhase, <1>lone DEF AskPhase
<1>AskRead. ASSUME NEW j \in OfferJobs, AskRead(j) PROVE Alone(i)'
  BY <1>AskRead, <1>lone DEF AskRead
<1>PutResolve. ASSUME NEW r \in Requests, PutResolve(r) PROVE Alone(i)'
  <2>1. PICK j \in PushJobs : asker[j] = "got" /\ pc'[j] = pc[j]
    BY <1>PutResolve DEF PutResolve
  <2>2. j \in Jobs /\ (j = i \/ pc[j] # "new")
    BY <2>1, <1>pull DEF GotInv, Jobs, OfferJobs, Early
  <2>3. pc[i] \notin Early
    BY <2>1, <2>2, <1>early, <1>other
  <2> QED BY <1>PutResolve, <1>lone, <2>3 DEF PutResolve, ReqGoto
<1>GetResolve. ASSUME NEW r \in Requests, GetResolve(r) PROVE Alone(i)'
  <2>1. PICK j \in PullJobs : asker[j] = "got" /\ pc'[j] = pc[j]
    BY <1>GetResolve DEF GetResolve
  <2>2. j \in Jobs /\ (j = i \/ pc[j] # "new")
    BY <2>1, <1>pull DEF GotInv, Jobs, OfferJobs, Early
  <2>3. pc[i] \notin Early
    BY <2>1, <2>2, <1>early, <1>other, <1>pull
  <2> QED BY <1>GetResolve, <1>lone, <2>3 DEF GetResolve, ReqGoto
<1>PutFails. ASSUME NEW r \in Requests, PutFails(r) PROVE Alone(i)'
  <2>1. \A q \in Requests : q # r => req[q] \in {"idle", "done"}
    BY <1>PutFails, <1>lone DEF Lone, PutFails, PutPart
  <2>2. CASE i \in interrupted /\ pc[i] # "completed"
    BY <1>PutFails, <2>2 DEF PutFails
  <2>3. CASE i \notin interrupted \/ pc[i] = "completed"
    BY <1>PutFails, <1>lone, <1>quiet, <2>1, <2>3 DEF PutFails, ReqGoto, PutPart, AfterLoop
  <2> QED BY <2>2, <2>3
<1>PutOpen. ASSUME NEW r \in Requests, PutOpen(r) PROVE Alone(i)'
  <2>1. \A q \in Requests : q # r => req[q] \in {"idle", "done"}
    BY <1>PutOpen, <1>lone DEF Lone, PutOpen, PutPart
  <2>2. CASE i \in interrupted /\ pc[i] # "completed"
    BY <1>PutOpen, <2>2 DEF PutOpen
  <2>3. CASE i \notin interrupted \/ pc[i] = "completed"
    BY <1>PutOpen, <1>lone, <1>quiet, <2>1, <2>3 DEF PutOpen, ReqGoto, Truncate, PutPart, AfterLoop
  <2> QED BY <2>2, <2>3
<1>PutFill. ASSUME NEW r \in Requests, PutFill(r) PROVE Alone(i)'
  <2>1. \A q \in Requests : q # r => req[q] \in {"idle", "done"}
    BY <1>PutFill, <1>lone DEF Lone, PutFill, PutPart
  <2>2. CASE i \in interrupted /\ pc[i] # "completed"
    BY <1>PutFill, <2>2 DEF PutFill
  <2>3. CASE i \notin interrupted \/ pc[i] = "completed"
    BY <1>PutFill, <1>lone, <1>quiet, <2>1, <2>3 DEF PutFill, ReqGoto, Fill, PutPart, AfterLoop
  <2> QED BY <2>2, <2>3
<1>PutMeasure. ASSUME NEW r \in Requests, PutMeasure(r) PROVE Alone(i)'
  <2>1. \A q \in Requests : q # r => req[q] \in {"idle", "done"}
    BY <1>PutMeasure, <1>lone DEF Lone, PutMeasure, PutPart
  <2>2. CASE i \in interrupted /\ pc[i] # "completed"
    BY <1>PutMeasure, <2>2 DEF PutMeasure
  <2>3. CASE i \notin interrupted \/ pc[i] = "completed"
    BY <1>PutMeasure, <1>lone, <1>quiet, <2>1, <2>3 DEF PutMeasure, ReqGoto, PutPart, AfterLoop
  <2> QED BY <2>2, <2>3
<1>PutUpdate. ASSUME NEW r \in Requests, PutUpdate(r) PROVE Alone(i)'
  <2>1. \A q \in Requests : q # r => req[q] \in {"idle", "done"}
    BY <1>PutUpdate, <1>lone DEF Lone, PutUpdate, PutPart
  <2>2. CASE i \in interrupted /\ pc[i] # "completed"
    BY <1>PutUpdate, <2>2 DEF PutUpdate
  <2>3. CASE i \notin interrupted \/ pc[i] = "completed"
    BY <1>PutUpdate, <1>lone, <1>quiet, <2>1, <2>3 DEF PutUpdate, ReqGoto, UpdateData, PutPart, AfterLoop
  <2> QED BY <2>2, <2>3
<1>Invalidate. ASSUME NEW r \in Requests, Invalidate(r) PROVE Alone(i)'
  <2>1. \A q \in Requests : q # r => req[q] \in {"idle", "done"}
    BY <1>Invalidate, <1>lone DEF Lone, Invalidate, PutPart
  <2>2. CASE i \in interrupted /\ pc[i] # "completed"
    BY <1>Invalidate, <2>2 DEF Invalidate
  <2>3. CASE i \notin interrupted \/ pc[i] = "completed"
    BY <1>Invalidate, <1>lone, <1>quiet, <2>1, <2>3 DEF Invalidate, ReqGoto, PutPart, AfterLoop
  <2> QED BY <2>2, <2>3
<1>stutter. CASE UNCHANGED vars
  BY <1>stutter, <1>lone DEF vars
<1> QED
  BY <1>Submit, <1>Abort, <1>JobFails, <1>Begin, <1>MarkBusy, <1>SaveBusy,
     <1>AddResult, <1>Fetch, <1>FetchFill, <1>Poll, <1>WaitInterrupted,
     <1>Check, <1>StoreLength, <1>Reset, <1>MarkFree, <1>SaveFree, <1>End,
     <1>Ask, <1>AskPhase, <1>AskRead, <1>PutResolve, <1>GetResolve,
     <1>PutFails, <1>PutOpen, <1>PutFill, <1>PutMeasure, <1>PutUpdate,
     <1>Invalidate, <1>stutter
  DEF Next, JobStep, RequestStep

IInv == TypeOK /\ UseInv /\ AskInv /\ UploaderGetsEndpoint
        /\ Control /\ BusyHasCause /\ GotInv /\ LoneInv

(* The invariant is inductive ... *)
LEMMA IInvInductive == IInv /\ [Next]_vars => IInv'
  BY TypeStep, UseStep, AskStep, EndpointStep, ControlStep, BusyStep, GotStep, LoneStep
  DEF IInv

(* ... and holds initially. *)
LEMMA IInvInit == Init => IInv
<1> SUFFICES ASSUME Init PROVE IInv
  OBVIOUS
<1>1. 0 \in Sizes
  BY MaxSizeIsNat DEF Sizes
<1>2. TypeOK
  BY <1>1, NoneIsNoJob DEF Init, TypeOK, Running, Ended, PutPart
<1>3. UseInv /\ AskInv
  BY NoneIsNoJob DEF Init, UseInv, AskInv, AfterLoop, Jobs, OfferJobs
<1>4. UploaderGetsEndpoint /\ Control /\ BusyHasCause
  BY DEF Init, UploaderGetsEndpoint, Control, BusyHasCause, OfferJobs
<1>5. GotInv
  BY DEF Init, GotInv
<1>6. LoneInv
  BY DEF Init, LoneInv, Alone, Early, Jobs
<1> QED
  BY <1>2, <1>3, <1>4, <1>5, <1>6 DEF IInv

(* The inductive invariant holds in every reachable state. *)
THEOREM Invariance == Spec => []IInv
  BY IInvInit, IInvInductive, PTL DEF Spec

(* Every variable keeps its type. *)
THEOREM TypeCorrect == Spec => []TypeOK
<1>1. IInv => TypeOK
  BY DEF IInv
<1> QED
  BY <1>1, Invariance, PTL

(* A push job that ends in success was used: the polling loop of jobWork is *)
(* left only by an interrupt, which is reported, or when a request has      *)
(* marked the transfer, and only a request that is over has done that.      *)
THEOREM SuccessMeansUsed == Spec => []CompletedAfterUse
<1>1. IInv => CompletedAfterUse
  BY DEF IInv, UseInv, CompletedAfterUse
<1> QED
  BY <1>1, Invariance, PTL

(* getResultsDetails answers the uploading client with an endpoint unless   *)
(* the job was aborted or failed, however often and late the client asks.   *)
THEOREM UploaderServed == Spec => []UploaderGetsEndpoint
<1>1. IInv => UploaderGetsEndpoint
  BY DEF IInv
<1> QED
  BY <1>1, Invariance, PTL

(* With any number of uploads to a node, it stays busy only for a job that  *)
(* has still to free it or that ended badly.                                *)
THEOREM BusyJustified == Spec => []BusyHasCause
<1>1. IInv => BusyHasCause
  BY DEF IInv
<1> QED
  BY <1>1, Invariance, PTL

(* An upload that no other job and no second request overlaps leaves the     *)
(* length of the node equal to the size of its file, whatever the request    *)
(* did: the job measures the file itself unless the row was updated later.   *)
THEOREM LoneUploadsMeasured == Spec => []LoneUploadLength
<1>1. IInv => LoneUploadLength
  <2> SUFFICES ASSUME IInv, NEW j \in PushJobs, Lone(j), pc[j] = "completed"
               PROVE  length = size
    BY DEF LoneUploadLength
  <2>1. Alone(j)
    BY DEF IInv, LoneInv
  <2> QED BY <2>1 DEF Alone, Early
<1> QED
  BY <1>1, Invariance, PTL
=============================================================================
