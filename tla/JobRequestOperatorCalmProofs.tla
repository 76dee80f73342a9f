--------------------- MODULE JobRequestOperatorCalmProofs ---------------------
(***************************************************************************)
(* Proofs of the safety properties that some disturbance may break, each   *)
(* from the absence of those that do, and for every set of names, every    *)
(* bound and all other disturbances.                                       *)
(***************************************************************************)
EXTENDS JobRequestOperatorProofs

-----------------------------------------------------------------------------
(* One launch: while nobody deletes Jobs, the Job that was launched for a
   JobRequest keeps its name taken, so no second one can be created. *)

OwnJob(n) == /\ Exists(requests[n])
             /\ jobs[n].phase # "None"
             /\ jobs[n].owner = requests[n].uid

LaunchInv ==
  \A n \in Requests : launches[n] <= 1 /\ (launches[n] > 0 => OwnJob(n))

LEMMA LaunchInit == Init => LaunchInv
<1> SUFFICES ASSUME Init, NEW n \in Requests
             PROVE  launches[n] <= 1 /\ ~(launches[n] > 0)
  BY DEF LaunchInv
<1>1. launches[n] = 0
  BY DEF Init
<1>2. QED
  BY <1>1

\* The garbage collector leaves alone the Job of a JobRequest that exists, and a Job
\* that has finished stays as it finished.
LEMMA OwnJobStays ==
  ASSUME "delJob" \notin Disturbances, TypeInv, Next, NEW n \in Requests, OwnJob(n)
  PROVE  /\ jobs'[n].phase # "None"
         /\ jobs'[n].owner = jobs[n].owner
         /\ jobs[n].phase \in {"Complete", "Failed"} => jobs'[n].phase = jobs[n].phase
<1>1. ~JobLaunched(n) /\ ~JobForeign(n) /\ ~JobGone(n)
  BY DEF OwnJob, JobLaunched, JobForeign, JobGone
<1>2. jobs'[n] = jobs[n] \/ JobFinished(n)
  BY <1>1, JobChange DEF JobOfOthers
<1>3. QED
  BY <1>2 DEF OwnJob, JobFinished

LEMMA OwnJobStep ==
  ASSUME "delJob" \notin Disturbances, TypeInv, Next, NEW n \in Requests, OwnJob(n),
         requests'[n].uid = requests[n].uid
  PROVE  OwnJob(n)'
BY OwnJobStays DEF OwnJob, Exists

LEMMA LaunchChange ==
  ASSUME TypeInv, Next, NEW n \in Requests
  PROVE  \/ requests'[n].uid # requests[n].uid /\ launches'[n] = 0
         \/ /\ requests'[n].uid = requests[n].uid
            /\ \/ launches'[n] = launches[n]
               \/ /\ JobLaunched(n) /\ reqObj.uid = requests[n].uid
                  /\ launches'[n] = launches[n] + 1
<1>1. RecordHistory
  BY DEF Next, RequestStep, ReviewStep, OutsideStep
<1>2. CASE requests'[n].uid # requests[n].uid
  BY <1>1, <1>2 DEF RecordHistory
<1>3. CASE /\ requests'[n].uid = requests[n].uid
           /\ reqPc = "create" /\ reqPc' = "update"
           /\ jobs'[n] # jobs[n]
           /\ jobs'[n].owner = requests[n].uid
  <2>1. JobLaunched(n)
    BY <1>3, JobChange DEF reqVars
  <2>2. launches'[n] = launches[n] + 1
    BY <1>1, <1>3 DEF RecordHistory
  <2>3. QED
    BY <1>3, <2>1, <2>2 DEF JobLaunched
<1>4. QED
  BY <1>1, <1>2, <1>3 DEF RecordHistory

LEMMA LaunchStep ==
  ASSUME "delJob" \notin Disturbances
  PROVE  TypeInv /\ RequestInv /\ LaunchInv /\ [Next]_vars => LaunchInv'
<1> SUFFICES ASSUME TypeInv, RequestInv, LaunchInv, [Next]_vars
             PROVE  LaunchInv'
  OBVIOUS
<1>1. ASSUME Next, NEW n \in Requests
      PROVE  launches'[n] <= 1 /\ (launches'[n] > 0 => OwnJob(n)')
  <2>1. /\ launches[n] \in Nat /\ launches[n] <= 1
        /\ launches[n] > 0 => OwnJob(n)
    BY DEF TypeInv, HistoryOK, LaunchInv
  <2>2. CASE launches'[n] = launches[n] /\ requests'[n].uid = requests[n].uid
    BY <1>1, <2>1, <2>2, OwnJobStep
  <2>3. CASE /\ requests'[n].uid = requests[n].uid
             /\ JobLaunched(n) /\ reqObj.uid = requests[n].uid
             /\ launches'[n] = launches[n] + 1
    <3>1. launches[n] = 0
      BY <2>1, <2>3 DEF OwnJob, JobLaunched
    <3>2. Exists(reqObj)
      BY <2>3 DEF JobLaunched, RequestInv, RequestMemory
    <3>3. OwnJob(n)'
      BY <2>3, <3>2 DEF OwnJob, JobLaunched, Exists
    <3>4. QED
      BY <2>3, <3>1, <3>3
  <2>4. QED
    BY <1>1, <2>2, <2>3, LaunchChange
<1>2. CASE UNCHANGED vars
  BY <1>2 DEF vars, serverVars, storeVars, historyVars, LaunchInv, OwnJob, Exists
<1>3. QED
  BY <1>1, <1>2 DEF LaunchInv

\* One JobRequest launches at most one Job, whatever is edited, deleted, recreated or
\* lost, as long as nobody deletes the Job itself.
THEOREM OneLaunch ==
  ASSUME "delJob" \notin Disturbances
  PROVE  Spec => []JobLaunchedOnce
<1>1. TypeInv /\ RequestInv /\ LaunchInv /\ [Next]_vars => LaunchInv'
  BY LaunchStep
<1>2. LaunchInv => JobLaunchedOnce
  BY DEF LaunchInv, JobLaunchedOnce
<1>3. QED
  BY LaunchInit, SafeState, <1>1, <1>2, PTL DEF Spec
-----------------------------------------------------------------------------
(* The steps of the JobRequest worker, told by what they do to its memory and by
   what made it do so. *)

\* The worker holds in memory what it held, or obj, with another state.
HoldsState(obj, state) ==
  /\ reqObj'.uid = obj.uid /\ reqObj'.rv = obj.rv /\ reqObj'.by = obj.by
  /\ reqObj'.reviewName = obj.reviewName
  /\ reqObj'.state = state

WorkerTook ==
  /\ reqPc = "idle"
  /\ reqName' \in Requests
  /\ Exists(requests[reqName'])
  /\ UNCHANGED <<requests, jobs>>
  /\ \/ /\ reqObj' = requests[reqName']
        /\ \/ reqPc' = "prune" /\ Expired(reqObj')
           \/ reqPc' = "listTarget" /\ reqObj'.by # NoUser
     \/ /\ reqPc' = "update" /\ HoldsState(requests[reqName'], "Malformed")
        /\ requests[reqName'].by = NoUser
WorkerMoved ==
  /\ reqPc \in {"listTarget", "listReviews", "getJob"}
  /\ UNCHANGED <<reqName, reqObj, requests, jobs>>
  /\ \/ reqPc' = "listReviews"
     \/ reqPc' = "getJob" /\ reqObj.state \in {"Approved", "Started"}
     \/ reqPc' = "create" /\ reqObj.state = "Approved"
     \/ reqPc' = "reread" /\ reqObj.state = "Started" /\ reqJob' = jobs[reqName].phase
WorkerSet ==
  /\ reqPc \in {"listTarget", "listReviews", "getJob", "create"} /\ reqPc' = "update"
  /\ UNCHANGED <<reqName, requests>>
  /\ HoldsState(reqObj, reqObj'.state)
  /\ \/ /\ reqObj'.state = "Malformed"
        /\ \/ reqPc = "listTarget" /\ ~targets[reqName]
           \/ reqPc = "getJob" /\ reqObj.state = "Started"
           \/ reqPc = "create"
     \/ /\ reqPc = "listReviews" /\ reqObj'.state = "Pending"
        /\ \/ "fault" \in Disturbances
           \/ ReviewsOf(reqName) = {}
           \/ reqObj.state = "Pending"
     \/ /\ reqPc = "getJob" /\ reqObj.state = "Approved"
        /\ reqObj'.state = "Conflicted"
     \/ /\ reqPc = "create" /\ reqObj'.state = "Started"
        /\ JobLaunched(reqName) /\ jobs'[reqName] # jobs[reqName]
WorkerReread ==
  /\ reqPc = "reread" /\ reqPc' = "update"
  /\ UNCHANGED <<reqName, requests, jobs>>
  /\ Exists(requests[reqName])
  /\ reqObj'.uid = requests[reqName].uid /\ reqObj'.rv = requests[reqName].rv
  /\ reqObj'.by = requests[reqName].by
  /\ requests[reqName].reviewName # NoReview =>
       reqObj'.reviewName = requests[reqName].reviewName
  /\ reqJob \in {"Complete", "Failed"} /\ reqObj'.state = reqJob
WorkerChange == WorkerTook \/ WorkerMoved \/ WorkerSet \/ WorkerReread

LEMMA SetStateHolds ==
  ASSUME TypeInv, NEW state, SetRequestState(state)
  PROVE  reqPc' = "update" /\ reqName' = reqName /\ HoldsState(reqObj, state)
<1>1. reqObj \in RequestObjects
  BY DEF TypeInv, RequestWorkerOK, RequestControllerTypeOK
<1>2. QED
  BY <1>1 DEF SetRequestState, HoldsState, RequestObjects

LEMMA WorkerTakes ==
  ASSUME TypeInv, NEW n \in Requests, BeginRequest(n)
  PROVE  reqPc' = "idle" \/ WorkerTook
<1>1. requests[n] \in RequestObjects
  BY DEF TypeInv, ServerOK, ServerTypeOK
<1>2. CASE /\ Exists(requests[n]) /\ reqName' = n
           /\ reqObj' = requests[n]
           /\ \/ reqPc' = "prune" /\ Expired(requests[n])
              \/ reqPc' = "listTarget" /\ requests[n].by # NoUser
  BY <1>2 DEF BeginRequest, storeVars, Expired, WorkerTook
<1>3. CASE /\ Exists(requests[n]) /\ reqName' = n /\ requests[n].by = NoUser
           /\ reqPc' = "update" /\ reqObj' = [requests[n] EXCEPT !.state = "Malformed"]
  <2>1. HoldsState(requests[n], "Malformed")
    BY <1>1, <1>3 DEF HoldsState, RequestObjects
  <2>2. QED
    BY <1>3, <2>1 DEF BeginRequest, storeVars, WorkerTook
<1>4. QED
  BY <1>2, <1>3 DEF BeginRequest, reqVars, Prunable, ValidRequestedBy

LEMMA WorkerLooks ==
  ASSUME TypeInv, ListTarget \/ ListReviews
  PROVE  reqPc' = "idle" \/ WorkerMoved \/ WorkerSet
<1>1. UNCHANGED <<requests, jobs>>
  BY DEF ListTarget, ListReviews, storeVars
<1>2. FinishRequest => reqPc' = "idle"
  BY DEF FinishRequest
<1>3. CASE ListTarget
  <2>1. RequestGoto("listReviews") => WorkerMoved
    BY <1>1, <1>3 DEF ListTarget, RequestGoto, WorkerMoved
  <2>2. SetRequestState("Malformed") /\ ~targets[reqName] => WorkerSet
    BY <1>1, <1>3, SetStateHolds DEF ListTarget, HoldsState, WorkerSet
  <2>3. QED
    BY <1>2, <1>3, <2>1, <2>2 DEF ListTarget
<1>4. CASE ListReviews
  <2> DEFINE state == IF ReviewsOf(reqName) = {} THEN "Pending" ELSE reqObj.state
  <2>1. RequestGoto("getJob") /\ reqObj.state \in {"Approved", "Started"} => WorkerMoved
    BY <1>1, <1>4 DEF ListReviews, RequestGoto, WorkerMoved
  <2>2. /\ SetRequestState("Pending")
        /\ "fault" \in Disturbances \/ ReviewsOf(reqName) = {} \/ reqObj.state = "Pending"
        => WorkerSet
    BY <1>1, <1>4, SetStateHolds DEF ListReviews, HoldsState, WorkerSet
  <2>3. Faulty => "fault" \in Disturbances
    BY DEF Faulty, Disturb
  <2>4. \/ "fault" \in Disturbances /\ HandleRequestState("Pending")
        \/ HandleRequestState(state)
    BY <1>4, <2>3 DEF ListReviews, CalculatedState
  <2>5. QED
    BY <1>2, <2>1, <2>2, <2>4 DEF HandleRequestState
<1>5. QED
  BY <1>3, <1>4

LEMMA WorkerLaunches ==
  ASSUME TypeInv, GetJobOfApproved \/ GetJobOfStarted \/ CreateJob
  PROVE  reqPc' = "idle" \/ WorkerMoved \/ WorkerSet
<1>1. FinishRequest => reqPc' = "idle"
  BY DEF FinishRequest
<1>2. CASE GetJobOfApproved
  <2>1. RequestGoto("create") => WorkerMoved
    BY <1>2 DEF GetJobOfApproved, storeVars, RequestGoto, WorkerMoved
  <2>2. SetRequestState("Conflicted") => WorkerSet
    BY <1>2, SetStateHolds DEF GetJobOfApproved, storeVars, HoldsState, WorkerSet
  <2>3. QED
    BY <1>1, <1>2, <2>1, <2>2 DEF GetJobOfApproved, JobPresent
<1>3. CASE GetJobOfStarted
  <2>1. SetRequestState("Malformed") => WorkerSet
    BY <1>3, SetStateHolds DEF GetJobOfStarted, storeVars, HoldsState, WorkerSet
  <2>2. QED
    BY <1>3, <2>1 DEF GetJobOfStarted, JobMissing, storeVars, WorkerMoved
<1>4. CASE CreateJob
  <2>1. SetRequestState("Malformed") => WorkerSet
    BY <1>4, SetStateHolds DEF CreateJob, HoldsState, WorkerSet
  <2>2. ASSUME SetRequestState("Started"), StoreJob(reqName, LaunchedJob, reqObj.uid),
               jobs[reqName].phase = "None"
        PROVE  WorkerSet
    <3>1. reqName \in Requests /\ reqPc = "create" /\ UNCHANGED requests
      BY <1>4 DEF CreateJob, TypeInv, RequestWorkerOK
    <3>2. jobs'[reqName].phase = "Active" /\ jobs'[reqName].owner = reqObj.uid
      BY <2>2, <3>1 DEF StoreJob, LaunchedJob, TypeInv, ServerOK, ServerTypeOK
    <3>3. JobLaunched(reqName) /\ jobs'[reqName] # jobs[reqName]
      BY <2>2, <3>1, <3>2, SetStateHolds DEF JobLaunched
    <3>4. QED
      BY <2>2, <3>1, <3>3, SetStateHolds DEF HoldsState, WorkerSet
  <2>3. QED
    BY <1>4, <2>1, <2>2 DEF CreateJob
<1>5. QED
  BY <1>2, <1>3, <1>4

LEMMA WorkerRereads ==
  ASSUME TypeInv, RereadRequest
  PROVE  reqPc' = "idle" \/ WorkerReread
<1> DEFINE obj == requests[reqName]
<1>1. obj \in RequestObjects
  BY DEF RereadRequest, TypeInv, ServerOK, ServerTypeOK, RequestWorkerOK
<1>2. ASSUME NEW name, obj.reviewName # NoReview => name = obj.reviewName,
             reqObj' = [obj EXCEPT !.state = reqJob, !.reviewName = name]
      PROVE  /\ reqObj'.uid = obj.uid /\ reqObj'.rv = obj.rv /\ reqObj'.by = obj.by
             /\ reqObj'.state = reqJob
             /\ obj.reviewName # NoReview => reqObj'.reviewName = obj.reviewName
  BY <1>1, <1>2 DEF RequestObjects
<1>3. QED
  BY <1>2 DEF RereadRequest, FinishRequest, storeVars, WorkerReread

\* Each step of the worker, and that no one else touches its memory
LEMMA WorkerSteps ==
  ASSUME TypeInv, Next
  PROVE  reqPc' = "idle" \/ WorkerChange \/ UNCHANGED reqVars
<1>1. CASE RequestController
  <2>1. CASE PruneRequest \/ UpdateRequest
    BY <2>1 DEF PruneRequest, UpdateRequest, FinishRequest
  <2>2. QED
    BY <1>1, <2>1, WorkerTakes, WorkerLooks, WorkerLaunches, WorkerRereads
       DEF RequestController, RequestWorkerStep, WorkerChange
<1>2. QED
  BY <1>1 DEF Next, RequestStep, ReviewStep, OutsideStep, Restart, workerVars
-----------------------------------------------------------------------------
(* The JobRequest being reconciled: while nobody deletes JobRequests, the one in
   the worker's memory is the one that is stored, and once a review has settled it
   only the worker moves it on. *)

MemoryCurrent ==
  reqPc # "idle" =>
    /\ requests[reqName].uid = reqObj.uid
    /\ reqPc # "update" /\ reqObj.state \notin {"", "Pending"} =>
         requests[reqName].state = reqObj.state
    /\ reqPc = "create" => reqObj.state = "Approved"
    /\ reqPc = "reread" => reqObj.state = "Started"
    /\ reqPc = "update" =>
         /\ reqObj.state \notin {"", "Approved", "Rejected"}
         /\ reqObj.state \in {"Started", "Conflicted"} =>
              requests[reqName].state = "Approved"
         /\ reqObj.state \in {"Complete", "Failed"} =>
              requests[reqName].state = "Started"

LEMMA MemoryCurrentOwn ==
  ASSUME TypeInv, MemoryCurrent, WorkerChange
  PROVE  MemoryCurrent'
<1>1. CASE WorkerTook
  BY <1>1 DEF WorkerTook, HoldsState, MemoryCurrent
<1>2. CASE WorkerMoved
  BY <1>2 DEF WorkerMoved, MemoryCurrent
<1>3. CASE WorkerSet
  <2>1. /\ requests[reqName].uid = reqObj.uid
        /\ reqObj.state \in {"Approved", "Started"} =>
             requests[reqName].state = reqObj.state
        /\ reqPc = "create" => reqObj.state = "Approved"
    BY <1>3 DEF WorkerSet, MemoryCurrent
  <2>2. QED
    BY <1>3, <2>1 DEF WorkerSet, HoldsState, MemoryCurrent
<1>4. CASE WorkerReread
  BY <1>4 DEF WorkerReread, MemoryCurrent
<1>5. QED
  BY <1>1, <1>2, <1>3, <1>4 DEF WorkerChange

\* A step of others on the JobRequest being reconciled
LEMMA OthersOnRequest ==
  ASSUME "delRequest" \notin Disturbances, TypeInv, RequestInv, MemoryCurrent, Next,
         UNCHANGED reqVars, reqPc # "idle"
  PROVE  /\ requests'[reqName].uid = requests[reqName].uid
         /\ \/ requests'[reqName].state = requests[reqName].state
            \/ requests[reqName].state = "Pending" /\ RequestDecided(reqName)
<1>1. reqName \in Requests /\ Exists(requests[reqName])
  BY DEF TypeInv, RequestWorkerOK, RequestInv, RequestMemory, MemoryCurrent, Exists
<1>2. ~RequestGone(reqName) /\ ~RequestMade(reqName) /\ ~RequestUpdated(reqName)
  BY <1>1 DEF RequestGone, RequestMade, RequestUpdated, reqVars
<1>3. RequestEdited(reqName) =>
        /\ requests'[reqName].uid = requests[reqName].uid
        /\ requests'[reqName].state = requests[reqName].state
  BY DEF RequestEdited
<1>4. RequestDecided(reqName) =>
        /\ requests'[reqName].uid = requests[reqName].uid
        /\ requests[reqName].state = "Pending"
  BY DEF RequestDecided, Copies, Fresh, RequestInv, ReviewMemory
<1>5. QED
  BY <1>1, <1>2, <1>3, <1>4, RequestChange

LEMMA MemoryCurrentStep ==
  ASSUME "delRequest" \notin Disturbances
  PROVE  TypeInv /\ RequestInv /\ MemoryCurrent /\ [Next]_vars => MemoryCurrent'
<1> SUFFICES ASSUME TypeInv, RequestInv, MemoryCurrent, [Next]_vars
             PROVE  MemoryCurrent'
  OBVIOUS
<1>1. CASE reqPc' = "idle"
  BY <1>1 DEF MemoryCurrent
<1>2. CASE WorkerChange
  BY <1>2, MemoryCurrentOwn
<1>3. CASE Next /\ UNCHANGED reqVars /\ reqPc # "idle"
  BY <1>3, OthersOnRequest DEF MemoryCurrent, reqVars
<1>4. CASE UNCHANGED vars
  BY <1>4 DEF vars, serverVars, storeVars, workerVars, reqVars, MemoryCurrent
<1>5. QED
  BY <1>1, <1>2, <1>3, <1>4, WorkerSteps DEF reqVars

LEMMA SafeMemory ==
  ASSUME "delRequest" \notin Disturbances
  PROVE  Spec => [](TypeInv /\ RequestInv /\ ApprovalInv /\ MemoryCurrent)
<1>1. Init => MemoryCurrent
  BY DEF Init, RequestControllerInit, MemoryCurrent
<1>2. TypeInv /\ RequestInv /\ MemoryCurrent /\ [Next]_vars => MemoryCurrent'
  BY MemoryCurrentStep
<1>3. QED
  BY SafeState, ApprovalInit, ApprovalStep, <1>1, <1>2, PTL DEF Spec

\* The step that gives a JobRequest the end of its course finds it Approved or Started.
LEMMA EndsAfterApproval ==
  ASSUME TypeInv, RequestInv, MemoryCurrent, Next, NEW n \in Requests,
         requests'[n].state \in {"Started", "Complete", "Failed", "Conflicted"}
  PROVE  /\ requests'[n].uid = requests[n].uid
         /\ \/ requests'[n].state = requests[n].state
            \/ /\ RequestUpdated(n) /\ requests'[n].state = reqObj.state
               /\ requests[n].state =
                    IF reqObj.state \in {"Started", "Conflicted"} THEN "Approved"
                    ELSE "Started"
<1>1. ~RequestGone(n) /\ ~RequestMade(n)
  <2>1. AbsentRequest.state = ""
    BY DEF AbsentRequest
  <2>2. QED
    BY <2>1 DEF RequestGone, RequestMade
<1>2. ~RequestDecided(n)
  BY DEF RequestDecided, Copies, RequestInv, ReviewMemory, TypeInv, ReviewWorkerOK,
     ReviewControllerTypeOK, ReviewObjects, Decisions
<1>3. CASE RequestUpdated(n)
  BY <1>3 DEF RequestUpdated, Copies, Fresh, MemoryCurrent
<1>4. QED
  BY <1>1, <1>2, <1>3, RequestChange DEF RequestEdited

-----------------------------------------------------------------------------
(* Approved means reviewed. *)

LEMMA ReviewedStep ==
  ASSUME "delRequest" \notin Disturbances
  PROVE  TypeInv /\ RequestInv /\ ApprovalInv /\ MemoryCurrent /\ ApprovedMeansReviewed
           /\ [Next]_vars => ApprovedMeansReviewed'
<1> SUFFICES ASSUME TypeInv, RequestInv, ApprovalInv, MemoryCurrent,
                    ApprovedMeansReviewed, [Next]_vars
             PROVE  ApprovedMeansReviewed'
  OBVIOUS
<1>1. ASSUME Next, NEW n \in Requests, HasBeenApproved(requests'[n])
      PROVE  ApprovedNext(n, requests'[n].uid)
  <2>1. requests'[n] \in RequestObjects
    BY <1>1, TypeStep DEF TypeInv, ServerOK, ServerTypeOK
  <2>2. CASE requests'[n].state = "Approved"
    BY <1>1, <2>2, RequestsApprovedStep
       DEF RequestsApproved, ApprovedByAnother, ApprovedNext, Launchable
  <2>3. CASE requests'[n].state \in {"Started", "Complete", "Failed", "Conflicted"}
    <3>1. requests'[n].uid = requests[n].uid
      BY <1>1, <2>3, EndsAfterApproval
    <3>2. HasBeenApproved(requests[n])
      BY <1>1, <2>3, EndsAfterApproval
         DEF HasBeenApproved, HasBeenReviewed, HasBeenRejected
    <3>3. RecordHistory
      BY <1>1 DEF Next, RequestStep, ReviewStep, OutsideStep
    <3>4. QED
      BY <3>1, <3>2, <3>3, ApprovalStays DEF ApprovedMeansReviewed
  <2>4. QED
    BY <1>1, <2>1, <2>2, <2>3
       DEF HasBeenApproved, HasBeenReviewed, HasBeenRejected, RequestObjects,
           RequestStates
<1>2. CASE Next
  BY <1>1, <1>2 DEF ApprovedMeansReviewed, ApprovedByAnother, ApprovedNext,
     HasBeenApproved, HasBeenReviewed, HasBeenRejected
<1>3. CASE UNCHANGED vars
  BY <1>3 DEF vars, serverVars, storeVars, historyVars, ApprovedMeansReviewed,
     ApprovedByAnother, HasBeenApproved, HasBeenReviewed, HasBeenRejected
<1>4. QED
  BY <1>2, <1>3

\* A JobRequest that HasBeenApproved was approved by another user, as long as nobody
\* deletes JobRequests while they are worked on.
THEOREM ApprovedWasReviewed ==
  ASSUME "delRequest" \notin Disturbances
  PROVE  Spec => []ApprovedMeansReviewed
<1>1. Init => ApprovedMeansReviewed
  <2>1. AbsentRequest.state = ""
    BY DEF AbsentRequest
  <2>2. QED
    BY <2>1 DEF Init, ServerInit, ApprovedMeansReviewed, HasBeenApproved, HasBeenReviewed
<1>2. TypeInv /\ RequestInv /\ ApprovalInv /\ MemoryCurrent /\ ApprovedMeansReviewed
        /\ [Next]_vars => ApprovedMeansReviewed'
  BY ReviewedStep
<1>3. QED
  BY SafeMemory, <1>1, <1>2, PTL DEF Spec
-----------------------------------------------------------------------------
(* The outcome of a JobRequest is that of its own Job. *)

LaunchedInv ==
  /\ \A n \in Requests :
       requests[n].state \in {"Started", "Complete", "Failed"} => launches[n] > 0
  /\ reqPc = "update" /\ reqObj.state = "Started" => launches[reqName] > 0

LEMMA LaunchesKept ==
  ASSUME TypeInv, Next, NEW n \in Requests, launches[n] > 0,
         requests'[n].uid = requests[n].uid
  PROVE  launches'[n] > 0
<1>1. launches[n] \in Nat
  BY DEF TypeInv, HistoryOK
<1>2. QED
  BY <1>1, LaunchChange

LEMMA LaunchedStep ==
  ASSUME "delRequest" \notin Disturbances
  PROVE  TypeInv /\ RequestInv /\ MemoryCurrent /\ LaunchedInv /\ [Next]_vars
           => LaunchedInv'
<1> SUFFICES ASSUME TypeInv, RequestInv, MemoryCurrent, LaunchedInv, [Next]_vars
             PROVE  LaunchedInv'
  OBVIOUS
<1>1. ASSUME Next, NEW n \in Requests,
             requests'[n].state \in {"Started", "Complete", "Failed"}
      PROVE  launches'[n] > 0
  <2>1. requests'[n].uid = requests[n].uid /\ launches[n] > 0
    BY <1>1, EndsAfterApproval DEF LaunchedInv, RequestUpdated
  <2>2. QED
    BY <1>1, <2>1, LaunchesKept
<1>2. ASSUME Next, reqPc' = "update", reqObj'.state = "Started"
      PROVE  launches'[reqName'] > 0
  <2>1. CASE UNCHANGED reqVars
    <3>1. reqName \in Requests /\ launches[reqName] > 0
      BY <1>2, <2>1 DEF TypeInv, RequestWorkerOK, LaunchedInv, reqVars
    <3>2. requests'[reqName].uid = requests[reqName].uid
      BY <1>2, <2>1, OthersOnRequest DEF reqVars
    <3>3. QED
      BY <1>2, <2>1, <3>1, <3>2, LaunchesKept DEF reqVars
  <2>2. CASE WorkerChange
    <3>1. /\ reqPc = "create" /\ reqName' = reqName /\ UNCHANGED requests
          /\ JobLaunched(reqName) /\ jobs'[reqName] # jobs[reqName]
      BY <1>2, <2>2 DEF WorkerChange, WorkerTook, WorkerMoved, WorkerSet, WorkerReread,
         HoldsState
    <3>2. reqName \in Requests /\ jobs'[reqName].owner = requests[reqName].uid
      BY <3>1 DEF JobLaunched, MemoryCurrent, TypeInv, RequestWorkerOK
    <3>3. RecordHistory
      BY <1>2 DEF Next, RequestStep, ReviewStep, OutsideStep
    <3>4. launches'[reqName] = launches[reqName] + 1
      BY <1>2, <3>1, <3>2, <3>3 DEF RecordHistory
    <3>5. launches[reqName] \in Nat
      BY <3>2 DEF TypeInv, HistoryOK
    <3>6. QED
      BY <3>1, <3>4, <3>5
  <2>3. QED
    BY <1>2, <2>1, <2>2, WorkerSteps
<1>3. CASE Next
  BY <1>1, <1>2, <1>3 DEF LaunchedInv
<1>4. CASE UNCHANGED vars
  BY <1>4 DEF vars, serverVars, storeVars, workerVars, reqVars, historyVars, LaunchedInv
<1>5. QED
  BY <1>3, <1>4

\* What the worker learned of the Job's end still holds of the Job.
OutcomeMemory ==
  /\ reqPc = "reread" /\ reqJob \in {"Complete", "Failed"} => jobs[reqName].phase = reqJob
  /\ reqPc = "update" /\ reqObj.state \in {"Complete", "Failed"} =>
       jobs[reqName].phase = reqObj.state

OutcomeInv == /\ TypeInv /\ RequestInv /\ ApprovalInv /\ MemoryCurrent
              /\ LaunchInv /\ LaunchedInv /\ OutcomeMemory

LEMMA StartedHasOwnJob ==
  ASSUME OutcomeInv, NEW n \in Requests, requests[n].state = "Started"
  PROVE  OwnJob(n)
BY DEF OutcomeInv, LaunchedInv, LaunchInv

LEMMA OutcomeMemoryStep ==
  ASSUME "delJob" \notin Disturbances, "delRequest" \notin Disturbances
  PROVE  OutcomeInv /\ [Next]_vars => OutcomeMemory'
<1> SUFFICES ASSUME OutcomeInv, [Next]_vars
             PROVE  OutcomeMemory'
  OBVIOUS
<1>1. CASE WorkerChange
  BY <1>1 DEF WorkerChange, WorkerTook, WorkerMoved, WorkerSet, WorkerReread, HoldsState,
     OutcomeInv, OutcomeMemory
<1>2. CASE reqPc' = "idle"
  BY <1>2 DEF OutcomeMemory
<1>3. CASE Next /\ UNCHANGED reqVars
  <2> SUFFICES ASSUME \/ reqPc = "reread" /\ reqJob \in {"Complete", "Failed"}
                      \/ reqPc = "update" /\ reqObj.state \in {"Complete", "Failed"}
               PROVE  jobs'[reqName].phase = jobs[reqName].phase
    BY <1>3 DEF reqVars, OutcomeInv, OutcomeMemory
  <2>1. reqName \in Requests /\ requests[reqName].state = "Started"
    BY DEF OutcomeInv, TypeInv, RequestWorkerOK, MemoryCurrent
  <2>2. jobs[reqName].phase \in {"Complete", "Failed"}
    BY DEF OutcomeInv, OutcomeMemory
  <2>3. QED
    BY <1>3, <2>1, <2>2, StartedHasOwnJob, OwnJobStays DEF OutcomeInv
<1>4. CASE UNCHANGED vars
  BY <1>4 DEF vars, serverVars, storeVars, workerVars, reqVars, OutcomeInv, OutcomeMemory
<1>5. QED
  BY <1>1, <1>2, <1>3, <1>4, WorkerSteps DEF OutcomeInv

LEMMA SafeOutcome ==
  ASSUME "delJob" \notin Disturbances, "delRequest" \notin Disturbances
  PROVE  Spec => []OutcomeInv
<1>1. Init => LaunchedInv /\ OutcomeMemory
  <2>1. AbsentRequest.state = ""
    BY DEF AbsentRequest
  <2>2. QED
    BY <2>1 DEF Init, ServerInit, RequestControllerInit, LaunchedInv, OutcomeMemory
<1>2. TypeInv /\ RequestInv /\ MemoryCurrent /\ LaunchedInv /\ [Next]_vars => LaunchedInv'
  BY LaunchedStep
<1>3. TypeInv /\ RequestInv /\ LaunchInv /\ [Next]_vars => LaunchInv'
  BY LaunchStep
<1>4. /\ TypeInv /\ RequestInv /\ ApprovalInv /\ MemoryCurrent /\ LaunchInv /\ LaunchedInv
      /\ OutcomeMemory /\ [Next]_vars
      => OutcomeMemory'
  BY OutcomeMemoryStep DEF OutcomeInv
<1>5. Spec => [](TypeInv /\ RequestInv /\ ApprovalInv /\ MemoryCurrent)
  BY SafeMemory
<1>6. QED
  BY LaunchInit, <1>1, <1>2, <1>3, <1>4, <1>5, PTL DEF Spec, OutcomeInv

\* A JobRequest becomes Complete or Failed only when the Job created for it has, as
\* long as nobody deletes the JobRequest or the Job.
THEOREM OutcomeOfOwnJob ==
  ASSUME "delJob" \notin Disturbances, "delRequest" \notin Disturbances
  PROVE  Spec => OutcomeIsOfOwnJob
<1> DEFINE Own ==
      \A n \in Requests :
        /\ requests'[n].state \in {"Complete", "Failed"}
        /\ requests'[n].state # requests[n].state
        => /\ jobs[n].phase = requests'[n].state
           /\ jobs[n].owner = requests[n].uid
<1>1. ASSUME OutcomeInv, Next, NEW n \in Requests,
             requests'[n].state \in {"Complete", "Failed"},
             requests'[n].state # requests[n].state
      PROVE  jobs[n].phase = requests'[n].state /\ jobs[n].owner = requests[n].uid
  <2>1. /\ RequestUpdated(n) /\ requests'[n].state = reqObj.state
        /\ requests[n].state = "Started"
    BY <1>1, EndsAfterApproval DEF OutcomeInv
  <2>2. jobs[n].phase = reqObj.state
    BY <1>1, <2>1 DEF RequestUpdated, OutcomeInv, OutcomeMemory
  <2>3. OwnJob(n)
    BY <1>1, <2>1, StartedHasOwnJob
  <2>4. QED
    BY <2>1, <2>2, <2>3 DEF OwnJob
<1>2. OutcomeInv /\ Next => Own
  BY <1>1
<1>3. UNCHANGED vars => Own
  BY DEF vars, serverVars, storeVars
<1>4. OutcomeInv /\ [Next]_vars => [Own]_vars
  BY <1>2, <1>3
<1>5. QED
  BY <1>4, SafeOutcome, PTL DEF Spec, OutcomeIsOfOwnJob
-----------------------------------------------------------------------------
(* The steps of the review worker. *)

HoldsReview(obj, state) ==
  /\ revObj'.uid = obj.uid /\ revObj'.rv = obj.rv /\ revObj'.by = obj.by
  /\ revObj'.for = obj.for /\ revObj'.decision = obj.decision
  /\ revObj'.state = state

ReviewerTook ==
  /\ revPc = "idle"
  /\ revName' \in Reviews
  /\ Exists(reviewCache[revName'])
  /\ UNCHANGED <<requests, reviews, decisions>>
  /\ \/ revPc' = "prune" /\ revObj' = reviewCache[revName'] /\ Expired(revObj')
     \/ /\ revPc' = "listRequest" /\ revObj' = reviewCache[revName']
        /\ ~Expired(revObj') /\ revObj'.state = ""
     \/ /\ revPc' = "update" /\ ~Expired(revObj')
        /\ HoldsReview(reviewCache[revName'], "JobRequestMalformed")
ReviewerChose ==
  /\ revPc = "listRequest" /\ revPc' = "decide"
  /\ UNCHANGED <<revName, revObj, requests, reviews, decisions>>
  /\ Fresh(requests[revObj.for], revReq')
  /\ revReq'.reviewName = revName
ReviewerAnswered ==
  /\ revPc = "listRequest" /\ revPc' = "update"
  /\ UNCHANGED <<revName, requests, reviews, decisions>>
  /\ HoldsReview(revObj, revObj'.state)
  /\ revObj'.state \in {"JobRequestMalformed", "JobRequestNotFound", "Conflict"}
ReviewerDecided ==
  /\ revPc = "decide" /\ revPc' = "update"
  /\ UNCHANGED <<revName, reviews>>
  /\ HoldsReview(revObj, revObj.decision)
  /\ \/ "fault" \in Disturbances
     \/ ~Fresh(requests[revObj.for], revReq)
     \/ StoreRequest(revObj.for, revReq)
ReviewerChange == ReviewerTook \/ ReviewerChose \/ ReviewerAnswered \/ ReviewerDecided

LEMMA SetReviewHolds ==
  ASSUME TypeInv, NEW state, SetReviewState(state)
  PROVE  revPc' = "update" /\ revName' = revName /\ HoldsReview(revObj, state)
<1>1. revObj \in ReviewObjects
  BY DEF TypeInv, ReviewWorkerOK, ReviewControllerTypeOK
<1>2. QED
  BY <1>1 DEF SetReviewState, HoldsReview, ReviewObjects

LEMMA DecisionsKept ==
  ASSUME RecordHistory, revPc # "decide"
  PROVE  UNCHANGED decisions
BY DEF RecordHistory

LEMMA ReviewerTakes ==
  ASSUME TypeInv, NEW r \in Reviews, BeginReview(r), RecordHistory
  PROVE  revPc' = "idle" \/ ReviewerTook
<1> DEFINE obj == reviewCache[r]
<1>1. obj \in ReviewObjects
  BY DEF TypeInv, ServerOK, ServerTypeOK
<1>2. UNCHANGED <<requests, reviews, decisions, horizon>>
  BY DecisionsKept DEF BeginReview, storeVars
<1>3. CASE /\ Exists(obj) /\ revName' = r /\ revObj' = obj
           /\ \/ revPc' = "prune" /\ Expired(obj)
              \/ revPc' = "listRequest" /\ ~Expired(obj) /\ obj.state = ""
  BY <1>2, <1>3 DEF BeginReview, ReviewerTook, Expired
<1>4. CASE /\ Exists(obj) /\ revName' = r /\ ~Expired(obj) /\ revPc' = "update"
           /\ revObj' = [obj EXCEPT !.state = "JobRequestMalformed"]
  <2>1. HoldsReview(obj, "JobRequestMalformed") /\ ~Expired(revObj')
    BY <1>1, <1>4 DEF HoldsReview, ReviewObjects, Expired
  <2>2. QED
    BY <1>2, <1>4, <2>1 DEF BeginReview, ReviewerTook
<1>5. QED
  BY <1>3, <1>4 DEF BeginReview, revVars, HasState

LEMMA ReviewerLooks ==
  ASSUME TypeInv, ListRequest, RecordHistory
  PROVE  revPc' = "idle" \/ ReviewerChose \/ ReviewerAnswered
<1> DEFINE request == requests[revObj.for]
<1>1. request \in RequestObjects /\ UNCHANGED <<requests, reviews, decisions>>
  BY DecisionsKept DEF ListRequest, storeVars, TypeInv, ServerOK, ServerTypeOK,
     ReviewWorkerOK
<1>2. FinishReview => revPc' = "idle"
  BY DEF FinishReview
<1>3. ASSUME NEW state \in {"JobRequestMalformed", "JobRequestNotFound", "Conflict"},
             SetReviewState(state)
      PROVE  ReviewerAnswered
  BY <1>1, <1>3, SetReviewHolds DEF ListRequest, HoldsReview, ReviewerAnswered
<1>4. ASSUME revPc' = "decide", UNCHANGED <<revName, revObj>>,
             revReq' = [request EXCEPT !.state = revObj.decision, !.reviewName = revName]
      PROVE  ReviewerChose
  <2>1. /\ revReq'.uid = request.uid /\ revReq'.rv = request.rv
        /\ revReq'.reviewName = revName
    BY <1>1, <1>4 DEF RequestObjects
  <2>2. QED
    BY <1>1, <1>4, <2>1 DEF ListRequest, Fresh, ReviewerChose
<1>5. DecideOn(request) => revPc' = "idle" \/ ReviewerChose \/ ReviewerAnswered
  BY <1>3, <1>4 DEF DecideOn
<1> HIDE DEF request
<1>6. QED
  BY <1>2, <1>3, <1>5 DEF ListRequest, request

LEMMA ReviewerSteps ==
  ASSUME TypeInv, Next
  PROVE  revPc' = "idle" \/ ReviewerChange \/ UNCHANGED revVars
<1>1. RecordHistory
  BY DEF Next, RequestStep, ReviewStep, OutsideStep
<1>2. CASE ReviewController
  <2>1. CASE PruneReview \/ UpdateReview
    BY <2>1 DEF PruneReview, UpdateReview, FinishReview
  <2>2. CASE Decide
    <3>1. HoldsReview(revObj, revObj.decision) /\ revName' = revName /\ revPc' = "update"
      BY <2>2, SetReviewHolds DEF Decide
    <3>2. QED
      BY <2>2, <3>1 DEF Decide, Faulty, Disturb, ReviewerDecided, ReviewerChange
  <2>3. QED
    BY <1>1, <1>2, <2>1, <2>2, ReviewerTakes, ReviewerLooks
       DEF ReviewController, ReviewWorkerStep, ReviewerChange
<1>3. QED
  BY <1>2 DEF Next, RequestStep, ReviewStep, OutsideStep, Restart, workerVars

-----------------------------------------------------------------------------
(* Versions of JobRequests: while the stored JobRequest has the version that the
   worker read, the worker's copy differs from it by what the worker made of it. *)

MemoryVersion ==
  reqPc # "idle" =>
    /\ reqObj.rv <= revision
    /\ Fresh(requests[reqName], reqObj) =>
         /\ reqPc # "update" => reqObj = requests[reqName]
         /\ reqObj.by = requests[reqName].by
         /\ \/ reqObj.reviewName = requests[reqName].reviewName
            \/ /\ requests[reqName].reviewName = NoReview
               /\ reqObj.state \in {"Complete", "Failed"}

LEMMA RevisionGrows ==
  ASSUME TypeInv, Next
  PROVE  revision \in Nat /\ revision' \in {revision, revision + 1}
BY ReviewChange DEF TypeInv, ServerOK, ServerTypeOK, SomeReviewStored, ReviewStored,
   ReviewsMoved, ReviewsKept

LEMMA MemoryVersionOwn ==
  ASSUME TypeInv, RequestInv, MemoryVersion, WorkerChange, revision \in Nat,
         revision' \in {revision, revision + 1}
  PROVE  MemoryVersion'
<1>1. ASSUME NEW n \in Requests
      PROVE  requests[n].rv \in Nat /\ requests[n].rv <= revision'
  <2>1. requests[n].rv \in Nat
    BY DEF TypeInv, ServerOK, ServerTypeOK, RequestObjects
  <2>2. requests[n].rv <= revision
    BY DEF RequestInv, RequestVersions
  <2>3. QED
    BY <2>1, <2>2
<1>2. CASE WorkerTook
  BY <1>1, <1>2 DEF WorkerTook, HoldsState, MemoryVersion
<1>3. reqPc # "idle" => reqName \in Requests /\ reqObj.rv \in Nat
  BY DEF TypeInv, RequestWorkerOK, RequestControllerTypeOK, RequestObjects
<1>4. CASE WorkerMoved
  BY <1>3, <1>4 DEF WorkerMoved, MemoryVersion, Fresh
<1>5. CASE WorkerSet
  <2>1. reqObj'.rv <= revision'
    BY <1>3, <1>5 DEF WorkerSet, HoldsState, MemoryVersion
  <2>2. ASSUME Fresh(requests'[reqName'], reqObj')
        PROVE  /\ reqObj'.by = requests'[reqName'].by
               /\ reqObj'.reviewName = requests'[reqName'].reviewName
    <3>1. Fresh(requests[reqName], reqObj)
      BY <1>5, <2>2 DEF WorkerSet, HoldsState, Fresh
    <3>2. reqObj = requests[reqName]
      BY <1>5, <3>1 DEF WorkerSet, MemoryVersion
    <3>3. QED
      BY <1>5, <3>2 DEF WorkerSet, HoldsState
  <2>3. QED
    BY <1>5, <2>1, <2>2 DEF WorkerSet, MemoryVersion, Fresh
<1>6. CASE WorkerReread
  BY <1>1, <1>3, <1>6 DEF WorkerReread, MemoryVersion, Fresh
<1>7. QED
  BY <1>2, <1>4, <1>5, <1>6 DEF WorkerChange

\* A write by others gives the JobRequest a version that the worker has not read.
LEMMA FreshIsSame ==
  ASSUME TypeInv, RequestInv, Next, NEW n \in Requests, NEW obj \in RequestObjects,
         Exists(obj), obj.rv <= revision, Fresh(requests'[n], obj)
  PROVE  requests'[n] = requests[n]
<1>1. ~Written(n)
  BY DEF Written, Fresh, RequestObjects, TypeInv, ServerOK, ServerTypeOK
<1>2. ~RequestGone(n)
  <2>1. AbsentRequest.uid = 0
    BY DEF AbsentRequest
  <2>2. QED
    BY <2>1 DEF RequestGone, Fresh, Exists
<1>3. QED
  BY <1>1, <1>2, RequestChange
     DEF RequestMade, RequestEdited, RequestUpdated, RequestDecided

LEMMA MemoryVersionStep ==
  TypeInv /\ RequestInv /\ MemoryVersion /\ [Next]_vars => MemoryVersion'
<1> SUFFICES ASSUME TypeInv, RequestInv, MemoryVersion, [Next]_vars
             PROVE  MemoryVersion'
  OBVIOUS
<1>1. CASE reqPc' = "idle"
  BY <1>1 DEF MemoryVersion
<1>2. CASE Next /\ WorkerChange
  BY <1>2, RevisionGrows, MemoryVersionOwn
<1>3. CASE Next /\ UNCHANGED reqVars /\ reqPc # "idle"
  <2>1. reqName \in Requests /\ reqObj \in RequestObjects /\ Exists(reqObj)
    BY <1>3 DEF TypeInv, RequestWorkerOK, RequestControllerTypeOK, RequestInv,
       RequestMemory
  <2>2. reqObj.rv <= revision /\ reqObj.rv <= revision'
    <3>1. reqObj.rv \in Nat /\ reqObj.rv <= revision
      BY <1>3, <2>1 DEF RequestObjects, MemoryVersion
    <3>2. QED
      BY <1>3, <3>1, RevisionGrows
  <2>3. Fresh(requests'[reqName], reqObj) => requests'[reqName] = requests[reqName]
    BY <1>3, <2>1, <2>2, FreshIsSame
  <2>4. QED
    BY <1>3, <2>2, <2>3 DEF MemoryVersion, reqVars, Fresh
<1>4. CASE UNCHANGED vars
  BY <1>4 DEF vars, serverVars, storeVars, workerVars, reqVars, MemoryVersion, Fresh
<1>5. QED
  BY <1>1, <1>2, <1>3, <1>4, WorkerSteps DEF reqVars

-----------------------------------------------------------------------------
(* A review tells the truth: when no call fails, nobody edits or deletes a JobRequest,
   its target stays and no TTL passes, a Pending JobRequest is written by reviews only,
   so that the decision is accepted before the review says so. *)

\* Time passes in a step of its own, to the age of an object that exists.
LEMMA TimeAndTargets ==
  ASSUME Next
  PROVE  /\ targets' = targets \/ "target" \in Disturbances
         /\ \/ horizon' = horizon
            \/ /\ "age" \in Disturbances
               /\ UNCHANGED <<requests, reviews, jobs, revision, watchVars, workerVars>>
               /\ horizon' \in {requests[n].uid : n \in Requests}
                                 \cup {reviews[r].uid : r \in Reviews}
               /\ horizon' > horizon
<1>1. CASE RequestController
  BY <1>1 DEF RequestController, RequestWorkerStep, BeginRequest, PruneRequest,
     ListTarget, ListReviews, GetJobOfApproved, GetJobOfStarted, CreateJob,
     RereadRequest, UpdateRequest, storeVars
<1>2. CASE ReviewController
  BY <1>2 DEF ReviewController, ReviewWorkerStep, BeginReview, PruneReview, ListRequest,
     Decide, UpdateReview, storeVars
<1>3. CASE PeopleStep
  BY <1>3 DEF PeopleStep, CreateRequest, CreateReview, EditRequest, EditReview,
     RetargetReview, DeleteRequest, DeleteReview, CreateForeignJob, DeleteJob,
     ChangeTarget, Disturb
<1>4. CASE ClusterStep /\ UNCHANGED workerVars
  BY <1>4 DEF ClusterStep, FinishJob, CollectJob, PassTtl, Disturb
<1>5. CASE WatchStep \/ Restart
  BY <1>5 DEF WatchStep, DeliverReview, ResyncReview, ResyncRequest, Restart, storeVars
<1>6. QED
  BY <1>1, <1>2, <1>3, <1>4, <1>5 DEF Next, RequestStep, ReviewStep, OutsideStep

\* What a worker is about to prune is past the TTL.
PruneOld == /\ reqPc = "prune" => Expired(reqObj)
            /\ revPc = "prune" => Expired(revObj)

LEMMA HorizonGrows ==
  ASSUME TypeInv, Next, NEW uid \in Nat, uid <= horizon
  PROVE  uid <= horizon'
<1>1. /\ horizon \in Nat
      /\ \A n \in Requests : requests[n].uid \in Nat
      /\ \A r \in Reviews : reviews[r].uid \in Nat
  BY DEF TypeInv, ServerOK, ServerTypeOK, RequestObjects, ReviewObjects
<1>2. horizon' = horizon \/ (horizon' \in Nat /\ horizon' > horizon)
  <2>1. ASSUME horizon' \in {requests[n].uid : n \in Requests}
                              \cup {reviews[r].uid : r \in Reviews}
        PROVE  horizon' \in Nat
    BY <1>1, <2>1
  <2>2. \/ horizon' = horizon
        \/ /\ horizon' > horizon
           /\ horizon' \in {requests[n].uid : n \in Requests}
                             \cup {reviews[r].uid : r \in Reviews}
    BY TimeAndTargets
  <2>3. QED
    BY <2>1, <2>2
<1>3. QED
  BY <1>1, <1>2

LEMMA PruneOldStep == TypeInv /\ PruneOld /\ [Next]_vars => PruneOld'
<1> SUFFICES ASSUME TypeInv, PruneOld, [Next]_vars
             PROVE  PruneOld'
  OBVIOUS
<1>1. reqObj.uid \in Nat /\ revObj.uid \in Nat
  BY DEF TypeInv, RequestWorkerOK, RequestControllerTypeOK, RequestObjects,
     ReviewWorkerOK, ReviewControllerTypeOK, ReviewObjects
<1>2. ASSUME Next, reqPc' = "prune"
      PROVE  reqObj'.uid <= horizon'
  <2>1. CASE WorkerTook
    <3>1. reqObj' = requests[reqName'] /\ reqObj'.uid <= horizon /\ reqName' \in Requests
      BY <1>2, <2>1 DEF WorkerTook, Expired
    <3>2. reqObj'.uid \in Nat
      BY <3>1 DEF TypeInv, ServerOK, ServerTypeOK, RequestObjects
    <3>3. QED
      BY <1>2, <3>1, <3>2, HorizonGrows
  <2>2. CASE UNCHANGED reqVars
    BY <1>1, <1>2, <2>2, HorizonGrows DEF PruneOld, Expired, reqVars
  <2>3. QED
    BY <1>2, <2>1, <2>2, WorkerSteps
       DEF WorkerChange, WorkerMoved, WorkerSet, WorkerReread
<1>3. ASSUME Next, revPc' = "prune"
      PROVE  revObj'.uid <= horizon'
  <2>1. CASE ReviewerTook
    <3>1. /\ revObj' = reviewCache[revName'] /\ revObj'.uid <= horizon
          /\ revName' \in Reviews
      BY <1>3, <2>1 DEF ReviewerTook, Expired
    <3>2. revObj'.uid \in Nat
      BY <3>1 DEF TypeInv, ServerOK, ServerTypeOK, ReviewObjects
    <3>3. QED
      BY <1>3, <3>1, <3>2, HorizonGrows
  <2>2. CASE UNCHANGED revVars
    BY <1>1, <1>3, <2>2, HorizonGrows DEF PruneOld, Expired, revVars
  <2>3. QED
    BY <1>3, <2>1, <2>2, ReviewerSteps
       DEF ReviewerChange, ReviewerChose, ReviewerAnswered, ReviewerDecided
<1>4. CASE Next
  BY <1>2, <1>3, <1>4 DEF PruneOld, Expired
<1>5. CASE UNCHANGED vars
  BY <1>5 DEF vars, serverVars, storeVars, workerVars, reqVars, revVars, PruneOld,
     Expired
<1>6. QED
  BY <1>4, <1>5

\* The review r, in its life since revision uid, decided JobRequest n.
AcceptedDecision(r, uid, n, decision) ==
  \E d \in decisions : /\ d.review = r /\ d.reviewUid = uid
                       /\ d.request = n /\ d.decision = decision

Quiet == /\ horizon = 0
         /\ \A n \in Requests : targets[n]

PendingRequested ==
  /\ \A n \in Requests : requests[n].state = "Pending" => requests[n].by # NoUser
  /\ \/ reqPc \in {"listTarget", "listReviews", "getJob", "create"}
     \/ reqPc = "update" /\ reqObj.state = "Pending"
     => reqObj.by # NoUser

MalformedNotPending ==
  reqPc = "update" /\ reqObj.state = "Malformed" => requests[reqName].state # "Pending"

TruthInv ==
  /\ revPc = "decide" => Fresh(requests[revObj.for], revReq)
  /\ revPc = "update" /\ revObj.state \in Decisions =>
       AcceptedDecision(revName, revObj.uid, revObj.for, revObj.state)
  /\ \A r \in Reviews :
       reviews[r].state \in Decisions =>
         AcceptedDecision(r, reviews[r].uid, reviews[r].for, reviews[r].state)

CalmInv == /\ TypeInv /\ RequestInv /\ ReviewInv /\ MemoryCurrent /\ MemoryVersion
           /\ PruneOld /\ Quiet /\ PendingRequested /\ MalformedNotPending

LEMMA QuietStep ==
  ASSUME "target" \notin Disturbances, "age" \notin Disturbances
  PROVE  Quiet /\ [Next]_vars => Quiet'
BY TimeAndTargets DEF Quiet, vars, serverVars, storeVars

\* The worker does not prune while no object is past the TTL.
LEMMA NothingPruned ==
  ASSUME "delRequest" \notin Disturbances, TypeInv, RequestInv, PruneOld, horizon = 0,
         NEW n \in Requests
  PROVE  ~RequestGone(n)
<1>1. reqObj.uid \in Nat
  BY DEF TypeInv, RequestWorkerOK, RequestControllerTypeOK, RequestObjects
<1>2. QED
  BY <1>1 DEF RequestGone, PruneOld, Expired, RequestInv, RequestMemory, Exists

\* What the worker would write to a Pending JobRequest is what is there.
LEMMA PendingNotUpdated ==
  ASSUME CalmInv, NEW n \in Requests, requests[n].state = "Pending"
  PROVE  ~RequestUpdated(n)
<1> SUFFICES ASSUME RequestUpdated(n)
             PROVE  FALSE
  OBVIOUS
<1>1. /\ reqPc = "update" /\ n = reqName
      /\ Fresh(requests[n], reqObj) /\ reqObj # requests[n]
  BY DEF RequestUpdated
<1>2. reqObj \in RequestObjects /\ requests[n] \in RequestObjects
  BY DEF CalmInv, TypeInv, ServerOK, ServerTypeOK, RequestWorkerOK,
     RequestControllerTypeOK
<1>3. reqObj.state = "Pending"
  BY <1>1, <1>2 DEF CalmInv, MemoryCurrent, MalformedNotPending, RequestObjects,
     RequestStates
<1>4. reqObj.by = requests[n].by /\ reqObj.reviewName = requests[n].reviewName
  BY <1>1, <1>3 DEF CalmInv, MemoryVersion
<1>5. reqObj.uid = requests[n].uid /\ reqObj.rv = requests[n].rv
  BY <1>1 DEF Fresh
<1>6. reqObj = requests[n]
  BY <1>2, <1>3, <1>4, <1>5 DEF RequestObjects
<1>7. QED
  BY <1>1, <1>6

\* Only a review writes a Pending JobRequest.
LEMMA PendingStays ==
  ASSUME "delRequest" \notin Disturbances, "edit" \notin Disturbances,
         CalmInv, Next, NEW n \in Requests, requests[n].state = "Pending"
  PROVE  requests'[n] = requests[n] \/ RequestDecided(n)
<1>1. ~RequestGone(n)
  BY NothingPruned DEF CalmInv, Quiet
<1>2. ~RequestMade(n)
  BY DEF RequestMade, CalmInv, RequestInv, RequestVersions
<1>3. QED
  BY <1>1, <1>2, PendingNotUpdated, RequestChange DEF RequestEdited, CalmInv

LEMMA PendingRequestedStep ==
  ASSUME "edit" \notin Disturbances
  PROVE  CalmInv /\ [Next]_vars => PendingRequested'
<1> SUFFICES ASSUME CalmInv, [Next]_vars
             PROVE  PendingRequested'
  OBVIOUS
<1>1. ASSUME Next, NEW n \in Requests, requests'[n].state = "Pending"
      PROVE  requests'[n].by # NoUser
  <2>1. requests[n].state = "Pending" => requests[n].by # NoUser
    BY DEF CalmInv, PendingRequested
  <2>2. AbsentRequest.state = ""
    BY DEF AbsentRequest
  <2>3. ~RequestDecided(n)
    <3>1. revReq.state = "Pending" => revPc # "decide"
      BY DEF CalmInv, RequestInv, ReviewMemory, TypeInv, ReviewWorkerOK,
         ReviewControllerTypeOK, ReviewObjects, Decisions
    <3>2. QED
      BY <1>1, <3>1 DEF RequestDecided, Copies
  <2>4. RequestUpdated(n) => requests'[n].by # NoUser
    BY <1>1 DEF RequestUpdated, Copies, CalmInv, PendingRequested
  <2>5. QED
    BY <1>1, <2>1, <2>2, <2>3, <2>4, RequestChange
       DEF RequestGone, RequestMade, RequestEdited, CalmInv
<1>2. ASSUME Next,
             \/ reqPc' \in {"listTarget", "listReviews", "getJob", "create"}
             \/ reqPc' = "update" /\ reqObj'.state = "Pending"
      PROVE  reqObj'.by # NoUser
  <2>1. CASE WorkerTook
    BY <1>2, <2>1 DEF WorkerTook, HoldsState
  <2>2. CASE WorkerMoved \/ WorkerSet
    BY <1>2, <2>2 DEF WorkerMoved, WorkerSet, HoldsState, CalmInv, PendingRequested
  <2>3. CASE WorkerReread
    BY <1>2, <2>3 DEF WorkerReread
  <2>4. CASE UNCHANGED reqVars
    BY <1>2, <2>4 DEF reqVars, CalmInv, PendingRequested
  <2>5. QED
    BY <1>2, <2>1, <2>2, <2>3, <2>4, WorkerSteps DEF WorkerChange, CalmInv
<1>3. CASE Next
  BY <1>1, <1>2, <1>3 DEF PendingRequested
<1>4. CASE UNCHANGED vars
  BY <1>4 DEF vars, serverVars, storeVars, workerVars, reqVars, CalmInv,
     PendingRequested
<1>5. QED
  BY <1>3, <1>4

LEMMA MalformedNotPendingStep ==
  ASSUME "delRequest" \notin Disturbances
  PROVE  CalmInv /\ [Next]_vars => MalformedNotPending'
<1> SUFFICES ASSUME CalmInv, [Next]_vars
             PROVE  MalformedNotPending'
  OBVIOUS
<1>1. CASE reqPc' = "idle"
  BY <1>1 DEF MalformedNotPending
<1>2. CASE WorkerTook
  BY <1>2 DEF WorkerTook, HoldsState, CalmInv, PendingRequested, MalformedNotPending
<1>3. CASE WorkerMoved \/ WorkerReread
  BY <1>3 DEF WorkerMoved, WorkerReread, MalformedNotPending
<1>4. CASE WorkerSet
  <2>1. reqName \in Requests
    BY <1>4 DEF WorkerSet, CalmInv, TypeInv, RequestWorkerOK
  <2>2. QED
    BY <1>4, <2>1
       DEF WorkerSet, HoldsState, CalmInv, Quiet, MemoryCurrent, MalformedNotPending
<1>5. CASE Next /\ UNCHANGED reqVars /\ reqPc # "idle"
  BY <1>5, OthersOnRequest DEF reqVars, CalmInv, MalformedNotPending
<1>6. CASE UNCHANGED vars
  BY <1>6 DEF vars, serverVars, storeVars, workerVars, reqVars, CalmInv,
     MalformedNotPending
<1>7. QED
  BY <1>1, <1>2, <1>3, <1>4, <1>5, <1>6, WorkerSteps DEF WorkerChange, CalmInv, reqVars

LEMMA SafeCalm ==
  ASSUME {"edit", "target", "delRequest", "age"} \cap Disturbances = {}
  PROVE  Spec => []CalmInv
<1>1. /\ "edit" \notin Disturbances /\ "target" \notin Disturbances
      /\ "delRequest" \notin Disturbances /\ "age" \notin Disturbances
  OBVIOUS
<1>2. Init => /\ MemoryVersion /\ PruneOld /\ Quiet /\ PendingRequested
              /\ MalformedNotPending
  <2>1. AbsentRequest.state = ""
    BY DEF AbsentRequest
  <2>2. QED
    BY <2>1 DEF Init, ServerInit, RequestControllerInit, ReviewControllerInit,
       MemoryVersion, PruneOld, Quiet, PendingRequested, MalformedNotPending
<1>3. TypeInv /\ RequestInv /\ MemoryVersion /\ [Next]_vars => MemoryVersion'
  BY MemoryVersionStep
<1>4. TypeInv /\ PruneOld /\ [Next]_vars => PruneOld'
  BY PruneOldStep
<1>5. Quiet /\ [Next]_vars => Quiet'
  BY <1>1, QuietStep
<1>6. CalmInv /\ [Next]_vars => PendingRequested' /\ MalformedNotPending'
  BY <1>1, PendingRequestedStep, MalformedNotPendingStep
<1>7. Spec => [](TypeInv /\ RequestInv /\ ApprovalInv /\ MemoryCurrent)
  BY <1>1, SafeMemory
<1>8. CalmInv <=> /\ TypeInv /\ RequestInv /\ ReviewInv /\ MemoryCurrent /\ MemoryVersion
                  /\ PruneOld /\ Quiet /\ PendingRequested /\ MalformedNotPending
  BY DEF CalmInv
<1>9. QED
  BY SafeReviews, <1>2, <1>3, <1>4, <1>5, <1>6, <1>7, <1>8, PTL DEF Spec

\* Decisions are remembered, and that of an accepted write is one of them.
LEMMA DecisionsGrow ==
  ASSUME Next
  PROVE  decisions \subseteq decisions'
BY DEF Next, RequestStep, ReviewStep, OutsideStep, RecordHistory

LEMMA DecisionRecorded ==
  ASSUME Next, NEW n \in Requests, revPc = "decide", revPc' = "update",
         requests'[n] # requests[n]
  PROVE  Decided(n) \in decisions'
BY DEF Next, RequestStep, ReviewStep, OutsideStep, RecordHistory

LEMMA DecideAccepted ==
  ASSUME "fault" \notin Disturbances, CalmInv, TruthInv, Next, ReviewerDecided
  PROVE  Decided(revObj.for) \in decisions'
<1> DEFINE n == revObj.for
<1>1. n \in Requests /\ revPc = "decide" /\ revPc' = "update"
  BY DEF ReviewerDecided, CalmInv, TypeInv, ReviewWorkerOK
<1>2. Fresh(requests[n], revReq)
  BY <1>1 DEF TruthInv
<1>3. revReq.state = revObj.decision /\ requests[n].state = "Pending"
  BY <1>1, <1>2 DEF CalmInv, RequestInv, ReviewMemory
<1>4. revObj.decision # "Pending"
  BY DEF CalmInv, TypeInv, ReviewWorkerOK, ReviewControllerTypeOK, ReviewObjects,
     Decisions
<1>5. StoreRequest(n, revReq)
  BY <1>2 DEF ReviewerDecided
<1>6. requests'[n].state = revObj.decision
  <2>1. /\ requests \in [Requests -> RequestObjects]
        /\ revReq \in RequestObjects
    BY DEF CalmInv, TypeInv, ServerOK, ServerTypeOK, ReviewWorkerOK,
       ReviewControllerTypeOK
  <2>2. revReq # requests[n]
    BY <1>3, <1>4
  <2>3. requests' = [requests EXCEPT ![n] = [revReq EXCEPT !.rv = revision + 1]]
    BY <1>5, <2>2 DEF StoreRequest
  <2> HIDE DEF n
  <2>4. requests'[n] = [revReq EXCEPT !.rv = revision + 1]
    BY <1>1, <2>1, <2>3
  <2>5. QED
    BY <1>3, <2>1, <2>4 DEF RequestObjects
<1>7. requests'[n] # requests[n]
  BY <1>3, <1>4, <1>6
<1>8. QED
  BY <1>1, <1>7, DecisionRecorded

LEMMA TruthStep ==
  ASSUME {"fault", "edit", "retarget", "target", "delRequest", "age"} \cap Disturbances = {}
  PROVE  CalmInv /\ TruthInv /\ [Next]_vars => TruthInv'
<1> SUFFICES ASSUME CalmInv, TruthInv, [Next]_vars
             PROVE  TruthInv'
  OBVIOUS
<1>1. /\ "fault" \notin Disturbances /\ "edit" \notin Disturbances
      /\ "retarget" \notin Disturbances /\ "delRequest" \notin Disturbances
  OBVIOUS
<1>2. ASSUME Next, revPc' = "decide"
      PROVE  Fresh(requests'[revObj'.for], revReq')
  <2>1. CASE ReviewerChose
    BY <2>1 DEF ReviewerChose
  <2>2. CASE UNCHANGED revVars
    <3>1. /\ revPc = "decide" /\ revObj.for \in Requests
          /\ Fresh(requests[revObj.for], revReq)
      BY <1>2, <2>2 DEF revVars, TruthInv, CalmInv, TypeInv, ReviewWorkerOK
    <3>2. requests[revObj.for].state = "Pending"
      BY <3>1 DEF CalmInv, RequestInv, ReviewMemory
    <3>3. requests'[revObj.for] = requests[revObj.for]
      BY <1>1, <1>2, <3>1, <3>2, PendingStays DEF RequestDecided
    <3>4. QED
      BY <2>2, <3>1, <3>3 DEF revVars, Fresh
  <2>3. QED
    BY <1>2, <2>1, <2>2, ReviewerSteps
       DEF ReviewerChange, ReviewerTook, ReviewerAnswered, ReviewerDecided, CalmInv
<1>3. ASSUME Next, revPc' = "update", revObj'.state \in Decisions
      PROVE  AcceptedDecision(revName, revObj.uid, revObj.for, revObj.state)'
  <2>1. CASE ReviewerDecided
    <3>1. Decided(revObj.for) \in decisions'
      BY <1>1, <1>3, <2>1, DecideAccepted
    <3>2. /\ Decided(revObj.for).review = revName
          /\ Decided(revObj.for).reviewUid = revObj.uid
          /\ Decided(revObj.for).request = revObj.for
          /\ Decided(revObj.for).decision = revObj.decision
      BY DEF Decided
    <3>3. QED
      BY <2>1, <3>1, <3>2 DEF ReviewerDecided, HoldsReview, AcceptedDecision
  <2>2. CASE UNCHANGED revVars
    BY <1>3, <2>2, DecisionsGrow DEF revVars, TruthInv, AcceptedDecision
  <2>3. revObj'.state \notin {"JobRequestMalformed", "JobRequestNotFound", "Conflict"}
    BY <1>3 DEF Decisions
  <2>4. QED
    BY <1>3, <2>1, <2>2, <2>3, ReviewerSteps
       DEF ReviewerChange, ReviewerTook, ReviewerChose, ReviewerAnswered, HoldsReview,
           CalmInv
<1>4. ASSUME Next, NEW r \in Reviews, reviews'[r].state \in Decisions
      PROVE  AcceptedDecision(r, reviews[r].uid, reviews[r].for, reviews[r].state)'
  <2>1. CASE reviews'[r] = reviews[r]
    BY <1>4, <2>1, DecisionsGrow DEF TruthInv, AcceptedDecision
  <2>2. CASE SomeReviewStored /\ reviews'[r] # reviews[r]
    <3>1. PICK m \in Reviews, stored \in ReviewObjects : ReviewStored(m, stored)
      BY <2>2 DEF SomeReviewStored
    <3>2. reviews'[r] = stored /\ r = m
      BY <2>2, <3>1 DEF ReviewStored, CalmInv, TypeInv, ServerOK, ServerTypeOK
    <3>3. ReviewEdited(r, stored) \/ ReviewUpdated(r, stored)
      BY <1>4, <3>1, <3>2
         DEF ReviewStored, ReviewWritten, ReviewMade, ReviewGone, Decisions
    <3>4. AcceptedDecision(r, stored.uid, stored.for, stored.state)
      BY <1>1, <1>4, <3>2, <3>3 DEF ReviewEdited, ReviewUpdated, TruthInv
    <3>5. QED
      BY <1>4, <3>2, <3>4, DecisionsGrow DEF AcceptedDecision
  <2>3. QED
    BY <1>4, <2>1, <2>2, ReviewChange DEF ReviewsMoved, ReviewsKept, CalmInv
<1>5. CASE Next
  BY <1>2, <1>3, <1>4, <1>5 DEF TruthInv, Fresh, AcceptedDecision
<1>6. CASE UNCHANGED vars
  BY <1>6 DEF vars, serverVars, storeVars, workerVars, revVars, historyVars, TruthInv,
     Fresh, AcceptedDecision
<1>7. QED
  BY <1>5, <1>6

\* A review that says Approved or Rejected did so to the JobRequest it names, as long as
\* no call fails, reviews keep that name, nobody edits or deletes JobRequests or their
\* targets, and no TTL passes.
THEOREM TruthfulReviews ==
  ASSUME {"fault", "edit", "retarget", "target", "delRequest", "age"}
           \cap Disturbances = {}
  PROVE  Spec => []ReviewTellsTruth
<1>1. Init => TruthInv
  <2>1. AbsentReview(0).state = ""
    BY DEF AbsentReview
  <2>2. QED
    BY <2>1 DEF Init, ServerInit, ReviewControllerInit, TruthInv, Decisions
<1>2. CalmInv /\ TruthInv /\ [Next]_vars => TruthInv'
  BY TruthStep
<1>3. TruthInv => ReviewTellsTruth
  BY DEF TruthInv, AcceptedDecision, ReviewTellsTruth
<1>4. {"edit", "target", "delRequest", "age"} \cap Disturbances = {}
  OBVIOUS
<1>5. Spec => []CalmInv
  BY <1>4, SafeCalm
<1>6. QED
  BY <1>1, <1>2, <1>3, <1>5, PTL DEF Spec
=============================================================================
