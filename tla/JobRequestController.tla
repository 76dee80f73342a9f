------------------------- MODULE JobRequestController -------------------------
(***************************************************************************)
(* The JobRequest reconciler.  One worker takes names from its queue and   *)
(* reads the JobRequest from the API server into memory (reqObj); every    *)
(* later call to the API server is a step of its own, so that the review   *)
(* reconciler, the users and the cluster may act between any two of them.  *)
(*                                                                         *)
(* reqPc names the call the worker is about to make.  A call that fails    *)
(* spends the "fault" budget; an error returned to the work queue puts the *)
(* name back at once, which is the same as putting it back when the worker *)
(* is done, since there is one worker.                                     *)
(***************************************************************************)
EXTENDS ApiServer

VARIABLES
  reqPc,    \* the next call of the worker
  reqName,  \* the name it reconciles
  reqObj,   \* the JobRequest in its memory
  reqJob    \* the phase of the Job it read

reqVars == <<reqPc, reqName, reqObj, reqJob>>

RequestSteps == {"idle", "prune", "listTarget", "listReviews", "getJob",
                 "create", "reread", "update"}

RequestControllerTypeOK ==
  /\ reqPc \in RequestSteps
  /\ reqName \in Requests \cup {NoRequest}
  /\ reqObj \in RequestObjects
  /\ reqJob \in JobPhases

RequestControllerInit ==
  /\ reqPc = "idle"
  /\ reqName = NoRequest
  /\ reqObj = AbsentRequest
  /\ reqJob = "None"

-----------------------------------------------------------------------------
\* Mutant: Malformed is not terminal.
TerminalButMalformed(state) == state \in {"Complete", "Failed", "Conflicted"}
\* endReconcileIfInTerminalState
Terminal(state) == state \in {"Complete", "Failed", "Malformed", "Conflicted"}

\* Mutant: the check for a terminal state comes first.
PrunableUnlessTerminal(obj) == Expired(obj) /\ ~Terminal(obj.state)
\* The age check, made before the state is looked at
Prunable(obj) == Expired(obj)

\* validateRequestedByAnnotation
ValidRequestedBy(obj) == obj.by # NoUser

\* Mutant: a JobRequest without reviews keeps its state.
CalculatedStateKept(obj) == obj.state
\* calculateState, once the reviews have been listed without an error
CalculatedState(obj) ==
  IF ReviewsOf(reqName) = {} THEN "Pending" ELSE obj.state

-----------------------------------------------------------------------------
\* The end of a reconcile, with or without putting the name back.

FinishRequest ==
  /\ reqPc' = "idle"
  /\ reqName' = NoRequest
  /\ reqObj' = AbsentRequest
  /\ reqJob' = "None"

RequeueRequest == requestQueue' = requestQueue \cup {reqName}

\* Move on to another call.
RequestGoto(pc) ==
  /\ reqPc' = pc
  /\ UNCHANGED <<reqName, reqObj, reqJob>>

\* setState: change the state in memory; the status update is the next call.
SetRequestState(state) ==
  /\ reqPc' = "update"
  /\ reqObj' = [reqObj EXCEPT !.state = state]
  /\ reqJob' = "None"
  /\ UNCHANGED reqName

-----------------------------------------------------------------------------
\* Reconcile: get the JobRequest; any error of the read ends the reconcile.
BeginRequest(n) ==
  /\ reqPc = "idle"
  /\ n \in requestQueue
  /\ requestQueue' = requestQueue \ {n}
  /\ LET obj == requests[n]
         Enter(pc, o) == /\ reqPc' = pc
                         /\ reqName' = n
                         /\ reqObj' = o
                         /\ reqJob' = "None"
     IN  \/ /\ Exists(obj)
            /\ Faulty
            /\ UNCHANGED reqVars
         \/ /\ Healthy
            /\ \/ /\ ~Exists(obj)
                  /\ UNCHANGED reqVars
               \/ /\ Exists(obj) /\ Prunable(obj)
                  /\ Enter("prune", obj)
               \/ /\ Exists(obj) /\ ~Prunable(obj) /\ Terminal(obj.state)
                  /\ UNCHANGED reqVars
               \/ /\ Exists(obj) /\ ~Prunable(obj) /\ ~Terminal(obj.state)
                  /\ IF ValidRequestedBy(obj)
                     THEN Enter("listTarget", obj)
                     ELSE Enter("update", [obj EXCEPT !.state = "Malformed"])
  /\ UNCHANGED <<storeVars, reviewQueue, watchVars>>

\* Delete a JobRequest past the TTL, by name.  An error is retried.
PruneRequest ==
  /\ reqPc = "prune"
  /\ \/ /\ Healthy
        /\ Exists(requests[reqName])
        /\ RemoveRequest(reqName)
     \/ /\ Healthy
        /\ ~Exists(requests[reqName])
        /\ UNCHANGED <<requests, requestQueue>>
     \/ /\ Faulty
        /\ RequeueRequest
        /\ requests' \in {requests, [requests EXCEPT ![reqName] = AbsentRequest]}
  /\ FinishRequest
  /\ UNCHANGED <<reviews, jobs, targets, revision, horizon, reviewQueue, watchVars>>

\* getTargetResource and createJobTemplate
ListTarget ==
  /\ reqPc = "listTarget"
  /\ \/ /\ Faulty
        /\ RequeueRequest
        /\ FinishRequest
     \/ /\ Healthy
        /\ targets[reqName]
        /\ RequestGoto("listReviews")
        /\ UNCHANGED requestQueue
     \/ /\ Healthy
        /\ ~targets[reqName]
        /\ SetRequestState("Malformed")
        /\ UNCHANGED requestQueue
  /\ UNCHANGED <<storeVars, reviewQueue, watchVars>>

\* Mutant: an Approved JobRequest waits for nothing and does nothing.
HandleRequestStateIdle(state) ==
  \/ /\ state = "Pending"
     /\ SetRequestState("Pending")
  \/ /\ state = "Started"
     /\ RequestGoto("getJob")
  \/ /\ state \notin {"Pending", "Started"}
     /\ FinishRequest
\* handleState, up to its first call
HandleRequestState(state) ==
  \/ /\ state = "Pending"
     /\ SetRequestState("Pending")
  \/ /\ state \in {"Approved", "Started"}
     /\ RequestGoto("getJob")
  \/ /\ state \notin {"Pending", "Approved", "Started"}
     /\ FinishRequest

\* calculateState: an error of the list counts as no review.
ListReviews ==
  /\ reqPc = "listReviews"
  /\ \/ /\ Faulty
        /\ HandleRequestState("Pending")
     \/ /\ Healthy
        /\ HandleRequestState(CalculatedState(reqObj))
  /\ UNCHANGED <<storeVars, requestQueue, reviewQueue, watchVars>>

\* Mutants: the state is taken from the reviews' enumeration; a Job of that name
\* is taken for the request's own.
JobPresentMistyped == SetRequestState("Conflict")
JobPresentAdopted == SetRequestState("Started")
\* The lookup of the Job for an Approved JobRequest, and what a Job of that
\* name means to it
JobPresent == SetRequestState("Conflicted")

GetJobOfApproved ==
  /\ reqPc = "getJob"
  /\ reqObj.state = "Approved"
  /\ \/ /\ Faulty
        /\ RequeueRequest
        /\ FinishRequest
     \/ /\ Healthy
        /\ jobs[reqName].phase = "None"
        /\ RequestGoto("create")
        /\ UNCHANGED requestQueue
     \/ /\ Healthy
        /\ jobs[reqName].phase # "None"
        /\ JobPresent
        /\ UNCHANGED requestQueue
  /\ UNCHANGED <<storeVars, reviewQueue, watchVars>>

\* Mutant: a Job that is missing is created again.
JobMissingRelaunched == RequestGoto("create")
\* The lookup of the Job for a Started JobRequest: any error is final.
JobMissing == SetRequestState("Malformed")

GetJobOfStarted ==
  /\ reqPc = "getJob"
  /\ reqObj.state = "Started"
  /\ \/ /\ Faulty
        /\ JobMissing
     \/ /\ Healthy
        /\ jobs[reqName].phase = "None"
        /\ JobMissing
     \/ /\ Healthy
        /\ jobs[reqName].phase # "None"
        /\ reqPc' = "reread"
        /\ reqJob' = jobs[reqName].phase
        /\ UNCHANGED <<reqName, reqObj>>
  /\ UNCHANGED <<storeVars, requestQueue, reviewQueue, watchVars>>

\* The Job that createJobTemplate prepares.  Its SetControllerReference fails only for
\* a Job that has another controller or namespace; this one is new, and of the
\* Deployment that was listed in the namespace of the JobRequest.
LaunchedJob == [phase |-> "Active", owner |-> reqObj.uid]

\* Create the Job.  An error, a lost answer included, makes the JobRequest
\* Malformed and is returned to the queue as well.
CreateJob ==
  /\ reqPc = "create"
  /\ \/ /\ Healthy
        /\ jobs[reqName].phase = "None"
        /\ StoreJob(reqName, LaunchedJob, reqObj.uid)
        /\ SetRequestState("Started")
     \/ /\ Healthy
        /\ jobs[reqName].phase # "None"
        /\ RequeueRequest
        /\ SetRequestState("Malformed")
        /\ UNCHANGED jobs
     \/ /\ Faulty
        /\ RequeueRequest
        /\ SetRequestState("Malformed")
        /\ \/ UNCHANGED jobs
           \/ /\ jobs[reqName].phase = "None"
              /\ jobs' = [jobs EXCEPT ![reqName] = LaunchedJob]
  /\ UNCHANGED <<requests, reviews, targets, revision, horizon, reviewQueue, watchVars>>

\* Get the JobRequest again and copy the outcome of its Job, if there is one.
\* The answer is decoded over the object in memory, so a reviewName the stored
\* object lacks may survive from the object read before.
RereadRequest ==
  /\ reqPc = "reread"
  /\ LET obj == requests[reqName]
     IN  \/ /\ Exists(obj)
            /\ Faulty
            /\ FinishRequest
         \/ /\ Healthy
            /\ ~Exists(obj)
            /\ FinishRequest
         \/ /\ Healthy
            /\ Exists(obj)
            /\ reqJob \notin {"Complete", "Failed"}
            /\ FinishRequest
         \/ /\ Healthy
            /\ Exists(obj)
            /\ reqJob \in {"Complete", "Failed"}
            /\ \E name \in {obj.reviewName, reqObj.reviewName} :
                 /\ obj.reviewName # NoReview => name = obj.reviewName
                 /\ reqObj' = [obj EXCEPT !.state = reqJob, !.reviewName = name]
            /\ reqPc' = "update"
            /\ reqJob' = "None"
            /\ UNCHANGED reqName
  /\ UNCHANGED <<storeVars, requestQueue, reviewQueue, watchVars>>

\* The status update of setState: a conflict or an error is logged and dropped.
UpdateRequest ==
  /\ reqPc = "update"
  /\ \/ /\ Healthy
        /\ Fresh(requests[reqName], reqObj)
        /\ StoreRequest(reqName, reqObj)
     \/ /\ Healthy
        /\ ~Fresh(requests[reqName], reqObj)
        /\ UNCHANGED <<requests, revision, requestQueue>>
     \/ /\ Faulty
        /\ UNCHANGED <<requests, revision, requestQueue>>
  /\ FinishRequest
  /\ UNCHANGED <<reviews, jobs, targets, horizon, reviewQueue, watchVars>>

RequestWorkerStep ==
  \/ PruneRequest \/ ListTarget \/ ListReviews
  \/ GetJobOfApproved \/ GetJobOfStarted \/ CreateJob
  \/ RereadRequest \/ UpdateRequest

RequestController ==
  \/ \E n \in Requests : BeginRequest(n)
  \/ RequestWorkerStep
=============================================================================
