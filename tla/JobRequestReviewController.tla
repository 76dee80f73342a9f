---------------------- MODULE JobRequestReviewController ----------------------
(***************************************************************************)
(* The JobRequestReview reconciler.  Its worker reads the review from the  *)
(* cache, the JobRequest from the API server, and writes the status of     *)
(* both: the decision on the JobRequest first, then its own state.         *)
(***************************************************************************)
EXTENDS ApiServer

VARIABLES
  revPc,    \* the next call of the worker
  revName,  \* the review it reconciles
  revObj,   \* the review in its memory, as the cache had it
  revReq    \* the JobRequest in its memory, as the API server had it

revVars == <<revPc, revName, revObj, revReq>>

ReviewSteps == {"idle", "prune", "listRequest", "decide", "update"}

ReviewControllerTypeOK ==
  /\ revPc \in ReviewSteps
  /\ revName \in Reviews \cup {NoReview}
  /\ revObj \in ReviewObjects
  /\ revReq \in RequestObjects

ReviewControllerInit ==
  /\ revPc = "idle"
  /\ revName = NoReview
  /\ revObj = AbsentReview(0)
  /\ revReq = AbsentRequest

-----------------------------------------------------------------------------
\* Mutant: every review is reconciled again.
HasStateIgnored(obj) == FALSE
\* A review that has a state is left alone.
HasState(obj) == obj.state # ""

\* validateReviewedByAnnotation
ValidReviewedBy(obj) == obj.by # NoUser

\* Mutant: the whole ARNs are compared, so a second role makes a second user.
SameUserByArn(request, review) == FALSE
\* The last comparison of validateReviewerAndRequesterDiffer
SameUser(request, review) == review.by = request.by

\* JobRequest.WasReviewedBy
WasReviewedBy(request, r) == request.reviewName = r

\* Mutants: an Approved JobRequest can be decided again; one without a state can
\* be decided already.
AwaitsReviewAgain(request) == request.state \in {"Pending", "Approved"}
AwaitsReviewEarly(request) == request.state \in {"", "Pending"}
\* The states of a JobRequest in which a review may still decide
AwaitsReview(request) == request.state = "Pending"

\* The states of a JobRequest that an earlier review has settled
Settled(request) ==
  request.state \in {"Rejected", "Approved", "Started", "Complete", "Failed"}

-----------------------------------------------------------------------------
FinishReview ==
  /\ revPc' = "idle"
  /\ revName' = NoReview
  /\ revObj' = AbsentReview(0)
  /\ revReq' = AbsentRequest

\* Mutant: the result asks for no requeue.
RequeueReviewNever == UNCHANGED reviewQueue
RequeueReview == reviewQueue' = reviewQueue \cup {revName}

\* setState: change the state in memory; the status update is the next call.
SetReviewState(state) ==
  /\ revPc' = "update"
  /\ revObj' = [revObj EXCEPT !.state = state]
  /\ revReq' = AbsentRequest
  /\ UNCHANGED revName

-----------------------------------------------------------------------------
\* Reconcile: get the review from the cache.
BeginReview(r) ==
  /\ revPc = "idle"
  /\ r \in reviewQueue
  /\ reviewQueue' = reviewQueue \ {r}
  /\ LET obj == reviewCache[r]
         Enter(pc, o) == /\ revPc' = pc
                         /\ revName' = r
                         /\ revObj' = o
                         /\ revReq' = AbsentRequest
     IN  \/ /\ ~Exists(obj)
            /\ UNCHANGED revVars
         \/ /\ Exists(obj) /\ Expired(obj)
            /\ Enter("prune", obj)
         \/ /\ Exists(obj) /\ ~Expired(obj) /\ HasState(obj)
            /\ UNCHANGED revVars
         \/ /\ Exists(obj) /\ ~Expired(obj) /\ ~HasState(obj)
            /\ IF ValidReviewedBy(obj)
               THEN Enter("listRequest", obj)
               ELSE Enter("update", [obj EXCEPT !.state = "JobRequestMalformed"])
  /\ UNCHANGED <<storeVars, requestQueue, watchVars, budget>>

\* Delete a review past the TTL, by name.  An error is retried.
PruneReview ==
  /\ revPc = "prune"
  /\ \/ /\ Healthy
        /\ Exists(reviews[revName])
        /\ RemoveReview(revName)
        /\ UNCHANGED reviewQueue
     \/ /\ Healthy
        /\ ~Exists(reviews[revName])
        /\ UNCHANGED <<reviews, reviewEvents, revision, reviewQueue>>
     \/ /\ Faulty
        /\ RequeueReview
        /\ \/ UNCHANGED <<reviews, reviewEvents, revision>>
           \/ /\ Exists(reviews[revName])
              /\ RemoveReview(revName)
  /\ FinishReview
  /\ UNCHANGED <<requests, jobs, targets, horizon, requestQueue, reviewCache>>

\* handleState for a JobRequest that waits for a review: the start of
\* handleReviewDecision, which validates the two identities and writes the
\* decision into the JobRequest in memory.
DecideOn(request) ==
  \/ /\ ~ \/ request.by = NoUser
          \/ SameUser(request, revObj)
     /\ revPc' = "decide"
     /\ revReq' = [request EXCEPT !.state = revObj.decision,
                                  !.reviewName = revName]
     /\ UNCHANGED <<revName, revObj, reviewQueue>>
  \/ /\ request.by = NoUser
     /\ SetReviewState("JobRequestMalformed")
     /\ RequeueReview
  \/ /\ request.by # NoUser
     /\ SameUser(request, revObj)
     /\ SetReviewState("Conflict")
     /\ RequeueReview

\* getJobRequest and handleState, up to the first update
ListRequest ==
  /\ revPc = "listRequest"
  /\ LET request == requests[revObj.for]
     IN  \/ /\ Faulty
            /\ RequeueReview
            /\ FinishReview
         \/ /\ Healthy
            /\ \/ /\ ~Exists(request)
                  /\ SetReviewState("JobRequestNotFound")
                  /\ UNCHANGED reviewQueue
               \/ /\ Exists(request)
                  /\ \/ /\ AwaitsReview(request)
                        /\ DecideOn(request)
                     \/ /\ request.state = ""
                        /\ RequeueReview
                        /\ FinishReview
                     \/ /\ request.state = "Malformed"
                        /\ SetReviewState("JobRequestMalformed")
                        /\ UNCHANGED reviewQueue
                     \/ /\ request.state = "Conflicted"
                        /\ SetReviewState("Conflict")
                        /\ UNCHANGED reviewQueue
                     \/ /\ Settled(request)
                        /\ WasReviewedBy(request, revName)
                        /\ FinishReview
                        /\ UNCHANGED reviewQueue
                     \/ /\ Settled(request)
                        /\ ~WasReviewedBy(request, revName)
                        /\ SetReviewState("Conflict")
                        /\ UNCHANGED reviewQueue
  /\ UNCHANGED <<storeVars, requestQueue, watchVars>>

\* The status update of the JobRequest.  Whatever becomes of it, the review
\* goes on to take the state of its decision.
Decide ==
  /\ revPc = "decide"
  /\ \/ /\ Healthy
        /\ Fresh(requests[revObj.for], revReq)
        /\ StoreRequest(revObj.for, revReq)
     \/ /\ Healthy
        /\ ~Fresh(requests[revObj.for], revReq)
        /\ UNCHANGED <<requests, revision, requestQueue>>
     \/ /\ Faulty
        /\ UNCHANGED <<requests, revision, requestQueue>>
  /\ SetReviewState(revObj.decision)
  /\ UNCHANGED <<reviews, jobs, targets, horizon, reviewQueue, watchVars>>

\* The status update of setState: a conflict or an error is logged and dropped.
UpdateReview ==
  /\ revPc = "update"
  /\ \/ /\ Healthy
        /\ Fresh(reviews[revName], revObj)
        /\ StoreReview(revName, revObj)
     \/ /\ Healthy
        /\ ~Fresh(reviews[revName], revObj)
        /\ UNCHANGED <<reviews, reviewEvents, revision>>
     \/ /\ Faulty
        /\ UNCHANGED <<reviews, reviewEvents, revision>>
  /\ FinishReview
  /\ UNCHANGED <<requests, jobs, targets, horizon, requestQueue, reviewQueue, reviewCache>>

ReviewWorkerStep == PruneReview \/ ListRequest \/ Decide \/ UpdateReview

ReviewController ==
  \/ \E r \in Reviews : BeginReview(r)
  \/ ReviewWorkerStep
=============================================================================
