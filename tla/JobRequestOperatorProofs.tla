----------------------- MODULE JobRequestOperatorProofs -----------------------
(***************************************************************************)
(* Proofs, for every set of names and every bound, of the four safety      *)
(* properties that tolerate every disturbance: TypeOK, JobNeedsApproval,   *)
(* TerminalIsFinal and ReviewStateIsFinal.                                 *)
(***************************************************************************)
EXTENDS JobRequestOperatorProperties, TLAPS

USE NamesAssumption, BoundsAssumption, PeopleAssumption
USE DEF NamesAssumption, BoundsAssumption, PeopleAssumption

-----------------------------------------------------------------------------
(* Types.  A busy worker has a name, and every version of a review that exists
   names a JobRequest; with these the types are inductive. *)

VersionsNamed ==
  \A r \in Reviews :
    /\ Exists(reviews[r]) => reviews[r].for \in Requests
    /\ Exists(reviewCache[r]) => reviewCache[r].for \in Requests
    /\ \A v \in reviewEvents[r] : Exists(v) => v.for \in Requests

ServerOK == ServerTypeOK /\ VersionsNamed
RequestWorkerOK == /\ RequestControllerTypeOK
                   /\ reqPc # "idle" => reqName \in Requests
ReviewWorkerOK == /\ ReviewControllerTypeOK
                  /\ revPc # "idle" => revName \in Reviews /\ revObj.for \in Requests
HistoryOK == decisions \in SUBSET DecisionRecords /\ launches \in [Requests -> Nat]

TypeInv == ServerOK /\ RequestWorkerOK /\ ReviewWorkerOK /\ HistoryOK

LEMMA TypeInit == Init => TypeInv
<1> SUFFICES ASSUME Init PROVE TypeInv
  OBVIOUS
<1> USE DEF Init, AbsentRequest, AbsentReview, AbsentJob
<1>1. ServerTypeOK
  <2>1. budget \in [Pools -> Nat]
    BY DEF ServerInit, Pools
  <2>2. QED
    BY <2>1 DEF ServerInit, ServerTypeOK, RequestObjects, ReviewObjects,
                JobObjects, RequestStates, ReviewStates, JobPhases, Identities,
                Decisions
<1>2. VersionsNamed
  BY DEF ServerInit, VersionsNamed, Exists
<1>3. RequestWorkerOK
  BY DEF RequestControllerInit, RequestWorkerOK, RequestControllerTypeOK,
         RequestObjects, RequestStates, Identities, RequestSteps, JobPhases
<1>4. ReviewWorkerOK
  BY DEF ReviewControllerInit, ReviewWorkerOK, ReviewControllerTypeOK,
         RequestObjects, RequestStates, ReviewObjects, ReviewStates, Decisions,
         Identities, ReviewSteps
<1>5. QED
  BY <1>1, <1>2, <1>3, <1>4 DEF TypeInv, ServerOK, HistoryOK

LEMMA AbsentTypes ==
  /\ AbsentRequest \in RequestObjects
  /\ \A rv \in Nat : AbsentReview(rv) \in ReviewObjects
  /\ AbsentJob \in JobObjects
BY DEF AbsentRequest, AbsentReview, AbsentJob, RequestObjects, ReviewObjects,
       JobObjects, RequestStates, ReviewStates, Decisions, JobPhases, Identities

LEMMA RequestWorkerTypes ==
  ServerTypeOK /\ RequestWorkerOK /\ RequestController => RequestWorkerOK'
<1> SUFFICES ASSUME ServerTypeOK, RequestWorkerOK, RequestController
             PROVE  RequestWorkerOK'
  OBVIOUS
<1> USE AbsentTypes
    DEF RequestWorkerOK, RequestControllerTypeOK, RequestSteps, JobPhases
<1>1. FinishRequest => RequestWorkerOK'
  BY DEF FinishRequest
<1>2. ASSUME NEW pc \in RequestSteps, reqPc # "idle", RequestGoto(pc)
      PROVE  RequestWorkerOK'
  BY <1>2 DEF RequestGoto
<1>3. ASSUME NEW state \in RequestStates, reqPc # "idle", SetRequestState(state)
      PROVE  RequestWorkerOK'
  BY <1>3 DEF SetRequestState, RequestObjects
<1>4. ASSUME NEW n \in Requests, BeginRequest(n)
      PROVE  RequestWorkerOK'
  <2>1. requests[n] \in RequestObjects
    BY DEF ServerTypeOK
  <2>2. QED
    BY <1>4, <2>1 DEF BeginRequest, reqVars, RequestObjects, RequestStates
<1>5. CASE PruneRequest
  BY <1>1, <1>5 DEF PruneRequest
<1>6. CASE ListTarget
  BY <1>1, <1>2, <1>3, <1>6 DEF ListTarget, RequestStates
<1>7. CASE ListReviews
  BY <1>1, <1>2, <1>3, <1>7 DEF ListReviews, HandleRequestState, RequestStates
<1>8. CASE GetJobOfApproved
  BY <1>1, <1>2, <1>3, <1>8 DEF GetJobOfApproved, JobPresent, RequestStates
<1>9. CASE GetJobOfStarted
  <2>1. jobs[reqName].phase \in JobPhases
    BY <1>9 DEF GetJobOfStarted, ServerTypeOK, JobObjects
  <2>2. QED
    BY <1>3, <1>9, <2>1 DEF GetJobOfStarted, JobMissing, RequestStates
<1>10. CASE CreateJob
  BY <1>3, <1>10 DEF CreateJob, RequestStates
<1>11. CASE RereadRequest
  <2>1. requests[reqName] \in RequestObjects
    BY <1>11 DEF RereadRequest, ServerTypeOK
  <2>2. QED
    BY <1>1, <1>11, <2>1 DEF RereadRequest, RequestObjects, RequestStates
<1>12. CASE UpdateRequest
  BY <1>1, <1>12 DEF UpdateRequest
<1>13. QED
  BY <1>4, <1>5, <1>6, <1>7, <1>8, <1>9, <1>10, <1>11, <1>12
     DEF RequestController, RequestWorkerStep

\* What the calls do to the store.
LEMMA BudgetType ==
  ASSUME ServerTypeOK, NEW pool \in Pools, Take(pool)
  PROVE  budget' \in [Pools -> Nat]
BY DEF ServerTypeOK, Take

LEMMA FaultBudgetType ==
  ASSUME ServerTypeOK, Healthy \/ Faulty
  PROVE  budget' \in [Pools -> Nat]
BY BudgetType DEF ServerTypeOK, Healthy, Faulty, Disturb, Pools

LEMMA StoreRequestTypes ==
  ASSUME ServerTypeOK, NEW n \in Requests, NEW obj \in RequestObjects,
         StoreRequest(n, obj)
  PROVE  /\ requests' \in [Requests -> RequestObjects]
         /\ revision' \in Nat
         /\ requestQueue' \in SUBSET Requests
BY DEF ServerTypeOK, StoreRequest, RequestObjects

LEMMA RemoveRequestTypes ==
  ASSUME ServerTypeOK, NEW n \in Requests, RemoveRequest(n)
  PROVE  /\ requests' \in [Requests -> RequestObjects]
         /\ requestQueue' \in SUBSET Requests
BY AbsentTypes DEF ServerTypeOK, RemoveRequest

LEMMA StoreJobTypes ==
  ASSUME ServerTypeOK, NEW n \in Requests, NEW job \in JobObjects, NEW owner,
         StoreJob(n, job, owner)
  PROVE  /\ jobs' \in [Requests -> JobObjects]
         /\ requestQueue' \in SUBSET Requests
BY DEF ServerTypeOK, StoreJob, JobWatchers

LEMMA StoreReviewTypes ==
  ASSUME ServerTypeOK, VersionsNamed, NEW r \in Reviews, NEW obj \in ReviewObjects,
         Exists(obj) => obj.for \in Requests,
         StoreReview(r, obj), UNCHANGED reviewCache
  PROVE  /\ reviews' \in [Reviews -> ReviewObjects]
         /\ reviewEvents' \in [Reviews -> SUBSET ReviewObjects]
         /\ revision' \in Nat
         /\ VersionsNamed'
<1> DEFINE stored == [obj EXCEPT !.rv = revision + 1]
<1> revision + 1 \in Nat
  BY DEF ServerTypeOK
<1>1. stored \in ReviewObjects /\ stored.uid = obj.uid /\ stored.for = obj.for
  BY DEF ReviewObjects
<1>2. /\ reviews' = [reviews EXCEPT ![r] = stored]
      /\ reviewEvents' = [reviewEvents EXCEPT ![r] = @ \cup {stored}]
      /\ revision' = revision + 1
  BY DEF StoreReview
<1> HIDE DEF stored
<1>3. /\ reviews' \in [Reviews -> ReviewObjects]
      /\ reviewEvents' \in [Reviews -> SUBSET ReviewObjects]
      /\ revision' \in Nat
  BY <1>1, <1>2 DEF ServerTypeOK
<1>4. VersionsNamed'
  <2> SUFFICES ASSUME NEW s \in Reviews
               PROVE  /\ Exists(reviews'[s]) => reviews'[s].for \in Requests
                      /\ \A v \in reviewEvents'[s] : Exists(v) => v.for \in Requests
    BY DEF VersionsNamed, Exists
  <2>1. CASE s = r
    BY <1>1, <1>2, <2>1 DEF ServerTypeOK, VersionsNamed, Exists
  <2>2. CASE s # r
    BY <1>2, <2>2 DEF ServerTypeOK, VersionsNamed, Exists
  <2>3. QED
    BY <2>1, <2>2
<1>5. QED
  BY <1>3, <1>4

LEMMA RequestControllerServer ==
  ServerOK /\ RequestWorkerOK /\ RequestController => ServerOK'
<1> SUFFICES ASSUME ServerOK, RequestWorkerOK, RequestController
             PROVE  ServerOK'
  OBVIOUS
<1> USE DEF ServerOK
<1>1. (Healthy \/ Faulty) => budget' \in [Pools -> Nat]
  BY FaultBudgetType
<1>2. UNCHANGED <<reviews, reviewCache, reviewEvents>> => VersionsNamed'
  BY DEF VersionsNamed, Exists
<1> USE <1>1, <1>2 DEF storeVars, watchVars
<1>3. ASSUME NEW n \in Requests, BeginRequest(n)
      PROVE  ServerOK'
  BY <1>3 DEF BeginRequest, ServerTypeOK
<1>4. CASE PruneRequest
  BY <1>4, AbsentTypes DEF PruneRequest, RemoveRequest, RequeueRequest,
     RequestWorkerOK, ServerTypeOK
<1>5. CASE ListTarget
  BY <1>5 DEF ListTarget, RequeueRequest, RequestWorkerOK, ServerTypeOK
<1>6. CASE ListReviews
  BY <1>6 DEF ListReviews, ServerTypeOK
<1>7. CASE GetJobOfApproved
  BY <1>7 DEF GetJobOfApproved, RequeueRequest, RequestWorkerOK, ServerTypeOK
<1>8. CASE GetJobOfStarted
  BY <1>8 DEF GetJobOfStarted, ServerTypeOK
<1>9. CASE CreateJob
  <2>1. LaunchedJob \in JobObjects /\ reqName \in Requests
    BY <1>9 DEF CreateJob, LaunchedJob, JobObjects, JobPhases, RequestWorkerOK,
       RequestControllerTypeOK, RequestObjects
  <2>2. /\ jobs' \in [Requests -> JobObjects]
        /\ requestQueue' \in SUBSET Requests
    BY <1>9, <2>1, StoreJobTypes DEF CreateJob, RequeueRequest, ServerTypeOK
  <2>3. QED
    BY <1>9, <2>2 DEF CreateJob, ServerTypeOK
<1>10. CASE RereadRequest
  BY <1>10 DEF RereadRequest, ServerTypeOK
<1>11. CASE UpdateRequest
  <2>1. /\ requests' \in [Requests -> RequestObjects]
        /\ revision' \in Nat
        /\ requestQueue' \in SUBSET Requests
    BY <1>11, StoreRequestTypes
       DEF UpdateRequest, ServerTypeOK, RequestWorkerOK, RequestControllerTypeOK
  <2>2. QED
    BY <1>11, <2>1 DEF UpdateRequest, ServerTypeOK
<1>12. QED
  BY <1>3, <1>4, <1>5, <1>6, <1>7, <1>8, <1>9, <1>10, <1>11
     DEF RequestController, RequestWorkerStep

LEMMA ReviewWorkerTypes ==
  ServerOK /\ ReviewWorkerOK /\ ReviewController => ReviewWorkerOK'
<1> SUFFICES ASSUME ServerOK, ReviewWorkerOK, ReviewController
             PROVE  ReviewWorkerOK'
  OBVIOUS
<1> USE AbsentTypes DEF ReviewWorkerOK, ReviewControllerTypeOK, ReviewSteps, ServerOK
<1>1. FinishReview => ReviewWorkerOK'
  BY DEF FinishReview
<1>2. ASSUME NEW state \in ReviewStates, revPc # "idle", SetReviewState(state)
      PROVE  ReviewWorkerOK'
  BY <1>2 DEF SetReviewState, ReviewObjects
<1>3. ASSUME NEW r \in Reviews, BeginReview(r)
      PROVE  ReviewWorkerOK'
  <2>1. /\ reviewCache[r] \in ReviewObjects
        /\ Exists(reviewCache[r]) => reviewCache[r].for \in Requests
    BY DEF ServerTypeOK, VersionsNamed
  <2>2. QED
    BY <1>3, <2>1 DEF BeginReview, revVars, ReviewObjects, ReviewStates
<1>4. CASE PruneReview
  BY <1>1, <1>4 DEF PruneReview
<1>5. CASE ListRequest
  <2> DEFINE request == requests[revObj.for]
  <2>1. request \in RequestObjects
    BY <1>5 DEF ListRequest, ServerTypeOK
  <2>2. revObj.decision \in RequestStates /\ revName \in Reviews
    BY <1>5 DEF ListRequest, ReviewObjects, Decisions, RequestStates
  <2>3. DecideOn(request) => ReviewWorkerOK'
    BY <1>2, <1>5, <2>1, <2>2
       DEF DecideOn, ListRequest, RequestObjects, ReviewStates
  <2> HIDE DEF request
  <2>4. QED
    BY <1>1, <1>2, <1>5, <2>3 DEF ListRequest, ReviewStates, request
<1>6. CASE Decide
  <2>1. revObj.decision \in ReviewStates
    BY DEF ReviewObjects, Decisions, ReviewStates
  <2>2. QED
    BY <1>2, <1>6, <2>1 DEF Decide
<1>7. CASE UpdateReview
  BY <1>1, <1>7 DEF UpdateReview
<1>8. QED
  BY <1>3, <1>4, <1>5, <1>6, <1>7 DEF ReviewController, ReviewWorkerStep

LEMMA ReviewControllerServer ==
  ServerOK /\ ReviewWorkerOK /\ ReviewController => ServerOK'
<1> SUFFICES ASSUME ServerOK, ReviewWorkerOK, ReviewController
             PROVE  ServerOK'
  OBVIOUS
<1> USE DEF ServerOK
<1>1. (Healthy \/ Faulty) => budget' \in [Pools -> Nat]
  BY FaultBudgetType
<1>2. UNCHANGED <<reviews, reviewCache, reviewEvents>> => VersionsNamed'
  BY DEF VersionsNamed, Exists
<1>3. ASSUME NEW r \in Reviews, NEW obj \in ReviewObjects,
             Exists(obj) => obj.for \in Requests,
             StoreReview(r, obj), UNCHANGED reviewCache
      PROVE  /\ reviews' \in [Reviews -> ReviewObjects]
             /\ reviewEvents' \in [Reviews -> SUBSET ReviewObjects]
             /\ revision' \in Nat
             /\ VersionsNamed'
  BY <1>3, StoreReviewTypes
<1> USE <1>1, <1>2 DEF storeVars, watchVars
<1>4. ASSUME NEW r \in Reviews, BeginReview(r)
      PROVE  ServerOK'
  BY <1>4 DEF BeginReview, ServerTypeOK
<1>5. CASE PruneReview
  <2>1. /\ revName \in Reviews
        /\ reviewQueue' \in SUBSET Reviews
        /\ UNCHANGED <<requests, jobs, targets, horizon, requestQueue, reviewCache>>
        /\ Healthy \/ Faulty
        /\ \/ UNCHANGED <<reviews, reviewEvents, revision>>
           \/ RemoveReview(revName)
    BY <1>5 DEF PruneReview, RequeueReview, ReviewWorkerOK, ServerTypeOK
  <2>2. CASE UNCHANGED <<reviews, reviewEvents, revision>>
    BY <2>1, <2>2 DEF ServerTypeOK
  <2>3. CASE RemoveReview(revName)
    <3>1. AbsentReview(0) \in ReviewObjects /\ ~Exists(AbsentReview(0))
      BY AbsentTypes DEF AbsentReview, Exists
    <3>2. QED
      BY <1>3, <2>1, <2>3, <3>1 DEF RemoveReview, ServerTypeOK
  <2>4. QED
    BY <2>1, <2>2, <2>3
<1>6. CASE ListRequest
  <2>1. reviewQueue' \in SUBSET Reviews
    BY <1>6 DEF ListRequest, DecideOn, RequeueReview, FinishReview,
       SetReviewState, ReviewWorkerOK, ServerTypeOK
  <2>2. Healthy \/ Faulty
    BY <1>6 DEF ListRequest
  <2>3. UNCHANGED <<storeVars, requestQueue, watchVars>>
    BY <1>6 DEF ListRequest
  <2>4. QED
    BY <2>1, <2>2, <2>3 DEF ServerTypeOK
<1>7. CASE Decide
  <2>1. /\ requests' \in [Requests -> RequestObjects]
        /\ revision' \in Nat
        /\ requestQueue' \in SUBSET Requests
    BY <1>7, StoreRequestTypes
       DEF Decide, ServerTypeOK, ReviewWorkerOK, ReviewControllerTypeOK
  <2>2. QED
    BY <1>7, <2>1 DEF Decide, ServerTypeOK
<1>8. CASE UpdateReview
  <2>1. /\ revName \in Reviews
        /\ revObj \in ReviewObjects
        /\ revObj.for \in Requests
        /\ UNCHANGED <<requests, jobs, targets, horizon, requestQueue,
                       reviewQueue, reviewCache>>
        /\ Healthy \/ Faulty
        /\ \/ UNCHANGED <<reviews, reviewEvents, revision>>
           \/ StoreReview(revName, revObj)
    BY <1>8 DEF UpdateReview, ReviewWorkerOK, ReviewControllerTypeOK
  <2>2. CASE UNCHANGED <<reviews, reviewEvents, revision>>
    BY <2>1, <2>2 DEF ServerTypeOK
  <2>3. CASE StoreReview(revName, revObj)
    BY <1>3, <2>1, <2>3 DEF ServerTypeOK
  <2>4. QED
    BY <2>1, <2>2, <2>3
<1>9. QED
  BY <1>4, <1>5, <1>6, <1>7, <1>8 DEF ReviewController, ReviewWorkerStep

LEMMA OutsideServer ==
  ServerOK /\ (PeopleStep \/ ClusterStep \/ WatchStep) => ServerOK'
<1> SUFFICES ASSUME ServerOK, PeopleStep \/ ClusterStep \/ WatchStep
             PROVE  ServerOK'
  OBVIOUS
<1> USE DEF ServerOK
<1>1. UNCHANGED <<reviews, reviewCache, reviewEvents>> => VersionsNamed'
  BY DEF VersionsNamed, Exists
<1>2. ASSUME NEW kind, Disturb(kind)
      PROVE  budget' \in [Pools -> Nat]
  BY <1>2, BudgetType DEF Disturb, Pools
<1>3. ASSUME NEW r \in Reviews, NEW obj \in ReviewObjects,
             Exists(obj) => obj.for \in Requests,
             StoreReview(r, obj), UNCHANGED reviewCache
      PROVE  /\ reviews' \in [Reviews -> ReviewObjects]
             /\ reviewEvents' \in [Reviews -> SUBSET ReviewObjects]
             /\ revision' \in Nat
             /\ VersionsNamed'
  BY <1>3, StoreReviewTypes
<1> revision + 1 \in Nat
  BY DEF ServerTypeOK
<1> USE <1>1 DEF storeVars, watchVars
<1>4. ASSUME NEW n \in Requests, NEW user \in Callers, CreateRequest(n, user)
      PROVE  ServerOK'
  <2>1. budget' \in [Pools -> Nat]
    BY <1>4, BudgetType DEF CreateRequest, Pools
  <2> DEFINE obj == [AbsentRequest EXCEPT !.uid = revision + 1, !.by = user]
  <2>2. obj \in RequestObjects
    BY AbsentTypes DEF RequestObjects
  <2>3. StoreRequest(n, obj)
    BY <1>4 DEF CreateRequest
  <2> HIDE DEF obj
  <2>4. /\ requests' \in [Requests -> RequestObjects]
        /\ revision' \in Nat
        /\ requestQueue' \in SUBSET Requests
    BY <2>2, <2>3, StoreRequestTypes
  <2>5. QED
    BY <1>4, <2>1, <2>4 DEF CreateRequest, ServerTypeOK
<1>5. ASSUME NEW r \in Reviews, NEW n \in Requests, NEW user \in Callers,
             NEW d \in Decisions, CreateReview(r, n, user, d)
      PROVE  ServerOK'
  <2>1. budget' \in [Pools -> Nat]
    BY <1>5, BudgetType DEF CreateReview, Pools
  <2> DEFINE obj == [AbsentReview(0) EXCEPT !.uid = revision + 1, !.by = user,
                                            !.for = n, !.decision = d]
  <2>0. AbsentReview(0) \in ReviewObjects /\ user \in Identities
    BY AbsentTypes
  <2>2. obj \in ReviewObjects /\ obj.for \in Requests
    BY <2>0 DEF ReviewObjects
  <2>3. StoreReview(r, obj) /\ UNCHANGED reviewCache
    BY <1>5 DEF CreateReview
  <2> HIDE DEF obj
  <2>4. /\ reviews' \in [Reviews -> ReviewObjects]
        /\ reviewEvents' \in [Reviews -> SUBSET ReviewObjects]
        /\ revision' \in Nat
        /\ VersionsNamed'
    BY <1>3, <2>2, <2>3
  <2>5. QED
    BY <1>5, <2>1, <2>4 DEF CreateReview, ServerTypeOK
<1>6. ASSUME NEW n \in Requests, NEW user \in Identities, EditRequest(n, user)
      PROVE  ServerOK'
  <2>1. budget' \in [Pools -> Nat]
    BY <1>2, <1>6 DEF EditRequest
  <2> DEFINE obj == [requests[n] EXCEPT !.by = user, !.rv = revision + 1]
  <2>0. requests[n] \in RequestObjects
    BY DEF ServerTypeOK
  <2>2. obj \in RequestObjects
    BY <2>0 DEF RequestObjects
  <2>3. requests' = [requests EXCEPT ![n] = obj]
    BY <1>6 DEF EditRequest
  <2> HIDE DEF obj
  <2>4. requests' \in [Requests -> RequestObjects]
    BY <2>2, <2>3 DEF ServerTypeOK
  <2>5. QED
    BY <1>6, <2>1, <2>4 DEF EditRequest, ServerTypeOK
<1>7. ASSUME NEW r \in Reviews, NEW user \in Identities, NEW d \in Decisions,
             EditReview(r, user, d)
      PROVE  ServerOK'
  <2>1. budget' \in [Pools -> Nat]
    BY <1>2, <1>7 DEF EditReview
  <2> DEFINE obj == [reviews[r] EXCEPT !.by = user, !.decision = d]
  <2>2. obj \in ReviewObjects /\ obj.for \in Requests
    <3>1. reviews[r] \in ReviewObjects /\ reviews[r].for \in Requests
      BY <1>7 DEF EditReview, ServerTypeOK, VersionsNamed
    <3>2. QED
      BY <3>1 DEF ReviewObjects
  <2>3. StoreReview(r, obj) /\ UNCHANGED reviewCache
    BY <1>7 DEF EditReview
  <2> HIDE DEF obj
  <2>4. /\ reviews' \in [Reviews -> ReviewObjects]
        /\ reviewEvents' \in [Reviews -> SUBSET ReviewObjects]
        /\ revision' \in Nat
        /\ VersionsNamed'
    BY <1>3, <2>2, <2>3
  <2>5. QED
    BY <1>7, <2>1, <2>4 DEF EditReview, ServerTypeOK
<1>8. ASSUME NEW r \in Reviews, NEW n \in Requests, RetargetReview(r, n)
       PROVE  ServerOK'
  <2>1. budget' \in [Pools -> Nat]
    BY <1>2, <1>8 DEF RetargetReview
  <2> DEFINE obj == [reviews[r] EXCEPT !.for = n]
  <2>2. obj \in ReviewObjects /\ obj.for \in Requests
    BY <1>8 DEF RetargetReview, ServerTypeOK, ReviewObjects
  <2>3. StoreReview(r, obj) /\ UNCHANGED reviewCache
    BY <1>8 DEF RetargetReview
  <2> HIDE DEF obj
  <2>4. /\ reviews' \in [Reviews -> ReviewObjects]
        /\ reviewEvents' \in [Reviews -> SUBSET ReviewObjects]
        /\ revision' \in Nat
        /\ VersionsNamed'
    BY <1>3, <2>2, <2>3
  <2>5. QED
    BY <1>8, <2>1, <2>4 DEF RetargetReview, ServerTypeOK
<1>9. ASSUME NEW n \in Requests, DeleteRequest(n)
      PROVE  ServerOK'
  BY <1>2, <1>9, RemoveRequestTypes DEF DeleteRequest, ServerTypeOK
<1>10. ASSUME NEW r \in Reviews, DeleteReview(r)
      PROVE  ServerOK'
  <2>1. budget' \in [Pools -> Nat]
    BY <1>2, <1>10 DEF DeleteReview
  <2>2. AbsentReview(0) \in ReviewObjects /\ ~Exists(AbsentReview(0))
    BY AbsentTypes DEF AbsentReview, Exists
  <2>3. /\ reviews' \in [Reviews -> ReviewObjects]
        /\ reviewEvents' \in [Reviews -> SUBSET ReviewObjects]
        /\ revision' \in Nat
        /\ VersionsNamed'
    BY <1>3, <1>10, <2>2 DEF DeleteReview, RemoveReview
  <2>4. QED
    BY <1>10, <2>1, <2>3 DEF DeleteReview, ServerTypeOK
<1>11. ASSUME NEW n \in Requests,
              CreateForeignJob(n) \/ DeleteJob(n) \/ CollectJob(n)
              \/ \E phase \in {"Complete", "Failed"} : FinishJob(n, phase)
       PROVE  ServerOK'
  <2>1. budget' \in [Pools -> Nat]
    BY <1>2, <1>11
       DEF CreateForeignJob, DeleteJob, CollectJob, FinishJob, ServerTypeOK
  <2>2. \E job \in JobObjects, owner \in Nat : StoreJob(n, job, owner)
    <3>1. jobs[n] \in JobObjects
      BY DEF ServerTypeOK
    <3>2. CASE CreateForeignJob(n)
      BY <3>2 DEF CreateForeignJob, JobObjects, JobPhases
    <3>3. CASE DeleteJob(n) \/ CollectJob(n)
      BY <3>1, <3>3, AbsentTypes DEF DeleteJob, CollectJob, JobObjects
    <3>4. ASSUME NEW phase \in {"Complete", "Failed"}, FinishJob(n, phase)
          PROVE  \E job \in JobObjects, owner \in Nat : StoreJob(n, job, owner)
      BY <3>1, <3>4 DEF FinishJob, JobObjects, JobPhases
    <3>5. QED
      BY <1>11, <3>2, <3>3, <3>4
  <2>3. jobs' \in [Requests -> JobObjects] /\ requestQueue' \in SUBSET Requests
    BY <2>2, StoreJobTypes
  <2>4. QED
    BY <1>11, <2>1, <2>3
       DEF CreateForeignJob, DeleteJob, CollectJob, FinishJob, ServerTypeOK
<1>12. ASSUME NEW n \in Requests, ChangeTarget(n)
       PROVE  ServerOK'
  BY <1>2, <1>12 DEF ChangeTarget, ServerTypeOK
<1>13. CASE PassTtl
  <2>1. horizon' \in Nat
    BY <1>13 DEF PassTtl, ServerTypeOK, RequestObjects, ReviewObjects
  <2>2. QED
    BY <1>2, <1>13, <2>1 DEF PassTtl, ServerTypeOK
<1>14. ASSUME NEW r \in Reviews, DeliverReview(r)
       PROVE  ServerOK'
  <2>1. PICK version \in reviewEvents[r] :
          /\ reviewCache' = [reviewCache EXCEPT ![r] = version]
          /\ reviewEvents' =
               [reviewEvents EXCEPT ![r] = {v \in @ : v.rv > version.rv}]
    BY <1>14 DEF DeliverReview
  <2>2. /\ reviewCache' \in [Reviews -> ReviewObjects]
        /\ reviewEvents' \in [Reviews -> SUBSET ReviewObjects]
    BY <2>1 DEF ServerTypeOK
  <2>3. VersionsNamed'
    <3> SUFFICES ASSUME NEW s \in Reviews
                 PROVE  /\ Exists(reviewCache'[s]) => reviewCache'[s].for \in Requests
                        /\ \A v \in reviewEvents'[s] : Exists(v) => v.for \in Requests
      BY <1>14 DEF VersionsNamed, Exists, DeliverReview
    <3>1. CASE s = r
      BY <2>1, <3>1 DEF ServerTypeOK, VersionsNamed, Exists
    <3>2. CASE s # r
      BY <2>1, <3>2 DEF ServerTypeOK, VersionsNamed, Exists
    <3>3. QED
      BY <3>1, <3>2
  <2>4. QED
    BY <1>14, <2>2, <2>3 DEF DeliverReview, ServerTypeOK
<1>15. ASSUME NEW r \in Reviews, ResyncReview(r)
       PROVE  ServerOK'
  BY <1>15 DEF ResyncReview, ServerTypeOK
<1>16. ASSUME NEW n \in Requests, ResyncRequest(n)
       PROVE  ServerOK'
  BY <1>16 DEF ResyncRequest, ServerTypeOK
<1>17. QED
  BY <1>4, <1>5, <1>6, <1>7, <1>8, <1>9, <1>10, <1>11, <1>12, <1>13, <1>14, <1>15,
     <1>16
     DEF PeopleStep, ClusterStep, WatchStep

LEMMA RestartTypes ==
  TypeInv /\ Restart => ServerOK' /\ RequestWorkerOK' /\ ReviewWorkerOK'
<1> SUFFICES ASSUME TypeInv, Restart
             PROVE  ServerOK' /\ RequestWorkerOK' /\ ReviewWorkerOK'
  OBVIOUS
<1>1. budget' \in [Pools -> Nat]
  BY BudgetType DEF TypeInv, ServerOK, Restart, Disturb, Pools
<1>2. ServerOK'
  BY <1>1 DEF TypeInv, Restart, ServerOK, ServerTypeOK, VersionsNamed,
              storeVars, Exists
<1>3. RequestWorkerOK' /\ ReviewWorkerOK'
  BY AbsentTypes DEF Restart, RequestWorkerOK, RequestControllerTypeOK,
     ReviewWorkerOK, ReviewControllerTypeOK, RequestSteps, ReviewSteps, JobPhases
<1>4. QED
  BY <1>2, <1>3

LEMMA HistoryTypes == TypeInv /\ RecordHistory => HistoryOK'
<1> SUFFICES ASSUME TypeInv, RecordHistory
             PROVE  HistoryOK'
  OBVIOUS
<1>1. ASSUME NEW n \in Requests, revPc = "decide"
      PROVE  Decided(n) \in DecisionRecords
  BY <1>1 DEF TypeInv, ServerOK, ServerTypeOK, ReviewWorkerOK,
     ReviewControllerTypeOK, RequestObjects, ReviewObjects, Decided, DecisionRecords
<1>2. decisions' \in SUBSET DecisionRecords
  BY <1>1 DEF TypeInv, HistoryOK, RecordHistory
<1>3. launches' \in [Requests -> Nat]
  BY DEF TypeInv, HistoryOK, RecordHistory
<1>4. QED
  BY <1>2, <1>3 DEF HistoryOK

LEMMA TypeStep == TypeInv /\ [Next]_vars => TypeInv'
<1> SUFFICES ASSUME TypeInv, [Next]_vars
             PROVE  TypeInv'
  OBVIOUS
<1>1. CASE RequestStep(RequestController)
  <2>1. ReviewWorkerOK'
    BY <1>1 DEF RequestStep, revVars, TypeInv, ReviewWorkerOK, ReviewControllerTypeOK
  <2>2. QED
    BY <1>1, <2>1, RequestWorkerTypes, RequestControllerServer, HistoryTypes
       DEF RequestStep, TypeInv, ServerOK
<1>2. CASE ReviewStep(ReviewController)
  <2>1. RequestWorkerOK'
    BY <1>2 DEF ReviewStep, reqVars, TypeInv, RequestWorkerOK, RequestControllerTypeOK
  <2>2. QED
    BY <1>2, <2>1, ReviewWorkerTypes, ReviewControllerServer, HistoryTypes
       DEF ReviewStep, TypeInv
<1>3. CASE OutsideStep(PeopleStep \/ ClusterStep \/ WatchStep)
  <2>1. RequestWorkerOK' /\ ReviewWorkerOK'
    BY <1>3 DEF OutsideStep, workerVars, reqVars, revVars, TypeInv,
       RequestWorkerOK, RequestControllerTypeOK, ReviewWorkerOK, ReviewControllerTypeOK
  <2>2. QED
    BY <1>3, <2>1, OutsideServer, HistoryTypes DEF OutsideStep, TypeInv
<1>4. CASE Restart /\ RecordHistory
  BY <1>4, RestartTypes, HistoryTypes DEF TypeInv
<1>5. CASE UNCHANGED vars
  BY <1>5 DEF vars, serverVars, storeVars, watchVars, workerVars, reqVars, revVars,
     historyVars, TypeInv, ServerOK, ServerTypeOK, VersionsNamed, RequestWorkerOK,
     RequestControllerTypeOK, ReviewWorkerOK, ReviewControllerTypeOK, HistoryOK, Exists
<1>6. QED
  BY <1>1, <1>2, <1>3, <1>4, <1>5 DEF Next

\* Every variable keeps its type.
THEOREM TypeCorrect == Spec => []TypeOK
<1>1. TypeInv => TypeOK
  BY DEF TypeInv, TypeOK, ServerOK, RequestWorkerOK, ReviewWorkerOK, HistoryOK
<1>2. QED
  BY TypeInit, TypeStep, <1>1, PTL DEF Spec

-----------------------------------------------------------------------------
(* What a step may do to a stored JobRequest: nothing, remove it, create it,
   edit it outside its status, or store the status that one of the two workers
   holds in memory, if what it read is still there. *)

Written(n) == revision' = revision + 1 /\ requests'[n].rv = revision + 1

Copies(n, obj) == /\ requests'[n].uid = obj.uid
                  /\ requests'[n].by = obj.by
                  /\ requests'[n].state = obj.state
                  /\ requests'[n].reviewName = obj.reviewName

RequestGone(n) == /\ requests'[n] = AbsentRequest
                  /\ \/ "delRequest" \in Disturbances
                     \/ reqPc = "prune" /\ reqPc' = "idle" /\ n = reqName
RequestMade(n) == /\ ~Exists(requests[n]) /\ Written(n)
                  /\ requests'[n].uid = revision + 1
                  /\ requests'[n].state = ""
                  /\ requests'[n].reviewName = NoReview
RequestEdited(n) == /\ "edit" \in Disturbances
                    /\ Exists(requests[n]) /\ Written(n)
                    /\ requests'[n].uid = requests[n].uid
                    /\ requests'[n].state = requests[n].state
                    /\ requests'[n].reviewName = requests[n].reviewName
RequestUpdated(n) == /\ reqPc = "update" /\ reqPc' = "idle" /\ n = reqName
                     /\ Fresh(requests[n], reqObj) /\ reqObj # requests[n]
                     /\ Written(n) /\ Copies(n, reqObj)
RequestDecided(n) == /\ revPc = "decide" /\ revPc' = "update" /\ n = revObj.for
                     /\ Fresh(requests[n], revReq)
                     /\ Written(n) /\ Copies(n, revReq)

LEMMA StoreRequestChange ==
  ASSUME ServerTypeOK, NEW m \in Requests, NEW obj \in RequestObjects,
         StoreRequest(m, obj), NEW n \in Requests
  PROVE  /\ revision' \in {revision, revision + 1}
         /\ \/ requests'[n] = requests[n]
            \/ n = m /\ obj # requests[n] /\ Written(n) /\ Copies(n, obj)
<1> revision + 1 \in Nat
  BY DEF ServerTypeOK
<1>1. CASE obj = requests[m]
  BY <1>1 DEF StoreRequest
<1>2. CASE obj # requests[m]
  <2> DEFINE stored == [obj EXCEPT !.rv = revision + 1]
  <2>1. /\ stored.uid = obj.uid /\ stored.by = obj.by /\ stored.state = obj.state
        /\ stored.reviewName = obj.reviewName /\ stored.rv = revision + 1
    BY DEF RequestObjects
  <2>2. requests' = [requests EXCEPT ![m] = stored] /\ revision' = revision + 1
    BY <1>2 DEF StoreRequest
  <2> HIDE DEF stored
  <2>3. QED
    BY <1>2, <2>1, <2>2 DEF ServerTypeOK, Written, Copies
<1>3. QED
  BY <1>1, <1>2

LEMMA RequestControllerChange ==
  ASSUME TypeInv, RequestController, NEW n \in Requests
  PROVE  /\ revision' \in {revision, revision + 1}
         /\ \/ requests'[n] = requests[n]
            \/ RequestGone(n) \/ RequestUpdated(n)
<1> USE DEF TypeInv, ServerOK
<1>1. CASE UNCHANGED <<requests, revision>>
  BY <1>1
<1>2. CASE PruneRequest
  BY <1>2 DEF PruneRequest, RemoveRequest, FinishRequest, RequestGone, RequestWorkerOK,
     ServerTypeOK
<1>3. CASE UpdateRequest
  BY <1>1, <1>3, StoreRequestChange
     DEF UpdateRequest, RequestUpdated, FinishRequest, RequestWorkerOK,
         RequestControllerTypeOK
<1>4. QED
  BY <1>1, <1>2, <1>3
     DEF RequestController, RequestWorkerStep, BeginRequest, ListTarget, ListReviews,
         GetJobOfApproved, GetJobOfStarted, CreateJob, RereadRequest, storeVars

LEMMA ReviewControllerChange ==
  ASSUME TypeInv, ReviewController, NEW n \in Requests
  PROVE  /\ revision' \in {revision, revision + 1}
         /\ requests'[n] = requests[n] \/ RequestDecided(n)
<1> USE DEF TypeInv, ServerOK
<1>1. CASE Decide
  BY <1>1, StoreRequestChange
     DEF Decide, SetReviewState, RequestDecided, ReviewWorkerOK,
         ReviewControllerTypeOK
<1>2. CASE PruneReview \/ UpdateReview
  BY <1>2 DEF PruneReview, UpdateReview, RemoveReview, StoreReview
<1>3. QED
  BY <1>1, <1>2
     DEF ReviewController, ReviewWorkerStep, BeginReview, ListRequest, storeVars

LEMMA OutsideChange ==
  ASSUME TypeInv, PeopleStep \/ ClusterStep \/ WatchStep, NEW n \in Requests
  PROVE  /\ revision' \in {revision, revision + 1}
         /\ \/ requests'[n] = requests[n]
            \/ RequestGone(n) \/ RequestMade(n) \/ RequestEdited(n)
<1> USE DEF TypeInv, ServerOK
<1> revision + 1 \in Nat
  BY DEF ServerTypeOK
<1>1. ASSUME NEW m \in Requests, NEW user \in Callers, CreateRequest(m, user)
      PROVE  /\ revision' \in {revision, revision + 1}
             /\ requests'[n] = requests[n] \/ RequestMade(n)
  <2> DEFINE obj == [AbsentRequest EXCEPT !.uid = revision + 1, !.by = user]
  <2>1. AbsentRequest \in RequestObjects /\ user \in Identities
    BY AbsentTypes
  <2>2. /\ obj \in RequestObjects /\ obj.uid = revision + 1 /\ obj.state = ""
        /\ obj.reviewName = NoReview
    BY <2>1 DEF RequestObjects, AbsentRequest
  <2>3. StoreRequest(m, obj) /\ ~Exists(requests[m])
    BY <1>1 DEF CreateRequest
  <2> HIDE DEF obj
  <2>4. /\ revision' \in {revision, revision + 1}
        /\ requests'[n] = requests[n] \/ (n = m /\ Written(n) /\ Copies(n, obj))
    BY <2>2, <2>3, StoreRequestChange
  <2>5. QED
    BY <2>2, <2>3, <2>4 DEF RequestMade, Copies
<1>2. ASSUME NEW m \in Requests, NEW user \in Identities, EditRequest(m, user)
      PROVE  /\ revision' \in {revision, revision + 1}
             /\ requests'[n] = requests[n] \/ RequestEdited(n)
  <2> DEFINE obj == [requests[m] EXCEPT !.by = user, !.rv = revision + 1]
  <2>1. requests[m] \in RequestObjects
    BY DEF ServerTypeOK
  <2>2. /\ obj.uid = requests[m].uid /\ obj.state = requests[m].state
        /\ obj.reviewName = requests[m].reviewName /\ obj.rv = revision + 1
    BY <2>1 DEF RequestObjects
  <2>3. /\ requests' = [requests EXCEPT ![m] = obj]
        /\ revision' = revision + 1
        /\ Exists(requests[m]) /\ "edit" \in Disturbances
    BY <1>2 DEF EditRequest, Disturb
  <2> HIDE DEF obj
  <2>4. QED
    BY <2>2, <2>3 DEF RequestEdited, Written, ServerTypeOK
<1>3. ASSUME NEW m \in Requests, DeleteRequest(m)
      PROVE  /\ revision' = revision
             /\ requests'[n] = requests[n] \/ RequestGone(n)
  BY <1>3 DEF DeleteRequest, RemoveRequest, RequestGone, Disturb, ServerTypeOK
<1>4. ASSUME NEW r \in Reviews, NEW obj, StoreReview(r, obj)
      PROVE  revision' = revision + 1
  BY <1>4 DEF StoreReview
<1>5. CASE UNCHANGED requests /\ revision' \in {revision, revision + 1}
  BY <1>5
<1>6. CASE PeopleStep
  <2>1. ASSUME NEW r \in Reviews,
               \/ \E m \in Requests, user \in Callers, d \in Decisions :
                    CreateReview(r, m, user, d)
               \/ \E user \in Identities, d \in Decisions : EditReview(r, user, d)
               \/ \E m \in Requests : RetargetReview(r, m)
               \/ DeleteReview(r)
        PROVE  UNCHANGED requests /\ revision' = revision + 1
    BY <1>4, <2>1 DEF CreateReview, EditReview, RetargetReview, DeleteReview, RemoveReview
  <2>2. ASSUME NEW m \in Requests,
               DeleteJob(m) \/ CreateForeignJob(m) \/ ChangeTarget(m)
        PROVE  UNCHANGED <<requests, revision>>
    BY <2>2 DEF DeleteJob, CreateForeignJob, ChangeTarget
  <2>3. QED
    BY <1>1, <1>2, <1>3, <1>5, <1>6, <2>1, <2>2 DEF PeopleStep
<1>7. CASE ClusterStep \/ WatchStep
  BY <1>5, <1>7
     DEF ClusterStep, WatchStep, FinishJob, CollectJob, PassTtl, DeliverReview,
         ResyncReview, ResyncRequest, storeVars
<1>8. QED
  BY <1>6, <1>7

LEMMA RequestChange ==
  ASSUME TypeInv, Next, NEW n \in Requests
  PROVE  /\ revision' \in {revision, revision + 1}
         /\ \/ requests'[n] = requests[n]
            \/ RequestGone(n) \/ RequestMade(n) \/ RequestEdited(n)
            \/ RequestUpdated(n) \/ RequestDecided(n)
<1>1. CASE RequestController
  BY <1>1, RequestControllerChange
<1>2. CASE ReviewController
  BY <1>2, ReviewControllerChange
<1>3. CASE PeopleStep \/ ClusterStep \/ WatchStep
  BY <1>3, OutsideChange
<1>4. CASE Restart
  BY <1>4 DEF Restart, storeVars
<1>5. QED
  BY <1>1, <1>2, <1>3, <1>4 DEF Next, RequestStep, ReviewStep, OutsideStep

\* At most the JobRequest of one name changes.
OneWritten == \E m \in Requests : \E obj : requests' = [requests EXCEPT ![m] = obj]

LEMMA StoredIsOne ==
  ASSUME NEW m \in Requests, NEW obj, StoreRequest(m, obj)
  PROVE  UNCHANGED requests \/ OneWritten
BY DEF StoreRequest, OneWritten

LEMMA RemovedIsOne ==
  ASSUME NEW m \in Requests, requests' = [requests EXCEPT ![m] = AbsentRequest]
  PROVE  OneWritten
BY DEF OneWritten

LEMMA OneChanges ==
  ASSUME TypeInv, Next
  PROVE  UNCHANGED requests \/ OneWritten
<1>1. CASE RequestController
  <2>1. CASE PruneRequest
    BY <2>1, RemovedIsOne DEF PruneRequest, RemoveRequest, TypeInv, RequestWorkerOK
  <2>2. CASE UpdateRequest
    BY <2>2, StoredIsOne DEF UpdateRequest, TypeInv, RequestWorkerOK
  <2>3. QED
    BY <1>1, <2>1, <2>2
       DEF RequestController, RequestWorkerStep, BeginRequest, ListTarget, ListReviews,
           GetJobOfApproved, GetJobOfStarted, CreateJob, RereadRequest, storeVars
<1>2. CASE ReviewController
  <2>1. CASE Decide
    BY <2>1, StoredIsOne DEF Decide, TypeInv, ReviewWorkerOK
  <2>2. QED
    BY <1>2, <2>1
       DEF ReviewController, ReviewWorkerStep, BeginReview, PruneReview, ListRequest,
           UpdateReview, storeVars
<1>3. CASE PeopleStep
  <2>1. ASSUME NEW n \in Requests, NEW user, CreateRequest(n, user)
        PROVE  UNCHANGED requests \/ OneWritten
    BY <2>1, StoredIsOne DEF CreateRequest
  <2>2. ASSUME NEW n \in Requests, NEW user, EditRequest(n, user)
        PROVE  OneWritten
    <3>1. requests' =
            [requests EXCEPT ![n] = [requests[n] EXCEPT !.by = user, !.rv = revision + 1]]
      BY <2>2 DEF EditRequest
    <3>2. QED
      BY <3>1 DEF OneWritten
  <2>3. ASSUME NEW n \in Requests, DeleteRequest(n)
        PROVE  OneWritten
    BY <2>3, RemovedIsOne DEF DeleteRequest, RemoveRequest
  <2>4. QED
    BY <1>3, <2>1, <2>2, <2>3
       DEF PeopleStep, CreateReview, EditReview, RetargetReview, DeleteReview,
           CreateForeignJob, DeleteJob, ChangeTarget
<1>4. CASE ClusterStep \/ WatchStep \/ Restart
  BY <1>4 DEF ClusterStep, FinishJob, CollectJob, PassTtl, WatchStep, DeliverReview,
     ResyncReview, ResyncRequest, Restart, storeVars
<1>5. QED
  BY <1>1, <1>2, <1>3, <1>4 DEF Next, RequestStep, ReviewStep, OutsideStep

\* The step that accepts a decision does nothing else.
LEMMA DecideWrites ==
  ASSUME TypeInv, Next, revPc = "decide", revPc' = "update"
  PROVE  /\ UNCHANGED reqVars
         /\ \A n \in Requests : requests'[n] = requests[n] \/ RequestDecided(n)
<1>1. ReviewStep(ReviewController)
  BY DEF Next, RequestStep, OutsideStep, Restart, workerVars, revVars
<1>2. QED
  BY <1>1, ReviewControllerChange DEF ReviewStep

LEMMA DecisionsOf ==
  ASSUME Next
  PROVE  decisions' = decisions \cup
           {Decided(n) : n \in {m \in Requests : /\ revPc = "decide" /\ revPc' = "update"
                                                 /\ requests'[m] # requests[m]}}
BY DEF Next, RequestStep, ReviewStep, OutsideStep, RecordHistory

-----------------------------------------------------------------------------
(* What the workers hold in memory, and what it says of the store. *)

RequestVersions ==
  \A n \in Requests : /\ requests[n].rv <= revision
                      /\ ~Exists(requests[n]) => requests[n].state = ""

\* Only the JobRequest worker makes a state terminal, and it ends with that.
RequestMemory ==
  reqPc # "idle" =>
    /\ Exists(reqObj)
    /\ reqPc # "prune" => ~Terminal(requests[reqName].state)

\* A JobRequest about to be decided was requested by another user than the
\* reviewer; if it has not been written since, that is still so.
ReviewMemory ==
  /\ revPc = "listRequest" => revObj.by \in Users
  /\ revPc = "decide" =>
       /\ revObj.by \in Users
       /\ revReq.by \in Users
       /\ revReq.by # revObj.by
       /\ revReq.state = revObj.decision
       /\ Exists(revReq)
       /\ revReq.rv <= revision
       /\ Fresh(requests[revObj.for], revReq) =>
            /\ requests[revObj.for].by = revReq.by
            /\ requests[revObj.for].state = "Pending"

RequestInv == RequestVersions /\ RequestMemory /\ ReviewMemory

LEMMA RequestInvInit == Init => RequestInv
<1> SUFFICES ASSUME Init PROVE RequestInv
  OBVIOUS
<1>1. ASSUME NEW n \in Requests
      PROVE  /\ requests[n].rv <= revision
             /\ ~Exists(requests[n]) => requests[n].state = ""
  <2>1. requests[n].rv = 0 /\ revision = 0
    BY DEF Init, ServerInit, AbsentRequest
  <2>2. requests[n].rv <= revision
    BY <2>1
  <2>3. requests[n].state = ""
    BY DEF Init, ServerInit, AbsentRequest
  <2>4. QED
    BY <2>2, <2>3
<1>2. RequestMemory /\ ReviewMemory
  BY DEF Init, RequestControllerInit, ReviewControllerInit, RequestMemory, ReviewMemory
<1>3. QED
  BY <1>1, <1>2 DEF RequestInv, RequestVersions

LEMMA RequestVersionsStep ==
  TypeInv /\ RequestInv /\ Next => RequestVersions'
<1> SUFFICES ASSUME TypeInv, RequestInv, Next, NEW n \in Requests
             PROVE  /\ requests'[n].rv <= revision'
                    /\ requests'[n].uid = 0 => requests'[n].state = ""
  BY DEF RequestVersions, Exists
<1>1. requests'[n].rv <= revision'
  <2>1. revision \in Nat /\ requests[n].rv \in Nat /\ requests[n].rv <= revision
    BY DEF TypeInv, ServerOK, ServerTypeOK, RequestObjects, RequestInv, RequestVersions
  <2>2. revision' \in {revision, revision + 1}
    BY RequestChange
  <2>3. Written(n) => requests'[n].rv <= revision'
    BY <2>1 DEF Written
  <2>4. AbsentRequest.rv = 0
    BY DEF AbsentRequest
  <2>5. requests'[n] = requests[n] \/ RequestGone(n) => requests'[n].rv <= revision'
    BY <2>1, <2>2, <2>4 DEF RequestGone
  <2>6. QED
    BY <2>3, <2>5, RequestChange
       DEF RequestMade, RequestEdited, RequestUpdated, RequestDecided
<1>2. requests'[n].uid = 0 => requests'[n].state = ""
  <2>1. requests[n].uid = 0 => requests[n].state = ""
    BY DEF RequestInv, RequestVersions, Exists
  <2>2. AbsentRequest.state = ""
    BY DEF AbsentRequest
  <2>3. CASE RequestEdited(n)
    BY <2>3 DEF RequestEdited, Exists
  <2>4. CASE RequestUpdated(n)
    BY <2>4 DEF RequestUpdated, Copies, Exists, RequestInv, RequestMemory
  <2>5. CASE RequestDecided(n)
    BY <2>5 DEF RequestDecided, Copies, Exists, RequestInv, ReviewMemory
  <2>6. QED
    BY <2>1, <2>2, <2>3, <2>4, <2>5, RequestChange DEF RequestMade, RequestGone
<1>3. QED
  BY <1>1, <1>2

\* The worker's own steps.
LEMMA RequestMemoryOwn ==
  TypeInv /\ RequestMemory /\ RequestController => RequestMemory'
<1> SUFFICES ASSUME TypeInv, RequestMemory, RequestController
             PROVE  RequestMemory'
  OBVIOUS
<1> USE DEF Exists, RequestMemory
<1>1. FinishRequest => RequestMemory'
  BY DEF FinishRequest
<1>2. ASSUME NEW n \in Requests, BeginRequest(n)
      PROVE  RequestMemory'
  BY <1>2 DEF BeginRequest, reqVars, storeVars, TypeInv, ServerOK, ServerTypeOK,
     RequestObjects
<1>3. CASE reqPc \notin {"idle", "prune"} /\ reqName' = reqName /\ UNCHANGED requests
           /\ reqObj'.uid = reqObj.uid
  BY <1>3
<1>4. ASSUME NEW state, SetRequestState(state)
      PROVE  reqName' = reqName /\ reqObj'.uid = reqObj.uid
  BY <1>4 DEF SetRequestState, TypeInv, RequestWorkerOK, RequestControllerTypeOK,
     RequestObjects
<1>5. CASE PruneRequest \/ UpdateRequest
  BY <1>1, <1>5 DEF PruneRequest, UpdateRequest
<1>6. CASE ListTarget \/ ListReviews \/ GetJobOfApproved \/ GetJobOfStarted
           \/ CreateJob
  BY <1>1, <1>3, <1>4, <1>6
     DEF ListTarget, ListReviews, HandleRequestState, GetJobOfApproved, JobPresent,
         GetJobOfStarted, JobMissing, CreateJob, RequestGoto, storeVars
<1>7. CASE RereadRequest
  <2>1. requests[reqName] \in RequestObjects
    BY <1>7 DEF RereadRequest, TypeInv, ServerOK, ServerTypeOK, RequestWorkerOK
  <2>2. QED
    BY <1>1, <1>7, <2>1 DEF RereadRequest, storeVars, RequestObjects
<1>8. QED
  BY <1>2, <1>5, <1>6, <1>7 DEF RequestController, RequestWorkerStep

LEMMA RequestMemoryStep ==
  TypeInv /\ RequestInv /\ Next => RequestMemory'
<1> SUFFICES ASSUME TypeInv, RequestInv, Next
             PROVE  RequestMemory'
  OBVIOUS
<1>1. CASE RequestController
  BY <1>1, RequestMemoryOwn DEF RequestInv
<1>2. CASE reqPc' = "idle"
  BY <1>2 DEF RequestMemory
<1>3. CASE reqPc # "idle" /\ UNCHANGED reqVars
  <2>1. reqName \in Requests
    BY <1>3 DEF TypeInv, RequestWorkerOK
  <2>2. reqPc # "prune" => ~Terminal(requests'[reqName].state)
    <3>1. SUFFICES ASSUME ~Terminal(requests[reqName].state)
                   PROVE  ~Terminal(requests'[reqName].state)
      BY <1>3 DEF RequestInv, RequestMemory
    <3>2. CASE RequestDecided(reqName)
      BY <3>2 DEF RequestDecided, Copies, RequestInv, ReviewMemory, TypeInv, ReviewWorkerOK,
         ReviewControllerTypeOK, ReviewObjects, Decisions, Terminal
    <3>3. ~RequestUpdated(reqName)
      BY <1>3 DEF RequestUpdated, Copies, reqVars
    <3>4. CASE requests'[reqName].state \in {requests[reqName].state, ""}
      BY <3>1, <3>4 DEF Terminal
    <3>5. AbsentRequest.state = ""
      BY DEF AbsentRequest
    <3>6. QED
      BY <2>1, <3>2, <3>3, <3>4, <3>5, RequestChange
         DEF RequestGone, RequestMade, RequestEdited
  <2>3. QED
    BY <1>3, <2>2 DEF RequestInv, RequestMemory, reqVars, Exists
<1>4. QED
  BY <1>1, <1>2, <1>3
     DEF Next, RequestStep, ReviewStep, OutsideStep, Restart, workerVars, reqVars

LEMMA ReviewMemoryOwn ==
  TypeInv /\ RequestInv /\ ReviewController => ReviewMemory'
<1> SUFFICES ASSUME TypeInv, RequestInv, ReviewController
             PROVE  ReviewMemory'
  OBVIOUS
<1>1. CASE revPc' \notin {"listRequest", "decide"}
  BY <1>1 DEF ReviewMemory
<1>2. ASSUME NEW r \in Reviews, BeginReview(r)
      PROVE  ReviewMemory'
  <2>1. reviewCache[r] \in ReviewObjects
    BY DEF TypeInv, ServerOK, ServerTypeOK
  <2>2. QED
    BY <1>2, <2>1 DEF BeginReview, ValidReviewedBy, revVars, ReviewMemory,
       ReviewObjects, Identities
<1>3. CASE ListRequest
  <2> DEFINE request == requests[revObj.for]
  <2>1. CASE revPc' = "decide"
    <3>1. request \in RequestObjects /\ revObj.by \in Users /\ request.rv <= revision
      BY <1>3 DEF ListRequest, TypeInv, ServerOK, ServerTypeOK, ReviewWorkerOK,
         RequestInv, ReviewMemory, RequestVersions
    <3>2. /\ Exists(request) /\ AwaitsReview(request)
          /\ request.by # NoUser /\ ~SameUser(request, revObj)
          /\ revObj' = revObj
          /\ UNCHANGED <<requests, revision>>
          /\ revReq' = [request EXCEPT !.state = revObj.decision,
                                       !.reviewName = revName]
      BY <1>3, <2>1
         DEF ListRequest, DecideOn, SetReviewState, FinishReview, storeVars
    <3>3. /\ revReq'.uid = request.uid /\ revReq'.rv = request.rv
          /\ revReq'.by = request.by /\ revReq'.state = revObj.decision
      BY <3>1, <3>2 DEF RequestObjects
    <3>4. request.by \in Users /\ request.by # revObj.by /\ request.state = "Pending"
      BY <3>1, <3>2 DEF RequestObjects, Identities, SameUser, AwaitsReview
    <3>5. requests'[revObj'.for] = request
      BY <3>2
    <3> HIDE DEF request
    <3>6. QED
      BY <2>1, <3>1, <3>2, <3>3, <3>4, <3>5 DEF ReviewMemory, Exists
  <2>2. CASE revPc' # "decide"
    BY <1>1, <1>3, <2>2 DEF ListRequest, DecideOn, SetReviewState, FinishReview
  <2>3. QED
    BY <2>1, <2>2
<1>4. CASE PruneReview \/ Decide \/ UpdateReview
  BY <1>1, <1>4 DEF PruneReview, Decide, UpdateReview, SetReviewState, FinishReview
<1>5. QED
  BY <1>2, <1>3, <1>4 DEF ReviewController, ReviewWorkerStep

LEMMA ReviewMemoryStep ==
  TypeInv /\ RequestInv /\ Next => ReviewMemory'
<1> SUFFICES ASSUME TypeInv, RequestInv, Next
             PROVE  ReviewMemory'
  OBVIOUS
<1>1. CASE ReviewController
  BY <1>1, ReviewMemoryOwn
<1>2. CASE revPc' = "idle"
  BY <1>2 DEF ReviewMemory
<1>3. CASE UNCHANGED revVars
  <2>1. CASE revPc = "decide"
    <3> DEFINE n == revObj.for
    <3>1. n \in Requests
      BY <2>1 DEF TypeInv, ReviewWorkerOK
    <3>2. /\ revision \in Nat /\ revReq.rv \in Nat /\ revReq.rv <= revision
          /\ Exists(revReq)
      BY <2>1 DEF TypeInv, ServerOK, ServerTypeOK, ReviewWorkerOK,
         ReviewControllerTypeOK, RequestObjects, RequestInv, ReviewMemory
    <3> HIDE DEF n
    <3>3. Fresh(requests'[n], revReq) => requests'[n] = requests[n]
      <4>1. Written(n) => ~Fresh(requests'[n], revReq)
        BY <3>2 DEF Written, Fresh
      <4>2. ~Fresh(AbsentRequest, revReq)
        BY <3>2 DEF AbsentRequest, Fresh, Exists
      <4>3. QED
        BY <3>1, <4>1, <4>2, RequestChange
           DEF RequestGone, RequestMade, RequestEdited, RequestUpdated, RequestDecided
    <3>4. revReq.rv <= revision'
      BY <3>1, <3>2, RequestChange
    <3>5. Fresh(requests'[n], revReq) =>
            requests'[n].by = revReq.by /\ requests'[n].state = "Pending"
      BY <2>1, <3>3 DEF RequestInv, ReviewMemory, n
    <3>6. QED
      BY <1>3, <2>1, <3>4, <3>5
         DEF RequestInv, ReviewMemory, revVars, Exists, Fresh, n
  <2>2. CASE revPc # "decide"
    BY <1>3, <2>2 DEF RequestInv, ReviewMemory, revVars
  <2>3. QED
    BY <2>1, <2>2
<1>4. QED
  BY <1>1, <1>2, <1>3
     DEF Next, RequestStep, ReviewStep, OutsideStep, Restart, workerVars

LEMMA RequestInvStep == TypeInv /\ RequestInv /\ [Next]_vars => RequestInv'
<1> SUFFICES ASSUME TypeInv, RequestInv, [Next]_vars
             PROVE  RequestInv'
  OBVIOUS
<1>1. CASE Next
  BY <1>1, RequestVersionsStep, RequestMemoryStep, ReviewMemoryStep DEF RequestInv
<1>2. CASE UNCHANGED vars
  BY <1>2 DEF vars, serverVars, storeVars, workerVars, reqVars, revVars, RequestInv,
     RequestVersions, RequestMemory, ReviewMemory, Exists, Fresh
<1>3. QED
  BY <1>1, <1>2

LEMMA SafeState == Spec => [](TypeInv /\ RequestInv)
<1>1. Init => TypeInv /\ RequestInv
  BY TypeInit, RequestInvInit
<1>2. TypeInv /\ RequestInv /\ [Next]_vars => (TypeInv /\ RequestInv)'
  BY TypeStep, RequestInvStep
<1>3. QED
  BY <1>1, <1>2, PTL DEF Spec

-----------------------------------------------------------------------------
(* The decisions that took effect. *)

\* They are of JobRequests that exist or have existed.
DatedInv ==
  /\ \A n \in Requests : requests[n].uid <= revision
  /\ \A d \in decisions : d.uid # 0 /\ d.uid <= revision

DecidedByAnother == \A d \in decisions : /\ {d.by, d.requester} \subseteq Users
                                         /\ d.by # d.requester

\* A new decision is of the JobRequest as it is stored when it is decided, by
\* another user than the one who is then its requester.
LEMMA NewDecision ==
  ASSUME TypeInv, RequestInv, Next, NEW d \in decisions', d \notin decisions
  PROVE  \E n \in Requests :
           /\ RequestDecided(n) /\ requests'[n] # requests[n]
           /\ d = Decided(n)
           /\ Exists(requests[n]) /\ requests[n].by # revObj.by
           /\ {revObj.by, requests[n].by} \subseteq Users
<1>1. PICK n \in Requests : /\ revPc = "decide" /\ revPc' = "update"
                            /\ requests'[n] # requests[n]
                            /\ d = Decided(n)
  BY DecisionsOf
<1>2. RequestDecided(n)
  BY <1>1, DecideWrites
<1>3. QED
  BY <1>1, <1>2 DEF RequestDecided, Fresh, RequestInv, ReviewMemory, Exists

LEMMA DatedStep ==
  TypeInv /\ RequestInv /\ DatedInv /\ [Next]_vars => DatedInv'
<1> SUFFICES ASSUME TypeInv, RequestInv, DatedInv, [Next]_vars
             PROVE  DatedInv'
  OBVIOUS
<1>1. ASSUME Next, NEW n \in Requests
      PROVE  requests'[n].uid <= revision' /\ requests[n].uid <= revision'
  <2>1. /\ revision \in Nat /\ requests[n].uid \in Nat /\ requests[n].uid <= revision
        /\ revision' \in {revision, revision + 1}
    BY <1>1, RequestChange
       DEF TypeInv, ServerOK, ServerTypeOK, RequestObjects, DatedInv
  <2>2. requests[n].uid <= revision' /\ 0 <= revision' /\ revision + 1 <= revision + 1
    BY <2>1
  <2>3. AbsentRequest.uid = 0
    BY DEF AbsentRequest
  <2>4. CASE requests'[n].uid \in {requests[n].uid, 0}
    BY <2>2, <2>4
  <2>5. CASE RequestMade(n)
    BY <2>2, <2>5 DEF RequestMade, Written
  <2>6. QED
    BY <1>1, <2>2, <2>3, <2>4, <2>5, RequestChange
       DEF RequestGone, RequestEdited, RequestUpdated, RequestDecided, Copies, Fresh
<1>2. ASSUME Next, NEW d \in decisions'
      PROVE  d.uid # 0 /\ d.uid <= revision'
  <2>1. CASE d \in decisions
    <3>1. d.uid \in Nat /\ d.uid # 0 /\ d.uid <= revision
      BY <2>1 DEF TypeInv, HistoryOK, DecisionRecords, DatedInv
    <3>2. revision \in Nat /\ revision' \in {revision, revision + 1}
      BY <1>2, <2>1, RequestChange
         DEF TypeInv, ServerOK, ServerTypeOK, HistoryOK, DecisionRecords
    <3>3. QED
      BY <3>1, <3>2
  <2>2. CASE d \notin decisions
    <3>1. PICK n \in Requests : d = Decided(n) /\ Exists(requests[n])
      BY <1>2, <2>2, NewDecision
    <3>2. d.uid = requests[n].uid
      BY <3>1 DEF Decided
    <3>3. QED
      BY <1>1, <1>2, <3>1, <3>2 DEF Exists
  <2>3. QED
    BY <2>1, <2>2
<1>3. CASE Next
  BY <1>1, <1>2, <1>3 DEF DatedInv
<1>4. CASE UNCHANGED vars
  BY <1>4 DEF vars, serverVars, storeVars, historyVars, DatedInv
<1>5. QED
  BY <1>3, <1>4

LEMMA DecidedByAnotherStep ==
  TypeInv /\ RequestInv /\ DecidedByAnother /\ [Next]_vars => DecidedByAnother'
<1> SUFFICES ASSUME TypeInv, RequestInv, DecidedByAnother, [Next]_vars
             PROVE  DecidedByAnother'
  OBVIOUS
<1>1. ASSUME Next, NEW d \in decisions', d \notin decisions
      PROVE  {d.by, d.requester} \subseteq Users /\ d.by # d.requester
  <2>1. PICK n \in Requests :
          /\ d = Decided(n) /\ requests[n].by # revObj.by
          /\ {revObj.by, requests[n].by} \subseteq Users
    BY <1>1, NewDecision
  <2>2. QED
    BY <2>1 DEF Decided
<1>2. UNCHANGED vars => decisions' = decisions
  BY DEF vars, historyVars
<1>3. QED
  BY <1>1, <1>2 DEF DecidedByAnother

LEMMA SafeDecisions == Spec => [](TypeInv /\ RequestInv /\ DatedInv)
<1>1. Init => DatedInv
  <2>1. AbsentRequest.uid = 0 /\ 0 <= 0
    BY DEF AbsentRequest
  <2>2. QED
    BY <2>1 DEF Init, ServerInit, DatedInv
<1>2. QED
  BY <1>1, SafeState, DatedStep, PTL DEF Spec

\* Whatever disturbs the operator, the user who decides a JobRequest is not the one who
\* requests it, by the annotations that the two objects carry when the decision is
\* accepted.
THEOREM DecisionsAreOfOthers == Spec => []DecidedByAnother
<1>1. Init => DecidedByAnother
  BY DEF Init, DecidedByAnother
<1>2. QED
  BY <1>1, SafeState, DecidedByAnotherStep, PTL DEF Spec

-----------------------------------------------------------------------------
LEMMA TerminalStep ==
  ASSUME TypeInv, RequestInv, Next, NEW n \in Requests,
         requests[n].state \in {"Complete", "Failed", "Malformed", "Conflicted"},
         requests'[n].uid = requests[n].uid
  PROVE  requests'[n].state = requests[n].state
<1>1. Terminal(requests[n].state)
  BY DEF Terminal
<1>2. requests[n].state # "" /\ requests[n].state # "Pending"
  OBVIOUS
<1>3. Exists(requests[n])
  BY <1>2 DEF RequestInv, RequestVersions
<1>4. ~RequestGone(n)
  <2>1. AbsentRequest.uid = 0
    BY DEF AbsentRequest
  <2>2. QED
    BY <1>3, <2>1 DEF Exists, RequestGone
<1>5. ~RequestUpdated(n)
  BY <1>1 DEF RequestUpdated, Copies, RequestInv, RequestMemory
<1>6. ~RequestDecided(n)
  BY <1>2 DEF RequestDecided, Copies, RequestInv, ReviewMemory
<1>7. RequestEdited(n) => requests'[n].state = requests[n].state
  BY DEF RequestEdited
<1>8. ~RequestMade(n)
  BY <1>3 DEF RequestMade
<1>9. QED
  BY <1>4, <1>5, <1>6, <1>7, <1>8, RequestChange

\* A JobRequest in a terminal state stays in it until it is deleted.
THEOREM TerminalForGood == Spec => TerminalIsFinal
<1> DEFINE Final ==
      \A n \in Requests :
        /\ requests[n].state \in {"Complete", "Failed", "Malformed", "Conflicted"}
        /\ requests'[n].uid = requests[n].uid
        => requests'[n].state = requests[n].state
<1>1. TypeInv /\ RequestInv /\ Next => Final
  BY TerminalStep
<1>2. UNCHANGED vars => Final
  BY DEF vars, serverVars, storeVars
<1>3. TypeInv /\ RequestInv /\ [Next]_vars => [Final]_vars
  BY <1>1, <1>2
<1>4. QED
  BY <1>3, SafeState, PTL DEF Spec, TerminalIsFinal

-----------------------------------------------------------------------------
(* An approval lies behind every JobRequest that may be launched, behind what the
   worker holds of it in memory, and so behind the Job. *)

Launchable(state) == state \in {"Approved", "Started"}

RequestsApproved ==
  \A n \in Requests :
    Launchable(requests[n].state) => ApprovedByAnother(n, requests[n].uid)

MemoryApproved ==
  /\ Launchable(reqObj.state) => ApprovedByAnother(reqName, reqObj.uid)
  /\ reqPc = "create" => reqObj.state = "Approved"

ApprovalInv == RequestsApproved /\ MemoryApproved /\ JobNeedsApproval

LEMMA ApprovalInit == Init => ApprovalInv
<1> SUFFICES ASSUME Init
             PROVE  ApprovalInv
  OBVIOUS
<1>1. AbsentRequest.state = "" /\ AbsentJob.owner = 0
  BY DEF AbsentRequest, AbsentJob
<1>2. ~Launchable("")
  BY DEF Launchable
<1>3. RequestsApproved
  BY <1>1, <1>2 DEF Init, ServerInit, RequestsApproved
<1>4. MemoryApproved
  BY <1>1, <1>2 DEF Init, RequestControllerInit, MemoryApproved
<1>5. JobNeedsApproval
  BY <1>1 DEF Init, ServerInit, JobNeedsApproval
<1>6. QED
  BY <1>3, <1>4, <1>5 DEF ApprovalInv

\* The record that a later state has of an approval
ApprovedNext(n, uid) ==
  \E d \in decisions' :
    /\ d.request = n /\ d.uid = uid
    /\ d.decision = "Approved"
    /\ {d.by, d.requester} \subseteq Users
    /\ d.by # d.requester

LEMMA ApprovalStays ==
  ASSUME RecordHistory, NEW n, NEW uid, ApprovedByAnother(n, uid)
  PROVE  ApprovedNext(n, uid)
BY DEF RecordHistory, ApprovedByAnother, ApprovedNext

LEMMA RequestsApprovedStep ==
  TypeInv /\ RequestInv /\ ApprovalInv /\ Next => RequestsApproved'
<1> SUFFICES ASSUME TypeInv, RequestInv, ApprovalInv, Next, NEW n \in Requests,
                    Launchable(requests'[n].state)
             PROVE  ApprovedNext(n, requests'[n].uid)
  BY DEF RequestsApproved, ApprovedByAnother, ApprovedNext, Launchable
<1>1. RecordHistory
  BY DEF Next, RequestStep, ReviewStep, OutsideStep
<1>2. Launchable(requests[n].state) => ApprovedNext(n, requests[n].uid)
  BY <1>1, ApprovalStays DEF ApprovalInv, RequestsApproved
<1>3. CASE requests'[n] = requests[n]
  BY <1>2, <1>3
<1>4. ~RequestGone(n) /\ ~RequestMade(n)
  <2>1. requests'[n].state # ""
    BY DEF Launchable
  <2>2. AbsentRequest.state = ""
    BY DEF AbsentRequest
  <2>3. QED
    BY <2>1, <2>2 DEF RequestMade, RequestGone
<1>5. CASE RequestEdited(n)
  BY <1>2, <1>5 DEF RequestEdited
<1>6. CASE RequestUpdated(n)
  BY <1>1, <1>6, ApprovalStays DEF RequestUpdated, Copies, ApprovalInv, MemoryApproved
<1>7. CASE RequestDecided(n)
  <2>1. /\ revObj.by \in Users /\ requests[n].by \in Users
        /\ requests[n].by # revObj.by
        /\ revObj.decision = "Approved"
    BY <1>7 DEF RequestDecided, Copies, RequestInv, ReviewMemory, Launchable, TypeInv,
       ReviewWorkerOK, ReviewControllerTypeOK, ReviewObjects, Decisions
  <2>2. requests'[n] # requests[n]
    <3>1. requests[n].rv \in Nat /\ requests[n].rv <= revision /\ revision \in Nat
      BY DEF RequestInv, RequestVersions, TypeInv, ServerOK, ServerTypeOK,
         RequestObjects
    <3>2. requests'[n].rv = revision + 1
      BY <1>7 DEF RequestDecided, Copies, Written
    <3>3. QED
      BY <3>1, <3>2
  <2>3. Decided(n) \in decisions'
    BY <1>1, <1>7, <2>2 DEF RecordHistory, RequestDecided
  <2>4. requests'[n].uid = requests[n].uid
    BY <1>7 DEF RequestDecided, Copies, Fresh
  <2>5. /\ Decided(n).request = n /\ Decided(n).uid = requests[n].uid
        /\ Decided(n).decision = revObj.decision
        /\ Decided(n).by = revObj.by /\ Decided(n).requester = requests[n].by
    BY DEF Decided
  <2>6. QED
    BY <2>1, <2>3, <2>4, <2>5 DEF ApprovedNext
<1>8. QED
  BY <1>3, <1>4, <1>5, <1>6, <1>7, RequestChange

\* The worker's own steps.
LEMMA MemoryApprovedOwn ==
  ASSUME TypeInv, ApprovalInv, RequestController, RecordHistory
  PROVE  /\ Launchable(reqObj'.state) => ApprovedNext(reqName', reqObj'.uid)
         /\ reqPc' = "create" => reqObj'.state = "Approved"
<1> DEFINE Goal == /\ Launchable(reqObj'.state) => ApprovedNext(reqName', reqObj'.uid)
                   /\ reqPc' = "create" => reqObj'.state = "Approved"
<1>1. Launchable(reqObj.state) => ApprovedNext(reqName, reqObj.uid)
  BY ApprovalStays DEF ApprovalInv, MemoryApproved
<1>2. reqPc = "create" => reqObj.state = "Approved"
  BY DEF ApprovalInv, MemoryApproved
<1>3. ASSUME NEW n \in Requests, BeginRequest(n)
      PROVE  Goal
  <2>1. requests[n] \in RequestObjects
    BY DEF TypeInv, ServerOK, ServerTypeOK
  <2>2. Launchable(requests[n].state) => ApprovedNext(n, requests[n].uid)
    BY ApprovalStays DEF ApprovalInv, RequestsApproved
  <2>3. \/ UNCHANGED reqVars
        \/ /\ reqPc' # "create" /\ reqName' = n
           /\ reqObj' \in {requests[n], [requests[n] EXCEPT !.state = "Malformed"]}
    BY <1>3 DEF BeginRequest
  <2>4. [requests[n] EXCEPT !.state = "Malformed"].state = "Malformed"
    BY <2>1 DEF RequestObjects
  <2>5. ~Launchable("Malformed")
    BY DEF Launchable
  <2>6. CASE UNCHANGED reqVars
    BY <1>1, <1>2, <2>6 DEF reqVars
  <2>7. QED
    BY <2>2, <2>3, <2>4, <2>5, <2>6
<1>4. FinishRequest => Goal
  <2>1. AbsentRequest.state = "" /\ ~Launchable("")
    BY DEF AbsentRequest, Launchable
  <2>2. QED
    BY <2>1 DEF FinishRequest
<1>5. ASSUME NEW pc, pc # "create", RequestGoto(pc)
      PROVE  Goal
  BY <1>1, <1>5 DEF RequestGoto
<1>6. ASSUME NEW state, ~Launchable(state), SetRequestState(state)
      PROVE  Goal
  BY <1>6 DEF SetRequestState, TypeInv, RequestWorkerOK, RequestControllerTypeOK,
     RequestObjects
<1>7. ~Launchable("Malformed") /\ ~Launchable("Pending") /\ ~Launchable("Conflicted")
      /\ ~Launchable("Complete") /\ ~Launchable("Failed") /\ Launchable("Approved")
  BY DEF Launchable
<1> SUFFICES Goal
  OBVIOUS
<1> HIDE DEF Goal
<1>8. (RequestGoto("listReviews") => Goal) /\ (RequestGoto("getJob") => Goal)
  BY <1>5
<1>9. /\ SetRequestState("Malformed") => Goal
      /\ SetRequestState("Pending") => Goal
      /\ SetRequestState("Conflicted") => Goal
  BY <1>6, <1>7
<1>10. CASE PruneRequest \/ UpdateRequest
  BY <1>4, <1>10 DEF PruneRequest, UpdateRequest
<1>11. \A state : HandleRequestState(state) => Goal
  BY <1>4, <1>8, <1>9 DEF HandleRequestState
<1>12. CASE ListTarget \/ ListReviews
  BY <1>4, <1>8, <1>9, <1>11, <1>12 DEF ListTarget, ListReviews
<1>13. CASE GetJobOfApproved
  <2>1. CASE RequestGoto("create")
    BY <1>1, <1>13, <2>1 DEF GetJobOfApproved, RequestGoto, Goal
  <2>2. QED
    BY <1>4, <1>9, <1>13, <2>1 DEF GetJobOfApproved, JobPresent
<1>14. CASE GetJobOfStarted
  <2>1. CASE reqPc' = "reread" /\ UNCHANGED <<reqName, reqObj>>
    BY <1>1, <2>1 DEF Goal
  <2>2. QED
    BY <1>9, <1>14, <2>1 DEF GetJobOfStarted, JobMissing
<1>15. CASE CreateJob
  <2>1. CASE SetRequestState("Started")
    <3>1. reqObj'.uid = reqObj.uid /\ reqName' = reqName /\ reqPc' = "update"
      BY <2>1 DEF SetRequestState, TypeInv, RequestWorkerOK, RequestControllerTypeOK,
         RequestObjects
    <3>2. ApprovedNext(reqName, reqObj.uid)
      BY <1>1, <1>2, <1>7, <1>15 DEF CreateJob
    <3>3. QED
      BY <3>1, <3>2 DEF Goal
  <2>2. QED
    BY <1>9, <1>15, <2>1 DEF CreateJob
<1>16. CASE RereadRequest
  <2>1. requests[reqName] \in RequestObjects
    BY <1>16 DEF RereadRequest, TypeInv, ServerOK, ServerTypeOK, RequestWorkerOK
  <2>2. FinishRequest \/ (reqPc' = "update" /\ reqObj'.state \in {"Complete", "Failed"})
    BY <1>16, <2>1 DEF RereadRequest, RequestObjects
  <2>3. QED
    BY <1>4, <1>7, <2>2 DEF Goal
<1>17. QED
  BY <1>3, <1>10, <1>12, <1>13, <1>14, <1>15, <1>16
     DEF RequestController, RequestWorkerStep, Goal

LEMMA MemoryApprovedStep ==
  TypeInv /\ ApprovalInv /\ Next => MemoryApproved'
<1> SUFFICES ASSUME TypeInv, ApprovalInv, Next
             PROVE  /\ Launchable(reqObj'.state) => ApprovedNext(reqName', reqObj'.uid)
                    /\ reqPc' = "create" => reqObj'.state = "Approved"
  BY DEF MemoryApproved, ApprovedByAnother, ApprovedNext, Launchable
<1>1. RecordHistory
  BY DEF Next, RequestStep, ReviewStep, OutsideStep
<1>2. CASE RequestController
  BY <1>1, <1>2, MemoryApprovedOwn
<1>3. CASE UNCHANGED reqVars
  BY <1>1, <1>3, ApprovalStays DEF ApprovalInv, MemoryApproved, reqVars
<1>4. CASE Restart
  BY <1>4 DEF Restart, AbsentRequest, Launchable
<1>5. QED
  BY <1>2, <1>3, <1>4
     DEF Next, RequestStep, ReviewStep, OutsideStep, workerVars, reqVars

\* What a step may do to the Job that has the name of a JobRequest.  Only CreateJob
\* gives a Job an owner.
JobLaunched(n) == /\ reqPc = "create" /\ reqPc' = "update" /\ n = reqName
                  /\ jobs[n].phase = "None" /\ jobs'[n].phase = "Active"
                  /\ jobs'[n].owner = reqObj.uid
JobForeign(n) == jobs[n].phase = "None" /\ jobs'[n].owner = 0
JobFinished(n) == /\ jobs[n].phase = "Active"
                  /\ jobs'[n].phase \in {"Complete", "Failed"}
                  /\ jobs'[n].owner = jobs[n].owner
JobGone(n) == /\ jobs'[n].owner = 0
              /\ \/ "delJob" \in Disturbances
                 \/ jobs[n].owner \notin {0, requests[n].uid}
JobOfOthers(n) == JobForeign(n) \/ JobFinished(n) \/ JobGone(n)

LEMMA CreateJobChange ==
  ASSUME TypeInv, CreateJob, NEW n \in Requests
  PROVE  jobs'[n] = jobs[n] \/ JobLaunched(n)
<1>1. LaunchedJob.owner = reqObj.uid /\ LaunchedJob.phase = "Active"
  BY DEF LaunchedJob
<1>2. \/ UNCHANGED jobs
      \/ jobs' = [jobs EXCEPT ![reqName] = LaunchedJob] /\ jobs[reqName].phase = "None"
  BY DEF CreateJob, StoreJob
<1>3. reqPc = "create" /\ reqPc' = "update" /\ jobs \in [Requests -> JobObjects]
  BY DEF CreateJob, SetRequestState, TypeInv, ServerOK, ServerTypeOK
<1>4. QED
  BY <1>1, <1>2, <1>3 DEF JobLaunched

LEMMA OutsideJobChange ==
  ASSUME TypeInv, PeopleStep \/ ClusterStep \/ WatchStep, NEW n \in Requests
  PROVE  jobs'[n] = jobs[n] \/ JobOfOthers(n)
<1> USE DEF TypeInv, ServerOK, ServerTypeOK
<1>1. CASE UNCHANGED jobs
  BY <1>1
<1>2. ASSUME NEW m \in Requests, NEW phase \in {"Complete", "Failed"},
             FinishJob(m, phase)
      PROVE  jobs'[n] = jobs[n] \/ JobFinished(n)
  <2> DEFINE job == [jobs[m] EXCEPT !.phase = phase]
  <2>1. jobs[m] \in JobObjects
    OBVIOUS
  <2>2. job.owner = jobs[m].owner /\ job.phase = phase
    BY <2>1 DEF JobObjects, JobPhases
  <2>3. jobs' = [jobs EXCEPT ![m] = job] /\ jobs[m].phase = "Active"
    BY <1>2 DEF FinishJob, StoreJob
  <2> HIDE DEF job
  <2>4. QED
    BY <2>2, <2>3 DEF JobFinished
<1>3. ASSUME NEW m \in Requests, DeleteJob(m) \/ CollectJob(m)
      PROVE  jobs'[n] = jobs[n] \/ JobGone(n)
  <2>1. AbsentJob.owner = 0
    BY DEF AbsentJob
  <2>2. jobs' = [jobs EXCEPT ![m] = AbsentJob]
    BY <1>3 DEF DeleteJob, CollectJob, StoreJob
  <2>3. \/ "delJob" \in Disturbances
        \/ jobs[m].owner \notin {0, requests[m].uid}
    BY <1>3 DEF DeleteJob, CollectJob, Disturb
  <2>4. QED
    BY <2>1, <2>2, <2>3 DEF JobGone
<1>4. ASSUME NEW m \in Requests, CreateForeignJob(m)
      PROVE  jobs'[n] = jobs[n] \/ JobForeign(n)
  <2> DEFINE job == [phase |-> "Active", owner |-> 0]
  <2>1. jobs' = [jobs EXCEPT ![m] = job] /\ jobs[m].phase = "None"
    BY <1>4 DEF CreateForeignJob, StoreJob
  <2>2. job.owner = 0
    OBVIOUS
  <2> HIDE DEF job
  <2>3. QED
    BY <2>1, <2>2 DEF JobForeign
<1>5. CASE PeopleStep
  <2>1. CASE \E r \in Reviews :
               \/ \E user \in Identities, d \in Decisions : EditReview(r, user, d)
               \/ \E m \in Requests : RetargetReview(r, m)
               \/ DeleteReview(r)
    BY <1>1, <2>1 DEF DeleteReview, EditReview, RetargetReview
  <2>2. CASE \E r \in Reviews, m \in Requests, user \in Callers, d \in Decisions :
               CreateReview(r, m, user, d)
    BY <1>1, <2>2 DEF CreateReview
  <2>3. CASE \E m \in Requests : \/ \E user \in Callers : CreateRequest(m, user)
                                 \/ \E user \in Identities : EditRequest(m, user)
                                 \/ DeleteRequest(m) \/ ChangeTarget(m)
    BY <1>1, <2>3 DEF CreateRequest, EditRequest, DeleteRequest, ChangeTarget
  <2>4. QED
    BY <1>3, <1>4, <1>5, <2>1, <2>2, <2>3 DEF PeopleStep, JobOfOthers
<1>6. CASE ClusterStep \/ WatchStep
  BY <1>1, <1>2, <1>3, <1>6
     DEF ClusterStep, WatchStep, PassTtl, DeliverReview, ResyncReview, ResyncRequest,
         storeVars, JobOfOthers
<1>7. QED
  BY <1>5, <1>6

LEMMA JobChange ==
  ASSUME TypeInv, Next, NEW n \in Requests
  PROVE  \/ jobs'[n] = jobs[n]
         \/ JobLaunched(n)
         \/ JobOfOthers(n) /\ UNCHANGED <<reqVars, revVars>>
<1>1. CASE RequestController
  BY <1>1, CreateJobChange
     DEF RequestController, RequestWorkerStep, BeginRequest, PruneRequest, ListTarget,
         ListReviews, GetJobOfApproved, GetJobOfStarted, RereadRequest, UpdateRequest,
         storeVars
<1>2. CASE ReviewController
  BY <1>2
     DEF ReviewController, ReviewWorkerStep, BeginReview, PruneReview, ListRequest,
         Decide, UpdateReview, storeVars
<1>3. CASE OutsideStep(PeopleStep \/ ClusterStep \/ WatchStep)
  BY <1>3, OutsideJobChange DEF OutsideStep, workerVars
<1>4. CASE Restart
  BY <1>4 DEF Restart, storeVars
<1>5. QED
  BY <1>1, <1>2, <1>3, <1>4 DEF Next, RequestStep, ReviewStep

LEMMA JobNeedsApprovalStep ==
  TypeInv /\ ApprovalInv /\ Next => JobNeedsApproval'
<1> SUFFICES ASSUME TypeInv, ApprovalInv, Next, NEW n \in Requests,
                    jobs'[n].owner # 0
             PROVE  ApprovedNext(n, jobs'[n].owner)
  BY DEF JobNeedsApproval, ApprovedByAnother, ApprovedNext
<1>1. RecordHistory
  BY DEF Next, RequestStep, ReviewStep, OutsideStep
<1>2. CASE jobs'[n].owner = jobs[n].owner
  BY <1>1, <1>2, ApprovalStays DEF ApprovalInv, JobNeedsApproval
<1>3. CASE reqPc = "create" /\ n = reqName /\ jobs'[n].owner = reqObj.uid
  <2>1. ApprovedByAnother(reqName, reqObj.uid)
    BY <1>3 DEF ApprovalInv, MemoryApproved, Launchable
  <2>2. QED
    BY <1>1, <1>3, <2>1, ApprovalStays
<1>4. QED
  BY <1>2, <1>3, JobChange
     DEF JobLaunched, JobOfOthers, JobForeign, JobFinished, JobGone

LEMMA ApprovalStep ==
  TypeInv /\ RequestInv /\ ApprovalInv /\ [Next]_vars => ApprovalInv'
<1> SUFFICES ASSUME TypeInv, RequestInv, ApprovalInv, [Next]_vars
             PROVE  ApprovalInv'
  OBVIOUS
<1>1. CASE Next
  BY <1>1, RequestsApprovedStep, MemoryApprovedStep, JobNeedsApprovalStep
     DEF ApprovalInv
<1>2. CASE UNCHANGED vars
  BY <1>2 DEF vars, serverVars, storeVars, workerVars, reqVars, historyVars, ApprovalInv,
     RequestsApproved, MemoryApproved, JobNeedsApproval, ApprovedByAnother, Launchable
<1>3. QED
  BY <1>1, <1>2

\* A Job that the operator created belongs to a JobRequest that a user other than
\* the one who requested it approved.
THEOREM ApprovedByAnotherFirst == Spec => []JobNeedsApproval
<1>1. ApprovalInv => JobNeedsApproval
  BY DEF ApprovalInv
<1>2. QED
  BY SafeState, ApprovalInit, ApprovalStep, <1>1, PTL DEF Spec
-----------------------------------------------------------------------------
(* Reviews.  Every write of a review gets a version of its own, so a copy in the
   cache, in a watch or in the worker's memory that has the version of the stored
   review is that review. *)

\* What the new version v of r may be: a new review, a deletion, an edit that leaves
\* the state alone, or the state that the worker gave to the version it read.
ReviewMade(r, v) == /\ ~Exists(reviews[r])
                    /\ v.uid = revision + 1 /\ v.state = ""
ReviewGone(r, v) == /\ Exists(reviews[r]) /\ ~Exists(v) /\ v.state = ""
                    /\ \/ "delReview" \in Disturbances
                       \/ revPc = "prune" /\ revPc' = "idle" /\ r = revName
ReviewEdited(r, v) == /\ Exists(reviews[r])
                      /\ v.uid = reviews[r].uid /\ v.state = reviews[r].state
                      /\ v.for = reviews[r].for \/ "retarget" \in Disturbances
ReviewUpdated(r, v) == /\ revPc = "update" /\ r = revName
                       /\ Fresh(reviews[r], revObj)
                       /\ v.uid = revObj.uid /\ v.for = revObj.for
                       /\ v.state = revObj.state
ReviewWritten(r, v) == \/ ReviewMade(r, v) \/ ReviewGone(r, v)
                       \/ ReviewEdited(r, v) \/ ReviewUpdated(r, v)

\* The API server has stored a new version of r.
ReviewStored(r, stored) ==
  /\ reviews' = [reviews EXCEPT ![r] = stored]
  /\ reviewEvents' = [reviewEvents EXCEPT ![r] = @ \cup {stored}]
  /\ revision' = revision + 1
  /\ reviewCache' = reviewCache
  /\ stored.rv = revision + 1
  /\ ReviewWritten(r, stored)

\* Versions have moved from the API server to the watches and on to the cache.
ReviewsMoved ==
  /\ UNCHANGED <<reviews, revision>>
  /\ \A r \in Reviews :
       /\ reviewCache'[r] \in {reviewCache[r], reviews[r]} \cup reviewEvents[r]
       /\ reviewEvents'[r] \subseteq reviewEvents[r]

ReviewsKept == /\ UNCHANGED <<reviews, reviewCache, reviewEvents>>
               /\ revision' \in {revision, revision + 1}

LEMMA AnotherReview ==
  ASSUME ServerTypeOK, NEW r \in Reviews, NEW v, ReviewMade(r, v) \/ ReviewGone(r, v)
  PROVE  v.uid # reviews[r].uid
<1>1. CASE ReviewMade(r, v)
  <2>1. v.uid = revision + 1 /\ reviews[r].uid = 0
    BY <1>1 DEF ReviewMade, Exists
  <2>2. revision + 1 # 0
    BY DEF ServerTypeOK
  <2>3. QED
    BY <2>1, <2>2
<1>2. CASE ReviewGone(r, v)
  BY <1>2 DEF ReviewGone, Exists
<1>3. QED
  BY <1>1, <1>2

LEMMA StoreReviewChange ==
  ASSUME ServerTypeOK, NEW r \in Reviews, NEW obj \in ReviewObjects,
         StoreReview(r, obj), UNCHANGED reviewCache, ReviewWritten(r, obj)
  PROVE  \E stored \in ReviewObjects : ReviewStored(r, stored)
<1> DEFINE stored == [obj EXCEPT !.rv = revision + 1]
<1>1. revision + 1 \in Nat
  BY DEF ServerTypeOK
<1>2. /\ stored \in ReviewObjects /\ stored.rv = revision + 1
      /\ stored.uid = obj.uid /\ stored.for = obj.for /\ stored.state = obj.state
  BY <1>1 DEF ReviewObjects
<1>3. /\ reviews' = [reviews EXCEPT ![r] = stored]
      /\ reviewEvents' = [reviewEvents EXCEPT ![r] = @ \cup {stored}]
      /\ revision' = revision + 1
  BY DEF StoreReview
<1> HIDE DEF stored
<1>4. ReviewWritten(r, stored)
  BY <1>2 DEF ReviewWritten, ReviewMade, ReviewGone, ReviewEdited, ReviewUpdated, Exists
<1>5. ReviewStored(r, stored)
  BY <1>2, <1>3, <1>4 DEF ReviewStored
<1>6. QED
  BY <1>2, <1>5

LEMMA RemoveReviewChange ==
  ASSUME ServerTypeOK, NEW r \in Reviews, Exists(reviews[r]), RemoveReview(r),
         UNCHANGED reviewCache,
         \/ "delReview" \in Disturbances
         \/ revPc = "prune" /\ revPc' = "idle" /\ r = revName
  PROVE  \E stored \in ReviewObjects : ReviewStored(r, stored)
<1>1. AbsentReview(0) \in ReviewObjects
  BY AbsentTypes
<1>2. ReviewWritten(r, AbsentReview(0))
  <2>1. ~Exists(AbsentReview(0)) /\ AbsentReview(0).state = ""
    BY DEF AbsentReview, Exists
  <2>2. QED
    BY <2>1 DEF ReviewWritten, ReviewGone
<1>3. QED
  BY <1>1, <1>2, StoreReviewChange DEF RemoveReview

SomeReviewStored ==
  \E r \in Reviews, stored \in ReviewObjects : ReviewStored(r, stored)

LEMMA ReviewsByWorker ==
  ASSUME TypeInv, ReviewController
  PROVE  SomeReviewStored \/ ReviewsKept
<1> USE DEF TypeInv, ServerOK
<1>1. CASE PruneReview
  <2>1. revName \in Reviews
    BY <1>1 DEF PruneReview, ReviewWorkerOK
  <2>2. CASE Exists(reviews[revName]) /\ RemoveReview(revName)
    BY <1>1, <2>1, <2>2, RemoveReviewChange
       DEF PruneReview, FinishReview, SomeReviewStored
  <2>3. QED
    BY <1>1, <2>2 DEF PruneReview, ReviewsKept
<1>2. CASE UpdateReview
  <2>1. revName \in Reviews /\ revObj \in ReviewObjects
    BY <1>2 DEF UpdateReview, ReviewWorkerOK, ReviewControllerTypeOK
  <2>2. CASE Fresh(reviews[revName], revObj) /\ StoreReview(revName, revObj)
    <3>1. ReviewWritten(revName, revObj)
      BY <1>2, <2>2 DEF UpdateReview, ReviewWritten, ReviewUpdated
    <3>2. QED
      BY <1>2, <2>1, <2>2, <3>1, StoreReviewChange DEF UpdateReview, SomeReviewStored
  <2>3. QED
    BY <1>2, <2>2 DEF UpdateReview, ReviewsKept
<1>3. CASE Decide
  BY <1>3 DEF Decide, StoreRequest, watchVars, ReviewsKept
<1>4. CASE ListRequest \/ \E r \in Reviews : BeginReview(r)
  BY <1>4 DEF ListRequest, BeginReview, storeVars, watchVars, ReviewsKept
<1>5. QED
  BY <1>1, <1>2, <1>3, <1>4 DEF ReviewController, ReviewWorkerStep

LEMMA ReviewsByPeople ==
  ASSUME TypeInv, PeopleStep
  PROVE  SomeReviewStored \/ ReviewsKept
<1> USE DEF TypeInv, ServerOK
<1>1. ASSUME NEW r \in Reviews, NEW n \in Requests, NEW user \in Callers,
             NEW d \in Decisions, CreateReview(r, n, user, d)
      PROVE  SomeReviewStored
  <2> DEFINE obj == [AbsentReview(0) EXCEPT !.uid = revision + 1, !.by = user,
                                            !.for = n, !.decision = d]
  <2>1. AbsentReview(0) \in ReviewObjects /\ user \in Identities /\ revision + 1 \in Nat
    BY AbsentTypes DEF ServerTypeOK
  <2>2. obj \in ReviewObjects /\ obj.uid = revision + 1 /\ obj.state = ""
    BY <2>1 DEF ReviewObjects, AbsentReview
  <2>3. ~Exists(reviews[r]) /\ StoreReview(r, obj) /\ UNCHANGED reviewCache
    BY <1>1 DEF CreateReview
  <2> HIDE DEF obj
  <2>4. ReviewWritten(r, obj)
    BY <2>2, <2>3 DEF ReviewWritten, ReviewMade
  <2>5. QED
    BY <2>2, <2>3, <2>4, StoreReviewChange DEF SomeReviewStored
<1>2. ASSUME NEW r \in Reviews, NEW user \in Identities, NEW d \in Decisions,
             EditReview(r, user, d)
      PROVE  SomeReviewStored
  <2> DEFINE obj == [reviews[r] EXCEPT !.by = user, !.decision = d]
  <2>1. reviews[r] \in ReviewObjects
    BY DEF ServerTypeOK
  <2>2. /\ obj \in ReviewObjects /\ obj.uid = reviews[r].uid
        /\ obj.state = reviews[r].state /\ obj.for = reviews[r].for
    BY <2>1 DEF ReviewObjects
  <2>3. StoreReview(r, obj) /\ UNCHANGED reviewCache /\ Exists(reviews[r])
    BY <1>2 DEF EditReview
  <2> HIDE DEF obj
  <2>4. ReviewWritten(r, obj)
    BY <2>2, <2>3 DEF ReviewWritten, ReviewEdited
  <2>5. QED
    BY <2>2, <2>3, <2>4, StoreReviewChange DEF SomeReviewStored
<1>3. ASSUME NEW r \in Reviews, NEW n \in Requests, RetargetReview(r, n)
      PROVE  SomeReviewStored
  <2> DEFINE obj == [reviews[r] EXCEPT !.for = n]
  <2>1. reviews[r] \in ReviewObjects
    BY DEF ServerTypeOK
  <2>2. /\ obj \in ReviewObjects /\ obj.uid = reviews[r].uid
        /\ obj.state = reviews[r].state
    BY <2>1 DEF ReviewObjects
  <2>3. StoreReview(r, obj) /\ UNCHANGED reviewCache /\ Exists(reviews[r])
        /\ "retarget" \in Disturbances
    BY <1>3 DEF RetargetReview, Disturb
  <2> HIDE DEF obj
  <2>4. ReviewWritten(r, obj)
    BY <2>2, <2>3 DEF ReviewWritten, ReviewEdited
  <2>5. QED
    BY <2>2, <2>3, <2>4, StoreReviewChange DEF SomeReviewStored
<1>4. ASSUME NEW r \in Reviews, DeleteReview(r)
      PROVE  SomeReviewStored
  BY <1>4, RemoveReviewChange DEF DeleteReview, Disturb, SomeReviewStored
<1>5. ASSUME NEW n \in Requests,
             \/ \E user \in Identities : CreateRequest(n, user) \/ EditRequest(n, user)
             \/ DeleteRequest(n) \/ DeleteJob(n)
             \/ CreateForeignJob(n) \/ ChangeTarget(n)
      PROVE  ReviewsKept
  BY <1>5 DEF CreateRequest, EditRequest, DeleteRequest, DeleteJob, CreateForeignJob,
     ChangeTarget, StoreRequest, watchVars, ReviewsKept
<1>6. QED
  BY <1>1, <1>2, <1>4, <1>5, <1>3 DEF PeopleStep

LEMMA ReviewChange ==
  ASSUME TypeInv, Next
  PROVE  SomeReviewStored \/ ReviewsMoved \/ ReviewsKept
<1>1. CASE RequestController
  BY <1>1
     DEF RequestController, RequestWorkerStep, BeginRequest, PruneRequest, ListTarget,
         ListReviews, GetJobOfApproved, GetJobOfStarted, CreateJob, RereadRequest,
         UpdateRequest, StoreRequest, storeVars, watchVars, ReviewsKept
<1>2. CASE ReviewController
  BY <1>2, ReviewsByWorker
<1>3. CASE PeopleStep
  BY <1>3, ReviewsByPeople
<1>4. ASSUME NEW r \in Reviews, DeliverReview(r)
      PROVE  ReviewsMoved
  <2>1. PICK version \in reviewEvents[r] :
          /\ reviewCache' = [reviewCache EXCEPT ![r] = version]
          /\ reviewEvents' =
               [reviewEvents EXCEPT ![r] = {v \in @ : v.rv > version.rv}]
    BY <1>4 DEF DeliverReview
  <2>2. UNCHANGED <<reviews, revision>>
    BY <1>4 DEF DeliverReview, storeVars
  <2>3. QED
    BY <2>1, <2>2 DEF ReviewsMoved, TypeInv, ServerOK, ServerTypeOK
<1>5. CASE ClusterStep \/ WatchStep
  BY <1>4, <1>5
     DEF ClusterStep, WatchStep, FinishJob, CollectJob, PassTtl, ResyncReview,
         ResyncRequest, storeVars, watchVars, ReviewsKept
<1>6. CASE Restart
  BY <1>6 DEF Restart, storeVars, ReviewsMoved
<1>7. QED
  BY <1>1, <1>2, <1>3, <1>5, <1>6 DEF Next, RequestStep, ReviewStep, OutsideStep

SameVersion(r, version) ==
  /\ version.rv <= revision
  /\ version.rv = reviews[r].rv => version = reviews[r]

ReviewVersions ==
  \A r \in Reviews :
    /\ reviews[r].rv <= revision
    /\ SameVersion(r, reviewCache[r])
    /\ \A version \in reviewEvents[r] : SameVersion(r, version)

\* The review that the worker is at had no state when it was read.
ReviewUndecided ==
  revPc \notin {"idle", "prune"} =>
    /\ revObj.rv <= revision
    /\ Fresh(reviews[revName], revObj) => reviews[revName].state = ""

ReviewInv == ReviewVersions /\ ReviewUndecided

LEMMA ReviewInvInit == Init => ReviewInv
<1> SUFFICES ASSUME Init
             PROVE  ReviewInv
  OBVIOUS
<1>1. AbsentReview(0).rv = 0
  BY DEF AbsentReview
<1>2. ReviewVersions
  BY <1>1 DEF Init, ServerInit, ReviewVersions, SameVersion
<1>3. ReviewUndecided
  BY DEF Init, ReviewControllerInit, ReviewUndecided
<1>4. QED
  BY <1>2, <1>3 DEF ReviewInv

LEMMA ReviewVersionsStep == TypeInv /\ ReviewInv /\ Next => ReviewVersions'
<1> SUFFICES ASSUME TypeInv, ReviewInv, Next, NEW r \in Reviews
             PROVE  /\ reviews'[r].rv <= revision'
                    /\ SameVersion(r, reviewCache[r])'
                    /\ \A version \in reviewEvents'[r] :
                         /\ version.rv <= revision'
                         /\ version.rv = reviews'[r].rv => version = reviews'[r]
  BY DEF ReviewVersions, SameVersion
<1>1. /\ reviews[r].rv <= revision
      /\ SameVersion(r, reviewCache[r])
      /\ \A version \in reviewEvents[r] : SameVersion(r, version)
  BY DEF ReviewInv, ReviewVersions
<1>2. /\ revision \in Nat
      /\ reviews \in [Reviews -> ReviewObjects]
      /\ reviewCache[r] \in ReviewObjects
      /\ reviewEvents \in [Reviews -> SUBSET ReviewObjects]
  BY DEF TypeInv, ServerOK, ServerTypeOK
<1>3. /\ reviews[r].rv \in Nat /\ reviewCache[r].rv \in Nat
      /\ \A version \in reviewEvents[r] : version.rv \in Nat
  BY <1>2 DEF ReviewObjects
<1>4. CASE ReviewsKept
  BY <1>1, <1>2, <1>3, <1>4 DEF ReviewsKept, SameVersion
<1>5. CASE ReviewsMoved
  <2>1. reviews' = reviews /\ revision' = revision
    BY <1>5 DEF ReviewsMoved
  <2>2. /\ reviewCache'[r] \in {reviewCache[r], reviews[r]} \cup reviewEvents[r]
        /\ reviewEvents'[r] \subseteq reviewEvents[r]
    BY <1>5 DEF ReviewsMoved
  <2>3. QED
    BY <1>1, <2>1, <2>2 DEF SameVersion
<1>6. CASE SomeReviewStored
  <2>1. PICK m \in Reviews, stored \in ReviewObjects : ReviewStored(m, stored)
    BY <1>6 DEF SomeReviewStored
  <2>2. /\ reviewCache'[r] = reviewCache[r]
        /\ revision' = revision + 1 /\ stored.rv = revision + 1
    BY <2>1 DEF ReviewStored
  <2>3. CASE r = m
    <3>1. reviews'[r] = stored /\ reviewEvents'[r] = reviewEvents[r] \cup {stored}
      BY <1>2, <2>1, <2>3 DEF ReviewStored
    <3>2. QED
      BY <1>1, <1>2, <1>3, <2>2, <3>1 DEF SameVersion
  <2>4. CASE r # m
    <3>1. reviews'[r] = reviews[r] /\ reviewEvents'[r] = reviewEvents[r]
      BY <1>2, <2>1, <2>4 DEF ReviewStored
    <3>2. QED
      BY <1>1, <1>2, <1>3, <2>2, <3>1 DEF SameVersion
  <2>5. QED
    BY <2>3, <2>4
<1>7. QED
  BY <1>4, <1>5, <1>6, ReviewChange

\* The worker takes up a review without a state, and keeps to the version it read.
LEMMA ReviewUndecidedOwn ==
  ASSUME TypeInv, ReviewInv, ReviewController, revision \in Nat,
         revision' \in {revision, revision + 1}
  PROVE  ReviewUndecided'
<1> DEFINE Goal == revPc' \notin {"idle", "prune"} =>
                     /\ revObj'.rv <= revision'
                     /\ Fresh(reviews'[revName'], revObj') =>
                          reviews'[revName'].state = ""
<1> SUFFICES Goal
  BY DEF ReviewUndecided, Fresh
<1>1. CASE revPc' \in {"idle", "prune"}
  BY <1>1
<1>2. ASSUME NEW r \in Reviews, BeginReview(r), revPc' \notin {"idle", "prune"}
      PROVE  Goal
  <2>1. reviewCache[r] \in ReviewObjects
    BY DEF TypeInv, ServerOK, ServerTypeOK
  <2>2. /\ revName' = r /\ ~HasState(reviewCache[r])
        /\ revObj' \in {reviewCache[r],
                        [reviewCache[r] EXCEPT !.state = "JobRequestMalformed"]}
        /\ UNCHANGED <<reviews, revision>>
    BY <1>2 DEF BeginReview, revVars, storeVars
  <2>3. revObj'.rv = reviewCache[r].rv
    BY <2>1, <2>2 DEF ReviewObjects
  <2>4. SameVersion(r, reviewCache[r])
    BY DEF ReviewInv, ReviewVersions
  <2>5. reviewCache[r].rv = reviews[r].rv => reviews[r].state = ""
    BY <2>2, <2>4 DEF SameVersion, HasState
  <2>6. revObj'.rv <= revision'
    BY <2>2, <2>3, <2>4 DEF SameVersion
  <2>7. QED
    BY <2>2, <2>3, <2>5, <2>6 DEF Fresh
<1>3. ASSUME UNCHANGED <<reviews, revName>>, revPc \notin {"idle", "prune"},
             revObj'.rv = revObj.rv, revObj'.uid = revObj.uid
      PROVE  Goal
  <2>1. revObj.rv \in Nat
    BY DEF TypeInv, ReviewWorkerOK, ReviewControllerTypeOK, ReviewObjects
  <2>2. revObj.rv <= revision
    BY <1>3 DEF ReviewInv, ReviewUndecided
  <2>3. revObj'.rv <= revision'
    BY <1>3, <2>1, <2>2
  <2>4. QED
    BY <1>3, <2>3 DEF ReviewInv, ReviewUndecided, Fresh
<1>4. ASSUME NEW state, SetReviewState(state)
      PROVE  revName' = revName /\ revObj'.rv = revObj.rv /\ revObj'.uid = revObj.uid
  BY <1>4 DEF SetReviewState, TypeInv, ReviewWorkerOK, ReviewControllerTypeOK,
     ReviewObjects
<1>5. FinishReview => revPc' = "idle"
  BY DEF FinishReview
<1>6. CASE PruneReview \/ UpdateReview
  BY <1>1, <1>5, <1>6 DEF PruneReview, UpdateReview
<1>7. CASE Decide
  BY <1>3, <1>4, <1>7 DEF Decide
<1>8. CASE ListRequest
  BY <1>1, <1>3, <1>4, <1>5, <1>8 DEF ListRequest, DecideOn, storeVars
<1>9. QED
  BY <1>1, <1>2, <1>6, <1>7, <1>8 DEF ReviewController, ReviewWorkerStep

LEMMA ReviewUndecidedStep == TypeInv /\ ReviewInv /\ Next => ReviewUndecided'
<1> SUFFICES ASSUME TypeInv, ReviewInv, Next
             PROVE  ReviewUndecided'
  OBVIOUS
<1>1. revision \in Nat /\ revision' \in {revision, revision + 1}
  BY ReviewChange DEF TypeInv, ServerOK, ServerTypeOK, SomeReviewStored, ReviewStored,
     ReviewsMoved, ReviewsKept
<1>2. CASE ReviewController
  BY <1>1, <1>2, ReviewUndecidedOwn
<1>3. CASE revPc' \in {"idle", "prune"}
  BY <1>3 DEF ReviewUndecided
<1>4. CASE UNCHANGED revVars /\ revPc \notin {"idle", "prune"}
  <2>1. /\ revName \in Reviews /\ revObj.rv \in Nat
        /\ reviews \in [Reviews -> ReviewObjects]
    BY <1>4 DEF TypeInv, ServerOK, ServerTypeOK, ReviewWorkerOK,
       ReviewControllerTypeOK, ReviewObjects
  <2>2. revObj.rv <= revision
    BY <1>4 DEF ReviewInv, ReviewUndecided
  <2>3. \/ reviews'[revName] = reviews[revName]
        \/ reviews'[revName].rv = revision + 1
    <3>1. CASE SomeReviewStored
      <4>1. PICK m \in Reviews, stored \in ReviewObjects : ReviewStored(m, stored)
        BY <3>1 DEF SomeReviewStored
      <4>2. QED
        BY <2>1, <4>1 DEF ReviewStored
    <3>2. QED
      BY <3>1, ReviewChange DEF ReviewsMoved, ReviewsKept
  <2>4. revObj.rv <= revision' /\ revObj.rv # revision + 1
    BY <1>1, <2>1, <2>2
  <2>5. Fresh(reviews'[revName], revObj) => reviews'[revName].state = ""
    BY <1>4, <2>3, <2>4 DEF ReviewInv, ReviewUndecided, Fresh
  <2>6. QED
    BY <1>4, <2>4, <2>5 DEF ReviewUndecided, revVars, Fresh
<1>5. QED
  BY <1>2, <1>3, <1>4
     DEF Next, RequestStep, ReviewStep, OutsideStep, Restart, workerVars, revVars

LEMMA SafeReviews == Spec => [](TypeInv /\ ReviewInv)
<1>1. TypeInv /\ ReviewInv /\ UNCHANGED vars => ReviewInv'
  BY DEF vars, serverVars, storeVars, watchVars, workerVars, revVars, ReviewInv,
     ReviewVersions, SameVersion, ReviewUndecided, Fresh
<1>2. TypeInv /\ ReviewInv /\ [Next]_vars => (TypeInv /\ ReviewInv)'
  BY <1>1, TypeStep, ReviewVersionsStep, ReviewUndecidedStep DEF ReviewInv
<1>3. QED
  BY <1>2, TypeInit, ReviewInvInit, PTL DEF Spec

LEMMA ReviewStateStep ==
  ASSUME TypeInv, ReviewInv, Next, NEW r \in Reviews,
         reviews[r].state # "", reviews'[r].uid = reviews[r].uid
  PROVE  reviews'[r].state = reviews[r].state
<1>1. CASE SomeReviewStored
  <2>1. PICK m \in Reviews, stored \in ReviewObjects : ReviewStored(m, stored)
    BY <1>1 DEF SomeReviewStored
  <2>2. ~(revPc = "update" /\ r = revName /\ Fresh(reviews[r], revObj))
    BY DEF ReviewInv, ReviewUndecided
  <2>3. reviews'[r] = IF r = m THEN stored ELSE reviews[r]
    BY <2>1 DEF ReviewStored, TypeInv, ServerOK, ServerTypeOK
  <2>4. CASE r = m
    <3>1. ~ReviewMade(r, stored) /\ ~ReviewGone(r, stored)
      BY <2>3, <2>4, AnotherReview DEF TypeInv, ServerOK
    <3>2. QED
      BY <2>1, <2>2, <2>3, <2>4, <3>1
         DEF ReviewStored, ReviewWritten, ReviewEdited, ReviewUpdated
  <2>5. QED
    BY <2>3, <2>4
<1>2. QED
  BY <1>1, ReviewChange DEF ReviewsMoved, ReviewsKept

\* A review that has taken a state keeps it until it is deleted, however stale the
\* cached copy is that the worker read.
THEOREM ReviewStateForGood == Spec => ReviewStateIsFinal
<1> DEFINE Final ==
      \A r \in Reviews :
        /\ reviews[r].state # ""
        /\ reviews'[r].uid = reviews[r].uid
        => reviews'[r].state = reviews[r].state
<1>1. TypeInv /\ ReviewInv /\ Next => Final
  BY ReviewStateStep
<1>2. UNCHANGED vars => Final
  BY DEF vars, serverVars, storeVars
<1>3. TypeInv /\ ReviewInv /\ [Next]_vars => [Final]_vars
  BY <1>1, <1>2
<1>4. QED
  BY <1>3, SafeReviews, PTL DEF Spec, ReviewStateIsFinal
=============================================================================
