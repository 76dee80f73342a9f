-------------------------- MODULE JobRequestOperator --------------------------
(***************************************************************************)
(* The operator at work: both reconcilers against one API server, people   *)
(* and a cluster around them, and restarts of the manager.  One manager is *)
(* active at a time (leader election is on in the deployed configuration). *)
(*                                                                         *)
(* decisions and launches are history: no action of the operator reads     *)
(* them.  They record which review moved a JobRequest out of Pending, and  *)
(* how many Jobs the operator created for the JobRequest that now has a    *)
(* name.                                                                   *)
(***************************************************************************)
EXTENDS JobRequestController, JobRequestReviewController, Cluster

VARIABLES decisions, launches

workerVars == <<reqVars, revVars>>
historyVars == <<decisions, launches>>
vars == <<serverVars, workerVars, historyVars>>

\* A decision that a review made of a JobRequest, with the identities that
\* the two objects carried when the API server accepted it.
DecisionRecords ==
  [request : Requests, uid : Nat, review : Reviews, reviewUid : Nat,
   decision : Decisions, by : Identities, requester : Identities]

Decided(n) ==
  [request |-> n, uid |-> requests[n].uid, review |-> revName,
   reviewUid |-> revObj.uid, decision |-> revObj.decision,
   by |-> revObj.by, requester |-> requests[n].by]

RecordHistory ==
  /\ decisions' =
       decisions \cup
         {Decided(n) : n \in {m \in Requests : /\ revPc = "decide" /\ revPc' = "update"
                                               /\ requests'[m] # requests[m]}}
  /\ launches' =
       [n \in Requests |->
          IF requests'[n].uid # requests[n].uid THEN 0
          ELSE IF /\ reqPc = "create" /\ reqPc' = "update"
                  /\ jobs'[n] # jobs[n]
                  /\ jobs'[n].owner = requests[n].uid
               THEN launches[n] + 1
               ELSE launches[n]]

-----------------------------------------------------------------------------
\* The manager stops and starts again: queues, cache and workers are rebuilt
\* from what the API server has, and every object is queued.  No call of the old
\* manager lands later: the new one waits for the old one's lease to run out, as
\* LeaderElectionReleaseOnCancel is not set.
Restart ==
  /\ Disturb("crash")
  /\ reqPc' = "idle" /\ reqName' = NoRequest
  /\ reqObj' = AbsentRequest /\ reqJob' = "None"
  /\ revPc' = "idle" /\ revName' = NoReview
  /\ revObj' = AbsentReview(0) /\ revReq' = AbsentRequest
  /\ reviewCache' = reviews
  /\ reviewEvents' = [r \in Reviews |-> {}]
  /\ requestQueue' = {n \in Requests : Exists(requests[n])}
  /\ reviewQueue' = {r \in Reviews : Exists(reviews[r])}
  /\ UNCHANGED storeVars

Init ==
  /\ ServerInit
  /\ RequestControllerInit
  /\ ReviewControllerInit
  /\ decisions = {}
  /\ launches = [n \in Requests |-> 0]

RequestStep(A) == A /\ UNCHANGED revVars /\ RecordHistory
ReviewStep(A) == A /\ UNCHANGED reqVars /\ RecordHistory
OutsideStep(A) == A /\ UNCHANGED workerVars /\ RecordHistory

Next ==
  \/ RequestStep(RequestController)
  \/ ReviewStep(ReviewController)
  \/ OutsideStep(PeopleStep \/ ClusterStep \/ WatchStep)
  \/ Restart /\ RecordHistory

Spec == Init /\ [][Next]_vars

-----------------------------------------------------------------------------
(***************************************************************************)
(* A worker that is reconciling goes on; a queue hands out every name it   *)
(* holds sooner or later, however many others are queued; watches deliver  *)
(* and, where Resync is TRUE, informers resync.  Nothing is assumed of     *)
(* people, of Jobs or of the garbage collector.                            *)
(***************************************************************************)
Fairness ==
  /\ WF_vars(RequestStep(RequestWorkerStep))
  /\ WF_vars(ReviewStep(ReviewWorkerStep))
  /\ \A n \in Requests : /\ SF_vars(RequestStep(BeginRequest(n)))
                         /\ WF_vars(OutsideStep(ResyncRequest(n)))
  /\ \A r \in Reviews : /\ SF_vars(ReviewStep(BeginReview(r)))
                        /\ WF_vars(OutsideStep(DeliverReview(r)))
                        /\ WF_vars(OutsideStep(ResyncReview(r)))

FairSpec == Spec /\ Fairness
=============================================================================
