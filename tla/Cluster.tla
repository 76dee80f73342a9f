-------------------------------- MODULE Cluster --------------------------------
(***************************************************************************)
(* What acts on the API server beside the operator: the people who create, *)
(* edit and delete JobRequests and JobRequestReviews, the owners of the    *)
(* target Deployments, the Job controller, the garbage collector and time. *)
(* The operator never sees these steps, only their effects.                *)
(***************************************************************************)
EXTENDS ApiServer

CONSTANTS
  Callers,       \* identities of the people who create objects
  ReviewersWait  \* people review only JobRequests that are Pending

ASSUME PeopleAssumption == /\ Callers \subseteq Identities
                           /\ ReviewersWait \in BOOLEAN

-----------------------------------------------------------------------------
\* People.  The admission policies stamp the identity of the caller on every
\* object at its creation; a caller whose name is not a user's ARN is NoUser.

CreateRequest(n, user) ==
  /\ Take("requests")
  /\ ~Exists(requests[n])
  /\ StoreRequest(n, [AbsentRequest EXCEPT !.uid = revision + 1, !.by = user])
  /\ UNCHANGED <<reviews, jobs, targets, horizon, reviewQueue, watchVars>>

CreateReview(r, n, user, decision) ==
  /\ Take("reviews")
  /\ ~Exists(reviews[r])
  /\ ReviewersWait => requests[n].state = "Pending"
  /\ StoreReview(r, [AbsentReview(0) EXCEPT !.uid = revision + 1, !.by = user,
                                            !.for = n, !.decision = decision])
  /\ UNCHANGED <<requests, jobs, targets, horizon, requestQueue, reviewQueue,
                 reviewCache>>

\* An edit of a JobRequest outside its status; the policies do not run again,
\* so the edit may touch the annotation too.
EditRequest(n, user) ==
  /\ Disturb("edit")
  /\ Exists(requests[n])
  /\ requests' = [requests EXCEPT ![n] = [@ EXCEPT !.by = user, !.rv = revision + 1]]
  /\ revision' = revision + 1
  /\ requestQueue' = requestQueue \cup {n}
  /\ UNCHANGED <<reviews, jobs, targets, horizon, reviewQueue, watchVars>>

\* An edit of a review's decision, or of its annotation.
EditReview(r, user, decision) ==
  /\ Disturb("editReview")
  /\ Exists(reviews[r])
  /\ (reviews[r].by = user) # (reviews[r].decision = decision)
  /\ StoreReview(r, [reviews[r] EXCEPT !.by = user, !.decision = decision])
  /\ UNCHANGED <<requests, jobs, targets, horizon, requestQueue, reviewQueue,
                 reviewCache>>

\* An edit of the name of the JobRequest that a review is for.
RetargetReview(r, n) ==
  /\ Disturb("retarget")
  /\ Exists(reviews[r])
  /\ reviews[r].for # n
  /\ StoreReview(r, [reviews[r] EXCEPT !.for = n])
  /\ UNCHANGED <<requests, jobs, targets, horizon, requestQueue, reviewQueue,
                 reviewCache>>

DeleteRequest(n) ==
  /\ Disturb("delRequest")
  /\ Exists(requests[n])
  /\ RemoveRequest(n)
  /\ UNCHANGED <<reviews, jobs, targets, revision, horizon, reviewQueue, watchVars>>

DeleteReview(r) ==
  /\ Disturb("delReview")
  /\ Exists(reviews[r])
  /\ RemoveReview(r)
  /\ UNCHANGED <<requests, jobs, targets, horizon, requestQueue, reviewQueue,
                 reviewCache>>

\* Someone else's Job takes the name of a JobRequest.
CreateForeignJob(n) ==
  /\ Disturb("foreign")
  /\ jobs[n].phase = "None"
  /\ StoreJob(n, [phase |-> "Active", owner |-> 0], 0)
  /\ UNCHANGED <<requests, reviews, targets, revision, horizon, reviewQueue, watchVars>>

DeleteJob(n) ==
  /\ Disturb("delJob")
  /\ jobs[n].phase # "None"
  /\ StoreJob(n, AbsentJob, jobs[n].owner)
  /\ UNCHANGED <<requests, reviews, targets, revision, horizon, reviewQueue, watchVars>>

\* The Deployment, or the container in it, goes away or comes back.
ChangeTarget(n) ==
  /\ Disturb("target")
  /\ targets' = [targets EXCEPT ![n] = ~@]
  /\ UNCHANGED <<requests, reviews, jobs, revision, horizon,
                 requestQueue, reviewQueue, watchVars>>

-----------------------------------------------------------------------------
\* The cluster.

FinishJob(n, phase) ==
  /\ jobs[n].phase = "Active"
  /\ StoreJob(n, [jobs[n] EXCEPT !.phase = phase], jobs[n].owner)
  /\ UNCHANGED <<requests, reviews, targets, revision, horizon, reviewQueue,
                 watchVars, budget>>

\* The garbage collector deletes a Job whose owner is gone.
CollectJob(n) ==
  /\ jobs[n].owner # 0
  /\ requests[n].uid # jobs[n].owner
  /\ StoreJob(n, AbsentJob, jobs[n].owner)
  /\ UNCHANGED <<requests, reviews, targets, revision, horizon, reviewQueue,
                 watchVars, budget>>

\* Time passes: an object that exists, and all that are older, pass the TTL.
PassTtl ==
  /\ Disturb("age")
  /\ \E uid \in {requests[n].uid : n \in Requests} \cup {reviews[r].uid : r \in Reviews} :
       /\ uid > horizon
       /\ horizon' = uid
  /\ UNCHANGED <<requests, reviews, jobs, targets, revision,
                 requestQueue, reviewQueue, watchVars>>

-----------------------------------------------------------------------------
PeopleStep ==
  \/ \E n \in Requests, user \in Callers : CreateRequest(n, user)
  \/ \E r \in Reviews, n \in Requests, user \in Callers, d \in Decisions :
       CreateReview(r, n, user, d)
  \/ \E n \in Requests, user \in Identities : EditRequest(n, user)
  \/ \E r \in Reviews, user \in Identities, d \in Decisions : EditReview(r, user, d)
  \/ \E r \in Reviews, n \in Requests : RetargetReview(r, n)
  \/ \E n \in Requests : DeleteRequest(n) \/ DeleteJob(n)
  \/ \E r \in Reviews : DeleteReview(r)
  \/ \E n \in Requests : CreateForeignJob(n) \/ ChangeTarget(n)

ClusterStep ==
  \/ \E n \in Requests, phase \in {"Complete", "Failed"} : FinishJob(n, phase)
  \/ \E n \in Requests : CollectJob(n)
  \/ PassTtl

WatchStep ==
  \/ \E r \in Reviews : DeliverReview(r) \/ ResyncReview(r)
  \/ \E n \in Requests : ResyncRequest(n)
=============================================================================
