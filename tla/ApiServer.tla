------------------------------ MODULE ApiServer ------------------------------
(***************************************************************************)
(* The part of Kubernetes that the operator reads and writes.              *)
(*                                                                         *)
(* The API server stores JobRequests, JobRequestReviews and Jobs under     *)
(* their names.  Every write that changes an object gives it the next      *)
(* revision of the store as its resource version (rv); a uid is the        *)
(* revision at which the object was created, so uids order objects by age. *)
(* A status update carries the resource version its writer read and is     *)
(* refused when the stored object has moved on; a delete by name is not.   *)
(* Watches tell the controllers' work queues which names to look at, and   *)
(* feed the cache of JobRequestReviews, which may trail the store.         *)
(*                                                                         *)
(* One namespace is modelled: every lookup the operator makes is confined  *)
(* to the namespace of the object being reconciled.                        *)
(***************************************************************************)
EXTENDS Naturals

CONSTANTS
  Requests,   \* names a JobRequest may have
  Reviews,    \* names a JobRequestReview may have
  Users,      \* user names that an identity annotation can be parsed into
  NoUser,     \* an identity annotation that is missing or cannot be parsed
  NoRequest,  \* no JobRequest name
  NoReview,   \* the empty reviewName
  Resync,     \* informers queue their objects again now and then
  Disturbances,     \* the kinds of disturbance that may happen
  MaxDisturbances,  \* how many of them may happen in all
  MaxRequests,      \* how often a JobRequest may be created
  MaxReviews        \* how often a JobRequestReview may be created

(***************************************************************************)
(* What may disturb the course request, review, Job: an edit of either     *)
(* object, a review given to another JobRequest, a deletion, a Job of      *)
(* someone else's, a change of the target Deployment, the passing of the   *)
(* TTL, a failed call of the operator, and a restart of its manager.       *)
(* Their number, like that of the creations, is bounded so that TLC's runs *)
(* end.                                                                    *)
(***************************************************************************)
Kinds == {"edit", "editReview", "retarget", "delRequest", "delReview", "delJob",
          "foreign", "target", "age", "fault", "crash"}
Pools == {"requests", "reviews", "disturbances"}

ASSUME NamesAssumption ==
  /\ NoUser \notin Users
  /\ NoRequest \notin Requests
  /\ NoReview \notin Reviews
ASSUME BoundsAssumption ==
  /\ Resync \in BOOLEAN
  /\ Disturbances \subseteq Kinds
  /\ {MaxDisturbances, MaxRequests, MaxReviews} \subseteq Nat

VARIABLES
  requests,      \* the stored JobRequests, by name
  reviews,       \* the stored JobRequestReviews, by name
  jobs,          \* the stored Job that has the name of each JobRequest
  targets,       \* whether each JobRequest's Deployment and container exist
  revision,      \* the last revision of the store
  horizon,       \* objects created at this revision or earlier are past the TTL
  requestQueue,  \* names waiting for the JobRequest controller
  reviewQueue,   \* names waiting for the JobRequestReview controller
  reviewCache,   \* the cached JobRequestReviews, by name
  reviewEvents,  \* versions of each JobRequestReview not yet seen by the cache
  budget         \* creations and disturbances that may still happen

storeVars == <<requests, reviews, jobs, targets, revision, horizon>>
watchVars == <<reviewCache, reviewEvents>>
serverVars == <<storeVars, requestQueue, reviewQueue, watchVars, budget>>

-----------------------------------------------------------------------------
\* Objects.  uid 0 marks a name that is not in use.

RequestStates == {"", "Pending", "Approved", "Rejected", "Started",
                  "Complete", "Failed", "Malformed", "Conflicted"}
Decisions == {"Approved", "Rejected"}
ReviewStates == {"", "Approved", "Rejected",
                 "JobRequestMalformed", "JobRequestNotFound", "Conflict"}
JobPhases == {"None", "Active", "Complete", "Failed"}

Identities == Users \cup {NoUser}

RequestObjects == [uid : Nat, rv : Nat, by : Identities,
                   state : RequestStates, reviewName : Reviews \cup {NoReview}]
ReviewObjects == [uid : Nat, rv : Nat, by : Identities,
                  for : Requests \cup {NoRequest}, decision : Decisions,
                  state : ReviewStates]
\* owner is the uid of the controlling JobRequest, 0 when it has none.
JobObjects == [phase : JobPhases, owner : Nat]

AbsentRequest == [uid |-> 0, rv |-> 0, by |-> NoUser, state |-> "",
                  reviewName |-> NoReview]
\* A deleted review keeps the revision of its deletion, which orders the event.
AbsentReview(rv) == [uid |-> 0, rv |-> rv, by |-> NoUser, for |-> NoRequest,
                     decision |-> "Rejected", state |-> ""]
AbsentJob == [phase |-> "None", owner |-> 0]

Exists(obj) == obj.uid # 0
Expired(obj) == obj.uid <= horizon
\* Mutant: only reviews that have taken a state count.
ReviewsOfDecided(n) ==
  {r \in Reviews : Exists(reviews[r]) /\ reviews[r].for = n /\ reviews[r].state # ""}
ReviewsOf(n) == {r \in Reviews : Exists(reviews[r]) /\ reviews[r].for = n}

-----------------------------------------------------------------------------
\* Outcomes of a call.

Healthy == UNCHANGED budget
Take(pool) == /\ budget[pool] > 0
              /\ budget' = [budget EXCEPT ![pool] = @ - 1]
Disturb(kind) == kind \in Disturbances /\ Take("disturbances")
Faulty == Disturb("fault")

\* Mutant: a patch of the status, which carries no resource version.
FreshByUid(stored, obj) == stored.uid = obj.uid
\* A status update is accepted when the stored object is the one that was read.
Fresh(stored, obj) == stored.uid = obj.uid /\ stored.rv = obj.rv

-----------------------------------------------------------------------------
\* Effects of a call, and what the watches make of them.

\* An update that changes nothing keeps the version and raises no event.  The event of
\* any other queues the name at once; one that came later would add a reconcile, as
\* ResyncRequest does where Resync is TRUE.
StoreRequest(n, obj) ==
  IF obj = requests[n]
  THEN UNCHANGED <<requests, revision, requestQueue>>
  ELSE /\ requests' = [requests EXCEPT ![n] = [obj EXCEPT !.rv = revision + 1]]
       /\ revision' = revision + 1
       /\ requestQueue' = requestQueue \cup {n}

RemoveRequest(n) ==
  /\ requests' = [requests EXCEPT ![n] = AbsentRequest]
  /\ requestQueue' = requestQueue \cup {n}

StoreReview(r, obj) ==
  LET stored == [obj EXCEPT !.rv = revision + 1]
  IN  /\ reviews' = [reviews EXCEPT ![r] = stored]
      /\ reviewEvents' = [reviewEvents EXCEPT ![r] = @ \cup {stored}]
      /\ revision' = revision + 1

RemoveReview(r) == StoreReview(r, AbsentReview(0))

\* Mutant: the controller does not watch the Jobs it owns.
JobWatchersNone(n, owner) == {}
\* The names a Job's events are queued for: the JobRequest that owns it.
JobWatchers(n, owner) == IF owner = 0 THEN {} ELSE {n}

StoreJob(n, job, owner) ==
  /\ jobs' = [jobs EXCEPT ![n] = job]
  /\ requestQueue' = requestQueue \cup JobWatchers(n, owner)

\* The cache moves to a later version of r, skipping those in between.
DeliverReview(r) ==
  /\ \E version \in reviewEvents[r] :
       /\ reviewCache' = [reviewCache EXCEPT ![r] = version]
       /\ reviewEvents' =
            [reviewEvents EXCEPT ![r] = {v \in @ : v.rv > version.rv}]
  /\ reviewQueue' = reviewQueue \cup {r}
  /\ UNCHANGED <<storeVars, requestQueue, budget>>

\* The informers' periodic resync queues an object again without an event.  The
\* period is 10 hours, so a watch is taken to have caught up by then.
ResyncRequest(n) ==
  /\ Resync
  /\ Exists(requests[n]) /\ n \notin requestQueue
  /\ requestQueue' = requestQueue \cup {n}
  /\ UNCHANGED <<storeVars, reviewQueue, watchVars, budget>>

ResyncReview(r) ==
  /\ Resync
  /\ Exists(reviewCache[r]) /\ r \notin reviewQueue
  /\ reviewEvents[r] = {}
  /\ reviewQueue' = reviewQueue \cup {r}
  /\ UNCHANGED <<storeVars, requestQueue, watchVars, budget>>

-----------------------------------------------------------------------------
ServerTypeOK ==
  /\ requests \in [Requests -> RequestObjects]
  /\ reviews \in [Reviews -> ReviewObjects]
  /\ jobs \in [Requests -> JobObjects]
  /\ targets \in [Requests -> BOOLEAN]
  /\ revision \in Nat
  /\ horizon \in Nat
  /\ requestQueue \in SUBSET Requests
  /\ reviewQueue \in SUBSET Reviews
  /\ reviewCache \in [Reviews -> ReviewObjects]
  /\ reviewEvents \in [Reviews -> SUBSET ReviewObjects]
  /\ budget \in [Pools -> Nat]

ServerInit ==
  /\ requests = [n \in Requests |-> AbsentRequest]
  /\ reviews = [r \in Reviews |-> AbsentReview(0)]
  /\ jobs = [n \in Requests |-> AbsentJob]
  /\ targets = [n \in Requests |-> TRUE]
  /\ revision = 0
  /\ horizon = 0
  /\ requestQueue = {}
  /\ reviewQueue = {}
  /\ reviewCache = [r \in Reviews |-> AbsentReview(0)]
  /\ reviewEvents = [r \in Reviews |-> {}]
  /\ budget = [p \in Pools |-> CASE p = "requests" -> MaxRequests
                                 [] p = "reviews" -> MaxReviews
                                 [] p = "disturbances" -> MaxDisturbances]
=============================================================================
