---------------------- MODULE JobRequestOperatorProperties ----------------------
(***************************************************************************)
(* What the operator must never do, and what it must eventually do.  Each  *)
(* property says which disturbances it tolerates; the runs set them.       *)
(***************************************************************************)
EXTENDS JobRequestOperator

-----------------------------------------------------------------------------
(* Types *)

\* Every variable keeps its type: what a controller holds in memory and what
\* the API server stores are objects the CRD schemas admit.
TypeOK ==
  /\ ServerTypeOK
  /\ RequestControllerTypeOK
  /\ ReviewControllerTypeOK
  /\ decisions \in SUBSET DecisionRecords
  /\ launches \in [Requests -> Nat]

-----------------------------------------------------------------------------
(* Safety under every disturbance *)

\* JobRequest n, in its life since revision uid, was approved by a user other
\* than the one who requested it.
ApprovedByAnother(n, uid) ==
  \E d \in decisions :
    /\ d.request = n /\ d.uid = uid
    /\ d.decision = "Approved"
    /\ {d.by, d.requester} \subseteq Users
    /\ d.by # d.requester

\* A Job the operator created belongs to a JobRequest that another user
\* approved, whatever is edited, deleted, recreated, delayed or lost between
\* the review, the decision and the creation of the Job.
JobNeedsApproval ==
  \A n \in Requests :
    jobs[n].owner # 0 => ApprovedByAnother(n, jobs[n].owner)

\* A JobRequest that is Complete, Failed, Malformed or Conflicted stays so until
\* it is deleted: no reconcile that read it earlier, and no review, writes it
\* again.
TerminalIsFinal ==
  [][\A n \in Requests :
       /\ requests[n].state \in {"Complete", "Failed", "Malformed", "Conflicted"}
       /\ requests'[n].uid = requests[n].uid
       => requests'[n].state = requests[n].state]_vars

\* A review that has taken a state keeps it until it is deleted, however
\* stale the cached copy is that the reconciler works from.
ReviewStateIsFinal ==
  [][\A r \in Reviews :
       /\ reviews[r].state # ""
       /\ reviews'[r].uid = reviews[r].uid
       => reviews'[r].state = reviews[r].state]_vars

-----------------------------------------------------------------------------
(* Safety while calls succeed and reviews are not deleted by hand *)

\* A decision stands.  Once a review has settled a JobRequest within its TTL,
\* the request neither goes back to Pending nor changes the review it names: a
\* second review, a restart, or the pruning of old reviews does not reopen it.
\* (The controller takes a settled request whose reviews are all gone for one
\* that waits for a review, so this needs every review that settled a request
\* to be younger than the request, and no review to be pruned before its time.)
DecisionStands ==
  [][\A n \in Requests :
       /\ requests[n].reviewName # NoReview
       /\ requests'[n].uid = requests[n].uid
       /\ ~Expired(requests[n])
       => /\ requests'[n].reviewName = requests[n].reviewName
          /\ requests'[n].state # "Pending"]_vars

\* A review that says Approved or Rejected did so to the JobRequest it names,
\* unless that is gone: the API server accepted that decision, from this very
\* review object.  (Reviews that are given to another JobRequest are another
\* matter: what they say is of the one they were for.)
ReviewTellsTruth ==
  \A r \in Reviews :
    reviews[r].state \in Decisions /\ Exists(requests[reviews[r].for]) =>
      \E d \in decisions :
        /\ d.request = reviews[r].for
        /\ d.review = r /\ d.reviewUid = reviews[r].uid
        /\ d.decision = reviews[r].state

\* One JobRequest launches at most one Job.
JobLaunchedOnce == \A n \in Requests : launches[n] <= 1

\* A JobRequest becomes Complete or Failed only when its own Job has.
OutcomeIsOfOwnJob ==
  [][\A n \in Requests :
       /\ requests'[n].state \in {"Complete", "Failed"}
       /\ requests'[n].state # requests[n].state
       => /\ jobs[n].phase = requests'[n].state
          /\ jobs[n].owner = requests[n].uid]_vars

\* JobRequest.HasBeenReviewed, HasBeenRejected and HasBeenApproved
HasBeenReviewed(obj) == obj.state \notin {"", "Pending", "Malformed"}
HasBeenRejected(obj) == obj.state = "Rejected"
HasBeenApproved(obj) == HasBeenReviewed(obj) /\ ~HasBeenRejected(obj)

\* A JobRequest that HasBeenApproved was: some review approved this very object.
ApprovedMeansReviewed ==
  \A n \in Requests :
    HasBeenApproved(requests[n]) => ApprovedByAnother(n, requests[n].uid)

\* A JobRequest in Conflicted ran into a Job that is not its own.
ConflictIsWithAnother ==
  \A n \in Requests :
    requests[n].state = "Conflicted" => jobs[n].owner # requests[n].uid

\* The controllers delete no object that is younger than the TTL: what they
\* delete by name is the old object they read, not its new namesake.
YoungIsNotPruned ==
  [][/\ \A n \in Requests :
          reqPc = "prune" /\ reqPc' = "idle" /\ requests'[n] # requests[n]
            => Expired(requests[n])
     /\ \A r \in Reviews :
          revPc = "prune" /\ revPc' = "idle" /\ reviews'[r] # reviews[r]
            => Expired(reviews[r])]_vars

\* People let a name rest: they use it again only when the controllers have done
\* with the object that had it, and know that it is gone.  (Nobody promises that;
\* it is what the controllers' deletes by name take for granted.)
NamesRest ==
  [][/\ \A n \in Requests :
          ~Exists(requests[n]) /\ Exists(requests'[n]) => reqName # n
     /\ \A r \in Reviews :
          ~Exists(reviews[r]) /\ Exists(reviews'[r])
            => /\ revName # r
               /\ \A version \in {reviewCache[r]} \cup reviewEvents[r] : ~Exists(version)
    ]_vars

-----------------------------------------------------------------------------
(* Liveness *)

\* A JobRequest gets a state.
RequestGetsState ==
  \A n \in Requests :
    Exists(requests[n]) /\ requests[n].state = ""
      ~> ~Exists(requests[n]) \/ requests[n].state # ""

\* An approval is acted on: the JobRequest does not stay Approved.
ApprovalIsActedOn ==
  \A n \in Requests : requests[n].state = "Approved" ~> requests[n].state # "Approved"

\* An object past the TTL is deleted in the end, although no event tells the
\* controllers that its time has come.
ExpiredIsPruned ==
  /\ \A n \in Requests :
       Exists(requests[n]) /\ Expired(requests[n])
         ~> ~Exists(requests[n]) \/ ~Expired(requests[n])
  /\ \A r \in Reviews :
       Exists(reviews[r]) /\ Expired(reviews[r])
         ~> ~Exists(reviews[r]) \/ ~Expired(reviews[r])

\* A review gets its answer once its JobRequest has a state, even when it was
\* looked at too early.
ReviewGetsAnswer ==
  \A r \in Reviews, n \in Requests :
    /\ Exists(reviews[r]) /\ reviews[r].state = "" /\ reviews[r].for = n
    /\ requests[n].state # ""
    ~> \/ ~Exists(reviews[r]) \/ reviews[r].state # ""
       \/ requests[n].state = ""

\* The end of a Job reaches its JobRequest by events alone, whenever in the
\* reconcile that started the Job it comes.
OutcomeIsReported ==
  \A n \in Requests :
    /\ requests[n].state = "Started"
    /\ jobs[n].owner = requests[n].uid
    /\ jobs[n].phase \in {"Complete", "Failed"}
    ~> requests[n].state # "Started"

=============================================================================
