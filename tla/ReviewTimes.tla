----------------------------- MODULE ReviewTimes -----------------------------
(***************************************************************************)
(* The histogram of the time from a JobRequest to its review, added to the *)
(* operator: how many samples the running manager has taken, by decision.  *)
(* The samples live in the process, so a restart clears them.              *)
(***************************************************************************)
EXTENDS JobRequestOperatorProperties, FiniteSets

CONSTANT MaxSamples  \* samples are counted up to this number

ASSUME SamplesAssumption == MaxSamples \in Nat

VARIABLE timed  \* the samples of TimeTilReview, by decision

timedVars == <<vars, timed>>

NoSamples == [d \in Decisions |-> 0]

\* Mutant: the time is taken in every reconcile that looks for the Job.
TimesApprovalAtLookup == reqPc = "listReviews" /\ reqPc' = "getJob"
\* handleState takes the time of an approval when it finds no Job and goes on to
\* create one, and that of a rejection whenever it finds the request Rejected.
TimesApproval ==
  reqPc = "getJob" /\ reqObj.state = "Approved" /\ reqPc' = "create"
TimesRejection ==
  reqPc = "listReviews" /\ reqObj.state = "Rejected" /\ reqPc' = "idle"

TimesReview(d) ==
  \/ d = "Approved" /\ TimesApproval
  \/ d = "Rejected" /\ TimesRejection

TakeSamples ==
  timed' = [d \in Decisions |->
              IF TimesReview(d) /\ timed[d] < MaxSamples THEN timed[d] + 1 ELSE timed[d]]

TimedNext ==
  \/ RequestStep(RequestController) /\ TakeSamples
  \/ /\ \/ ReviewStep(ReviewController)
        \/ OutsideStep(PeopleStep \/ ClusterStep \/ WatchStep)
     /\ UNCHANGED timed
  \/ Restart /\ RecordHistory /\ timed' = NoSamples

TimedSpec == Init /\ timed = NoSamples /\ [][TimedNext]_timedVars

-----------------------------------------------------------------------------
TimedOnce(d) == timed[d] <= Cardinality({e \in decisions : e.decision = d})

\* An approval is timed once: a reconcile that sees the JobRequest still
\* Approved, because its update to Started was lost, finds the Job and takes no
\* second sample.  (Unless the Job, or with it its JobRequest, is deleted by hand, or
\* its creation fails.)
ApprovalTimedOnce == TimedOnce("Approved")

\* Every sample is the time of one review.
ReviewTimedOnce == \A d \in Decisions : TimedOnce(d)
=============================================================================
