------------------------- MODULE LifecycleRefinement -------------------------
(***************************************************************************)
(* The operator implements JobRequestLifecycle: the stages are read off    *)
(* the stored JobRequests, the approvers and launches off the history.     *)
(***************************************************************************)
EXTENDS JobRequestOperatorProperties

StageOf(obj) ==
  IF ~Exists(obj) THEN "Absent"
  ELSE IF obj.state \in {"", "Pending"} THEN "Waiting"
  ELSE IF obj.state = "Started" THEN "Running"
  ELSE obj.state

ApproversOf(n) ==
  {d.by : d \in {e \in decisions : /\ e.request = n
                                   /\ e.uid = requests[n].uid
                                   /\ e.decision = "Approved"}}

Lifecycle == INSTANCE JobRequestLifecycle WITH
  Names <- Requests,
  People <- Users,
  Nobody <- NoUser,
  stage <- [n \in Requests |-> StageOf(requests[n])],
  requester <- [n \in Requests |-> requests[n].by],
  approvers <- [n \in Requests |-> ApproversOf(n)],
  launched <- [n \in Requests |-> launches[n] > 0],
  old <- {n \in Requests : Exists(requests[n]) /\ Expired(requests[n])}

\* The operator keeps the promise of JobRequestLifecycle: every step of the two
\* reconcilers, of people and of the cluster, in whatever order, moves a
\* JobRequest along its lifecycle or not at all.  (While calls succeed and
\* objects are not deleted by hand: a failed listing of the reviews, or their
\* deletion, sends a decided JobRequest back to wait.)
ImplementsLifecycle == Lifecycle!Spec
=============================================================================
