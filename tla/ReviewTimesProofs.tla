--------------------------- MODULE ReviewTimesProofs ---------------------------
(***************************************************************************)
(* Proof that an approval is timed once.  Each approved JobRequest that is *)
(* not timed yet is worth one sample more, and one approval.               *)
(***************************************************************************)
EXTENDS ReviewTimes, JobRequestOperatorCalmProofs, FiniteSetTheorems

-----------------------------------------------------------------------------
(* A JobRequest may be timed until there is a Job of its name that it keeps: its own,
   or one without an owner. *)

Approvals(D) == {e \in D : e.decision = "Approved"}
LivesOf(D) == {<<d.request, d.uid>> : d \in Approvals(D)}

KeepsJob(n, uid) == jobs[n].phase # "None" /\ jobs[n].owner \in {0, uid}

AwaitsSample(n, uid) ==
  /\ requests[n].uid = uid
  /\ ~KeepsJob(n, uid)
  /\ ~(reqPc = "create" /\ reqName = n)

LivesToTime == {life \in LivesOf(decisions) : AwaitsSample(life[1], life[2])}

\* A Job that turns up before the worker creates its own is kept.
CreateInv ==
  reqPc = "create" => jobs[reqName].phase = "None" \/ jobs[reqName].owner = 0

SamplesInv ==
  /\ IsFiniteSet(decisions)
  /\ timed \in [Decisions -> Nat]
  /\ timed["Approved"] + Cardinality(LivesToTime) <= Cardinality(LivesOf(decisions))

CalmState == /\ TypeInv /\ RequestInv /\ DatedInv /\ ApprovalInv /\ MemoryCurrent
             /\ CreateInv

-----------------------------------------------------------------------------
(* The worker between the lookup of the Job and its creation *)

LEMMA LookupFindsNone ==
  ASSUME TypeInv, Next, reqPc # "create", reqPc' = "create"
  PROVE  /\ reqPc = "getJob" /\ reqObj.state = "Approved"
         /\ jobs[reqName].phase = "None"
         /\ UNCHANGED <<reqName, reqObj, storeVars>>
<1>1. GetJobOfApproved
  <2>1. ASSUME NEW state, HandleRequestState(state)
        PROVE  reqPc' # "create"
    BY <2>1 DEF HandleRequestState, SetRequestState, FinishRequest, RequestGoto
  <2>2. ~(UpdateRequest \/ PruneRequest \/ ListTarget \/ ListReviews \/ RereadRequest)
    BY <2>1 DEF UpdateRequest, PruneRequest, FinishRequest, ListTarget, RequestGoto,
       SetRequestState, ListReviews, RereadRequest
  <2>3. ASSUME NEW n \in Requests
        PROVE  ~BeginRequest(n)
    BY DEF BeginRequest, reqVars
  <2>4. ~(GetJobOfStarted \/ CreateJob)
    BY DEF GetJobOfStarted, JobMissing, SetRequestState, CreateJob
  <2>5. RequestController
    BY DEF Next, RequestStep, ReviewStep, OutsideStep, Restart, workerVars, reqVars
  <2>6. QED
    BY <2>2, <2>3, <2>4, <2>5 DEF RequestController, RequestWorkerStep
<1>2. QED
  BY <1>1 DEF GetJobOfApproved, FinishRequest, JobPresent, SetRequestState, RequestGoto

\* A step of the running manager or of its surroundings
Running == \/ RequestStep(RequestController)
           \/ ReviewStep(ReviewController)
           \/ OutsideStep(PeopleStep \/ ClusterStep \/ WatchStep)

\* Unless the manager stops, the worker leaves a Job behind.
LEMMA CreateLeavesJob ==
  ASSUME "fault" \notin Disturbances, TypeInv, CreateInv, Running, reqPc = "create",
         reqPc' # "create", NEW n \in Requests, n = reqName, NEW uid, uid = reqObj.uid
  PROVE  KeepsJob(n, uid)'
<1>1. CreateJob
  BY DEF Running, RequestStep, ReviewStep, OutsideStep, workerVars, reqVars,
     RequestController, RequestWorkerStep, BeginRequest, PruneRequest, ListTarget,
     ListReviews, GetJobOfApproved, GetJobOfStarted, RereadRequest, UpdateRequest
<1>2. ~Faulty
  BY DEF Faulty, Disturb
<1>3. CASE jobs[n].phase = "None"
  <2>1. jobs' = [jobs EXCEPT ![n] = LaunchedJob]
    BY <1>1, <1>2, <1>3 DEF CreateJob, StoreJob
  <2>2. jobs'[n] = LaunchedJob
    BY <2>1 DEF TypeInv, ServerOK, ServerTypeOK
  <2>3. QED
    BY <2>2 DEF LaunchedJob, KeepsJob
<1>4. CASE jobs[n].phase # "None"
  <2>1. jobs' = jobs
    BY <1>1, <1>2, <1>4 DEF CreateJob
  <2>2. QED
    BY <1>4, <2>1 DEF CreateInv, KeepsJob
<1>5. QED
  BY <1>3, <1>4

LEMMA CreateInvStep ==
  TypeInv /\ CreateInv /\ [Next]_vars => CreateInv'
<1> SUFFICES ASSUME TypeInv, CreateInv, [Next]_vars
             PROVE  CreateInv'
  OBVIOUS
<1>1. CASE Next /\ reqPc # "create" /\ reqPc' = "create"
  BY <1>1, LookupFindsNone DEF CreateInv, storeVars
<1>2. CASE Next /\ reqPc = "create" /\ reqPc' = "create"
  <2>1. UNCHANGED reqVars
    BY <1>2, WorkerSteps
       DEF WorkerChange, WorkerTook, WorkerMoved, WorkerSet, WorkerReread
  <2>2. PICK n \in Requests : n = reqName /\ n = reqName'
    BY <1>2, <2>1 DEF TypeInv, RequestWorkerOK, reqVars
  <2>3. jobs[n].phase = "None" \/ jobs[n].owner = 0
    BY <1>2, <2>2 DEF CreateInv
  <2>4. jobs'[n].phase = "None" \/ jobs'[n].owner = 0
    BY <1>2, <2>3, JobChange
       DEF JobLaunched, JobOfOthers, JobForeign, JobFinished, JobGone
  <2>5. QED
    BY <2>2, <2>4 DEF CreateInv
<1>3. CASE UNCHANGED vars
  BY <1>3 DEF vars, serverVars, storeVars, workerVars, reqVars, CreateInv
<1>4. QED
  BY <1>1, <1>2, <1>3 DEF CreateInv

\* A JobRequest that awaits a sample has been awaiting it since its approval.
LEMMA AwaitedBefore ==
  ASSUME {"fault", "delJob"} \cap Disturbances = {}, CalmState, Running,
         NEW n \in Requests, NEW uid \in Nat, uid # 0, uid <= revision,
         AwaitsSample(n, uid)'
  PROVE  AwaitsSample(n, uid)
<1> USE DEF CalmState
<1>1. Next
  BY DEF Running, Next
<1>2. requests[n].uid = uid
  <2>1. AbsentRequest.uid = 0
    BY DEF AbsentRequest
  <2>2. revision \in Nat /\ uid # revision + 1
    BY DEF TypeInv, ServerOK, ServerTypeOK
  <2>3. requests'[n].uid = uid
    BY DEF AwaitsSample
  <2>4. QED
    BY <1>1, <2>1, <2>2, <2>3, RequestChange
       DEF RequestGone, RequestMade, RequestEdited, RequestUpdated, RequestDecided,
           Copies, Fresh
<1>3. ~KeepsJob(n, uid)
  BY <1>1, <1>2, JobChange
     DEF AwaitsSample, KeepsJob, JobLaunched, JobOfOthers, JobForeign, JobFinished,
         JobGone
<1>4. ~(reqPc = "create" /\ reqName = n)
  <2> SUFFICES ASSUME reqPc = "create", reqName = n
               PROVE  FALSE
    OBVIOUS
  <2>1. reqObj.uid = uid
    BY <1>2 DEF MemoryCurrent
  <2>2. CASE reqPc' = "create"
    <3>1. reqName' = reqName
      BY <1>1, <2>2, WorkerSteps
         DEF WorkerChange, WorkerTook, WorkerMoved, WorkerSet, WorkerReread, reqVars
    <3>2. QED
      BY <2>2, <3>1 DEF AwaitsSample
  <2>3. CASE reqPc' # "create"
    <3>1. KeepsJob(n, uid)'
      BY <2>1, <2>3, CreateLeavesJob
    <3>2. QED
      BY <3>1 DEF AwaitsSample
  <2>4. QED
    BY <2>2, <2>3
<1>5. QED
  BY <1>2, <1>3, <1>4 DEF AwaitsSample

-----------------------------------------------------------------------------
(* Counting *)

LEMMA LivesCounted ==
  ASSUME NEW D, IsFiniteSet(D)
  PROVE  /\ IsFiniteSet(LivesOf(D))
         /\ Cardinality(LivesOf(D)) \in Nat /\ Cardinality(Approvals(D)) \in Nat
         /\ Cardinality(LivesOf(D)) <= Cardinality(Approvals(D))
<1> DEFINE life == [d \in Approvals(D) |-> <<d.request, d.uid>>]
<1>1. IsFiniteSet(Approvals(D))
  BY FS_Subset DEF Approvals
<1>2. life \in Surjection(Approvals(D), LivesOf(D))
  BY DEF LivesOf, Surjection
<1>3. /\ IsFiniteSet(LivesOf(D))
      /\ Cardinality(LivesOf(D)) <= Cardinality(Approvals(D))
  BY <1>1, <1>2, FS_Surjection
<1>4. QED
  BY <1>1, <1>3, FS_CardinalityType

\* What a new approval adds to both sides
LEMMA CountGrows ==
  ASSUME NEW all, IsFiniteSet(all), NEW waiting \in SUBSET all, NEW x,
         NEW all2 \in {all, all \cup {x}},
         NEW waiting2 \in SUBSET (waiting \cup (all2 \ all)),
         NEW n \in Nat, n + Cardinality(waiting) <= Cardinality(all)
  PROVE  n + Cardinality(waiting2) <= Cardinality(all2)
<1>1. IsFiniteSet(waiting) /\ Cardinality(waiting) \in Nat /\ Cardinality(all) \in Nat
  BY FS_Subset, FS_CardinalityType
<1>2. CASE all2 = all
  <2>1. waiting2 \in SUBSET waiting
    BY <1>2
  <2>2. IsFiniteSet(waiting2) /\ Cardinality(waiting2) <= Cardinality(waiting)
    BY <1>1, <2>1, FS_Subset
  <2>3. Cardinality(waiting2) \in Nat
    BY <2>2, FS_CardinalityType
  <2>4. QED
    BY <1>1, <1>2, <2>2, <2>3
<1>3. CASE all2 = all \cup {x} /\ x \notin all
  <2>1. /\ Cardinality(all2) = Cardinality(all) + 1
        /\ IsFiniteSet(waiting \cup {x})
        /\ Cardinality(waiting \cup {x}) = Cardinality(waiting) + 1
    BY <1>1, <1>3, FS_AddElement
  <2>2. waiting2 \in SUBSET (waiting \cup {x})
    BY <1>3
  <2>3. IsFiniteSet(waiting2) /\ Cardinality(waiting2) <= Cardinality(waiting) + 1
    BY <2>1, <2>2, FS_Subset
  <2>4. Cardinality(waiting2) \in Nat
    BY <2>3, FS_CardinalityType
  <2>5. QED
    BY <1>1, <2>1, <2>3, <2>4
<1>4. QED
  BY <1>2, <1>3

\* A sample takes one from those that await it.
LEMMA CountMoves ==
  ASSUME NEW all, IsFiniteSet(all), NEW waiting \in SUBSET all, NEW x \in waiting,
         NEW waiting2 \in SUBSET (waiting \ {x}),
         NEW n \in Nat, n + Cardinality(waiting) <= Cardinality(all),
         NEW n2 \in {n, n + 1}
  PROVE  n2 + Cardinality(waiting2) <= Cardinality(all)
<1>1. IsFiniteSet(waiting) /\ Cardinality(waiting) \in Nat /\ Cardinality(all) \in Nat
  BY FS_Subset, FS_CardinalityType
<1>2. /\ IsFiniteSet(waiting \ {x})
      /\ Cardinality(waiting \ {x}) = Cardinality(waiting) - 1
  BY <1>1, FS_RemoveElement
<1>3. IsFiniteSet(waiting2) /\ Cardinality(waiting2) <= Cardinality(waiting) - 1
  BY <1>2, FS_Subset
<1>4. Cardinality(waiting2) \in Nat
  BY <1>3, FS_CardinalityType
<1>5. QED
  BY <1>1, <1>3, <1>4

\* The samples of approvals that a step takes
LEMMA SamplesTaken ==
  ASSUME SamplesInv, TimedNext
  PROVE  /\ timed' \in [Decisions -> Nat]
         /\ \/ Running /\ timed'["Approved"] = timed["Approved"]
            \/ Restart /\ timed'["Approved"] = 0
            \/ /\ RequestStep(RequestController) /\ TimesApproval
               /\ timed'["Approved"] = timed["Approved"] + 1
<1>1. "Approved" \in Decisions /\ timed \in [Decisions -> Nat]
  BY DEF Decisions, SamplesInv
<1>2. CASE RequestStep(RequestController) /\ TakeSamples
  <2>1. timed' \in [Decisions -> Nat]
    BY <1>1, <1>2, SamplesAssumption DEF TakeSamples, SamplesAssumption
  <2>2. timed'["Approved"] = IF TimesReview("Approved") /\ timed["Approved"] < MaxSamples
                             THEN timed["Approved"] + 1 ELSE timed["Approved"]
    BY <1>1, <1>2 DEF TakeSamples
  <2>3. TimesReview("Approved") => TimesApproval
    BY DEF TimesReview
  <2>4. QED
    BY <1>2, <2>1, <2>2, <2>3 DEF Running
<1>3. CASE Running /\ UNCHANGED timed
  BY <1>1, <1>3
<1>4. CASE Restart /\ timed' = NoSamples
  BY <1>1, <1>4 DEF NoSamples
<1>5. QED
  BY <1>2, <1>3, <1>4 DEF TimedNext, Running

LEMMA OneDecision ==
  ASSUME TypeInv, Next
  PROVE  \/ decisions' = decisions
         \/ \E n \in Requests : /\ revPc = "decide" /\ revPc' = "update"
                                /\ decisions' = decisions \cup {Decided(n)}
<1>1. CASE UNCHANGED requests
  BY <1>1, DecisionsOf
<1>2. CASE OneWritten
  <2>1. PICK m \in Requests : \A n \in Requests \ {m} : requests'[n] = requests[n]
    BY <1>2 DEF OneWritten, TypeInv, ServerOK, ServerTypeOK
  <2>2. {n \in Requests : revPc = "decide" /\ revPc' = "update"
                          /\ requests'[n] # requests[n]} \in {{}, {m}}
    BY <2>1
  <2>3. QED
    BY <2>1, <2>2, DecisionsOf
<1>3. QED
  BY <1>1, <1>2, OneChanges

\* Every approved JobRequest that awaits its sample after a step did before, or its
\* approval is new.
LEMMA AwaitingStep ==
  ASSUME {"fault", "delJob"} \cap Disturbances = {}, CalmState, Running
  PROVE  LivesToTime' \subseteq
           LivesToTime \cup (LivesOf(decisions') \ LivesOf(decisions))
<1> SUFFICES ASSUME NEW life \in LivesToTime', life \in LivesOf(decisions)
             PROVE  life \in LivesToTime
  BY DEF LivesToTime
<1>1. PICK d \in decisions : life = <<d.request, d.uid>>
  BY DEF LivesOf, Approvals
<1>2. /\ d.request \in Requests /\ d.uid \in Nat /\ d.uid # 0 /\ d.uid <= revision
      /\ life[1] = d.request /\ life[2] = d.uid
  BY <1>1 DEF CalmState, TypeInv, HistoryOK, DecisionRecords, DatedInv
<1>3. AwaitsSample(d.request, d.uid)'
  BY <1>2 DEF LivesToTime, AwaitsSample, KeepsJob
<1>4. AwaitsSample(d.request, d.uid)
  BY <1>2, <1>3, AwaitedBefore
<1>5. QED
  BY <1>2, <1>4 DEF LivesToTime

\* The JobRequest that is timed awaited it, and does no longer.
LEMMA TimedAwaited ==
  ASSUME CalmState, RequestStep(RequestController), TimesApproval
  PROVE  /\ decisions' = decisions
         /\ \E life \in LivesToTime : life \notin LivesToTime'
<1> USE DEF CalmState
<1>1. Next
  BY DEF Next
<1>2. decisions' = decisions
  BY <1>1, OneDecision DEF RequestStep, revVars
<1>3. /\ reqPc = "getJob" /\ reqObj.state = "Approved" /\ reqPc' = "create"
      /\ jobs[reqName].phase = "None" /\ reqName' = reqName
  BY <1>1, LookupFindsNone DEF TimesApproval
<1>4. reqName \in Requests /\ requests[reqName].uid = reqObj.uid
  BY <1>3 DEF TypeInv, RequestWorkerOK, MemoryCurrent
<1>5. <<reqName, reqObj.uid>> \in LivesOf(decisions)
  <2>1. ApprovedByAnother(reqName, reqObj.uid)
    BY <1>3 DEF ApprovalInv, MemoryApproved, Launchable
  <2>2. PICK d \in decisions : /\ d.request = reqName /\ d.uid = reqObj.uid
                               /\ d.decision = "Approved"
    BY <2>1 DEF ApprovedByAnother
  <2>3. QED
    BY <2>2 DEF LivesOf, Approvals
<1>6. PICK life : life = <<reqName, reqObj.uid>>
  OBVIOUS
<1>7. life \in LivesToTime
  BY <1>3, <1>4, <1>5, <1>6 DEF LivesToTime, AwaitsSample, KeepsJob
<1>8. life \notin LivesToTime'
  BY <1>3, <1>6 DEF LivesToTime, AwaitsSample
<1>9. QED
  BY <1>2, <1>7, <1>8

LEMMA SamplesStep ==
  ASSUME {"fault", "delJob"} \cap Disturbances = {}
  PROVE  CalmState /\ SamplesInv /\ [TimedNext]_timedVars => SamplesInv'
<1> SUFFICES ASSUME CalmState, SamplesInv, [TimedNext]_timedVars
             PROVE  SamplesInv'
  OBVIOUS
<1>1. TimedNext => Next /\ (Running \/ Restart)
  BY DEF TimedNext, Next, Running
<1>2. /\ LivesToTime \in SUBSET LivesOf(decisions)
      /\ LivesToTime' \in SUBSET LivesOf(decisions')
  BY DEF LivesToTime
<1>3. IsFiniteSet(LivesOf(decisions)) /\ timed["Approved"] \in Nat
  BY LivesCounted DEF SamplesInv, Decisions
<1>4. TimedNext => IsFiniteSet(decisions')
  BY <1>1, OneDecision, FS_AddElement DEF SamplesInv, CalmState
<1>5. CASE TimedNext /\ Running /\ timed'["Approved"] = timed["Approved"]
  <2>1. PICK life : LivesOf(decisions') \in {LivesOf(decisions),
                                             LivesOf(decisions) \cup {life}}
    <3>1. CASE decisions' = decisions
      BY <3>1
    <3>2. ASSUME NEW d, decisions' = decisions \cup {d}
          PROVE  LivesOf(decisions') \in
                   {LivesOf(decisions), LivesOf(decisions) \cup {<<d.request, d.uid>>}}
      <4>1. CASE d.decision = "Approved"
        BY <3>2, <4>1 DEF LivesOf, Approvals
      <4>2. CASE d.decision # "Approved"
        BY <3>2, <4>2 DEF LivesOf, Approvals
      <4>3. QED
        BY <4>1, <4>2
    <3>3. QED
      BY <1>1, <1>5, <3>1, <3>2, OneDecision DEF CalmState
  <2>2. LivesToTime' \in
          SUBSET (LivesToTime \cup (LivesOf(decisions') \ LivesOf(decisions)))
    BY <1>5, AwaitingStep
  <2>3. timed["Approved"] + Cardinality(LivesToTime) <= Cardinality(LivesOf(decisions))
    BY DEF SamplesInv
  <2>4. timed["Approved"] + Cardinality(LivesToTime') <= Cardinality(LivesOf(decisions'))
    BY <1>2, <1>3, <2>1, <2>2, <2>3, CountGrows
  <2>5. QED
    BY <1>4, <1>5, <2>4, SamplesTaken DEF SamplesInv
<1>6. CASE /\ TimedNext /\ RequestStep(RequestController) /\ TimesApproval
           /\ timed'["Approved"] = timed["Approved"] + 1
  <2>1. decisions' = decisions
    BY <1>6, TimedAwaited
  <2>2. PICK life \in LivesToTime : life \notin LivesToTime'
    BY <1>6, TimedAwaited
  <2>3. LivesToTime' \in SUBSET (LivesToTime \ {life})
    BY <1>6, <2>1, <2>2, AwaitingStep DEF Running
  <2>4. timed["Approved"] + Cardinality(LivesToTime) <= Cardinality(LivesOf(decisions))
    BY DEF SamplesInv
  <2>5. timed["Approved"] + 1 + Cardinality(LivesToTime')
          <= Cardinality(LivesOf(decisions))
    BY <1>2, <1>3, <2>3, <2>4, CountMoves
  <2>6. QED
    BY <1>4, <1>6, <2>1, <2>5, SamplesTaken DEF SamplesInv
<1>7. CASE TimedNext /\ timed'["Approved"] = 0
  <2>1. IsFiniteSet(LivesOf(decisions'))
    BY <1>4, <1>7, LivesCounted
  <2>2. /\ Cardinality(LivesToTime') <= Cardinality(LivesOf(decisions'))
        /\ Cardinality(LivesToTime') \in Nat
    BY <1>2, <2>1, FS_Subset, FS_CardinalityType
  <2>3. 0 + Cardinality(LivesToTime') <= Cardinality(LivesOf(decisions'))
    BY <2>2
  <2>4. QED
    BY <1>4, <1>7, <2>3, SamplesTaken DEF SamplesInv
<1>8. CASE UNCHANGED timedVars
  BY <1>8 DEF timedVars, vars, serverVars, storeVars, workerVars, reqVars, historyVars,
     SamplesInv, LivesToTime, AwaitsSample, KeepsJob
<1>9. QED
  BY <1>5, <1>6, <1>7, <1>8, SamplesTaken

-----------------------------------------------------------------------------
\* An approval is timed once, while no call fails and neither Jobs nor JobRequests are
\* deleted by hand: a sample that is taken again would need the Job of an Approved
\* JobRequest to be missing again.
THEOREM ApprovalIsTimedOnce ==
  ASSUME {"fault", "delJob", "delRequest"} \cap Disturbances = {}
  PROVE  TimedSpec => []ApprovalTimedOnce
<1>1. /\ {"fault", "delJob"} \cap Disturbances = {}
      /\ "delRequest" \notin Disturbances
  OBVIOUS
<1>2. Init /\ timed = NoSamples => CreateInv /\ SamplesInv
  <2> SUFFICES ASSUME Init, timed = NoSamples
               PROVE  CreateInv /\ SamplesInv
    OBVIOUS
  <2>1. decisions = {} /\ reqPc = "idle"
    BY DEF Init, RequestControllerInit
  <2>2. LivesOf(decisions) = {} /\ LivesToTime = {}
    BY <2>1 DEF LivesOf, Approvals, LivesToTime
  <2>3. timed \in [Decisions -> Nat] /\ timed["Approved"] = 0
    BY DEF NoSamples, Decisions
  <2>4. IsFiniteSet({}) /\ Cardinality({}) = 0 /\ 0 + 0 <= 0
    BY FS_EmptySet
  <2>5. QED
    BY <2>1, <2>2, <2>3, <2>4 DEF CreateInv, SamplesInv
<1>3. [TimedNext]_timedVars => [Next]_vars
  BY DEF TimedNext, Next, timedVars
<1>4. TypeInv /\ CreateInv /\ [Next]_vars => CreateInv'
  BY CreateInvStep
<1>5. CalmState /\ SamplesInv /\ [TimedNext]_timedVars => SamplesInv'
  BY <1>1, SamplesStep
<1>6. SamplesInv => ApprovalTimedOnce
  <2> SUFFICES ASSUME SamplesInv
               PROVE  ApprovalTimedOnce
    OBVIOUS
  <2>1. LivesToTime \in SUBSET LivesOf(decisions)
    BY DEF LivesToTime
  <2>2. /\ IsFiniteSet(LivesOf(decisions))
        /\ Cardinality(LivesOf(decisions)) \in Nat
        /\ Cardinality(Approvals(decisions)) \in Nat
        /\ Cardinality(LivesOf(decisions)) <= Cardinality(Approvals(decisions))
    BY LivesCounted DEF SamplesInv
  <2>3. Cardinality(LivesToTime) \in Nat
    BY <2>1, <2>2, FS_Subset, FS_CardinalityType
  <2>4. /\ timed["Approved"] \in Nat
        /\ timed["Approved"] + Cardinality(LivesToTime)
             <= Cardinality(LivesOf(decisions))
    BY DEF SamplesInv, Decisions
  <2>5. timed["Approved"] <= Cardinality(Approvals(decisions))
    BY <2>2, <2>3, <2>4
  <2>6. QED
    BY <2>5 DEF ApprovalTimedOnce, TimedOnce, Approvals
<1>7. Spec => [](TypeInv /\ RequestInv /\ ApprovalInv /\ MemoryCurrent)
  BY <1>1, SafeMemory
<1>8. CalmState <=> /\ TypeInv /\ RequestInv /\ DatedInv /\ ApprovalInv
                    /\ MemoryCurrent /\ CreateInv
  BY DEF CalmState
<1>9. QED
  BY <1>2, <1>3, <1>4, <1>5, <1>6, <1>7, <1>8, SafeDecisions, PTL
     DEF TimedSpec, Spec
=============================================================================
