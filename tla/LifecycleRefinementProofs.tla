----------------------- MODULE LifecycleRefinementProofs -----------------------
(***************************************************************************)
(* Proof that the operator implements JobRequestLifecycle, step by step:   *)
(* each write of a JobRequest, each creation of a Job and each passing of  *)
(* the TTL is a step of the lifecycle, and every other step a stutter.     *)
(***************************************************************************)
EXTENDS LifecycleRefinement, JobRequestOperatorDecisionProofs

-----------------------------------------------------------------------------
(* What the mapping needs beside the invariants that are proved elsewhere. *)

\* Nothing is older or younger than the store: uids and the TTL are of its revisions.
AgesInv ==
  /\ horizon <= revision
  /\ \A r \in Reviews : reviews[r].uid <= revision

\* A JobRequest that a review has moved on names a review.
SettledNamed ==
  \A n \in Requests :
    requests[n].state \in {"Approved", "Rejected", "Started"} =>
      requests[n].reviewName # NoReview

MappedInv == StandsInv /\ OutcomeInv /\ AgesInv /\ SettledNamed

LEMMA AgesStep ==
  ASSUME "delReview" \notin Disturbances, "retarget" \notin Disturbances
  PROVE  MappedInv /\ [Next /\ NoneYoungPruned]_vars => AgesInv'
<1> SUFFICES ASSUME MappedInv, [Next /\ NoneYoungPruned]_vars
             PROVE  AgesInv'
  OBVIOUS
<1> USE DEF MappedInv, StandsInv
<1>1. CASE Next /\ NoneYoungPruned
  <2>1. /\ revision \in Nat /\ horizon \in Nat /\ horizon <= revision
        /\ revision' \in {revision, revision + 1}
    BY <1>1, RevisionGrows DEF TypeInv, ServerOK, ServerTypeOK, AgesInv
  <2>2. /\ \A n \in Requests : requests[n].uid \in Nat /\ requests[n].uid <= revision
        /\ \A r \in Reviews : reviews[r].uid \in Nat /\ reviews[r].uid <= revision
    BY DEF TypeInv, ServerOK, ServerTypeOK, RequestObjects, ReviewObjects, DatedInv,
       AgesInv
  <2>3. horizon' <= revision'
    <3>1. CASE horizon' = horizon
      BY <2>1, <3>1
    <3>2. CASE /\ horizon' \in {requests[n].uid : n \in Requests}
                                 \cup {reviews[r].uid : r \in Reviews}
               /\ revision' = revision
      BY <2>2, <3>2
    <3>3. QED
      BY <1>1, <3>1, <3>2, TimeAndTargets
  <2>4. ASSUME NEW r \in Reviews
        PROVE  reviews'[r].uid <= revision'
    <3>1. CASE reviews'[r].uid \in {reviews[r].uid, 0}
      BY <2>1, <2>2, <3>1
    <3>2. CASE reviews'[r].uid = revision + 1 /\ revision' = revision + 1
      BY <2>1, <3>2
    <3>3. QED
      BY <1>1, <3>1, <3>2, WhatBecomesOfReview
         DEF KnowledgeInv, ReviewLasts, ReviewPruned, ReviewNew
  <2>5. QED
    BY <2>3, <2>4 DEF AgesInv
<1>2. CASE UNCHANGED vars
  BY <1>2 DEF vars, serverVars, storeVars, AgesInv
<1>3. QED
  BY <1>1, <1>2

LEMMA SettledNamedStep ==
  MappedInv /\ [Next]_vars => SettledNamed'
<1> SUFFICES ASSUME MappedInv, [Next]_vars
             PROVE  SettledNamed'
  OBVIOUS
<1> USE DEF MappedInv, StandsInv, OutcomeInv
<1>1. ASSUME Next, NEW n \in Requests,
             requests'[n].state \in {"Approved", "Rejected", "Started"}
      PROVE  requests'[n].reviewName # NoReview
  <2>1. ~RequestGone(n) /\ ~RequestMade(n)
    <3>1. AbsentRequest.state = ""
      BY DEF AbsentRequest
    <3>2. QED
      BY <1>1, <3>1 DEF RequestGone, RequestMade
  <2>2. CASE RequestUpdated(n)
    <3>1. /\ reqPc = "update" /\ n = reqName /\ Fresh(requests[n], reqObj)
          /\ reqObj.state \in {"Approved", "Rejected", "Started"}
          /\ requests'[n].reviewName = reqObj.reviewName
      BY <1>1, <2>2 DEF RequestUpdated, Copies
    <3>2. reqObj.state = "Started" /\ requests[n].state = "Approved"
      BY <3>1 DEF MemoryCurrent
    <3>3. reqObj.reviewName = requests[n].reviewName
      BY <3>1, <3>2 DEF MemoryVersion
    <3>4. QED
      BY <3>1, <3>2, <3>3 DEF SettledNamed
  <2>3. CASE RequestDecided(n)
    <3>1. revPc = "decide" /\ requests'[n].reviewName = revReq.reviewName
      BY <2>3 DEF RequestDecided, Copies
    <3>2. revReq.reviewName = revName /\ revName \in Reviews
      BY <3>1 DEF KnowledgeInv, ReviewHeld, TypeInv, ReviewWorkerOK
    <3>3. QED
      BY <3>1, <3>2, NamesAssumption DEF NamesAssumption
  <2>4. QED
    BY <1>1, <2>1, <2>2, <2>3, RequestChange DEF RequestEdited, SettledNamed
<1>2. CASE Next
  BY <1>1, <1>2 DEF SettledNamed
<1>3. CASE UNCHANGED vars
  BY <1>3 DEF vars, serverVars, storeVars, SettledNamed
<1>4. QED
  BY <1>2, <1>3

LEMMA SafeMapped ==
  ASSUME {"fault", "delReview", "retarget", "delRequest", "delJob"} \cap Disturbances = {}
  PROVE  Spec /\ [][NoneYoungPruned]_vars => []MappedInv
<1>1. /\ "delReview" \notin Disturbances /\ "retarget" \notin Disturbances
      /\ "delRequest" \notin Disturbances /\ "delJob" \notin Disturbances
      /\ {"fault", "delReview", "retarget"} \cap Disturbances = {}
  OBVIOUS
<1>2. Init => AgesInv /\ SettledNamed
  <2>1. AbsentReview(0).uid = 0 /\ AbsentRequest.state = ""
    BY DEF AbsentReview, AbsentRequest
  <2>2. Init => /\ horizon = 0 /\ revision = 0
                /\ \A r \in Reviews : reviews[r].uid = 0
                /\ \A n \in Requests : requests[n].state = ""
    BY <2>1 DEF Init, ServerInit
  <2>3. 0 <= 0
    OBVIOUS
  <2>4. QED
    BY <2>2, <2>3 DEF AgesInv, SettledNamed
<1>3. MappedInv /\ [Next /\ NoneYoungPruned]_vars => AgesInv'
  BY <1>1, AgesStep
<1>4. MappedInv /\ [Next]_vars => SettledNamed'
  BY SettledNamedStep
<1>5. Spec => []OutcomeInv
  BY <1>1, SafeOutcome
<1>6. Spec /\ [][NoneYoungPruned]_vars => []StandsInv
  BY <1>1, SafeStands
<1>7. [Next]_vars /\ [NoneYoungPruned]_vars => [Next /\ NoneYoungPruned]_vars
  OBVIOUS
<1>8. MappedInv <=> StandsInv /\ OutcomeInv /\ AgesInv /\ SettledNamed
  BY DEF MappedInv
<1>9. QED
  BY <1>2, <1>3, <1>4, <1>5, <1>6, <1>7, <1>8, PTL DEF Spec

-----------------------------------------------------------------------------
(* One JobRequest at a time *)

\* Creating a Job writes no JobRequest, and takes no other step.
LEMMA LaunchAlone ==
  ASSUME TypeInv, Next, NEW n \in Requests, JobLaunched(n)
  PROVE  UNCHANGED <<requests, decisions, horizon>>
<1>1. reqPc = "create" /\ reqPc' = "update"
  BY DEF JobLaunched
<1>2. UNCHANGED requests
  BY <1>1, WorkerSteps
     DEF WorkerChange, WorkerTook, WorkerMoved, WorkerSet, WorkerReread, reqVars
<1>3. UNCHANGED horizon
  BY <1>1, TimeAndTargets DEF workerVars, reqVars
<1>4. UNCHANGED decisions
  BY <1>2, DecisionsOf
<1>5. QED
  BY <1>2, <1>3, <1>4

\* A write of one JobRequest leaves the others as they are: their approvals, their
\* launches and their age too.
LEMMA OthersKept ==
  ASSUME MappedInv, Next, NEW m \in Requests, requests'[m] # requests[m],
         NEW n \in Requests \ {m}
  PROVE  /\ requests'[n] = requests[n]
         /\ ApproversOf(n)' = ApproversOf(n)
         /\ launches'[n] = launches[n]
         /\ UNCHANGED horizon
<1> USE DEF MappedInv, OutcomeInv
<1>1. requests'[n] = requests[n]
  BY OneChanges DEF OneWritten, TypeInv, ServerOK, ServerTypeOK
<1>2. \A d \in decisions' : d.request = n => d \in decisions
  BY <1>1, DecisionsOf DEF Decided
<1>3. decisions \subseteq decisions'
  BY DecisionsGrow
<1>4. ApproversOf(n)' = ApproversOf(n)
  BY <1>1, <1>2, <1>3 DEF ApproversOf
<1>5. launches'[n] = launches[n]
  BY <1>1, LaunchChange, LaunchAlone
<1>6. UNCHANGED horizon
  BY TimeAndTargets
<1>7. QED
  BY <1>1, <1>4, <1>5, <1>6

-----------------------------------------------------------------------------
(* The refinement mapping, and the steps of the lifecycle in its terms. *)

Stage == [n \in Requests |-> StageOf(requests[n])]
Requester == [n \in Requests |-> requests[n].by]
Approvers == [n \in Requests |-> ApproversOf(n)]
Launched == [n \in Requests |-> launches[n] > 0]
Old == {n \in Requests : Exists(requests[n]) /\ Expired(requests[n])}

mappedVars == <<Stage, Requester, Approvers, Launched, Old>>

LifecycleStep == [Lifecycle!Next]_mappedVars

\* What the lifecycle knows of name m
Becomes(m, stage, requester, approvers, launched) ==
  /\ Stage' = [Stage EXCEPT ![m] = stage]
  /\ Requester' = [Requester EXCEPT ![m] = requester]
  /\ Approvers' = [Approvers EXCEPT ![m] = approvers]
  /\ Launched' = [Launched EXCEPT ![m] = launched]

LEMMA WriteMapped ==
  ASSUME MappedInv, Next, NEW m \in Requests, requests'[m] # requests[m]
  PROVE  /\ Becomes(m, StageOf(requests'[m]), requests'[m].by, ApproversOf(m)',
                    launches'[m] > 0)
         /\ \A n \in Requests \ {m} : n \in Old' <=> n \in Old
<1>1. \A n \in Requests \ {m} :
        /\ requests'[n] = requests[n]
        /\ ApproversOf(n)' = ApproversOf(n)
        /\ launches'[n] = launches[n]
        /\ UNCHANGED horizon
  BY OthersKept
<1>2. Stage' = [Stage EXCEPT ![m] = StageOf(requests'[m])]
  BY <1>1 DEF Stage, StageOf, Exists
<1>3. Requester' = [Requester EXCEPT ![m] = requests'[m].by]
  BY <1>1 DEF Requester
<1>4. Approvers' = [Approvers EXCEPT ![m] = ApproversOf(m)']
  BY <1>1 DEF Approvers
<1>5. Launched' = [Launched EXCEPT ![m] = (launches'[m] > 0)]
  BY <1>1 DEF Launched
<1>6. \A n \in Requests \ {m} : n \in Old' <=> n \in Old
  BY <1>1 DEF Old, Exists, Expired
<1>7. QED
  BY <1>2, <1>3, <1>4, <1>5, <1>6 DEF Becomes

\* A write within the life of a JobRequest changes neither its age nor, unless it is
\* the one that accepts a decision, its approvers.
LEMMA SameLifeMapped ==
  ASSUME MappedInv, Next, NEW m \in Requests, requests'[m] # requests[m],
         requests'[m].uid = requests[m].uid
  PROVE  /\ Old' = Old
         /\ Becomes(m, StageOf(requests'[m]), requests'[m].by, ApproversOf(m)',
                    Launched[m])
         /\ ~RequestDecided(m) => ApproversOf(m)' = Approvers[m]
<1>1. UNCHANGED horizon
  BY TimeAndTargets
<1>2. Old' = Old
  <2>1. m \in Old' <=> m \in Old
    BY <1>1 DEF Old, Exists, Expired
  <2>2. QED
    BY <2>1, WriteMapped DEF Old
<1>3. launches'[m] = launches[m]
  BY LaunchChange, LaunchAlone DEF MappedInv, OutcomeInv
<1>4. ~RequestDecided(m) => ApproversOf(m)' = Approvers[m]
  <2>1. ~RequestDecided(m) => decisions' = decisions
    BY DecisionsOf, DecideWrites, OneChanges DEF MappedInv, OutcomeInv, OneWritten
  <2>2. QED
    BY <2>1 DEF ApproversOf, Approvers
<1>5. (launches'[m] > 0) = Launched[m]
  BY <1>3 DEF Launched
<1>6. Becomes(m, StageOf(requests'[m]), requests'[m].by, ApproversOf(m)', launches'[m] > 0)
  BY WriteMapped
<1>7. Becomes(m, StageOf(requests'[m]), requests'[m].by, ApproversOf(m)', Launched[m])
  BY <1>5, <1>6
<1>8. QED
  BY <1>2, <1>4, <1>7

LEMMA SameValues ==
  ASSUME NEW m \in Requests
  PROVE  /\ [Stage EXCEPT ![m] = Stage[m]] = Stage
         /\ [Requester EXCEPT ![m] = Requester[m]] = Requester
         /\ [Approvers EXCEPT ![m] = Approvers[m]] = Approvers
         /\ [Launched EXCEPT ![m] = Launched[m]] = Launched
BY DEF Stage, Requester, Approvers, Launched

LEMMA StageKinds ==
  ASSUME TypeInv, NEW m \in Requests
  PROVE  /\ Stage[m] = StageOf(requests[m])
         /\ Requester[m] = requests[m].by
         /\ Requester[m] \in Users \cup {NoUser}
         /\ Stage[m] \in Lifecycle!Stages
         /\ Stage[m] = "Absent" <=> ~Exists(requests[m])
<1>1. requests[m].state \in RequestStates /\ requests[m].by \in Users \cup {NoUser}
  BY DEF TypeInv, ServerOK, ServerTypeOK, RequestObjects, Identities
<1>2. QED
  BY <1>1 DEF Stage, Requester, StageOf, RequestStates, Lifecycle!Stages, Lifecycle!Ends

LEMMA DecisionsSame ==
  ASSUME MappedInv, Next, NEW m \in Requests, requests'[m] # requests[m],
         ~RequestDecided(m)
  PROVE  decisions' = decisions
BY DecisionsOf, DecideWrites, OneChanges DEF MappedInv, OutcomeInv, OneWritten

LEMMA GoneMapped ==
  ASSUME "delRequest" \notin Disturbances, MappedInv, DatedInv', Next, NEW m \in Requests,
         requests'[m] # requests[m], RequestGone(m)
  PROVE  Lifecycle!Delete(m)
<1>1. Exists(requests[m])
  BY DEF RequestGone, MappedInv, OutcomeInv, MemoryCurrent, RequestInv, RequestMemory,
     Exists
<1>2. requests'[m].uid = 0 /\ requests'[m].by = NoUser
  <2>1. AbsentRequest.uid = 0 /\ AbsentRequest.by = NoUser
    BY DEF AbsentRequest
  <2>2. QED
    BY <2>1 DEF RequestGone
<1>3. StageOf(requests'[m]) = "Absent"
  BY <1>2 DEF StageOf, Exists
<1>4. ApproversOf(m)' = {}
  BY <1>2 DEF ApproversOf, DatedInv
<1>5. (launches'[m] > 0) = FALSE
  <2>1. launches'[m] = 0
    BY <1>1, <1>2, LaunchChange DEF Exists, MappedInv, OutcomeInv
  <2>2. QED
    BY <2>1
<1>6. Becomes(m, "Absent", NoUser, {}, FALSE)
  <2>1. Becomes(m, StageOf(requests'[m]), requests'[m].by, ApproversOf(m)',
                launches'[m] > 0)
    BY WriteMapped
  <2>2. QED
    BY <1>2, <1>3, <1>4, <1>5, <2>1
<1>7. Old' = Old \ {m}
  <2>1. m \notin Old'
    BY <1>2 DEF Old, Exists
  <2>2. QED
    BY <2>1, WriteMapped DEF Old
<1>8. Stage[m] \in Lifecycle!Stages \ {"Absent"}
  BY <1>1, StageKinds DEF MappedInv, OutcomeInv
<1>9. QED
  BY <1>6, <1>7, <1>8
     DEF Becomes, Lifecycle!Delete, Lifecycle!Pass, Stage, Requester, Approvers, Launched,
         Old

LEMMA MadeMapped ==
  ASSUME MappedInv, Next, NEW m \in Requests,
         requests'[m] # requests[m], RequestMade(m)
  PROVE  Lifecycle!Submit(m, requests'[m].by)
<1> DEFINE user == requests'[m].by
<1> revision \in Nat /\ horizon \in Nat
  BY DEF MappedInv, OutcomeInv, TypeInv, ServerOK, ServerTypeOK
<1>1. /\ requests[m].uid = 0 /\ requests'[m].uid = revision + 1
      /\ requests'[m].state = "" /\ requests'[m].uid # 0
  <2>1. revision + 1 # 0
    OBVIOUS
  <2>2. QED
    BY <2>1 DEF RequestMade, Exists
<1>2. StageOf(requests'[m]) = "Waiting" /\ Stage[m] = "Absent"
  BY <1>1 DEF StageOf, Exists, Stage
<1>3. ApproversOf(m)' = Approvers[m]
  <2>1. ~RequestDecided(m)
    BY <1>1 DEF RequestDecided, Fresh, MappedInv, OutcomeInv, RequestInv, ReviewMemory,
       Exists
  <2>2. decisions' = decisions
    BY <2>1, DecisionsSame
  <2>3. \A d \in decisions : d.uid # 0 /\ d.uid # revision + 1
    <3>1. \A d \in decisions : d.uid \in Nat /\ d.uid # 0 /\ d.uid <= revision
      BY DEF MappedInv, StandsInv, DatedInv, OutcomeInv, TypeInv, HistoryOK,
         DecisionRecords
    <3>2. QED
      BY <3>1
  <2>4. QED
    BY <1>1, <2>2, <2>3 DEF ApproversOf, Approvers
<1>4. (launches'[m] > 0) = Launched[m]
  <2>1. launches'[m] = 0
    BY <1>1, LaunchChange DEF MappedInv, OutcomeInv
  <2>2. ~(launches[m] > 0)
    BY <1>1 DEF MappedInv, OutcomeInv, LaunchInv, OwnJob, Exists
  <2>3. QED
    BY <2>1, <2>2 DEF Launched
<1>5. Becomes(m, "Waiting", user, Approvers[m], Launched[m])
  <2>1. Becomes(m, StageOf(requests'[m]), requests'[m].by, ApproversOf(m)',
                launches'[m] > 0)
    BY WriteMapped
  <2>2. QED
    BY <1>2, <1>3, <1>4, <2>1
<1>6. Old' = Old
  <2>1. horizon' = horizon /\ horizon <= revision
    BY TimeAndTargets DEF MappedInv, AgesInv
  <2>2. ~(revision + 1 <= horizon)
    BY <2>1
  <2>3. m \notin Old' /\ m \notin Old
    BY <1>1, <2>1, <2>2 DEF Old, Exists, Expired
  <2>4. QED
    BY <2>3, WriteMapped DEF Old
<1> HIDE DEF user
<1>7. /\ Stage' = [Stage EXCEPT ![m] = "Waiting"]
      /\ Requester' = [Requester EXCEPT ![m] = user]
      /\ UNCHANGED <<Approvers, Launched, Old>>
  BY <1>5, <1>6, SameValues DEF Becomes
<1>8. QED
  BY <1>2, <1>7
     DEF Lifecycle!Submit, Lifecycle!Pass, Stage, Requester, Approvers, Launched, Old,
         user

LEMMA EditedMapped ==
  ASSUME MappedInv, Next, NEW m \in Requests,
         requests'[m] # requests[m], RequestEdited(m)
  PROVE  Lifecycle!Relabel(m, requests'[m].by)
<1> DEFINE user == requests'[m].by
<1>1. /\ Exists(requests[m]) /\ requests'[m].uid = requests[m].uid
      /\ requests'[m].state = requests[m].state
  BY DEF RequestEdited
<1>2. StageOf(requests'[m]) = Stage[m] /\ Stage[m] # "Absent"
  BY <1>1, StageKinds DEF StageOf, Exists, MappedInv, OutcomeInv
<1>3. ~RequestDecided(m)
  BY <1>1 DEF RequestDecided, RequestEdited, Copies, MappedInv, OutcomeInv, RequestInv,
     ReviewMemory, TypeInv, ReviewWorkerOK, ReviewControllerTypeOK, ReviewObjects,
     Decisions
<1>4. ApproversOf(m)' = Approvers[m]
  BY <1>1, <1>3, SameLifeMapped
<1>5. Old' = Old /\ Becomes(m, StageOf(requests'[m]), user, ApproversOf(m)', Launched[m])
  BY <1>1, SameLifeMapped
<1>6. Becomes(m, Stage[m], user, Approvers[m], Launched[m])
  BY <1>2, <1>4, <1>5
<1> HIDE DEF user
<1>7. /\ Requester' = [Requester EXCEPT ![m] = user]
      /\ UNCHANGED <<Stage, Approvers, Launched, Old>>
  BY <1>5, <1>6, SameValues DEF Becomes
<1>8. QED
  BY <1>2, <1>7
     DEF Lifecycle!Relabel, Stage, Requester, Approvers, Launched, Old, user

\* A write by the JobRequest worker moves the stage, or nothing of the lifecycle.
LEMMA StageMoves ==
  ASSUME MappedInv, Next, NEW m \in Requests,
         requests'[m] # requests[m], RequestUpdated(m)
  PROVE  /\ Stage' = [Stage EXCEPT ![m] = StageOf(reqObj)]
         /\ UNCHANGED <<Requester, Approvers, Launched, Old>>
<1>1. /\ reqPc = "update" /\ m = reqName /\ Fresh(requests[m], reqObj)
      /\ requests'[m].uid = requests[m].uid
      /\ requests'[m].uid = reqObj.uid /\ requests'[m].state = reqObj.state
      /\ requests'[m].by = reqObj.by
  BY DEF RequestUpdated, Copies, Fresh
<1>2. StageOf(requests'[m]) = StageOf(reqObj)
  BY <1>1 DEF StageOf, Exists
<1>3. requests'[m].by = Requester[m]
  BY <1>1 DEF Requester, MappedInv, StandsInv, MemoryVersion
<1>4. reqPc' = "idle"
  BY DEF RequestUpdated
<1>5. ~RequestDecided(m)
  BY <1>1, <1>4, DecideWrites DEF RequestDecided, MappedInv, OutcomeInv, reqVars
<1>6. ApproversOf(m)' = Approvers[m]
  BY <1>1, <1>5, SameLifeMapped
<1>7. /\ Old' = Old
      /\ Becomes(m, StageOf(requests'[m]), requests'[m].by, ApproversOf(m)', Launched[m])
  BY <1>1, SameLifeMapped
<1>8. Becomes(m, StageOf(reqObj), Requester[m], Approvers[m], Launched[m])
  BY <1>2, <1>3, <1>6, <1>7
<1>9. QED
  BY <1>7, <1>8, SameValues DEF Becomes

LEMMA UpdatedMapped ==
  ASSUME MappedInv, Next, NEW m \in Requests,
         requests'[m] # requests[m], RequestUpdated(m)
  PROVE  LifecycleStep
<1> USE DEF MappedInv, OutcomeInv
<1>1. /\ reqPc = "update" /\ m = reqName /\ Fresh(requests[m], reqObj)
      /\ Exists(reqObj) /\ Exists(requests[m]) /\ ~Terminal(requests[m].state)
  BY DEF RequestUpdated, RequestInv, RequestMemory, Fresh, Exists
<1>2. /\ reqObj.state \in RequestStates \ {"", "Approved", "Rejected"}
      /\ requests[m].state \in RequestStates
  BY <1>1 DEF MemoryCurrent, TypeInv, RequestWorkerOK, RequestControllerTypeOK,
     RequestObjects, ServerOK, ServerTypeOK
<1>3. /\ Stage' = [Stage EXCEPT ![m] = StageOf(reqObj)]
      /\ UNCHANGED <<Requester, Approvers, Launched, Old>>
  BY StageMoves
<1>4. Stage[m] = StageOf(requests[m])
  BY StageKinds
<1>5. CASE reqObj.state = "Pending" /\ requests[m].state \in {"", "Pending"}
  <2>1. StageOf(reqObj) = Stage[m]
    BY <1>1, <1>4, <1>5 DEF StageOf
  <2>2. UNCHANGED mappedVars
    BY <1>3, <2>1, SameValues DEF mappedVars
  <2>3. QED
    BY <2>2 DEF LifecycleStep
<1>6. CASE /\ reqObj.state = "Pending"
           /\ requests[m].state \in {"Approved", "Rejected", "Started"}
  <2>1. requests[m].reviewName # NoReview
    BY <1>6 DEF SettledNamed
  <2>2. Expired(requests[m])
    BY <1>1, <1>6, <2>1 DEF StandsInv, SettledInv
  <2>3. m \in Old
    BY <1>1, <2>2 DEF Old
  <2>4. StageOf(reqObj) = "Waiting" /\ Stage[m] \in {"Approved", "Rejected", "Running"}
    BY <1>1, <1>4, <1>6 DEF StageOf
  <2>5. Lifecycle!Reopen(m)
    BY <1>3, <2>3, <2>4
       DEF Lifecycle!Reopen, Lifecycle!Pass, Stage, Requester, Approvers, Launched, Old
  <2>6. QED
    BY <2>5 DEF LifecycleStep, Lifecycle!Next
<1>7. CASE reqObj.state = "Malformed"
  <2>1. /\ StageOf(reqObj) = "Malformed"
        /\ Stage[m] \in {"Waiting", "Approved", "Rejected", "Running"}
    BY <1>1, <1>2, <1>4, <1>7 DEF StageOf, RequestStates, Terminal
  <2>2. Lifecycle!Refuse(m)
    BY <1>3, <2>1
       DEF Lifecycle!Refuse, Lifecycle!Pass, Stage, Requester, Approvers, Launched, Old
  <2>3. QED
    BY <2>2 DEF LifecycleStep, Lifecycle!Next
<1>8. CASE reqObj.state = "Conflicted"
  <2>1. StageOf(reqObj) = "Conflicted" /\ Stage[m] = "Approved"
    BY <1>1, <1>4, <1>8 DEF StageOf, MemoryCurrent
  <2>2. Lifecycle!Refuse(m)
    BY <1>3, <2>1
       DEF Lifecycle!Refuse, Lifecycle!Pass, Stage, Requester, Approvers, Launched, Old
  <2>3. QED
    BY <2>2 DEF LifecycleStep, Lifecycle!Next
<1>9. CASE reqObj.state = "Started"
  <2>1. StageOf(reqObj) = "Running" /\ Stage[m] = "Approved"
    BY <1>1, <1>4, <1>9 DEF StageOf, MemoryCurrent
  <2>2. Launched[m]
    BY <1>1, <1>9 DEF LaunchedInv, Launched
  <2>3. Lifecycle!Start(m)
    BY <1>3, <2>1, <2>2
       DEF Lifecycle!Start, Lifecycle!Pass, Stage, Requester, Approvers, Launched, Old
  <2>4. QED
    BY <2>3 DEF LifecycleStep, Lifecycle!Next
<1>10. CASE reqObj.state \in {"Complete", "Failed"}
  <2>1. StageOf(reqObj) = reqObj.state /\ Stage[m] = "Running"
    BY <1>1, <1>4, <1>10 DEF StageOf, MemoryCurrent
  <2>2. Lifecycle!Finish(m, reqObj.state)
    BY <1>3, <2>1
       DEF Lifecycle!Finish, Lifecycle!Pass, Stage, Requester, Approvers, Launched, Old
  <2>3. QED
    BY <1>10, <2>2 DEF LifecycleStep, Lifecycle!Next
<1>11. QED
  BY <1>1, <1>2, <1>5, <1>6, <1>7, <1>8, <1>9, <1>10 DEF RequestStates, Terminal

LEMMA DecidedMapped ==
  ASSUME MappedInv, Next, NEW m \in Requests,
         requests'[m] # requests[m], RequestDecided(m)
  PROVE  LifecycleStep
<1> USE DEF MappedInv, OutcomeInv
<1>1. /\ revPc = "decide" /\ revPc' = "update" /\ m = revObj.for
      /\ Fresh(requests[m], revReq)
      /\ requests'[m].uid = requests[m].uid /\ requests'[m].uid = revReq.uid
      /\ requests'[m].by = revReq.by /\ requests'[m].state = revReq.state
  BY DEF RequestDecided, Copies, Fresh
<1>2. /\ revObj.by \in Users /\ revReq.by \in Users /\ revReq.by # revObj.by
      /\ revReq.state = revObj.decision /\ Exists(revReq)
      /\ requests[m].by = revReq.by /\ requests[m].state = "Pending"
  BY <1>1 DEF RequestInv, ReviewMemory
<1>3. revObj.decision \in {"Approved", "Rejected"}
  BY DEF TypeInv, ReviewWorkerOK, ReviewControllerTypeOK, ReviewObjects, Decisions
<1>4. /\ StageOf(requests'[m]) = revObj.decision
      /\ Stage[m] = "Waiting"
      /\ Requester[m] = requests[m].by /\ requests'[m].by = Requester[m]
  BY <1>1, <1>2, <1>3 DEF StageOf, Exists, Stage, Requester
<1>5. /\ Old' = Old
      /\ Becomes(m, StageOf(requests'[m]), requests'[m].by, ApproversOf(m)', Launched[m])
  BY <1>1, SameLifeMapped
<1>6. decisions' = decisions \cup {Decided(m)}
  BY <1>1, DecisionsOf, OneChanges DEF OneWritten, TypeInv, ServerOK, ServerTypeOK
<1>7. /\ Decided(m).request = m /\ Decided(m).uid = requests[m].uid
      /\ Decided(m).decision = revObj.decision /\ Decided(m).by = revObj.by
  BY DEF Decided
<1>8. Becomes(m, revObj.decision, Requester[m], ApproversOf(m)', Launched[m])
  BY <1>4, <1>5
<1>9. /\ Stage' = [Stage EXCEPT ![m] = revObj.decision]
      /\ Approvers' = [Approvers EXCEPT ![m] = ApproversOf(m)']
      /\ UNCHANGED <<Requester, Launched, Old>>
  BY <1>5, <1>8, SameValues DEF Becomes
<1>10. CASE revObj.decision = "Approved"
  <2>1. ApproversOf(m)' = Approvers[m] \cup {revObj.by}
    <3>1. Approvers[m] = ApproversOf(m)
      BY DEF Approvers
    <3>2. PICK new : new = Decided(m)
      OBVIOUS
    <3>3. /\ decisions' = decisions \cup {new}
          /\ new.request = m /\ new.uid = requests'[m].uid
          /\ new.decision = "Approved" /\ new.by = revObj.by
      BY <1>1, <1>6, <1>7, <1>10, <3>2
    <3>4. ASSUME NEW user
          PROVE  user \in ApproversOf(m)' <=> user \in ApproversOf(m) \/ user = revObj.by
      BY <1>1, <3>3 DEF ApproversOf
    <3>5. QED
      BY <3>1, <3>4
  <2>2. Approvers' = [Approvers EXCEPT ![m] = Approvers[m] \cup {revObj.by}]
    BY <1>9, <2>1
  <2>3. Lifecycle!Approve(m, revObj.by)
    BY <1>2, <1>4, <1>9, <1>10, <2>2
       DEF Lifecycle!Approve, Lifecycle!MayDecide, Lifecycle!Pass, Stage, Requester,
           Approvers, Launched, Old
  <2>4. QED
    BY <1>2, <2>3 DEF LifecycleStep, Lifecycle!Next
<1>11. CASE revObj.decision = "Rejected"
  <2>1. ApproversOf(m)' = Approvers[m]
    BY <1>1, <1>6, <1>7, <1>11 DEF ApproversOf, Approvers
  <2>2. Approvers' = Approvers
    BY <1>9, <2>1, SameValues
  <2>3. Lifecycle!Reject(m, revObj.by)
    BY <1>2, <1>4, <1>9, <1>11, <2>2
       DEF Lifecycle!Reject, Lifecycle!MayDecide, Lifecycle!Pass, Stage, Requester,
           Approvers, Launched, Old
  <2>4. QED
    BY <1>2, <2>3 DEF LifecycleStep, Lifecycle!Next
<1>12. QED
  BY <1>3, <1>10, <1>11

LEMMA LaunchMapped ==
  ASSUME MappedInv, Next, UNCHANGED requests, NEW m \in Requests,
         launches'[m] # launches[m]
  PROVE  Lifecycle!Launch(m)
<1> USE DEF MappedInv, OutcomeInv
<1>1. /\ JobLaunched(m) /\ reqObj.uid = requests[m].uid
      /\ launches'[m] = launches[m] + 1
  BY LaunchChange
<1>2. UNCHANGED <<decisions, horizon>>
  BY <1>1, LaunchAlone
<1>3. ~(launches[m] > 0) /\ launches'[m] > 0
  <2>1. jobs[m].phase = "None" /\ launches[m] \in Nat
    BY <1>1 DEF JobLaunched, TypeInv, HistoryOK
  <2>2. ~(launches[m] > 0)
    BY <2>1 DEF LaunchInv, OwnJob
  <2>3. QED
    BY <1>1, <2>1, <2>2
<1>4. \A n \in Requests \ {m} : launches'[n] = launches[n]
  BY <1>1, LaunchChange DEF JobLaunched
<1>5. Exists(requests[m]) /\ requests[m].state = "Approved"
  BY <1>1 DEF JobLaunched, MemoryCurrent, RequestInv, RequestMemory, Exists
<1>6. Stage[m] = "Approved"
  BY <1>5 DEF Stage, StageOf
<1>7. UNCHANGED <<Stage, Requester, Approvers, Old>>
  BY <1>2 DEF Stage, Requester, Approvers, Old, StageOf, ApproversOf, Exists, Expired
<1>8. ~Launched[m] /\ Launched' = [Launched EXCEPT ![m] = TRUE]
  <2>1. (launches'[m] > 0) = TRUE
    BY <1>3
  <2>2. ~Launched[m]
    BY <1>3 DEF Launched
  <2>3. Launched' = [Launched EXCEPT ![m] = TRUE]
    <3>1. \A n \in Requests \ {m} : (launches'[n] > 0) = (launches[n] > 0)
      BY <1>4
    <3>2. QED
      BY <2>1, <3>1 DEF Launched
  <2>4. QED
    BY <2>2, <2>3
<1>9. QED
  BY <1>6, <1>7, <1>8
     DEF Lifecycle!Launch, Stage, Requester, Approvers, Launched, Old

\* A step that writes no JobRequest creates a Job, lets the TTL pass, or is of no
\* concern to the lifecycle.
LEMMA UnwrittenMapped ==
  ASSUME MappedInv, Next, UNCHANGED requests
  PROVE  LifecycleStep
<1> USE DEF MappedInv, OutcomeInv
<1>1. CASE \E m \in Requests : launches'[m] # launches[m]
  <2>1. PICK m \in Requests : launches'[m] # launches[m]
    BY <1>1
  <2>2. Lifecycle!Launch(m)
    BY <2>1, LaunchMapped
  <2>3. QED
    BY <2>2 DEF LifecycleStep, Lifecycle!Next
<1>2. CASE \A m \in Requests : launches'[m] = launches[m]
  <2>1. decisions' = decisions
    BY DecisionsOf
  <2>2. UNCHANGED <<Stage, Requester, Approvers, Launched>>
    BY <1>2, <2>1 DEF Stage, Requester, Approvers, Launched, StageOf, ApproversOf, Exists
  <2>3. CASE horizon' = horizon
    <3>1. UNCHANGED Old
      BY <2>3 DEF Old, Exists, Expired
    <3>2. QED
      BY <2>2, <3>1 DEF LifecycleStep, mappedVars
  <2>4. CASE horizon' # horizon
    <3>1. Old \subseteq Old'
      <4>1. \A n \in Requests : requests[n].uid \in Nat
        BY DEF TypeInv, ServerOK, ServerTypeOK, RequestObjects
      <4>2. QED
        BY <4>1, HorizonGrows DEF Old, Exists, Expired
    <3>2. Old' \in SUBSET {n \in Requests : Stage[n] # "Absent"}
      BY StageKinds DEF Old, Exists
    <3>3. Lifecycle!Age
      BY <2>2, <3>1, <3>2
         DEF Lifecycle!Age, Stage, Requester, Approvers, Launched, Old
    <3>4. QED
      BY <3>3 DEF LifecycleStep, Lifecycle!Next
  <2>5. QED
    BY <2>3, <2>4
<1>3. QED
  BY <1>1, <1>2

LEMMA InitMapped == Init => Lifecycle!Init
<1> SUFFICES ASSUME Init
             PROVE  Lifecycle!Init
  OBVIOUS
<1>1. AbsentRequest.uid = 0 /\ AbsentRequest.by = NoUser
  BY DEF AbsentRequest
<1>2. /\ \A n \in Requests : /\ requests[n].uid = 0 /\ requests[n].by = NoUser
                             /\ launches[n] = 0
      /\ decisions = {}
  BY <1>1 DEF Init, ServerInit
<1>3. \A n \in Requests : ~Exists(requests[n]) /\ ApproversOf(n) = {}
  BY <1>2 DEF Exists, ApproversOf
<1>4. \A n \in Requests : (launches[n] > 0) = FALSE
  <2>1. (0 > 0) = FALSE
    OBVIOUS
  <2>2. QED
    BY <1>2, <2>1
<1>5. QED
  BY <1>2, <1>3, <1>4 DEF Lifecycle!Init, StageOf

LEMMA StepMapped ==
  ASSUME "delRequest" \notin Disturbances
  PROVE  MappedInv /\ DatedInv' /\ [Next]_vars => LifecycleStep
<1> SUFFICES ASSUME MappedInv, DatedInv', [Next]_vars
             PROVE  LifecycleStep
  OBVIOUS
<1>1. CASE Next /\ requests' = requests
  BY <1>1, UnwrittenMapped
<1>2. CASE Next /\ requests' # requests
  <2>1. PICK m \in Requests : requests'[m] # requests[m]
    BY <1>2, OneChanges DEF OneWritten, MappedInv, OutcomeInv, TypeInv, ServerOK,
       ServerTypeOK
  <2>2. CASE RequestGone(m)
    <3>1. Lifecycle!Delete(m)
      BY <1>2, <2>1, <2>2, GoneMapped
    <3>2. QED
      BY <3>1 DEF LifecycleStep, Lifecycle!Next
  <2>3. PICK user \in Users \cup {NoUser} : user = requests'[m].by
    BY <1>2, TypeStep DEF MappedInv, OutcomeInv, TypeInv, ServerOK, ServerTypeOK,
       RequestObjects, Identities
  <2>4. CASE RequestMade(m)
    <3>1. Lifecycle!Submit(m, user)
      BY <1>2, <2>1, <2>3, <2>4, MadeMapped DEF Lifecycle!Submit
    <3>2. QED
      BY <2>3, <3>1 DEF LifecycleStep, Lifecycle!Next
  <2>5. CASE RequestEdited(m)
    <3>1. Lifecycle!Relabel(m, user)
      BY <1>2, <2>1, <2>3, <2>5, EditedMapped DEF Lifecycle!Relabel
    <3>2. QED
      BY <2>3, <3>1 DEF LifecycleStep, Lifecycle!Next
  <2>6. CASE RequestUpdated(m)
    BY <1>2, <2>1, <2>6, UpdatedMapped
  <2>7. CASE RequestDecided(m)
    BY <1>2, <2>1, <2>7, DecidedMapped
  <2>8. QED
    BY <1>2, <2>1, <2>2, <2>4, <2>5, <2>6, <2>7, RequestChange DEF MappedInv, OutcomeInv
<1>3. CASE UNCHANGED vars
  <2>1. UNCHANGED <<requests, decisions, launches, horizon>>
    BY <1>3 DEF vars, serverVars, storeVars, historyVars
  <2>2. UNCHANGED mappedVars
    BY <2>1 DEF mappedVars, Stage, Requester, Approvers, Launched, Old, StageOf,
       ApproversOf, Exists, Expired
  <2>3. QED
    BY <2>2 DEF LifecycleStep
<1>4. QED
  BY <1>1, <1>2, <1>3

-----------------------------------------------------------------------------
\* The operator implements JobRequestLifecycle: while listing the reviews succeeds,
\* no object is deleted by hand and none is pruned before its time, every step of the
\* two reconcilers, of people, of the cluster and of the manager moves one JobRequest
\* along its lifecycle, or none.
THEOREM OperatorImplementsLifecycle ==
  ASSUME {"fault", "delReview", "retarget", "delRequest", "delJob"} \cap Disturbances = {}
  PROVE  Spec /\ YoungIsNotPruned => ImplementsLifecycle
<1>1. "delRequest" \notin Disturbances
  OBVIOUS
<1>2. Init => Lifecycle!Init
  BY InitMapped
<1>3. Spec /\ [][NoneYoungPruned]_vars => []MappedInv
  BY SafeMapped
<1>4. MappedInv /\ MappedInv' /\ [Next]_vars
        => [Lifecycle!Next]_(Lifecycle!lifecycleVars)
  BY <1>1, StepMapped
     DEF MappedInv, StandsInv, LifecycleStep, mappedVars, Lifecycle!lifecycleVars, Stage, Requester,
         Approvers, Launched, Old
<1>5. YoungIsNotPruned <=> [][NoneYoungPruned]_vars
  BY PTL DEF YoungIsNotPruned, NoneYoungPruned
<1>6. QED
  BY <1>2, <1>3, <1>4, <1>5, PTL DEF Spec, ImplementsLifecycle, Lifecycle!Spec

\* So it does, with no hypothesis on pruning, while no object passes the TTL.
THEOREM ImplementsLifecycleInTime ==
  ASSUME {"fault", "delReview", "retarget", "delRequest", "delJob", "age"}
           \cap Disturbances = {}
  PROVE  Spec => ImplementsLifecycle
<1>1. /\ "age" \notin Disturbances
      /\ {"fault", "delReview", "retarget", "delRequest", "delJob"} \cap Disturbances = {}
  OBVIOUS
<1>2. Spec /\ YoungIsNotPruned => ImplementsLifecycle
  BY <1>1, OperatorImplementsLifecycle
<1>3. Spec => YoungIsNotPruned
  BY <1>1, NothingPrunedInTime
<1>4. QED
  BY <1>2, <1>3, PTL

\* So it does when the TTL passes, while names are left to rest.
THEOREM ImplementsLifecycleWhileNamesRest ==
  ASSUME {"fault", "delReview", "retarget", "delRequest", "delJob"} \cap Disturbances = {}
  PROVE  Spec /\ NamesRest => ImplementsLifecycle
<1>1. Spec /\ YoungIsNotPruned => ImplementsLifecycle
  BY OperatorImplementsLifecycle
<1>2. QED
  BY <1>1, YoungAreKept, PTL
=============================================================================
