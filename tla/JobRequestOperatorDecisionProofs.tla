------------------- MODULE JobRequestOperatorDecisionProofs -------------------
(***************************************************************************)
(* Proof that a decision stands: a JobRequest that a review has settled    *)
(* within its TTL neither goes back to Pending nor changes the review it   *)
(* names.  It rests on the reviews that the workers know of being there,   *)
(* and so on none being deleted by hand or pruned before its time.         *)
(***************************************************************************)
EXTENDS JobRequestOperatorCalmProofs

-----------------------------------------------------------------------------
(* A decision stands.  What the review worker knows of a review is so while no review
   is deleted by hand and none is pruned before its time. *)

\* The step of YoungIsNotPruned
NoneYoungPruned ==
  /\ \A n \in Requests :
       reqPc = "prune" /\ reqPc' = "idle" /\ requests'[n] # requests[n]
         => Expired(requests[n])
  /\ \A r \in Reviews :
       revPc = "prune" /\ revPc' = "idle" /\ reviews'[r] # reviews[r]
         => Expired(reviews[r])

KnownReview(r, version) ==
  Exists(version) /\ ~Expired(version) =>
    version.uid = reviews[r].uid /\ version.for = reviews[r].for

ReviewHeld ==
  revPc # "idle" =>
    /\ Exists(revObj)
    /\ revPc # "prune" =>
         revObj.uid = reviews[revName].uid /\ revObj.for = reviews[revName].for
    /\ revPc = "decide" => revReq.reviewName = revName

KnowledgeInv ==
  /\ \A r \in Reviews : /\ KnownReview(r, reviewCache[r])
                        /\ \A version \in reviewEvents[r] : KnownReview(r, version)
  /\ ReviewHeld

\* What may become of a stored review: it stays for the same JobRequest, or it is
\* past the TTL and goes, or it is new.
ReviewLasts(r) == /\ reviews'[r].uid = reviews[r].uid
                  /\ reviews'[r].for = reviews[r].for
ReviewPruned(r) == /\ Exists(reviews[r]) /\ Expired(reviews[r]) /\ revPc = "prune"
                   /\ reviews'[r].uid = 0
ReviewNew(r) == /\ ~Exists(reviews[r])
                /\ reviews'[r].uid = revision + 1 /\ revision' = revision + 1

LEMMA WhatBecomesOfReview ==
  ASSUME "delReview" \notin Disturbances, "retarget" \notin Disturbances,
         TypeInv, ReviewHeld, Next, NoneYoungPruned, NEW r \in Reviews
  PROVE  ReviewLasts(r) \/ ReviewPruned(r) \/ ReviewNew(r)
<1>1. CASE SomeReviewStored
  <2>1. PICK m \in Reviews, stored \in ReviewObjects : ReviewStored(m, stored)
    BY <1>1 DEF SomeReviewStored
  <2>2. reviews'[r] = IF r = m THEN stored ELSE reviews[r]
    BY <2>1 DEF ReviewStored, TypeInv, ServerOK, ServerTypeOK
  <2>3. CASE r = m
    <3>1. reviews'[r] = stored /\ revision' = revision + 1
      BY <2>1, <2>2, <2>3 DEF ReviewStored
    <3>2. CASE ReviewMade(r, stored)
      BY <3>1, <3>2 DEF ReviewMade, ReviewNew
    <3>3. CASE ReviewGone(r, stored)
      <4>1. Exists(reviews[r]) /\ reviews'[r].uid = 0
        BY <3>1, <3>3 DEF ReviewGone, Exists
      <4>2. reviews'[r] # reviews[r]
        BY <4>1 DEF Exists
      <4>3. revPc = "prune" /\ Expired(reviews[r])
        BY <3>3, <4>2 DEF ReviewGone, NoneYoungPruned
      <4>4. QED
        BY <4>1, <4>3 DEF ReviewPruned
    <3>4. CASE ReviewEdited(r, stored)
      BY <3>1, <3>4 DEF ReviewEdited, ReviewLasts
    <3>5. CASE ReviewUpdated(r, stored)
      BY <3>1, <3>5 DEF ReviewUpdated, ReviewHeld, ReviewLasts
    <3>6. QED
      BY <2>1, <2>3, <3>2, <3>3, <3>4, <3>5 DEF ReviewStored, ReviewWritten
  <2>4. QED
    BY <2>2, <2>3 DEF ReviewLasts
<1>2. QED
  BY <1>1, ReviewChange DEF ReviewsMoved, ReviewsKept, ReviewLasts

LEMMA ReviewHeldStep ==
  ASSUME "delReview" \notin Disturbances, "retarget" \notin Disturbances,
         TypeInv, KnowledgeInv, Next, NoneYoungPruned
  PROVE  ReviewHeld'
<1>1. CASE revPc' = "idle"
  BY <1>1 DEF ReviewHeld
<1>2. CASE ReviewerTook
  <2>1. /\ revName' \in Reviews /\ Exists(reviewCache[revName'])
        /\ KnownReview(revName', reviewCache[revName'])
    BY <1>2 DEF ReviewerTook, KnowledgeInv
  <2>2. /\ revObj'.uid = reviewCache[revName'].uid
        /\ revObj'.for = reviewCache[revName'].for
        /\ revPc' \in {"prune", "listRequest", "update"}
        /\ revPc' # "prune" => ~Expired(reviewCache[revName'])
        /\ reviews' = reviews
    BY <1>2 DEF ReviewerTook, HoldsReview, Expired
  <2>3. QED
    BY <2>1, <2>2 DEF KnownReview, ReviewHeld, Exists
<1>3. CASE ReviewerChose \/ ReviewerAnswered \/ ReviewerDecided
  BY <1>3 DEF ReviewerChose, ReviewerAnswered, ReviewerDecided, HoldsReview, KnowledgeInv,
     ReviewHeld, Exists
<1>4. CASE UNCHANGED revVars /\ revPc \notin {"idle", "prune"}
  <2>1. revName \in Reviews
    BY <1>4 DEF TypeInv, ReviewWorkerOK
  <2>2. Exists(reviews[revName])
    BY <1>4 DEF KnowledgeInv, ReviewHeld, Exists
  <2>3. ReviewLasts(revName)
    BY <1>4, <2>1, <2>2, WhatBecomesOfReview
       DEF KnowledgeInv, ReviewPruned, ReviewNew
  <2>4. QED
    BY <1>4, <2>3 DEF KnowledgeInv, ReviewHeld, ReviewLasts, revVars, Exists
<1>5. CASE UNCHANGED revVars /\ revPc = "prune"
  BY <1>5 DEF KnowledgeInv, ReviewHeld, revVars, Exists
<1>6. QED
  BY <1>1, <1>2, <1>3, <1>4, <1>5, ReviewerSteps DEF ReviewerChange, revVars

LEMMA KnownReviewStep ==
  ASSUME "delReview" \notin Disturbances, "retarget" \notin Disturbances,
         TypeInv, KnowledgeInv, Next, NoneYoungPruned, NEW r \in Reviews,
         NEW version \in ReviewObjects, KnownReview(r, version),
         Exists(version), ~(version.uid <= horizon')
  PROVE  /\ version.uid = reviews'[r].uid
         /\ version.for = reviews'[r].for
<1>1. version.uid \in Nat
  BY DEF ReviewObjects
<1>2. ~Expired(version)
  BY <1>1, HorizonGrows DEF Expired
<1>3. version.uid = reviews[r].uid /\ version.for = reviews[r].for
  BY <1>2 DEF KnownReview
<1>4. ReviewLasts(r)
  BY <1>2, <1>3, WhatBecomesOfReview
     DEF KnowledgeInv, ReviewPruned, ReviewNew, Expired, Exists
<1>5. QED
  BY <1>3, <1>4 DEF ReviewLasts

LEMMA KnowledgeStep ==
  ASSUME "delReview" \notin Disturbances, "retarget" \notin Disturbances
  PROVE  TypeInv /\ KnowledgeInv /\ [Next /\ NoneYoungPruned]_vars => KnowledgeInv'
<1> SUFFICES ASSUME TypeInv, KnowledgeInv, [Next /\ NoneYoungPruned]_vars
             PROVE  KnowledgeInv'
  OBVIOUS
<1>1. ASSUME Next, NoneYoungPruned, NEW r \in Reviews,
             NEW version \in {reviewCache'[r]} \cup reviewEvents'[r],
             Exists(version), ~(version.uid <= horizon')
      PROVE  version.uid = reviews'[r].uid /\ version.for = reviews'[r].for
  <2>1. /\ reviewCache[r] \in ReviewObjects
        /\ reviewEvents[r] \in SUBSET ReviewObjects
        /\ reviews[r] \in ReviewObjects
    BY DEF TypeInv, ServerOK, ServerTypeOK
  <2>2. /\ KnownReview(r, reviewCache[r]) /\ KnownReview(r, reviews[r])
        /\ \A v \in reviewEvents[r] : KnownReview(r, v)
    BY DEF KnowledgeInv, KnownReview
  <2>3. \/ version = reviews'[r]
        \/ version \in {reviewCache[r], reviews[r]} \cup reviewEvents[r]
    <3>1. CASE SomeReviewStored
      <4>1. PICK m \in Reviews, stored \in ReviewObjects : ReviewStored(m, stored)
        BY <3>1 DEF SomeReviewStored
      <4>2. /\ reviewCache' = reviewCache
            /\ reviews' = [reviews EXCEPT ![m] = stored]
            /\ reviewEvents' = [reviewEvents EXCEPT ![m] = @ \cup {stored}]
        BY <4>1 DEF ReviewStored
      <4>3. QED
        BY <1>1, <4>2 DEF TypeInv, ServerOK, ServerTypeOK
    <3>2. CASE ReviewsMoved
      <4>1. /\ reviewCache'[r] \in {reviewCache[r], reviews[r]} \cup reviewEvents[r]
            /\ reviewEvents'[r] \subseteq reviewEvents[r]
        BY <3>2 DEF ReviewsMoved
      <4>2. QED
        BY <1>1, <4>1
    <3>3. CASE ReviewsKept
      BY <1>1, <3>3 DEF ReviewsKept
    <3>4. QED
      BY <1>1, <3>1, <3>2, <3>3, ReviewChange
  <2>4. CASE version \in {reviewCache[r], reviews[r]} \cup reviewEvents[r]
    BY <1>1, <2>1, <2>2, <2>4, KnownReviewStep
  <2>5. QED
    BY <2>3, <2>4
<1>2. CASE Next /\ NoneYoungPruned
  <2>1. ReviewHeld'
    BY <1>2, ReviewHeldStep
  <2>2. QED
    BY <1>1, <1>2, <2>1 DEF KnowledgeInv, KnownReview, Exists, Expired
<1>3. CASE UNCHANGED vars
  BY <1>3 DEF vars, serverVars, storeVars, watchVars, workerVars, revVars, KnowledgeInv,
     KnownReview, ReviewHeld, Exists, Expired
<1>4. QED
  BY <1>2, <1>3

\* The reviews of JobRequest n are younger than uid.
ReviewsSince(n, uid) == \A r \in ReviewsOf(n) : reviews[r].uid > uid

\* The JobRequest names the review that settled it, which is younger and still there.
SettledBy(n) ==
  /\ requests[n].state # "Pending"
  /\ \E r \in ReviewsOf(n) : /\ r = requests[n].reviewName
                             /\ reviews[r].uid > requests[n].uid

SettledInv ==
  /\ \A n \in Requests :
       ~Expired(requests[n]) /\ ~Terminal(requests[n].state) =>
         /\ requests[n].reviewName # NoReview => SettledBy(n)
         /\ requests[n].state = "Pending" => ReviewsSince(n, requests[n].uid)
  /\ /\ reqPc = "update" /\ reqObj.state = "Pending"
     /\ Fresh(requests[reqName], reqObj) /\ ~Expired(requests[reqName])
     => /\ requests[reqName].reviewName = NoReview
        /\ ReviewsSince(reqName, requests[reqName].uid)

StandsInv == /\ TypeInv /\ RequestInv /\ DatedInv /\ MemoryVersion
             /\ KnowledgeInv /\ SettledInv

LEMMA OldReviewsOnly ==
  ASSUME "delReview" \notin Disturbances, "retarget" \notin Disturbances,
         TypeInv, ReviewHeld, Next, NoneYoungPruned, NEW n \in Requests,
         NEW r \in Reviews, reviews'[r].uid # 0, reviews'[r].for = n
  PROVE  \/ r \in ReviewsOf(n) /\ reviews'[r].uid = reviews[r].uid
         \/ reviews'[r].uid = revision + 1
BY WhatBecomesOfReview DEF ReviewLasts, ReviewPruned, ReviewNew, ReviewsOf, Exists

LEMMA SinceStep ==
  ASSUME "delReview" \notin Disturbances, "retarget" \notin Disturbances,
         TypeInv, ReviewHeld, Next, NoneYoungPruned, NEW n \in Requests,
         NEW uid \in Nat, uid <= revision, ReviewsSince(n, uid)
  PROVE  ReviewsSince(n, uid)'
<1> SUFFICES ASSUME NEW r \in Reviews, reviews'[r].uid # 0, reviews'[r].for = n
             PROVE  reviews'[r].uid > uid
  BY DEF ReviewsSince, ReviewsOf, Exists
<1>1. revision \in Nat
  BY DEF TypeInv, ServerOK, ServerTypeOK
<1>2. CASE r \in ReviewsOf(n) /\ reviews'[r].uid = reviews[r].uid
  BY <1>2 DEF ReviewsSince
<1>3. CASE reviews'[r].uid = revision + 1
  BY <1>1, <1>3
<1>4. QED
  BY <1>2, <1>3, OldReviewsOnly

LEMMA YoungerReviewLasts ==
  ASSUME "delReview" \notin Disturbances, "retarget" \notin Disturbances,
         TypeInv, ReviewHeld, Next, NoneYoungPruned, NEW n \in Requests,
         NEW uid \in Nat, ~(uid <= horizon), NEW r \in ReviewsOf(n), reviews[r].uid > uid
  PROVE  r \in ReviewsOf(n)' /\ reviews'[r].uid > uid
<1>1. r \in Reviews /\ Exists(reviews[r]) /\ reviews[r].for = n
  BY DEF ReviewsOf
<1>2. horizon \in Nat /\ reviews[r].uid \in Nat
  BY <1>1 DEF TypeInv, ServerOK, ServerTypeOK, ReviewObjects
<1>3. ~Expired(reviews[r])
  BY <1>2 DEF Expired
<1>4. ReviewLasts(r)
  BY <1>1, <1>3, WhatBecomesOfReview DEF ReviewPruned, ReviewNew
<1>5. QED
  BY <1>1, <1>4 DEF ReviewLasts, ReviewsOf, Exists

\* A JobRequest that names its review, by the step that makes it what it is
LEMMA StillSettled ==
  ASSUME "delReview" \notin Disturbances, "retarget" \notin Disturbances,
         StandsInv, Next, NoneYoungPruned, NEW n \in Requests,
         ~(requests'[n].uid <= horizon'), ~Terminal(requests'[n].state),
         requests'[n].reviewName # NoReview
  PROVE  SettledBy(n)'
<1> USE DEF StandsInv
<1>1. /\ requests[n].uid \in Nat /\ horizon \in Nat
      /\ reqObj \in RequestObjects /\ revReq \in RequestObjects
      /\ revObj \in ReviewObjects
  BY DEF TypeInv, ServerOK, ServerTypeOK, RequestObjects, RequestWorkerOK,
     RequestControllerTypeOK, ReviewWorkerOK, ReviewControllerTypeOK
<1>2. ASSUME requests'[n].uid = requests[n].uid
      PROVE  ~(requests[n].uid <= horizon) /\ ~Expired(requests[n])
    BY <1>1, <1>2, HorizonGrows DEF Expired
<1>3. ASSUME requests'[n].uid = requests[n].uid,
             requests'[n].reviewName = requests[n].reviewName,
             ~Terminal(requests[n].state), requests'[n].state # "Pending"
      PROVE  SettledBy(n)'
  <2>1. ~(requests[n].uid <= horizon) /\ ~Expired(requests[n])
    BY <1>2, <1>3
  <2>2. SettledBy(n)
    BY <1>3, <2>1 DEF SettledInv
  <2>3. PICK r \in ReviewsOf(n) : /\ r = requests[n].reviewName
                                  /\ reviews[r].uid > requests[n].uid
    BY <2>2 DEF SettledBy
  <2>4. r \in ReviewsOf(n)' /\ reviews'[r].uid > requests[n].uid
    BY <1>1, <2>1, <2>3, YoungerReviewLasts DEF KnowledgeInv
  <2>5. QED
    BY <1>3, <2>3, <2>4 DEF SettledBy
<1>4. ~RequestGone(n) /\ ~RequestMade(n)
  <2>1. AbsentRequest.reviewName = NoReview
    BY DEF AbsentRequest
  <2>2. QED
    BY <2>1 DEF RequestGone, RequestMade
<1>5. CASE requests'[n] = requests[n] \/ RequestEdited(n)
  <2>1. /\ requests'[n].uid = requests[n].uid
        /\ requests'[n].reviewName = requests[n].reviewName
        /\ requests'[n].state = requests[n].state
    BY <1>5 DEF RequestEdited
  <2>2. requests[n].state # "Pending"
    BY <1>2, <2>1 DEF SettledInv, SettledBy
  <2>3. QED
    BY <1>3, <2>1, <2>2
<1>6. CASE RequestUpdated(n)
  <2>1. /\ reqPc = "update" /\ n = reqName /\ Fresh(requests[n], reqObj)
        /\ requests'[n].uid = requests[n].uid
        /\ requests'[n].state = reqObj.state
        /\ requests'[n].reviewName = reqObj.reviewName
    BY <1>6 DEF RequestUpdated, Copies, Fresh
  <2>2. ~Terminal(requests[n].state)
    BY <2>1 DEF RequestInv, RequestMemory
  <2>3. reqObj.reviewName = requests[n].reviewName
    BY <2>1 DEF MemoryVersion, Terminal
  <2>4. reqObj.state # "Pending"
    BY <1>2, <2>1, <2>3 DEF SettledInv
  <2>5. QED
    BY <1>3, <2>1, <2>2, <2>3, <2>4
<1>7. CASE RequestDecided(n)
  <2>1. /\ revPc = "decide" /\ n = revObj.for /\ Fresh(requests[n], revReq)
        /\ requests'[n].uid = requests[n].uid
        /\ requests'[n].state = revReq.state
        /\ requests'[n].reviewName = revReq.reviewName
    BY <1>7 DEF RequestDecided, Copies, Fresh
  <2>2. /\ requests[n].state = "Pending" /\ revReq.state = revObj.decision
        /\ revReq.reviewName = revName
    BY <2>1 DEF RequestInv, ReviewMemory, KnowledgeInv, ReviewHeld
  <2>3. revName \in ReviewsOf(n)
    BY <2>1 DEF KnowledgeInv, ReviewHeld, ReviewsOf, Exists, TypeInv, ReviewWorkerOK
  <2>4. ~(requests[n].uid <= horizon) /\ ~Expired(requests[n])
    BY <1>2, <2>1
  <2>5. reviews[revName].uid > requests[n].uid
    BY <2>2, <2>3, <2>4 DEF SettledInv, ReviewsSince, Terminal
  <2>6. revName \in ReviewsOf(n)' /\ reviews'[revName].uid > requests[n].uid
    BY <1>1, <2>3, <2>4, <2>5, YoungerReviewLasts DEF KnowledgeInv
  <2>7. revReq.state # "Pending"
    BY <1>1, <2>2 DEF ReviewObjects, Decisions
  <2>8. QED
    BY <2>1, <2>2, <2>6, <2>7 DEF SettledBy
<1>8. QED
  BY <1>4, <1>5, <1>6, <1>7, RequestChange

\* A JobRequest that waits for a review has only reviews younger than itself.
LEMMA PendingSince ==
  ASSUME "delReview" \notin Disturbances, "retarget" \notin Disturbances,
         StandsInv, Next, NoneYoungPruned, NEW n \in Requests,
         ~(requests'[n].uid <= horizon'), requests'[n].state = "Pending"
  PROVE  ReviewsSince(n, requests[n].uid)'
<1> USE DEF StandsInv
<1>1. /\ requests[n].uid \in Nat /\ requests[n].uid <= revision
      /\ revObj \in ReviewObjects
  BY DEF TypeInv, ServerOK, ServerTypeOK, RequestObjects, DatedInv, ReviewWorkerOK,
     ReviewControllerTypeOK
<1>2. ASSUME requests'[n].uid = requests[n].uid
      PROVE  ~Expired(requests[n])
  BY <1>1, <1>2, HorizonGrows DEF Expired
<1>3. ASSUME requests'[n].uid = requests[n].uid, ReviewsSince(n, requests[n].uid)
      PROVE  ReviewsSince(n, requests[n].uid)'
  <2>1. \A r \in ReviewsOf(n)' : reviews'[r].uid > requests[n].uid
    BY <1>1, <1>3, SinceStep DEF KnowledgeInv, ReviewsSince
  <2>2. QED
    BY <1>3, <2>1 DEF ReviewsSince
<1>4. ~RequestGone(n) /\ ~RequestMade(n)
  <2>1. AbsentRequest.state = ""
    BY DEF AbsentRequest
  <2>2. QED
    BY <2>1 DEF RequestGone, RequestMade
<1>5. CASE requests'[n] = requests[n] \/ RequestEdited(n)
  <2>1. requests'[n].uid = requests[n].uid /\ requests[n].state = "Pending"
    BY <1>5 DEF RequestEdited
  <2>2. QED
    BY <1>2, <1>3, <2>1 DEF SettledInv, Terminal
<1>6. CASE RequestUpdated(n)
  <2>1. /\ reqPc = "update" /\ n = reqName /\ Fresh(requests[n], reqObj)
        /\ requests'[n].uid = requests[n].uid /\ reqObj.state = "Pending"
    BY <1>6 DEF RequestUpdated, Copies, Fresh
  <2>2. QED
    BY <1>2, <1>3, <2>1 DEF SettledInv
<1>7. ~RequestDecided(n)
  BY <1>1 DEF RequestDecided, Copies, RequestInv, ReviewMemory, ReviewObjects, Decisions
<1>8. QED
  BY <1>4, <1>5, <1>6, <1>7, RequestChange

\* A JobRequest about to become Pending has not been settled.
LEMMA AboutToPend ==
  ASSUME "fault" \notin Disturbances, "delReview" \notin Disturbances,
         "retarget" \notin Disturbances, StandsInv, Next, NoneYoungPruned,
         reqPc' = "update", reqObj'.state = "Pending",
         Fresh(requests'[reqName'], reqObj'),
         ~(requests'[reqName'].uid <= horizon')
  PROVE  /\ requests'[reqName'].reviewName = NoReview
         /\ \A r \in ReviewsOf(reqName)' : reviews'[r].uid > requests'[reqName'].uid
<1> USE DEF StandsInv
<1>1. TypeInv' /\ reqName' \in Requests /\ reqObj' \in RequestObjects
  BY TypeStep DEF TypeInv, RequestWorkerOK, RequestControllerTypeOK
<1>2. CASE UNCHANGED reqVars
  <2>1. PICK n \in Requests :
          /\ reqPc = "update" /\ reqObj.state = "Pending"
          /\ reqObj \in RequestObjects /\ reqName = n /\ reqName' = n
          /\ Fresh(requests'[n], reqObj) /\ ~(requests'[n].uid <= horizon')
    BY <1>1, <1>2 DEF reqVars
  <2>2. Exists(reqObj) /\ reqObj.rv <= revision
    BY <2>1 DEF RequestInv, RequestMemory, MemoryVersion
  <2>3. requests'[n] = requests[n]
    BY <2>1, <2>2, FreshIsSame
  <2>4. requests[n].uid \in Nat /\ requests[n].uid <= revision
    BY <2>1 DEF TypeInv, ServerOK, ServerTypeOK, RequestObjects, DatedInv
  <2>5. ~Expired(requests[n])
    BY <2>1, <2>3, <2>4, HorizonGrows DEF Expired
  <2>6. requests[n].reviewName = NoReview /\ ReviewsSince(n, requests[n].uid)
    BY <2>1, <2>3, <2>5 DEF SettledInv
  <2>7. \A r \in ReviewsOf(n)' : reviews'[r].uid > requests[n].uid
    BY <2>1, <2>4, <2>6, SinceStep DEF KnowledgeInv, ReviewsSince
  <2>8. QED
    BY <2>1, <2>3, <2>6, <2>7
<1>3. CASE WorkerSet
  <2>1. PICK n \in Requests :
          /\ reqPc = "listReviews" /\ reqName = n /\ reqName' = n
          /\ requests' = requests
          /\ Fresh(requests[n], reqObj) /\ ~(requests[n].uid <= horizon')
          /\ ReviewsOf(n) = {} \/ reqObj.state = "Pending"
    BY <1>1, <1>3 DEF WorkerSet, HoldsState, Fresh
  <2>2. /\ requests[n].uid \in Nat /\ requests[n].uid <= revision
        /\ ~Terminal(requests[n].state)
    BY <2>1 DEF TypeInv, ServerOK, ServerTypeOK, RequestObjects, DatedInv, RequestInv,
       RequestMemory
  <2>3. reqObj.state = "Pending" => requests[n].state = "Pending"
    BY <2>1 DEF MemoryVersion
  <2>4. ~Expired(requests[n])
    BY <2>1, <2>2, HorizonGrows DEF Expired
  <2>5. requests[n].reviewName = NoReview
    BY <2>1, <2>2, <2>3, <2>4 DEF SettledInv, SettledBy
  <2>6. ReviewsSince(n, requests[n].uid)
    BY <2>1, <2>2, <2>3, <2>4 DEF SettledInv, ReviewsSince
  <2>7. \A r \in ReviewsOf(n)' : reviews'[r].uid > requests[n].uid
    BY <2>1, <2>2, <2>6, SinceStep DEF KnowledgeInv, ReviewsSince
  <2>8. QED
    BY <2>1, <2>5, <2>7
<1>4. ~WorkerTook /\ ~WorkerMoved /\ ~WorkerReread
  BY DEF WorkerTook, HoldsState, WorkerMoved, WorkerReread
<1>5. QED
  BY <1>2, <1>3, <1>4, WorkerSteps DEF WorkerChange

LEMMA SettledStep ==
  ASSUME "fault" \notin Disturbances, "delReview" \notin Disturbances,
         "retarget" \notin Disturbances
  PROVE  StandsInv /\ [Next /\ NoneYoungPruned]_vars => SettledInv'
<1> SUFFICES ASSUME StandsInv, [Next /\ NoneYoungPruned]_vars
             PROVE  SettledInv'
  OBVIOUS
<1>1. CASE Next /\ NoneYoungPruned
  <2>1. ASSUME NEW n \in Requests, ~(requests'[n].uid <= horizon'),
               ~Terminal(requests'[n].state)
        PROVE  /\ requests'[n].reviewName # NoReview => SettledBy(n)'
               /\ requests'[n].state = "Pending" => ReviewsSince(n, requests[n].uid)'
    BY <1>1, <2>1, StillSettled, PendingSince
  <2>2. (/\ reqPc = "update" /\ reqObj.state = "Pending"
         /\ Fresh(requests[reqName], reqObj) /\ ~Expired(requests[reqName])
         => /\ requests[reqName].reviewName = NoReview
            /\ ReviewsSince(reqName, requests[reqName].uid))'
    BY <1>1, AboutToPend DEF Fresh, Expired, ReviewsSince
  <2>3. QED
    BY <2>1, <2>2 DEF SettledInv, Expired
<1>2. CASE UNCHANGED vars
  BY <1>2 DEF vars, serverVars, storeVars, workerVars, reqVars, StandsInv, SettledInv,
     SettledBy, ReviewsSince, ReviewsOf, Fresh, Expired, Exists
<1>3. QED
  BY <1>1, <1>2

LEMMA SafeStands ==
  ASSUME {"fault", "delReview", "retarget"} \cap Disturbances = {}
  PROVE  Spec /\ [][NoneYoungPruned]_vars => []StandsInv
<1>1. /\ "fault" \notin Disturbances /\ "delReview" \notin Disturbances
      /\ "retarget" \notin Disturbances
  OBVIOUS
<1>2. Init => MemoryVersion /\ KnowledgeInv /\ SettledInv
  <2>1. /\ AbsentRequest.uid = 0 /\ AbsentRequest.state = ""
        /\ AbsentRequest.reviewName = NoReview /\ AbsentReview(0).uid = 0
    BY DEF AbsentRequest, AbsentReview
  <2>2. Init => SettledInv
    BY <2>1 DEF Init, ServerInit, RequestControllerInit, SettledInv
  <2>3. QED
    BY <2>1, <2>2 DEF Init, ServerInit, RequestControllerInit, ReviewControllerInit,
       MemoryVersion, KnowledgeInv, KnownReview, ReviewHeld, Exists
<1>3. TypeInv /\ RequestInv /\ MemoryVersion /\ [Next]_vars => MemoryVersion'
  BY MemoryVersionStep
<1>4. TypeInv /\ KnowledgeInv /\ [Next /\ NoneYoungPruned]_vars => KnowledgeInv'
  BY <1>1, KnowledgeStep
<1>5. StandsInv /\ [Next /\ NoneYoungPruned]_vars => SettledInv'
  BY <1>1, SettledStep
<1>6. [Next]_vars /\ [NoneYoungPruned]_vars => [Next /\ NoneYoungPruned]_vars
  OBVIOUS
<1>7. StandsInv <=> /\ TypeInv /\ RequestInv /\ DatedInv /\ MemoryVersion
                    /\ KnowledgeInv /\ SettledInv
  BY DEF StandsInv
<1>8. QED
  BY SafeDecisions, <1>2, <1>3, <1>4, <1>5, <1>6, <1>7, PTL DEF Spec

LEMMA DecisionStep ==
  ASSUME StandsInv, Next, NEW n \in Requests,
         requests[n].reviewName # NoReview,
         requests'[n].uid = requests[n].uid,
         ~Expired(requests[n])
  PROVE  /\ requests'[n].reviewName = requests[n].reviewName
         /\ requests'[n].state # "Pending"
<1> USE DEF StandsInv
<1>1. requests[n].uid # 0
  BY DEF TypeInv, ServerOK, ServerTypeOK, RequestObjects, Expired
<1>2. requests[n].state # "Pending"
  BY DEF SettledInv, SettledBy, Terminal
<1>3. ~RequestGone(n) /\ ~RequestMade(n)
  <2>1. AbsentRequest.uid = 0
    BY DEF AbsentRequest
  <2>2. QED
    BY <1>1, <2>1 DEF RequestGone, RequestMade, Exists
<1>4. ~RequestDecided(n)
  BY <1>2 DEF RequestDecided, RequestInv, ReviewMemory
<1>5. CASE RequestUpdated(n)
  <2>1. /\ reqPc = "update" /\ n = reqName /\ Fresh(requests[n], reqObj)
        /\ requests'[n].state = reqObj.state
        /\ requests'[n].reviewName = reqObj.reviewName
    BY <1>5 DEF RequestUpdated, Copies
  <2>2. reqObj.reviewName = requests[n].reviewName
    BY <2>1 DEF MemoryVersion
  <2>3. reqObj.state # "Pending"
    BY <2>1 DEF SettledInv
  <2>4. QED
    BY <2>1, <2>2, <2>3
<1>6. QED
  BY <1>2, <1>3, <1>4, <1>5, RequestChange DEF RequestEdited

\* A decision stands, as long as no call fails, nobody deletes a review or gives it to
\* another JobRequest, and the controllers prune nothing before its time.
THEOREM DecisionIsKept ==
  ASSUME {"fault", "delReview", "retarget"} \cap Disturbances = {}
  PROVE  Spec /\ YoungIsNotPruned => DecisionStands
<1> DEFINE Stands ==
      \A n \in Requests :
        /\ requests[n].reviewName # NoReview
        /\ requests'[n].uid = requests[n].uid
        /\ ~Expired(requests[n])
        => /\ requests'[n].reviewName = requests[n].reviewName
           /\ requests'[n].state # "Pending"
<1>1. StandsInv /\ Next => Stands
  BY DecisionStep
<1>2. StandsInv /\ [Next]_vars => [Stands]_vars
  BY <1>1
<1>3. YoungIsNotPruned <=> [][NoneYoungPruned]_vars
  BY PTL DEF YoungIsNotPruned, NoneYoungPruned
<1>4. QED
  BY <1>2, <1>3, SafeStands, PTL DEF Spec, DecisionStands

-----------------------------------------------------------------------------
(* While no object passes the TTL nothing is pruned at all. *)

NothingOld == /\ horizon = 0 /\ PruneOld
              /\ revPc = "prune" => Exists(revObj)

LEMMA NothingOldStep ==
  ASSUME "age" \notin Disturbances
  PROVE  TypeInv /\ NothingOld /\ [Next]_vars => NothingOld'
<1> SUFFICES ASSUME TypeInv, NothingOld, [Next]_vars
             PROVE  NothingOld'
  OBVIOUS
<1>1. PruneOld'
  BY PruneOldStep DEF NothingOld
<1>2. horizon' = 0
  BY TimeAndTargets DEF NothingOld, vars, serverVars, storeVars
<1>3. ASSUME Next, revPc' = "prune"
      PROVE  revObj'.uid # 0
  <2>1. ReviewerTook \/ UNCHANGED revVars
    BY <1>3, ReviewerSteps
       DEF ReviewerChange, ReviewerChose, ReviewerAnswered, ReviewerDecided
  <2>2. QED
    BY <1>3, <2>1 DEF ReviewerTook, NothingOld, revVars, Exists
<1>4. UNCHANGED vars => UNCHANGED revVars
  BY DEF vars, workerVars
<1>5. QED
  BY <1>1, <1>2, <1>3, <1>4 DEF NothingOld, revVars, Exists

LEMMA NothingPrunedInTime ==
  ASSUME "age" \notin Disturbances
  PROVE  Spec => YoungIsNotPruned
<1>1. Init => NothingOld
  BY DEF Init, ServerInit, RequestControllerInit, ReviewControllerInit, NothingOld,
     PruneOld
<1>2. TypeInv /\ NothingOld /\ [Next]_vars => NothingOld'
  BY NothingOldStep
<1>3. TypeInv /\ RequestInv /\ NothingOld => reqPc # "prune" /\ revPc # "prune"
  BY DEF TypeInv, RequestWorkerOK, RequestControllerTypeOK, RequestObjects,
     ReviewWorkerOK, ReviewControllerTypeOK, ReviewObjects, RequestInv, RequestMemory,
     NothingOld, PruneOld, Expired, Exists
<1>4. reqPc # "prune" /\ revPc # "prune" => NoneYoungPruned
  BY DEF NoneYoungPruned
<1>5. TypeInv /\ RequestInv /\ NothingOld => [NoneYoungPruned]_vars
  BY <1>3, <1>4
<1>6. YoungIsNotPruned <=> [][NoneYoungPruned]_vars
  BY PTL DEF YoungIsNotPruned, NoneYoungPruned
<1>7. QED
  BY <1>1, <1>2, <1>5, <1>6, SafeState, PTL DEF Spec

\* While no object passes the TTL, a decision stands whatever else happens that
\* DecisionIsKept allows.
THEOREM DecisionIsKeptInTime ==
  ASSUME {"fault", "delReview", "retarget", "age"} \cap Disturbances = {}
  PROVE  Spec => DecisionStands
<1>1. /\ "age" \notin Disturbances
      /\ {"fault", "delReview", "retarget"} \cap Disturbances = {}
  OBVIOUS
<1>2. Spec /\ YoungIsNotPruned => DecisionStands
  BY <1>1, DecisionIsKept
<1>3. Spec => YoungIsNotPruned
  BY <1>1, NothingPrunedInTime
<1>4. QED
  BY <1>2, <1>3, PTL

-----------------------------------------------------------------------------
(* Nothing is pruned before its time while names are left to rest: what a worker holds,
   and what the watch still has of a review, is then never an earlier bearer of a name
   that is in use again. *)

\* The step of NamesRest
NameRests ==
  /\ \A n \in Requests :
       ~Exists(requests[n]) /\ Exists(requests'[n]) => reqName # n
  /\ \A r \in Reviews :
       ~Exists(reviews[r]) /\ Exists(reviews'[r])
         => /\ revName # r
            /\ \A version \in {reviewCache[r]} \cup reviewEvents[r] : ~Exists(version)

SameLife(version, stored) ==
  Exists(version) /\ Exists(stored) => version.uid = stored.uid

RequestHeldAlive == reqPc # "idle" => SameLife(reqObj, requests[reqName])
ReviewHeldAlive ==
  revPc # "idle" => Exists(revObj) /\ SameLife(revObj, reviews[revName])
ReviewsKnownAlive ==
  \A r \in Reviews : \A version \in {reviewCache[r]} \cup reviewEvents[r] :
    SameLife(version, reviews[r])

AliveInv == RequestHeldAlive /\ ReviewHeldAlive /\ ReviewsKnownAlive /\ PruneOld

LEMMA RequestLifeStep ==
  ASSUME TypeInv, Next, NEW n \in Requests
  PROVE  \/ ~Exists(requests'[n]) \/ requests'[n].uid = requests[n].uid
         \/ ~Exists(requests[n]) /\ Exists(requests'[n])
<1>1. RequestGone(n) => ~Exists(requests'[n])
  <2>1. AbsentRequest.uid = 0
    BY DEF AbsentRequest
  <2>2. QED
    BY <2>1 DEF RequestGone, Exists
<1>2. RequestMade(n) => ~Exists(requests[n]) /\ Exists(requests'[n])
  <2>1. revision + 1 # 0
    BY DEF TypeInv, ServerOK, ServerTypeOK
  <2>2. QED
    BY <2>1 DEF RequestMade, Exists
<1>3. QED
  BY <1>1, <1>2, RequestChange DEF RequestEdited, RequestUpdated, RequestDecided, Copies, Fresh

LEMMA ReviewLifeStep ==
  ASSUME TypeInv, Next, NEW r \in Reviews
  PROVE  \/ ~Exists(reviews'[r]) \/ reviews'[r].uid = reviews[r].uid
         \/ ~Exists(reviews[r]) /\ Exists(reviews'[r])
<1>1. CASE SomeReviewStored
  <2>1. PICK m \in Reviews, stored \in ReviewObjects : ReviewStored(m, stored)
    BY <1>1 DEF SomeReviewStored
  <2>2. reviews'[r] = IF r = m THEN stored ELSE reviews[r]
    BY <2>1 DEF ReviewStored, TypeInv, ServerOK, ServerTypeOK
  <2>3. ReviewWritten(m, stored)
    BY <2>1 DEF ReviewStored
  <2>4. CASE ReviewMade(m, stored)
    BY <2>2, <2>4 DEF ReviewMade, Exists, TypeInv, ServerOK, ServerTypeOK
  <2>5. CASE ReviewGone(m, stored)
    BY <2>2, <2>5 DEF ReviewGone
  <2>6. CASE ReviewEdited(m, stored) \/ ReviewUpdated(m, stored)
    BY <2>2, <2>6 DEF ReviewEdited, ReviewUpdated, Fresh
  <2>7. QED
    BY <2>3, <2>4, <2>5, <2>6 DEF ReviewWritten
<1>2. QED
  BY <1>1, ReviewChange DEF ReviewsMoved, ReviewsKept

LEMMA RequestHeldStep ==
  ASSUME TypeInv, RequestHeldAlive, Next, NameRests
  PROVE  RequestHeldAlive'
<1>1. CASE reqPc' = "idle"
  BY <1>1 DEF RequestHeldAlive
<1>2. CASE WorkerTook
  BY <1>2 DEF WorkerTook, HoldsState, RequestHeldAlive, SameLife
<1>3. CASE WorkerMoved \/ WorkerSet \/ WorkerReread
  BY <1>3 DEF WorkerMoved, WorkerSet, WorkerReread, HoldsState, RequestHeldAlive,
     SameLife, Exists
<1>4. CASE UNCHANGED reqVars /\ reqPc # "idle"
  <2>1. reqName \in Requests
    BY <1>4 DEF TypeInv, RequestWorkerOK
  <2>2. QED
    BY <1>4, <2>1, RequestLifeStep
       DEF NameRests, RequestHeldAlive, SameLife, reqVars, Exists
<1>5. QED
  BY <1>1, <1>2, <1>3, <1>4, WorkerSteps DEF WorkerChange, reqVars

LEMMA ReviewHeldAliveStep ==
  ASSUME TypeInv, ReviewHeldAlive, ReviewsKnownAlive, Next, NameRests
  PROVE  ReviewHeldAlive'
<1>1. CASE revPc' = "idle"
  BY <1>1 DEF ReviewHeldAlive
<1>2. CASE ReviewerTook
  BY <1>2 DEF ReviewerTook, HoldsReview, ReviewsKnownAlive, ReviewHeldAlive, SameLife,
     Exists
<1>3. CASE ReviewerChose \/ ReviewerAnswered \/ ReviewerDecided
  BY <1>3 DEF ReviewerChose, ReviewerAnswered, ReviewerDecided, HoldsReview,
     ReviewHeldAlive, SameLife, Exists
<1>4. CASE UNCHANGED revVars /\ revPc # "idle"
  <2>1. revName \in Reviews
    BY <1>4 DEF TypeInv, ReviewWorkerOK
  <2>2. QED
    BY <1>4, <2>1, ReviewLifeStep
       DEF NameRests, ReviewHeldAlive, SameLife, revVars, Exists
<1>5. QED
  BY <1>1, <1>2, <1>3, <1>4, ReviewerSteps DEF ReviewerChange, revVars

LEMMA ReviewsKnownStep ==
  ASSUME TypeInv, ReviewsKnownAlive, Next, NameRests
  PROVE  ReviewsKnownAlive'
<1> SUFFICES ASSUME NEW r \in Reviews, NEW version \in {reviewCache'[r]} \cup reviewEvents'[r]
             PROVE  SameLife(version, reviews'[r])
  BY DEF ReviewsKnownAlive
<1>1. \/ version = reviews'[r]
      \/ version \in {reviewCache[r], reviews[r]} \cup reviewEvents[r]
  <2>1. CASE SomeReviewStored
    BY <2>1 DEF SomeReviewStored, ReviewStored, TypeInv, ServerOK, ServerTypeOK
  <2>2. CASE ReviewsMoved
    <3>1. /\ reviewCache'[r] \in {reviewCache[r], reviews[r]} \cup reviewEvents[r]
          /\ reviewEvents'[r] \subseteq reviewEvents[r]
      BY <2>2 DEF ReviewsMoved
    <3>2. QED
      BY <3>1
  <2>3. CASE ReviewsKept
    BY <2>3 DEF ReviewsKept
  <2>4. QED
    BY <2>1, <2>2, <2>3, ReviewChange
<1>2. CASE version = reviews'[r]
  BY <1>2 DEF SameLife
<1>3. CASE version = reviews[r]
  BY <1>3, ReviewLifeStep DEF SameLife
<1>4. CASE version \in {reviewCache[r]} \cup reviewEvents[r]
  <2>1. SameLife(version, reviews[r])
    BY <1>4 DEF ReviewsKnownAlive
  <2>2. ~Exists(reviews[r]) /\ Exists(reviews'[r]) => ~Exists(version)
    BY <1>4 DEF NameRests
  <2>3. QED
    BY <2>1, <2>2, ReviewLifeStep DEF SameLife, Exists
<1>5. QED
  BY <1>1, <1>2, <1>3, <1>4

LEMMA AliveStep == TypeInv /\ AliveInv /\ [Next /\ NameRests]_vars => AliveInv'
<1> SUFFICES ASSUME TypeInv, AliveInv, [Next /\ NameRests]_vars
             PROVE  AliveInv'
  OBVIOUS
<1>1. PruneOld'
  BY PruneOldStep DEF AliveInv
<1>2. CASE Next /\ NameRests
  BY <1>1, <1>2, RequestHeldStep, ReviewHeldAliveStep, ReviewsKnownStep DEF AliveInv
<1>3. CASE UNCHANGED vars
  BY <1>1, <1>3 DEF vars, serverVars, storeVars, watchVars, workerVars, reqVars, revVars,
     AliveInv, RequestHeldAlive, ReviewHeldAlive, ReviewsKnownAlive, SameLife, Exists
<1>4. QED
  BY <1>2, <1>3

\* A delete by name that takes effect is the one of the worker, and of what it holds.
LEMMA PrunesWhatItHolds ==
  ASSUME TypeInv, RequestInv, AliveInv, Next
  PROVE  NoneYoungPruned
<1>1. ASSUME NEW n \in Requests, reqPc = "prune", reqPc' = "idle",
             requests'[n] # requests[n]
      PROVE  Expired(requests[n])
  <2>1. PruneRequest
    BY <1>1 DEF Next, RequestStep, ReviewStep, OutsideStep, workerVars, reqVars, Restart,
       storeVars, RequestController, RequestWorkerStep, BeginRequest, ListTarget,
       ListReviews, GetJobOfApproved, GetJobOfStarted, CreateJob, RereadRequest,
       UpdateRequest
  <2>2. n = reqName
    BY <1>1, <2>1 DEF PruneRequest, RemoveRequest, TypeInv, ServerOK, ServerTypeOK
  <2>3. Exists(reqObj) /\ Expired(reqObj) /\ SameLife(reqObj, requests[n])
    BY <1>1, <2>2 DEF AliveInv, RequestHeldAlive, PruneOld, RequestInv, RequestMemory
  <2>4. ~Exists(requests[n]) => Expired(requests[n])
    BY DEF Exists, Expired, TypeInv, ServerOK, ServerTypeOK
  <2>5. QED
    BY <2>3, <2>4 DEF SameLife, Expired
<1>2. ASSUME NEW r \in Reviews, revPc = "prune", revPc' = "idle",
             reviews'[r] # reviews[r]
      PROVE  Expired(reviews[r])
  <2>1. PruneReview
    BY <1>2 DEF Next, RequestStep, ReviewStep, OutsideStep, workerVars, revVars, Restart,
       storeVars, ReviewController, ReviewWorkerStep, BeginReview, ListRequest, Decide,
       UpdateReview
  <2>2. r = revName /\ Exists(reviews[r])
    BY <1>2, <2>1 DEF PruneReview, RemoveReview, StoreReview, TypeInv, ServerOK,
       ServerTypeOK
  <2>3. Exists(revObj) /\ Expired(revObj) /\ SameLife(revObj, reviews[r])
    BY <1>2, <2>2 DEF AliveInv, ReviewHeldAlive, PruneOld
  <2>4. QED
    BY <2>2, <2>3 DEF SameLife, Expired
<1>3. QED
  BY <1>1, <1>2 DEF NoneYoungPruned

\* The controllers delete no object before its time, whatever is disturbed, as long as
\* a name is used again only once they know that the object which had it is gone.
THEOREM YoungAreKept == Spec /\ NamesRest => YoungIsNotPruned
<1>1. Init => AliveInv
  <2>1. AbsentReview(0).uid = 0
    BY DEF AbsentReview
  <2>2. QED
    BY <2>1 DEF Init, ServerInit, RequestControllerInit, ReviewControllerInit, AliveInv,
       RequestHeldAlive, ReviewHeldAlive, ReviewsKnownAlive, SameLife, Exists, PruneOld
<1>2. TypeInv /\ AliveInv /\ [Next /\ NameRests]_vars => AliveInv'
  BY AliveStep
<1>3. TypeInv /\ RequestInv /\ AliveInv /\ [Next]_vars => [NoneYoungPruned]_vars
  BY PrunesWhatItHolds
<1>4. [Next]_vars /\ [NameRests]_vars => [Next /\ NameRests]_vars
  OBVIOUS
<1>5. NamesRest <=> [][NameRests]_vars
  BY PTL DEF NamesRest, NameRests
<1>6. YoungIsNotPruned <=> [][NoneYoungPruned]_vars
  BY PTL DEF YoungIsNotPruned, NoneYoungPruned
<1>7. QED
  BY <1>1, <1>2, <1>3, <1>4, <1>5, <1>6, SafeState, PTL DEF Spec

\* So a decision stands, also when the TTL passes, while names are left to rest.
THEOREM DecisionIsKeptWhileNamesRest ==
  ASSUME {"fault", "delReview", "retarget"} \cap Disturbances = {}
  PROVE  Spec /\ NamesRest => DecisionStands
<1>1. Spec /\ YoungIsNotPruned => DecisionStands
  BY DecisionIsKept
<1>2. QED
  BY <1>1, YoungAreKept, PTL
===============================================================================
