------------------------- MODULE MetricCollectorProofs -------------------------
(***************************************************************************)
(* Proof that the gauges show one round, for every set of names and of     *)
(* states, and for any number of changes, failed listings and restarts.    *)
(***************************************************************************)
EXTENDS MetricCollector, FiniteSetTheorems, TLAPS

IsGauge(gauge, states) == gauge = [s \in states |-> gauge[s]]

\* The inductive invariant: the property itself, once no step adds or drops a gauge.
GaugeInv ==
  /\ IsGauge(requestGauge, RequestGauges)
  /\ IsGauge(reviewGauge, ReviewGauges)
  /\ GaugesShowOneRound

\* Every gauge has a total: the tally starts from the states that have a gauge.
LEMMA TallyTotals ==
  ASSUME NEW zeroes, NEW list, NEW s \in zeroes
  PROVE  s \in DOMAIN Tally(zeroes, list)
         /\ Tally(zeroes, list)[s] = Cardinality(InState(list, s))
BY DEF Tally

\* Gauges that are not behind a listing show it.
LEMMA NoneBehindShows ==
  ASSUME NEW zeroes, NEW list, NEW gauge, IsGauge(gauge, zeroes),
         Behind(gauge, Tally(zeroes, list)) = {}
  PROVE  Shows(gauge, list)
<1> SUFFICES ASSUME NEW s \in DOMAIN gauge
             PROVE  gauge[s] = Cardinality(InState(list, s))
  BY DEF Shows
<1>1. s \in zeroes
  BY DEF IsGauge
<1>2. QED
  BY <1>1, TallyTotals DEF Behind

\* A gauge that is set keeps the mix of the last round and the next.
LEMMA SetKeepsMix ==
  ASSUME NEW zeroes, NEW last, NEW next, NEW gauge, IsGauge(gauge, zeroes),
         ShowsMix(gauge, last, next),
         NEW s \in Behind(gauge, Tally(zeroes, next)),
         NEW newGauge, newGauge = [gauge EXCEPT ![s] = Tally(zeroes, next)[s]]
  PROVE  IsGauge(newGauge, zeroes) /\ ShowsMix(newGauge, last, next)
<1>1. s \in zeroes
  BY DEF Behind, IsGauge
<1>2. Tally(zeroes, next)[s] = Cardinality(InState(next, s))
  BY <1>1, TallyTotals
<1>3. /\ DOMAIN newGauge = zeroes /\ DOMAIN gauge = zeroes
      /\ IsGauge(newGauge, zeroes)
  BY DEF IsGauge
<1>4. ASSUME NEW t \in zeroes
      PROVE  newGauge[t] \in {Cardinality(InState(last, t)), Cardinality(InState(next, t))}
  BY <1>2, <1>3, <1>4 DEF ShowsMix, IsGauge
<1>5. QED
  BY <1>3, <1>4 DEF ShowsMix

\* A manager that starts shows an empty cluster.
LEMMA ZeroesShowNothing ==
  /\ IsGauge([s \in RequestGauges |-> 0], RequestGauges)
  /\ IsGauge([s \in ReviewGauges |-> 0], ReviewGauges)
  /\ Shows([s \in RequestGauges |-> 0], NothingShown.requests)
  /\ Shows([s \in ReviewGauges |-> 0], NothingShown.reviews)
<1>1. ASSUME NEW s \in RequestGauges
      PROVE  Cardinality(InState(NoRequests, s)) = 0
  <2>1. InState(NoRequests, s) = {}
    BY CollectorAssumption DEF CollectorAssumption, InState, NoRequests
  <2>2. QED
    BY <2>1, FS_EmptySet
<1>2. ASSUME NEW s \in ReviewGauges
      PROVE  Cardinality(InState(NoReviews, s)) = 0
  <2>1. InState(NoReviews, s) = {}
    BY CollectorAssumption DEF CollectorAssumption, InState, NoReviews
  <2>2. QED
    BY <2>1, FS_EmptySet
<1>3. NothingShown.requests = NoRequests /\ NothingShown.reviews = NoReviews
  BY DEF NothingShown
<1>4. QED
  BY <1>1, <1>2, <1>3 DEF IsGauge, Shows

LEMMA GaugeInit == Init => GaugeInv
<1> SUFFICES ASSUME Init PROVE GaugeInv
  OBVIOUS
<1>1. pc = "idle" /\ shown = NothingShown
  BY DEF Init
<1>2. QED
  BY <1>1, ZeroesShowNothing DEF Init, GaugeInv, GaugesShowOneRound

LEMMA GaugeStep == GaugeInv /\ [Next]_vars => GaugeInv'
<1> SUFFICES ASSUME GaugeInv, [Next]_vars
             PROVE  GaugeInv'
  OBVIOUS
<1> USE DEF GaugeInv
\* A round has begun or ended at most, and what it listed is not shown yet.
<1>1. CASE /\ UNCHANGED <<gaugeVars, shown>>
           /\ {pc, pc'} \cap {"emitRequests", "emitReviews"} = {}
  BY <1>1 DEF gaugeVars, GaugesShowOneRound, Shows, ShowsMix, IsGauge
<1>2. CASE UNCHANGED <<gaugeVars, shown, listVars, pc>>
  BY <1>2 DEF gaugeVars, listVars, GaugesShowOneRound, Shows, ShowsMix, IsGauge
<1>3. ASSUME NEW n \in Requests, NEW s, MoveRequest(n, s)
      PROVE  GaugeInv'
  BY <1>2, <1>3 DEF MoveRequest
<1>4. ASSUME NEW r \in Reviews, NEW s, MoveReview(r, s)
      PROVE  GaugeInv'
  BY <1>2, <1>4 DEF MoveReview
<1>5. CASE Tick
  BY <1>2, <1>5 DEF Tick
<1>6. CASE Collect \/ FailList \/ ListRequests
  BY <1>1, <1>6 DEF Collect, FailList, AfterError, ListRequests
<1>7. CASE ListReviews
  BY <1>7 DEF ListReviews, gaugeVars, GaugesShowOneRound, Shows, ShowsMix, IsGauge
<1>8. CASE EmitRequests
  <2> DEFINE behind == Behind(requestGauge, Tally(RequestGauges, requestList))
  <2>1. /\ pc = "emitRequests"
        /\ UNCHANGED <<listVars, reviewGauge, shown>>
        /\ ShowsMix(requestGauge, shown.requests, requestList)
        /\ Shows(reviewGauge, shown.reviews)
    BY <1>8 DEF EmitRequests, GaugesShowOneRound
  <2>2. ASSUME NEW s \in behind, UNCHANGED pc,
               requestGauge' = [requestGauge EXCEPT
                                  ![s] = Tally(RequestGauges, requestList)[s]]
        PROVE  GaugeInv'
    <3>1. /\ IsGauge(requestGauge', RequestGauges)
          /\ ShowsMix(requestGauge', shown.requests, requestList)
      BY <2>1, <2>2, SetKeepsMix
    <3>2. QED
      BY <2>1, <2>2, <3>1 DEF GaugesShowOneRound, Shows, ShowsMix, IsGauge, listVars
  <2>3. ASSUME behind = {}, pc' = "emitReviews", UNCHANGED requestGauge
        PROVE  GaugeInv'
    <3>1. Shows(requestGauge, requestList)
      BY <2>3, NoneBehindShows
    <3>2. QED
      BY <2>1, <2>3, <3>1 DEF GaugesShowOneRound, Shows, ShowsMix, IsGauge, listVars
  <2>4. QED
    BY <1>8, <2>2, <2>3 DEF EmitRequests, InitRequestStates
<1>9. CASE EmitReviews
  <2> DEFINE behind == Behind(reviewGauge, Tally(ReviewGauges, reviewList))
  <2>1. /\ pc = "emitReviews"
        /\ UNCHANGED requestGauge
        /\ Shows(requestGauge, requestList)
        /\ ShowsMix(reviewGauge, shown.reviews, reviewList)
    BY <1>9 DEF EmitReviews, GaugesShowOneRound
  <2>2. ASSUME NEW s \in behind, UNCHANGED <<pc, listVars, shown>>,
               reviewGauge' = [reviewGauge EXCEPT
                                 ![s] = Tally(ReviewGauges, reviewList)[s]]
        PROVE  GaugeInv'
    <3>1. /\ IsGauge(reviewGauge', ReviewGauges)
          /\ ShowsMix(reviewGauge', shown.reviews, reviewList)
      BY <2>1, <2>2, SetKeepsMix
    <3>2. QED
      BY <2>1, <2>2, <3>1 DEF GaugesShowOneRound, Shows, ShowsMix, IsGauge, listVars
  <2>3. ASSUME behind = {}, pc' = "idle", UNCHANGED reviewGauge,
               shown' = [requests |-> requestList, reviews |-> reviewList]
        PROVE  GaugeInv'
    <3>1. Shows(reviewGauge, reviewList)
      BY <2>3, NoneBehindShows
    <3>2. shown'.requests = requestList /\ shown'.reviews = reviewList
      BY <2>3
    <3>3. QED
      BY <2>1, <2>3, <3>1, <3>2 DEF GaugesShowOneRound, Shows, IsGauge
  <2>4. QED
    BY <1>9, <2>2, <2>3 DEF EmitReviews, InitReviewStates
<1>10. CASE Restart
  <2>1. /\ pc' = "idle" /\ shown' = NothingShown
        /\ requestGauge' = [s \in RequestGauges |-> 0]
        /\ reviewGauge' = [s \in ReviewGauges |-> 0]
    BY <1>10 DEF Restart
  <2>2. QED
    BY <2>1, ZeroesShowNothing DEF GaugesShowOneRound, Shows, IsGauge
<1>11. CASE UNCHANGED vars
  BY <1>2, <1>11 DEF vars
<1>12. QED
  BY <1>3, <1>4, <1>5, <1>6, <1>7, <1>8, <1>9, <1>10, <1>11 DEF Next, CollectorStep

\* Between rounds the gauges show the two listings of one round, and while they are
\* set each shows that round or the one before, whatever fails in between.
THEOREM OneRoundShown == Spec => []GaugesShowOneRound
<1>1. GaugeInv => GaugesShowOneRound
  BY DEF GaugeInv
<1>2. QED
  BY GaugeInit, GaugeStep, <1>1, PTL DEF Spec
=============================================================================
