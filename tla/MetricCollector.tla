--------------------------- MODULE MetricCollector ---------------------------
(***************************************************************************)
(* The metrics collector: at every tick it lists the JobRequests and then  *)
(* the JobRequestReviews of all namespaces from the manager's cache and    *)
(* sets one gauge per state to the number of objects found in it.          *)
(*                                                                         *)
(* The cache is the collector's only link to the reconcilers.  What they   *)
(* and people do reaches it as a change of the state that an object is     *)
(* cached with; versions may be skipped and names used again, so an object *)
(* may go from any state to any other.                                     *)
(***************************************************************************)
EXTENDS Naturals, FiniteSets

CONSTANTS
  Requests,         \* names of JobRequests
  Reviews,          \* names of JobRequestReviews
  RequestStates,    \* states that JobRequests are cached with
  ReviewStates,     \* states that JobRequestReviews are cached with
  Absent,           \* the state of a name that is not in use
  MaxMoves,         \* how many changes of the cache may happen
  MaxDisturbances   \* how many failed listings and restarts may happen

VARIABLES
  requestCache,  \* the cached state of each JobRequest
  reviewCache,   \* the cached state of each JobRequestReview
  tick,          \* a tick waits in the ticker's channel, which holds one
  pc,            \* what the collector is about to do
  requestList,   \* the JobRequests it listed
  reviewList,    \* the JobRequestReviews it listed
  requestGauge,  \* the gauges of JobRequests
  reviewGauge,   \* the gauges of JobRequestReviews
  shown,         \* history: the two lists of the last round that was emitted
  budget         \* changes and disturbances that may still happen

cacheVars == <<requestCache, reviewCache>>
listVars == <<requestList, reviewList>>
gaugeVars == <<requestGauge, reviewGauge>>
vars == <<cacheVars, tick, pc, listVars, gaugeVars, shown, budget>>

-----------------------------------------------------------------------------
\* The states that have a gauge.  A JobRequest that is Conflicted or has no
\* state is counted in none.
RequestGauges == {"Pending", "Approved", "Rejected", "Started",
                  "Complete", "Failed", "Malformed"}
ReviewGauges == {"Approved", "Rejected", "JobRequestMalformed",
                 "JobRequestNotFound", "Conflict"}

ASSUME CollectorAssumption ==
  /\ Absent \notin RequestStates \cup ReviewStates \cup RequestGauges \cup ReviewGauges
  /\ {MaxMoves, MaxDisturbances} \subseteq Nat

\* Mutant: the tally starts from an empty map.
NoRequestStates == {}
\* initRequestStateMap and initReviewStateMap: the states that start at zero
InitRequestStates == RequestGauges
InitReviewStates == ReviewGauges

InState(list, state) == {n \in DOMAIN list : list[n] = state}
StatesIn(list) == {list[n] : n \in DOMAIN list} \ {Absent}

\* tallyResourceState
Tally(zeroes, list) ==
  [s \in zeroes \cup StatesIn(list) |-> Cardinality(InState(list, s))]

NoRequests == [n \in Requests |-> Absent]
NoReviews == [r \in Reviews |-> Absent]
NothingShown == [requests |-> NoRequests, reviews |-> NoReviews]

-----------------------------------------------------------------------------
\* The cache changes.

MoveRequest(n, state) ==
  /\ budget.moves > 0
  /\ requestCache[n] # state
  /\ requestCache' = [requestCache EXCEPT ![n] = state]
  /\ budget' = [budget EXCEPT !.moves = @ - 1]
  /\ UNCHANGED <<reviewCache, tick, pc, listVars, gaugeVars, shown>>

MoveReview(r, state) ==
  /\ budget.moves > 0
  /\ reviewCache[r] # state
  /\ reviewCache' = [reviewCache EXCEPT ![r] = state]
  /\ budget' = [budget EXCEPT !.moves = @ - 1]
  /\ UNCHANGED <<requestCache, tick, pc, listVars, gaugeVars, shown>>

-----------------------------------------------------------------------------
\* The collector.

\* The ticker drops a tick when the one before it has not been taken.
Tick ==
  /\ ~tick
  /\ tick' = TRUE
  /\ UNCHANGED <<cacheVars, pc, listVars, gaugeVars, shown, budget>>

Collect ==
  /\ pc = "idle"
  /\ tick
  /\ tick' = FALSE
  /\ pc' = "listRequests"
  /\ UNCHANGED <<cacheVars, listVars, gaugeVars, shown, budget>>

Disturb == /\ budget.disturbances > 0
           /\ budget' = [budget EXCEPT !.disturbances = @ - 1]

\* Mutant: an error ends the collector's loop.
AfterErrorStops == "stopped"
\* An error of a listing is logged and ends the round.
AfterError == "idle"

FailList ==
  /\ pc \in {"listRequests", "listReviews"}
  /\ Disturb
  /\ pc' = AfterError
  /\ requestList' = NoRequests
  /\ UNCHANGED <<cacheVars, tick, reviewList, gaugeVars, shown>>

ListRequests ==
  /\ pc = "listRequests"
  /\ requestList' = requestCache
  /\ pc' = "listReviews"
  /\ UNCHANGED <<cacheVars, tick, reviewList, gaugeVars, shown, budget>>

ListReviews ==
  /\ pc = "listReviews"
  /\ reviewList' = reviewCache
  /\ pc' = "emitRequests"
  /\ UNCHANGED <<cacheVars, tick, requestList, gaugeVars, shown, budget>>

\* One gauge after another is set, in no order; a gauge that gets the value it
\* has is no step of its own.
Behind(gauge, totals) == {s \in DOMAIN gauge \cap DOMAIN totals : gauge[s] # totals[s]}

EmitRequests ==
  /\ pc = "emitRequests"
  /\ LET totals == Tally(InitRequestStates, requestList)
         behind == Behind(requestGauge, totals)
     IN  \/ /\ \E s \in behind : requestGauge' = [requestGauge EXCEPT ![s] = totals[s]]
            /\ UNCHANGED pc
         \/ /\ behind = {}
            /\ pc' = "emitReviews"
            /\ UNCHANGED requestGauge
  /\ UNCHANGED <<cacheVars, tick, listVars, reviewGauge, shown, budget>>

EmitReviews ==
  /\ pc = "emitReviews"
  /\ LET totals == Tally(InitReviewStates, reviewList)
         behind == Behind(reviewGauge, totals)
     IN  \/ /\ \E s \in behind : reviewGauge' = [reviewGauge EXCEPT ![s] = totals[s]]
            /\ UNCHANGED <<pc, listVars, shown>>
         \/ /\ behind = {}
            /\ pc' = "idle"
            /\ shown' = [requests |-> requestList, reviews |-> reviewList]
            /\ requestList' = NoRequests
            /\ reviewList' = NoReviews
            /\ UNCHANGED reviewGauge
  /\ UNCHANGED <<cacheVars, tick, requestGauge, budget>>

\* The manager restarts: the gauges of the new process are zero until its first
\* round, one interval later.
Restart ==
  /\ Disturb
  /\ tick' = FALSE
  /\ pc' = "idle"
  /\ requestList' = NoRequests
  /\ reviewList' = NoReviews
  /\ requestGauge' = [s \in RequestGauges |-> 0]
  /\ reviewGauge' = [s \in ReviewGauges |-> 0]
  /\ shown' = NothingShown
  /\ UNCHANGED cacheVars

-----------------------------------------------------------------------------
Init ==
  /\ requestCache = NoRequests
  /\ reviewCache = NoReviews
  /\ tick = FALSE
  /\ pc = "idle"
  /\ requestList = NoRequests
  /\ reviewList = NoReviews
  /\ requestGauge = [s \in RequestGauges |-> 0]
  /\ reviewGauge = [s \in ReviewGauges |-> 0]
  /\ shown = NothingShown
  /\ budget = [moves |-> MaxMoves, disturbances |-> MaxDisturbances]

CollectorStep ==
  \/ Collect \/ ListRequests \/ ListReviews \/ EmitRequests \/ EmitReviews

Next ==
  \/ \E n \in Requests, s \in RequestStates \cup {Absent} : MoveRequest(n, s)
  \/ \E r \in Reviews, s \in ReviewStates \cup {Absent} : MoveReview(r, s)
  \/ Tick \/ CollectorStep \/ FailList \/ Restart

\* The clock ticks and the collector's goroutine runs.
Spec == Init /\ [][Next]_vars /\ WF_vars(Tick) /\ WF_vars(CollectorStep)

-----------------------------------------------------------------------------
(* Properties *)

Shows(gauge, list) == \A s \in DOMAIN gauge : gauge[s] = Cardinality(InState(list, s))
ShowsMix(gauge, last, next) ==
  \A s \in DOMAIN gauge :
    gauge[s] \in {Cardinality(InState(last, s)), Cardinality(InState(next, s))}

\* Between rounds the gauges show one round: the JobRequests and the reviews of the
\* two listings of a single round, no family without the other and no state left
\* over from an earlier round, whatever failed in between.  While they are being
\* set, a scrape sees each gauge as of this round or of the one before.
GaugesShowOneRound ==
  /\ pc \notin {"emitRequests", "emitReviews"} =>
       Shows(requestGauge, shown.requests) /\ Shows(reviewGauge, shown.reviews)
  /\ pc = "emitRequests" =>
       ShowsMix(requestGauge, shown.requests, requestList) /\ Shows(reviewGauge, shown.reviews)
  /\ pc = "emitReviews" =>
       Shows(requestGauge, requestList) /\ ShowsMix(reviewGauge, shown.reviews, reviewList)

\* Once the cache rests, the gauges come to show it and stay so: neither a failed
\* listing, nor ticks that were dropped, nor a restart leaves them behind.
GaugesCatchUp ==
  <>[](Shows(requestGauge, requestCache) /\ Shows(reviewGauge, reviewCache))
=============================================================================
