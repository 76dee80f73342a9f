-------------------------- MODULE MCMetricCollector --------------------------
(***************************************************************************)
(* The collector over two JobRequests and one review.  Among the states    *)
(* are those without a gauge.                                              *)
(***************************************************************************)
EXTENDS MetricCollector

SomeRequestStates == {"", "Pending", "Approved", "Conflicted"}
SomeReviewStates == {"", "Approved"}
=============================================================================
