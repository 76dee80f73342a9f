SPECIFICATION TimedSpec
CONSTANTS
  NoUser = NoUser
  NoRequest = NoRequest
  NoReview = NoReview
  Requests = {n1}
  Reviews = {r1}
  Users = {u1, u2}
  Callers = {u1, u2, NoUser}
  ReviewersWait = FALSE
  Resync = TRUE
  Disturbances = {"edit", "editReview", "foreign", "target", "age", "crash"}
  MaxDisturbances = 2
  MaxRequests = 1
  MaxReviews = 1
  MaxSamples = 2
SYMMETRY Symmetry
INVARIANT ApprovedMeansReviewed
INVARIANT ApprovalTimedOnce
PROPERTY DecisionStands
PROPERTY ImplementsLifecycle
PROPERTY OutcomeIsOfOwnJob
CHECK_DEADLOCK FALSE
