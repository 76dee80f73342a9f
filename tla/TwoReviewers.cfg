SPECIFICATION Spec
CONSTANTS
  NoUser = NoUser
  NoRequest = NoRequest
  NoReview = NoReview
  Requests = {n1}
  Reviews = {r1, r2}
  Users = {u1, u2}
  Callers = {u1, u2}
  ReviewersWait = FALSE
  Resync = FALSE
  Disturbances = {"crash", "delJob", "foreign"}
  MaxDisturbances = 1
  MaxRequests = 1
  MaxReviews = 2
SYMMETRY Symmetry
INVARIANT ReviewTellsTruth
INVARIANT JobLaunchedOnce
PROPERTY DecisionStands
PROPERTY ImplementsLifecycle
CHECK_DEADLOCK FALSE
