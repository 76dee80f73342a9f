SPECIFICATION Spec
CONSTANTS
  NoUser = NoUser
  NoRequest = NoRequest
  NoReview = NoReview
  Requests = {n1}
  Reviews = {r1}
  Users = {u1, u2}
  Callers = {u1, u2}
  ReviewersWait = FALSE
  Resync = TRUE
  Disturbances = {"delRequest"}
  MaxDisturbances = 1
  MaxRequests = 2
  MaxReviews = 1
SYMMETRY Symmetry
INVARIANT ApprovedMeansReviewed
CHECK_DEADLOCK FALSE
