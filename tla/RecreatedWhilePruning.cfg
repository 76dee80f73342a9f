SPECIFICATION Spec
CONSTANTS
  NoUser = NoUser
  NoRequest = NoRequest
  NoReview = NoReview
  Requests = {n1}
  Reviews = {r1}
  Users = {u1, u2}
  Callers = {u1, u2}
  ReviewersWait = FALSE
  Resync = TRUE
  Disturbances = {"delRequest", "age"}
  MaxDisturbances = 2
  MaxRequests = 2
  MaxReviews = 1
SYMMETRY Symmetry
PROPERTY YoungIsNotPruned
CHECK_DEADLOCK FALSE
