SPECIFICATION TimedSpec
CONSTANTS
  NoUser = NoUser
  NoRequest = NoRequest
  NoReview = NoReview
  Requests = {n1}
  Reviews = {r1}
  Users = {u1, u2}
  Callers = {u1, u2}
  ReviewersWait = FALSE
  Resync = TRUE
  Disturbances = {}
  MaxDisturbances = 0
  MaxRequests = 1
  MaxReviews = 1
  MaxSamples = 2
SYMMETRY Symmetry
INVARIANT ReviewTimedOnce
CHECK_DEADLOCK FALSE
