SPECIFICATION FairSpec
CONSTANTS
  NoUser = NoUser
  NoRequest = NoRequest
  NoReview = NoReview
  Requests = {n1}
  Reviews = {r1}
  Users = {u1, u2}
  Callers = {u1, u2}
  ReviewersWait = TRUE
  Resync = TRUE
  Disturbances = {"edit", "editReview", "delReview", "delJob", "foreign", "target", "age", "fault", "crash"}
  MaxDisturbances = 1
  MaxRequests = 1
  MaxReviews = 1
PROPERTY RequestGetsState
PROPERTY ApprovalIsActedOn
PROPERTY ExpiredIsPruned
CHECK_DEADLOCK FALSE
