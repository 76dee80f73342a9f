SPECIFICATION Spec
CONSTANTS
  NoUser = NoUser
  NoRequest = NoRequest
  NoReview = NoReview
  Requests = {n1}
  Reviews = {r1}
  Users = {u1, u2}
  Callers = {u1, u2}
  ReviewersWait = FALSE
  Resync = FALSE
  Disturbances = {"edit", "editReview", "delRequest", "delReview", "delJob", "foreign", "target", "age", "fault", "crash"}
  MaxDisturbances = 2
  MaxRequests = 2
  MaxReviews = 1
SYMMETRY Symmetry
INVARIANT TypeOK
INVARIANT JobNeedsApproval
PROPERTY TerminalIsFinal
PROPERTY ReviewStateIsFinal
CHECK_DEADLOCK FALSE
