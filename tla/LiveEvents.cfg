SPECIFICATION FairSpec
CONSTANTS
  NoUser = NoUser
  NoRequest = NoRequest
  NoReview = NoReview
  Requests = {n1, n2}
  Reviews = {r1}
  Users <- SomeUsers
  Callers <- SomeCallers
  GdsPeople <- SomeGdsPeople
  GdsSessions <- SomeGdsSessions
  EntraPeople <- SomeEntraPeople
  EntraRoles <- SomeEntraRoles
  Strangers <- SomeStrangers
  ReviewersWait = FALSE
  Resync = FALSE
  Disturbances = {"edit", "retarget", "target", "delJob", "delRequest"}
  MaxDisturbances = 1
  MaxRequests = 1
  MaxReviews = 1
INVARIANT NobodyDecidesOwn
PROPERTY ReviewGetsAnswer
PROPERTY OutcomeIsReported
CHECK_DEADLOCK FALSE
