SPECIFICATION FairSpec
CONSTANTS
  Requests = {q1, q2}
  Handlers = {k}
  MaxAttempts = 2
  MaxFaults = 1
  Redelivery = TRUE
  Patient = TRUE
CHECK_DEADLOCK FALSE
INVARIANTS RunningIsNewest RunningWasConfirmed
PROPERTIES CompletedStays FollowsLifecycle UpdateSettles
