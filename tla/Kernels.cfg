CONSTANTS
  Items <- MCItems
  FailingOps <- MCFailing
  kDirectGatherThreshold = 3
SPECIFICATION Spec
INVARIANT Computes
INVARIANT AcceptsValid
INVARIANT BatchesBroadcast
CHECK_DEADLOCK FALSE
