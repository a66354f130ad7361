\* Two conversations, one is stopped.
SPECIFICATION ChatSpec
CONSTANTS
  Names <- MCNames
  Requests = {r1, r2}
  SessionIds = {c1, c2}
  Anonymous = anonymous
  Targets <- MCAgent
  CeoPlans = {}
  SubPlans = {}
  Moves = {"stop"}
  None = None
PROPERTIES StopIsLocal
CHECK_DEADLOCK FALSE
