\* One conversation with an agent while the user stops, the model fails, connections
\* break and the server restarts.
SPECIFICATION ChatSpec
CONSTANTS
  Names <- MCNames
  Requests = {r1, r2, r3}
  SessionIds = {c1}
  Anonymous = anonymous
  Targets <- MCAgent
  CeoPlans = {}
  SubPlans <- MCOneAgent
  Moves = {"regenerate", "stop", "raise", "restart", "disconnect"}
  None = None
INVARIANTS BarOrSpinner AbortRefIsOpen
CHECK_DEADLOCK FALSE
