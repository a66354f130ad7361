\* Two requests, with a session id or without one (then both work on the session None), in
\* any overlap, with every move of the environment.
SPECIFICATION Spec
CONSTANTS
  Names <- MCNames
  Requests = {r1, r2}
  SessionIds = {anonymous, s1}
  Anonymous = anonymous
  Targets <- MCTargets
  CeoPlans <- MCCeoPlans
  SubPlans <- MCSubPlans
  Moves = {"message", "regenerate", "modify", "stop", "raise", "malformed", "restart", "stream"}
  None = None
INVARIANTS TypeOK CursorInPlan NodesBehindCursorRan PausesAfterEveryAgent SaysOnceHowItEnded
PROPERTIES StreamsEnd
CHECK_DEADLOCK FALSE
