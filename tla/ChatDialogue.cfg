\* One conversation with a lead or an agent, any answer regenerated or modified,
\* answers streamed; nothing goes wrong.
SPECIFICATION ChatSpec
CONSTANTS
  Names <- MCNames
  Requests = {r1, r2, r3}
  SessionIds = {c1}
  Anonymous = anonymous
  Targets <- MCLeadOrAgent
  CeoPlans = {}
  SubPlans <- MCSubPlans
  Moves = {"regenerate", "modify", "stream"}
  None = None
INVARIANTS UserIsHeard BarHasSession TokensReachTheirRequest
PROPERTIES ImplementsDialogue
CHECK_DEADLOCK FALSE
