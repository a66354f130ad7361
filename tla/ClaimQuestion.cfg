\* The user ends a dialogue with an agent and asks something else.
SPECIFICATION ChatSpec
CONSTANTS
  Names <- MCNames
  Requests = {r1, r2}
  SessionIds = {c1}
  Anonymous = anonymous
  Targets <- MCAgent
  CeoPlans = {}
  SubPlans = {}
  Moves = {}
  None = None
INVARIANTS QuestionsAreAnswered
CHECK_DEADLOCK FALSE
