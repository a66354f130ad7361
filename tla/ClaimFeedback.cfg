\* The user asks the sales department, and has its second agent's answer modified.
SPECIFICATION ChatSpec
CONSTANTS
  Names <- MCNames
  Requests = {r1, r2, r3, r4}
  SessionIds = {c1}
  Anonymous = anonymous
  Targets <- MCSalesLead
  CeoPlans = {}
  SubPlans <- MCLeadsThenQuote
  Moves = {"modify"}
  None = None
INVARIANTS UserIsHeard
CHECK_DEADLOCK FALSE
