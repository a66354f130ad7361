\* One conversation with the CEO: two departments, an agent each, summary, "done",
\* the next question; any answer may be regenerated.
SPECIFICATION ChatSpec
CONSTANTS
  Names <- MCNames
  Requests = {r1, r2, r3, r4, r5, r6}
  SessionIds = {c1}
  Anonymous = anonymous
  Targets <- MCCeo
  CeoPlans <- MCCeoPlans
  SubPlans <- MCOneAgent
  Moves = {"regenerate"}
  None = None
INVARIANTS OneTaskPerConversation AnnouncedNodeRuns DispatchedDepartmentIsNext FinalMeansNothingNext
PROPERTIES ImplementsDialogue
CHECK_DEADLOCK FALSE
