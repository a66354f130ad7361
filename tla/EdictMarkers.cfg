\* Four stages, markers of two units, a window of three of them, pieces of up to three.
SPECIFICATION Spec
CONSTANTS
  Stages <- MCStages
  MarkerLength = 2
  WindowSize = 6
  MaxDelta = 3
  MaxLength = 10
  None = None
INVARIANTS PhasesInOrder StageIsCurrent ReportCompletes LogFollowsPhases
CHECK_DEADLOCK FALSE
