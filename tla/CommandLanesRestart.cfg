\* Runs that share lanes and a session, a reply, a cron job, a reload and a restart.
SPECIFICATION Spec
CONSTANTS
  a = a
  b = b
  c = c
  s1 = s1
  s2 = s2
  Jobs = {a, b, c}
  Replies = {a}
  Sessions = {s1, s2}
  Session <- MCSession
  Lane <- MCLane
  Limits <- MCLimits
  MaxRestarts = 1
  MaxReloads = 1
  None = None
INVARIANTS LanesTypeOK NoIdleSlot SlotsAreHeld OneRunPerLifecycle NothingIsCutOff
PROPERTIES JobsSettle RestartsEnd
CHECK_DEADLOCK FALSE
