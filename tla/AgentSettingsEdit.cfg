\* A sub-agent and a skill, an empty prompt, no context turns; two saves at a time, any
\* number of them one after the other.
SPECIFICATION Spec
CONSTANTS
  agent = agent
  Agents = {agent}
  Subs = {agent}
  Skills = {"s"}
  KBs = {}
  Prompts = {""}
  Turns = {0}
  p1 = p1
  p2 = p2
  Saves = {p1, p2}
  None = None
INVARIANTS SettingsTypeOK BindingsExist SavedIsUsed
PROPERTIES UntouchedIsKept
SYMMETRY MCSaves
CHECK_DEADLOCK FALSE
