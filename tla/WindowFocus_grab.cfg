SPECIFICATION Spec
CONSTANTS
  c1 = c1
  c2 = c2
  Client = {c1, c2}
  NoClient = NoClient
  Window <- TwoWindows
  None = None
  Keyboard <- LateKeyboard
  Roles = {"toplevel", "dialog", "panel"}
  Allow = {"grab", "minimize", "desktop", "virtual", "vt"}
INVARIANTS KbdHeard
PROPERTIES FocusPassesOn
