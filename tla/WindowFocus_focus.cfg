SPECIFICATION Spec
CONSTANTS
  c1 = c1
  c2 = c2
  Client = {c1, c2}
  NoClient = NoClient
  Window <- ThreeWindows
  None = None
  Keyboard <- OnlyTheFirst
  Roles = {"toplevel"}
  Allow = {"minimize"}
INVARIANTS TypeOK FocusIsLive KbdHeard OneListener KbdFollowsFocus HiddenHasNoFocus StackOnce
PROPERTIES FocusPassesOn
