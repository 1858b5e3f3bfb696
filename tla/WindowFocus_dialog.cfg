SPECIFICATION Spec
CONSTANTS
  c1 = c1
  c2 = c2
  Client = {c1, c2}
  NoClient = NoClient
  Window <- ThreeWindows
  None = None
  Keyboard <- OneEach
  Roles = {"toplevel"}
  Allow = {}
PROPERTIES DialogHandsBack
