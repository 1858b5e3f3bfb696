SPECIFICATION Spec
CONSTANTS
  W = 1
  H = 2
  Value = {v1, v2}
  Junk = Junk
  Trim = 1
  FbId = {i1, i2, i3}
  NoFb = NoFb
  Console = Console
  Allow = {"busy", "noflip", "gpu", "direct"}
SYMMETRY Symmetry
INVARIANTS InUseIsRegistered
PROPERTIES CompletesOnScreen
