SPECIFICATION Spec
CONSTANTS
  W = 2
  H = 2
  Value = {v1, v2}
  Junk = Junk
  Trim = 1
  FbId = {}
  NoFb = NoFb
  Console = Console
  Allow = {"busy", "noflip", "vt"}
SYMMETRY Symmetry
INVARIANTS TypeOK BackBufferCovered
PROPERTIES ShowsFrames NeverDrawsOnScreen
