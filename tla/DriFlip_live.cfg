SPECIFICATION FairSpec
CONSTANTS
  W = 1
  H = 1
  Value = {v1, v2}
  Junk = Junk
  Trim = 1
  FbId = {i1, i2}
  NoFb = NoFb
  Console = Console
  Allow = {"busy", "noflip", "fail", "gpu", "vt", "screenshot"}
PROPERTIES PresentCompletes
