SPECIFICATION Spec
CONSTANTS
  Fd = {f1}
  Surf = {s1, c1}
  Cursor = {c1}
  Id = {i1, i2}
  Null = Null
  Keep = Keep
  Own = Own
  Allow = {"gpu", "vt", "screenshot"}
SYMMETRY Symmetry
INVARIANTS
  InUseIsHeld
  NoStrandedRelease
