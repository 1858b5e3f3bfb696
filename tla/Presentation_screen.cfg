SPECIFICATION FairSpec
CONSTANTS
  Fd = {f1}
  Surf = {s1}
  Cursor = {}
  Id = {i1, i2}
  Null = Null
  Keep = Keep
  Own = Own
  Allow = {"gpu", "direct", "vt", "leave"}
INVARIANTS
  TypeOK
  InUseIsHeld
  ObjectTablesAgree
PROPERTIES
  BatchNeverGrows
  HiddenCallbacksHeld
  BuffersLeaveByRequest
  CallbackFires
  ReplacedBufferReturns
  DamageIsDrawn
