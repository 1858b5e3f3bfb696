SPECIFICATION Spec
CONSTANTS
  wifi = wifi
  Worker = {wifi}
  Switched = {wifi}
  Unblocks = {wifi}
  Order <- InOrder
  Pid = {1, 2}
  NoPid = NoPid
  QueueCap = 2
  More <- TwoMore
INVARIANTS NextFrameRestarts
