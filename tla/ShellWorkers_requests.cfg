SPECIFICATION FairSpec
CONSTANTS
  wifi = wifi
  Worker = {wifi}
  Switched = {wifi}
  Unblocks = {wifi}
  Order <- InOrder
  Pid = {1}
  NoPid = NoPid
  QueueCap = 2
  More <- TwoMore
INVARIANTS TypeOK ChildrenAwaited OutcomeIsCurrent
PROPERTIES PutOffIsMadeUp ShowsOutcome
