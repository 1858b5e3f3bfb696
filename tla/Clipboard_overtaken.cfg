SPECIFICATION Spec
CONSTANTS
  App = {a1}
  Daemon = Daemon
  Mime = {text, image}
  Text = text
  TypeSets <- AllTypes
  Value = {v1, v2}
  Nothing = Nothing
  Part = Part
  Junk = Junk
  HistMax = 2
  MaxCopies = 2
  MaxOffers = 6
  MaxOwn = 4
  MaxEvents = 0
INVARIANT LatestCopyWins
CHECK_DEADLOCK FALSE
