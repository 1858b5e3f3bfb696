SPECIFICATION FairSpec
CONSTANTS
  App = {a1}
  Daemon = Daemon
  Mime = {text, image}
  Text = text
  TypeSets <- TypesLaterOrAll
  Value = {v1, v2}
  Nothing = Nothing
  Part = Part
  Junk = Junk
  HistMax = 2
  MaxCopies = 2
  MaxOffers = 6
  MaxOwn = 4
  MaxEvents = 1
INVARIANTS TypeOK OffersAccounted Servable OwnerAgrees HeadIsCurrent KeepsLatest
PROPERTY Settles
CHECK_DEADLOCK FALSE
