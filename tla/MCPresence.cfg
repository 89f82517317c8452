SPECIFICATION FairSpec
CONSTANTS
  i1 = i1  i2 = i2
  Inhibitors = {i1, i2}
  MaxAway = 2
  MaxEvents = 2
INVARIANTS
  WatchIsCurrent
  ChosenStatusReturns
PROPERTIES
  InhibitedIsNotMarked
  IdlenessEnds
