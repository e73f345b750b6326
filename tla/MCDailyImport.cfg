CONSTANTS
  Ids <- MCIds
  Stages <- MCStages
  Configs <- AllOrNone
  LastDay = 3
  Values <- MCValues
  NewDays <- StageHidden
  Overlap = 1
  MaxAttempts = 2
  MaxChanges = 1
  MaxMoves = 1
  MaxQueue = 2
  Zones <- TwoZones
  DayLength = 2
  Marker = Marker
SPECIFICATION Spec
INVARIANTS TotalsAddUp TotalsFromTheStart SeedsCurrent
PROPERTIES WritesOwnedAndCurrent
