CONSTANTS
  Ids <- MCIds
  Stages <- MCStages
  Configs <- OneConfig
  LastDay = 3
  Values <- MCValues
  NewDays <- StageShown
  Overlap = 1
  MaxAttempts = 1
  MaxChanges = 0
  MaxMoves = 1
  MaxQueue = 3
  Zones <- TwoZones
  DayLength = 2
  Marker = Marker
SPECIFICATION Spec
INVARIANTS SeedsBeforeWindow
