CONSTANTS
  v1 = v1
  v2 = v2
  None = None
  Gone = Gone
  Disputed = Disputed
  SlotCount = 4
  SlotsPerHour = 2
  HoursPerDay = 1
  Lookback = 1
  ArchivePolicy = TRUE
  Values <- MCValues
  Usual = v1
  MaxAcquisitions = 5
  MaxIrregular = 2
  MaxReviews = 1
SPECIFICATION Spec
INVARIANTS RetirementInvisible RoutineFollowsProvider ClosedDaysConverge
\* The month ends, and the bounds stop the provider.
CHECK_DEADLOCK FALSE
