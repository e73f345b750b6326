CONSTANTS
  None = None
\* Links
  Thermostats = {"A", "B"}
  Sensors = {"SA", "SR"}
  Parent <- MCParent
  Label <- MCLabel
  HomeKit = {"h1", "h2"}
  Cloud = {"e1", "e2"}
  Marked = {"h1"}
  Climates = {"c1", "c2"}
  Temps = {"t1", "t2"}
  Probes = {"p1", "p2"}
  ProbeSerial <- MCProbeSerial
  Names = {"n1", "n2", "n3"}
  Serials = {"x", None}
  InitialAt <- MCInitialAt
  InitialDev <- MCInitialDev
  Selections <- MCSelections
  MaxChanges = 2
\* Reads
  ReadResources <- MCResources
  ReadUnmapped = {"sensor"}
  ReadDay = 16
  WindowDays = 30
  Retries = 3
  Budget = 8
  ReadSources <- MCSources
  MaxFaults = 1
\* Filter
  Step = 2
  FilterDay = 4
  Reread = 5
  Lifetime = 5
  MaxAge = 3
  Fan <- MCFan
  Start = 3
  FilterTime = 10
  FilterChanges = 1
\* Pages
  Quantities <- MCQuantities
  Adopted = "fan"
  PageDay = 2
  Zones = {0, 1}
  Requests <- MCRequests
  Sizes = {1, 3}
  Starts <- MCStarts
  Worth <- MCWorth
  PageTime = 6
  PageChanges = 2
SPECIFICATION PartsSpec
INVARIANTS DevicesNotShared MixedClaimsProven Accounted BudgetFits DueStateProven PagesAreOneView TotalsTrue
CHECK_DEADLOCK FALSE
