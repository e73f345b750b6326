CONSTANTS
  t1 = t1
  t2 = t2
  r1 = r1
  r2 = r2
  s1 = s1
  s2 = s2
  z1 = z1
  z2 = z2
  None = None
  Thermostats <- OneThermostat
  Requests <- TwoRequests
  Services <- OneService
  Slots <- TwoSlots
  MaxSource = 1
  Covering <- Recovering
  Fingerprint <- BackAndForth
  MaxNow = 1
  FastWindow = 0
  Zones <- OneZone
  MaxFaults = 1
  MaxSaves = 1
SYMMETRY Alike
SPECIFICATION Spec
INVARIANTS BaselineMatchesBoundary RequestAppliedOnce ProjectionScheduled RetryArmed
PROPERTIES ReceiptsOwned NeverOlder
