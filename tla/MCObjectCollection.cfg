CONSTANTS
  o1 = o1
  o2 = o2
  d1 = d1
  d2 = d2
  d3 = d3
  s1 = s1
  s2 = s2
  Object <- MCObject
  Delta <- MCDelta
  Source <- MCSource
  original <- MCOriginal
  MaxOps = 2
  MaxGen = 2
  MaxFaults = 1
  None = None
SYMMETRY Symmetric
SPECIFICATION Spec
INVARIANTS ReachablePresent OriginalsNamed
PROPERTIES BackupSeesOneGeneration
\* An unloaded entry with nothing in the executor may really stop.
CHECK_DEADLOCK FALSE
