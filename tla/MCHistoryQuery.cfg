CONSTANTS
  Cells = 2
  MaxOps = 1
  MaxHolds = 2
  MaxFaults = 2
  None = None
SPECIFICATION Spec
PROPERTIES ServedIsCurrent DisputedNotServed ReadyIsNative
\* A journal whose marker was lost or whose root is invalidated stays blocked.
CHECK_DEADLOCK FALSE
