CONSTANTS
  Cells <- MCCells
  MaxOps <- MCMaxOps
  MaxGen <- MCMaxGen
  MaxFaults <- MCMaxFaults
  Foreign = Foreign
SPECIFICATION FairSpec
INVARIANTS WriteAhead ProofMatchesNative WarmCacheIsDurable
PROPERTIES IntentSurvives ProofNeedsIntent OperationRunsToCompletion ImplementsLedger OperationSettles
\* An unloaded entry with nothing in flight may really stop.
CHECK_DEADLOCK FALSE
