CONSTANTS
  Cells <- OneCell
  MaxOps <- OneOp
  MaxGen <- MCMaxGen
  MaxFaults <- NoFaults
  Foreign = Foreign
SPECIFICATION Spec
INVARIANTS AdoptionSurvives
\* An unloaded entry with nothing in flight may really stop.
CHECK_DEADLOCK FALSE
