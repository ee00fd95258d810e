CONSTANTS
  Vars = {"a", "b", "c", "f", "l", "s", "t", "x", "y"}
  Names = {"A", "B"}
  AliasGroups = {"g"}
  Slots <- MCSlots
  Numbers <- MCNumbers
  Programs <- MCPrograms
  MaxDivBy = 4
SPECIFICATION Spec
CHECK_DEADLOCK FALSE
INVARIANTS AssumptionsHold PointersKnown FixpointReached
PROPERTY AnalysisEnds
