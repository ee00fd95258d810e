CONSTANTS
  Groups = {g1, g2}
  Summaries <- MCSummaries
  MaxEvents = 3
  MaxDepth = 2
SPECIFICATION Spec
SYMMETRY MCSymmetry
CHECK_DEADLOCK FALSE
INVARIANTS ProgramOrder AcquireOrder ReleaseOrder
