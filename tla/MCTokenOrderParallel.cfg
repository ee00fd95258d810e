CONSTANTS
  Groups = {g1, g2}
  Summaries <- MCSummaries
  MaxEvents = 2
  MaxDepth = 1
SPECIFICATION Spec
SYMMETRY MCSymmetry
CHECK_DEADLOCK FALSE
INVARIANT ParallelStoresWait
