CONSTANTS
  Procs = {p1, p2}
  NoProc = NoProc
  Keys = {1, 2}
  NoKey = NoKey
  Size <- MCSize
  Limit = 2
  Times = {1, 2}
  Absent = Absent
  Files = {f1, f2}
  NoFile = NoFile
  RowLimit = 1
  RowGrowth = 2
SPECIFICATION FairSpec
INVARIANTS NoStaleLock OverByOneRow
PROPERTIES OldestFirst CallReturns
