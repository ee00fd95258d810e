CONSTANTS
  Calls = {s1, s2, s3}
  Cubins = {c1, c2, c3}
  Entries = {e1, e2, e3, e4}
  Absent = Absent
  Null = Null
  NoLibrary = NoLibrary
  NoCubin = NoCubin
SPECIFICATION Spec
SYMMETRY MCSymmetry

INVARIANTS NoUseAfterUnload LoadedWhileUsed
