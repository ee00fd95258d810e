CONSTANTS
  u1 = u1  u2 = u2  a1 = a1  a2 = a2  a3 = a3  fA = fA  fB = fB
  c1 = c1  c2 = c2  c3 = c3  s1 = s1  s2 = s2  x1 = x1  x2 = x2
  Threads = {u1, u2}
  NoThread = NoThread
  ArgTypes = {a1, a2, a3}
  ParamKinds = {fA, fB}
  KindsOf <- MCKindsOf
  PythonTypes = {a1, a2, a3}
  Constants = {c1, c2, c3}
  Streams = {s1, s2}
  Contexts = {x1, x2}
  ContextOf <- MCContextOf
  Home <- MCHome
  Requests <- MCNative
  Helpers = {h1, h2}
  NoHelper = NoHelper
  NoKernel = NoKernel
  NoRequest = NoRequest
  NoItem = NoItem
  InitialBuckets = 4
SPECIFICATION Spec
INVARIANT NeverUndefined
