SPECIFICATION Spec
CONSTANTS a1 = a1 a2 = a2 a3 = a3 a4 = a4 s1 = s1 s2 = s2 wk = wk k1 = k1 k2 = k2 m1 = m1 m2 = m2
CONSTANT Streams = {s1, s2, wk}
CONSTANT Chunks = {k1, k2}
CONSTANT Worker = wk
CONSTANT PoolOf <- MCPoolOf
CONSTANT ChunkWords = 36
CONSTANT Starts <- MCStarts
CONSTANT MaxPending = 1
CONSTANT Arrays = {a1, a2, a3, a4}
CONSTANT DType <- MCDType
CONSTANT Shape <- MCShape
CONSTANT Base <- MCBase
CONSTANT RunsPython = {a3}
CONSTANT Divisor = 2
CONSTANT Contents <- MCContents
CONSTANT ArgLists <- MCArgLists
SYMMETRY MCSymmetry
INVARIANT KernelsFindTheirArguments
INVARIANT ConstantsAreTrue
INVARIANT EndsAreExplained
