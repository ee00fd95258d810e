----------------------------- MODULE MCLaunchPath -----------------------------
EXTENDS LaunchPath

CONSTANTS u1, u2,       \* threads
          a1, a2, a3,   \* argument types
          fA, fB,       \* parameter kinds
          c1, c2, c3,   \* constants
          s1, s2,       \* streams
          x1, x2        \* contexts

MCKindsOf == [a \in ArgTypes |-> IF a = a3 THEN fB ELSE fA]
MCContextOf == [s \in Streams |-> IF s = s1 THEN x1 ELSE x2]
MCHome == [t \in Threads |-> x1]

Call(a, c, s, lists, export) ==
  [types |-> a, consts |-> c, stream |-> s, lists |-> lists, export |-> export]

\* three profiles and three kernels of one family: both tables are rehashed
MCNative == {Call(a1, c1, s1, TRUE, FALSE), Call(a1, c2, s2, FALSE, FALSE),
             Call(a2, c3, s2, TRUE, FALSE), Call(a3, c1, s1, TRUE, FALSE)}

\* two profiles: one whose arrays are read by Python code, with an export
\* among its launches, and one with three kernels, whose table is rehashed
MCBoth == {Call(a1, c1, s1, TRUE, FALSE), Call(a1, c2, s2, FALSE, TRUE),
           Call(a3, c1, s1, TRUE, FALSE), Call(a3, c2, s2, FALSE, FALSE),
           Call(a3, c3, s2, TRUE, FALSE)}
=============================================================================
