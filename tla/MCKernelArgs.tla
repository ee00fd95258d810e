----------------------------- MODULE MCKernelArgs -----------------------------
(* Two streams of the caller that share a pool, and the worker's; arrays   *)
(* of one or two dimensions in two allocations, some of them aligned; a3   *)
(* is read by Python code.  A list takes at most nine words, so that the   *)
(* two lists of one launch and those of another one fit into a chunk.      *)
EXTENDS KernelArgs, TLC

CONSTANTS a1, a2, a3, a4, s1, s2, wk, k1, k2, m1, m2

MCPoolOf == s1 :> {k1} @@ s2 :> {k1} @@ wk :> {k2}
MCStarts == {0, 18}
MCDType == [o \in Arrays |-> "f32"]
MCShape == a1 :> << 2 >> @@ a2 :> << 4 >> @@ a3 :> << 2 >> @@ a4 :> << 2, 1 >>
MCBase == a1 :> << m1, 0 >> @@ a2 :> << m1, 3 >> @@ a3 :> << m2, 3 >> @@ a4 :> << m2, 0 >>
MCContents == {<< a3, a1, a1 >>, << a4 >>, << a1, a2 >>, << a1, a4 >>}

Array(o, dims) == [kind |-> "array", obj |-> o, dims |-> dims]
List(dims) == [kind |-> "list", obj |-> "", dims |-> dims]
MCArgLists == {<< List(<< -1 >>), Array(a2, << 0 >>), List(<< >>) >>, << Array(a3, << 0 >>) >>,
               << Array(a2, << >>), Array(a4, << 2 >>) >>, << >>}

\* The streams of the caller are alike.
MCSymmetry == Permutations(Streams \ {Worker})
=============================================================================
