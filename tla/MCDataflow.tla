------------------------------ MODULE MCDataflow ------------------------------
(***************************************************************************)
(* Kernels with loops: numbers that a loop multiplies, subtracts and       *)
(* converts; sums that wrap; two arrays that change places in a loop, one  *)
(* through a chain of variables; arrays taken from a list, and a pointer   *)
(* of which nothing is known.                                              *)
(***************************************************************************)
EXTENDS Dataflow, TLC

MCSlots == 0 .. 1
MCNumbers == {0, 2, 3, 4}

U(k, fn, edge, dst, x, y, n, half) ==
  [k |-> k, fn |-> fn, edge |-> edge, dst |-> dst, x |-> x, y |-> y, n |-> n, half |-> half,
   integral |-> TRUE]
Copy(edge, x, dst) == U("copy", "", edge, dst, x, x, 0, 1)
Const(dst, n) == U("const", "", 0, dst, dst, dst, n, 4)
Arith(fn, dst, x, y) == U("arith", fn, 0, dst, x, y, 0, 4)
Unary(fn, dst, x) == U("unary", fn, 0, dst, x, x, 0, 4)
AsType(dst, x, half) == U("astype", "", 0, dst, x, x, 0, half)
Float(u) == [u EXCEPT !.integral = FALSE]
Offset(fn, dst, x, y, bytes) == U("offset", fn, 0, dst, x, y, bytes, 8)
Item(dst, x, n) == U("item", "", 0, dst, x, x, n, 1)
Assume(dst, x, n) == U("assume", "", 0, dst, x, x, n, 1)
Loaded(dst) == U("any", "", 0, dst, dst, dst, 0, 1)

Word(static, n) == [static |-> static, n |-> n]
Array(groups, internal, align, extent) ==
  [groups |-> groups, internal |-> internal, words |-> 0 :> Word(FALSE, align) @@ 1 :> extent]

A == Array({}, FALSE, 4, Word(TRUE, 2))
B == Array({"g"}, TRUE, 2, Word(FALSE, 3))
Kernel(params, flow) ==
  [params |-> params, flow |-> flow, arrays |-> "A" :> A @@ "B" :> B,
   lists |-> [nm \in Names |-> [groups |-> {}, internal |-> FALSE,
                                element |-> Array({"g"}, FALSE, 4, Word(FALSE, 2))]]]
Par(kind, of, n) == [kind |-> kind, of |-> of, n |-> n]

Multiply == Kernel("s" :> Par("scalar", "A", 0),
  << Const("x", 2), Copy(1, "x", "b"), Arith("mul", "t", "b", "s"),
     Arith("sub", "c", "t", "x"), Copy(2, "c", "b") >>)
Convert == Kernel("s" :> Par("scalar", "A", 0),
  << Const("x", 0), Copy(1, "x", "b"), Assume("a", "s", 4), Unary("neg", "c", "a"),
     AsType("t", "c", 1), Float(AsType("f", "t", 1)), Copy(2, "c", "b") >>)
Sums == Kernel("s" :> Par("scalar", "A", 0),
  << Assume("a", "s", 2), Const("x", 6), Arith("sub", "t", "a", "x"), Unary("abs", "c", "t"),
     Arith("add", "b", "c", "x"), Float(Arith("mul", "f", "b", "b")) >>)
Swap == Kernel("x" :> Par("array", "A", 0) @@ "s" :> Par("array", "A", 1) @@ "y" :> Par("array", "B", 0),
  << Copy(1, "x", "a"), Copy(1, "y", "b"), Offset("single", "c", "a", "s", 2),
     Copy(2, "b", "a"), Copy(2, "a", "b") >>)
Chain == Kernel("x" :> Par("array", "A", 0) @@ "y" :> Par("array", "B", 0),
  << Copy(1, "x", "a"), Copy(1, "x", "b"), Copy(1, "x", "c"),
     Copy(2, "b", "a"), Copy(2, "c", "b"), Copy(2, "y", "c") >>)
Take == Kernel("x" :> Par("list", "A", 0) @@ "y" :> Par("array", "B", 0),
  << Copy(1, "x", "l"), Item("a", "l", 0), Item("s", "l", 1), Offset("single", "c", "a", "s", 3),
     Offset("tile", "t", "y", "s", 1) >>)
Load == Kernel("x" :> Par("array", "A", 0) @@ "y" :> Par("list", "B", 0),
  << Loaded("a"), Copy(1, "a", "b"), Copy(2, "x", "b"), Copy(3, "y", "b") >>)

MCPrograms == {Multiply, Convert, Sums, Swap, Chain, Take, Load}
=============================================================================
