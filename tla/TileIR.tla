------------------------------- MODULE TileIR -------------------------------
(***************************************************************************)
(* The intermediate representation the compiler's passes rewrite           *)
(* (src/cuda/tile/_ir/ir.py and the operation classes), and what a program *)
(* in it means.  A block is a sequence of operations that ends in a jump.  *)
(* A variable is a number; so is the identity of an operation.  All        *)
(* operations have the same fields:                                        *)
(*    id     its identity           k, fn  its class, its function         *)
(*    res    the variables it defines, ins the variables it reads          *)
(*    rng    a for loop's start, stop and step, << >> for a while loop     *)
(*    par    a loop body's parameters (a for loop's induction variable     *)
(*           first)                                                        *)
(*    blocks the nested blocks      val    a constant, a divisor           *)
(*    ty     the type of what it computes ("" when nobody asks)            *)
(*                                                                         *)
(* Numbers are integers modulo 2 * Half.  Floating point values live in    *)
(* the same ring: rounding is left out, so that what a pass does to the    *)
(* ORDER and the WIRING of the operations is all that can change a         *)
(* program's meaning.                                                      *)
(***************************************************************************)
EXTENDS Integers, Sequences, FiniteSets

CONSTANTS Half,     \* integers are -Half .. Half - 1
          Fuel      \* how many loop iterations a run is followed for

LOCAL INSTANCE SequencesExt

Undef == -1001      \* a variable that has not been defined in this scope
Poison == -1002     \* the value of a MakeDummy: whatever the target likes

Wrap(x) == ((x + Half) % (2 * Half)) - Half
Truth(b) == IF b THEN 1 ELSE 0

(* F of x, and FoldLeft of SequencesExt, with x and every value folded so  *)
(* far computed before F uses it: TLC computes an argument where it is     *)
(* used, and a long program would pile those computations up.              *)
With(x, F(_)) == CHOOSE y \in {F(z) : z \in {x}} : TRUE
FoldOver(F(_, _), base, seq) ==
  LET upTo[i \in 0 .. Len(seq)] ==
        IF i = 0 THEN base ELSE With(upTo[i - 1], LAMBDA x : F(x, seq[i]))
  IN upTo[Len(seq)]

-----------------------------------------------------------------------------
(* Building operations. *)

Leaf(id, k, fn, res, ins, val) ==
  [id |-> id, k |-> k, fn |-> fn, res |-> res, ins |-> ins, rng |-> << >>,
   par |-> << >>, blocks |-> << >>, val |-> val, ty |-> ""]
Typed(op, ty) == [op EXCEPT !.ty = ty]

Jumps == {"continue", "break", "yield", "return"}
Stores == {"store", "scatter"}
IsFor(op) == op.rng # << >>
BodyVars(op) == IF IsFor(op) THEN Tail(op.par) ELSE op.par
Reads(op) == ToSet(op.ins) \cup ToSet(op.rng)

RECURSIVE Flat(_)      \* every operation of a block, nested ones included
Flat(ops) ==
  FlattenSeq([i \in DOMAIN ops |->
     << ops[i] >> \o FlattenSeq([b \in DOMAIN ops[i].blocks |-> Flat(ops[i].blocks[b])])])

(***************************************************************************)
(* Well-formedness: what bytecode generation takes for granted.  Every     *)
(* operand is defined before it is read, in this block or in one around    *)
(* it; a block ends in a jump and has no other; a for loop has no break;   *)
(* a jump carries a value for every result of what it leaves, and a loop   *)
(* starts and continues with one for every carried variable, of the same   *)
(* type while the types of variables are known (ty, else << >>).  loop and *)
(* branch are << op >>, the innermost ones around the block, or << >>.     *)
(***************************************************************************)
Fits(xs, ys, ty) ==
  Len(xs) = Len(ys) /\ (ty # << >> => \A i \in DOMAIN xs : ty[xs[i]] = ty[ys[i]])

RECURSIVE Closed(_, _, _, _, _)
Closed(ops, scope, loop, branch, ty) ==
  /\ ops # << >>
  /\ \A i \in DOMAIN ops :
       LET op == ops[i]
           seen == scope \cup UNION {ToSet(ops[j].res) : j \in 1 .. i - 1}
       IN /\ Reads(op) \subseteq seen
          /\ op.k \in Jumps <=> i = Len(ops)
          /\ op.k = "continue" => loop # << >> /\ Fits(op.ins, BodyVars(loop[1]), ty)
          /\ op.k = "break" => loop # << >> /\ ~IsFor(loop[1]) /\ Fits(op.ins, loop[1].res, ty)
          /\ op.k = "yield" => branch # << >> /\ Fits(op.ins, branch[1].res, ty)
          /\ op.k = "loop" =>
               /\ Fits(op.ins, BodyVars(op), ty) /\ Fits(op.ins, op.res, ty)
               /\ Closed(op.blocks[1], seen \cup ToSet(op.par), << op >>, << >>, ty)
          /\ op.k = "if" => \A b \in {1, 2} : Closed(op.blocks[b], seen, loop, << op >>, ty)

DefinedOnce(ops) ==
  LET flat == Flat(ops)
      defs == FoldOver(LAMBDA s, op : s \o op.res \o op.par, << >>, flat)
  IN Cardinality(ToSet(defs)) = Len(defs)

-----------------------------------------------------------------------------
(* What an operation computes, and a run of a block: the values it has     *)
(* stored so far (tr), the variables' values (env) and, once it has        *)
(* jumped, how (ctl) and with which values (out).                          *)

Holds(fn, a, b) ==
  CASE fn = "lt" -> a < b [] fn = "le" -> a <= b [] fn = "gt" -> a > b
    [] fn = "ge" -> a >= b [] fn = "eq" -> a = b [] OTHER -> a # b

Arith(fn, a, b) ==
  CASE fn = "add" -> Wrap(a + b) [] fn = "sub" -> Wrap(a - b) [] fn = "mul" -> Wrap(a * b)
    [] fn = "min" -> (IF a < b THEN a ELSE b) [] OTHER -> (IF a < b THEN b ELSE a)

Computes(op, x) ==
  IF Poison \in ToSet(x) THEN Poison
  ELSE CASE op.k = "const" -> op.val
         [] op.k = "arith" -> Arith(op.fn, x[1], x[2])
         [] op.k = "cmp" -> Truth(Holds(op.fn, x[1], x[2]))
         [] op.k = "neg" -> Wrap(-x[1])
         [] op.k = "fma" -> Wrap(x[1] * x[2] + x[3])
         [] op.k = "dummy" -> Poison
         [] op.k = "view" -> 0
         [] op.k = "astype" /\ op.ty = "bool" -> Truth(x[1] # 0)
         [] OTHER -> x[1]                    \* assign, astype, assume

Bind(env, vars, vals) ==
  [v \in DOMAIN env |-> IF \E i \in DOMAIN vars : vars[i] = v
                        THEN vals[CHOOSE i \in DOMAIN vars : vars[i] = v] ELSE env[v]]

RECURSIVE Exec(_, _), Step(_, _), Iterate(_, _, _, _)

Exec(ops, s) ==
  IF ops = << >> THEN s
  ELSE LET t == Step(Head(ops), s) IN IF t.ctl = "next" THEN Exec(Tail(ops), t) ELSE t

Step(op, s) ==
  LET x == [i \in DOMAIN op.ins |-> s.env[op.ins[i]]]
      after(t) == [t EXCEPT !.env = Bind(s.env, op.res, t.out), !.ctl = "next"]
  IN CASE Undef \in {s.env[v] : v \in Reads(op)} -> [s EXCEPT !.ctl = "undefined"]
       [] op.k \in Jumps -> [s EXCEPT !.ctl = op.k, !.out = x]
       [] op.k \in Stores -> [s EXCEPT !.tr = Append(@, x[Len(x)])]
       [] op.k = "assume" /\ x[1] # Poison /\ x[1] % op.val # 0 ->
            [s EXCEPT !.ctl = "undefined"]
       [] op.k = "if" ->
            IF x[1] = Poison THEN [s EXCEPT !.ctl = "undefined"]
            ELSE LET t == Exec(op.blocks[IF x[1] = 1 THEN 1 ELSE 2], s)
                 IN IF t.ctl = "yield" THEN after(t) ELSE [t EXCEPT !.env = s.env]
       [] op.k = "loop" ->
            LET t == Iterate(op, IF IsFor(op) THEN s.env[op.rng[1]] ELSE 0, x, s)
            IN IF t.ctl = "break" THEN after(t) ELSE [t EXCEPT !.env = s.env]
       [] OTHER -> [s EXCEPT !.env[op.res[1]] = Computes(op, x)]

(* One more iteration of a loop whose carried values are vals.  A for loop *)
(* that runs out hands them over as its results, as a break does.          *)
Iterate(op, i, vals, s) ==
  CASE IsFor(op) /\ Poison \in {s.env[v] : v \in Reads(op) \ ToSet(op.ins)} ->
         [s EXCEPT !.ctl = "undefined"]
    [] IsFor(op) /\ i >= s.env[op.rng[2]] -> [s EXCEPT !.ctl = "break", !.out = vals]
    [] s.fuel = 0 -> [s EXCEPT !.ctl = "running"]
    [] OTHER ->
         LET args == IF IsFor(op) THEN << i >> \o vals ELSE vals
             t == Exec(op.blocks[1], [s EXCEPT !.env = Bind(@, op.par, args), !.fuel = @ - 1])
         IN IF t.ctl = "continue"
            THEN Iterate(op, IF IsFor(op) THEN i + s.env[op.rng[3]] ELSE 0, t.out,
                         [t EXCEPT !.env = s.env, !.ctl = "next"])
            ELSE t

(* A run of the program from its parameters' values, which are its first   *)
(* variables: what it stores, and how it ends.                             *)
Run(ir, args) ==
  LET env == [v \in 1 .. ir.n |-> IF v <= Len(args) THEN args[v] ELSE Undef]
      t == Exec(ir.ops, [env |-> env, tr |-> << >>, ctl |-> "next", out |-> << >>,
                         fuel |-> 4 * Fuel])
  IN [tr |-> t.tr, end |-> t.ctl]
=============================================================================
