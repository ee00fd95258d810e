------------------------------- MODULE Passes -------------------------------
(***************************************************************************)
(* The passes of the tile compiler (src/cuda/tile/_passes), as functions   *)
(* from IR to IR.  An IR is [ops, n, abstract]: a block, how many variables *)
(* and identities have been handed out, so that a pass makes new ones      *)
(* above n, and the variables with an abstract location (HirToIr), which   *)
(* whatever is made for one of them inherits.                              *)
(* token_order.py has a module of its own (TokenOrder); the IR here has no *)
(* loads, whose order is what tokens are for.                              *)
(***************************************************************************)
EXTENDS TileIR

LOCAL INSTANCE SequencesExt
LOCAL INSTANCE FiniteSetsExt

Unknown == -1

Apply1(m, v) == IF v \in DOMAIN m THEN m[v] ELSE v
ApplyAll(m, vs) == [i \in DOMAIN vs |-> Apply1(m, vs[i])]

RECURSIVE Rename(_, _, _)    \* operands by m, results and parameters by d
Rename(ops, m, d) ==
  [i \in DOMAIN ops |->
     [ops[i] EXCEPT !.ins = ApplyAll(m, @), !.rng = ApplyAll(m, @), !.res = ApplyAll(d, @),
                    !.par = ApplyAll(d, @), !.id = Apply1(d, @),
                    !.blocks = [b \in DOMAIN @ |-> Rename(@[b], m, d)]]]
NoNames == [v \in {} |-> v]

IdsOf(ops, Test(_)) ==
  LET flat == Flat(ops) IN {flat[i].id : i \in {j \in DOMAIN flat : Test(flat[j])}}

RECURSIVE Without(_, _)      \* the block without the operations that define these
Without(ops, dead) ==
  LET kept == SelectSeq(ops, LAMBDA op : ToSet(op.res) \cap dead = {})
  IN [i \in DOMAIN kept |->
        [kept[i] EXCEPT !.blocks = [b \in DOMAIN @ |-> Without(@[b], dead)]]]

-----------------------------------------------------------------------------
(* eliminate_assign_ops.py: whoever reads the copy reads the original.     *)

eliminate_assign_ops(ir) ==
  LET assigns == SelectSeq(Flat(ir.ops), LAMBDA op : op.k = "assign")
      orig_var == FoldOver(LAMBDA m, op : [m EXCEPT ![op.res[1]] = m[op.ins[1]]],
                           [v \in 1 .. ir.n |-> v], assigns)
      copies == {assigns[i].res[1] : i \in DOMAIN assigns}
  IN [ir EXCEPT !.ops = Rename(Without(@, copies), orig_var, NoNames)]

-----------------------------------------------------------------------------
(* dce.py.  The data-flow graph: who needs whom, the operations that       *)
(* control others among them.  cf is the identity of the innermost loop or *)
(* branch around a block, 0 for the kernel itself.                         *)

RECURSIVE Needs(_, _, _, _)
Needs(ops, loop, branch, cf) ==
  LET Flow(from, to) == {<< to[i], from[i] >> : i \in DOMAIN from}
      OnEach(vs, x) == {<< v, x >> : v \in ToSet(vs)}
      All(x, vs) == {<< x, v >> : v \in vs}
      Of(op) ==
        CASE op.k = "loop" ->
               All(op.id, {cf} \cup ToSet(op.rng))                  \* CF_NESTED, CF_COND
               \cup OnEach(BodyVars(op) \o op.res, op.id)           \* CF_DEFINED_VARS
               \cup Flow(op.ins, BodyVars(op))
               \cup (IF IsFor(op) THEN Flow(op.ins, op.res) ELSE {})
               \cup Needs(op.blocks[1], << op >>, << >>, op.id)
          [] op.k = "continue" ->
               {<< loop[1].id, cf >>} \cup Flow(op.ins, BodyVars(loop[1]))
               \cup (IF IsFor(loop[1]) THEN Flow(op.ins, loop[1].res) ELSE {})
          [] op.k = "break" -> {<< loop[1].id, cf >>} \cup Flow(op.ins, loop[1].res)
          [] op.k = "if" ->
               All(op.id, {cf, op.ins[1]}) \cup OnEach(op.res, op.id)
               \cup UNION {Needs(op.blocks[b], loop, << op >>, op.id) : b \in {1, 2}}
          [] op.k = "yield" -> Flow(op.ins, branch[1].res)
          [] OTHER -> UNION {All(r, {cf} \cup ToSet(op.ins)) : r \in ToSet(op.res)}
  IN UNION {Of(ops[i]) : i \in DOMAIN ops}

_must_keep(op) == op.k \in Stores \cup {"return"}

RECURSIVE Roots(_, _)
Roots(ops, cf) ==
  UNION {(IF _must_keep(ops[i]) THEN {cf} \cup ToSet(ops[i].ins) ELSE {})
         \cup UNION {Roots(ops[i].blocks[b], ops[i].id) : b \in DOMAIN ops[i].blocks}
         : i \in DOMAIN ops}

RECURSIVE _find_used_variables(_, _)
_find_used_variables(needs, used) ==
  LET more == used \cup {e[2] : e \in {d \in needs : d[1] \in used}}
  IN IF more = used THEN used ELSE _find_used_variables(needs, more)

Select(seq, mask) ==
  LET kept == SelectSeq([i \in DOMAIN seq |-> i], LAMBDA i : mask[i])
  IN [j \in DOMAIN kept |-> seq[kept[j]]]

(* Values of pruned operations become dummies: [ops, n] with the operation *)
(* appended, its values masked and replaced.  A dummy keeps in val whose   *)
(* place it takes.                                                         *)
WithDummies(a, op, mask, used) ==
  LET vs == Select(op.ins, mask)
      dead == SelectSeq([i \in DOMAIN vs |-> i], LAMBDA i : vs[i] \notin used)
      New(i) == a.n + Cardinality({j \in ToSet(dead) : j <= i})
      dummies == [j \in DOMAIN dead |-> Leaf(New(dead[j]), "dummy", "", << New(dead[j]) >>, << >>,
                                            vs[dead[j]])]
  IN [n |-> a.n + Len(dead),
      ops |-> Append(a.ops \o dummies,
                     [op EXCEPT !.ins = [i \in DOMAIN vs |-> IF vs[i] \in used THEN vs[i] ELSE New(i)]])]

RECURSIVE _prune_block(_, _, _, _, _)
_prune_block(ops, n, used, loop_mask, branch_mask) ==
  FoldOver(LAMBDA a, op :
    CASE op.k = "loop" ->
           IF op.id \notin used THEN a
           ELSE LET vars == BodyVars(op)
                    mask == [i \in DOMAIN vars |-> {vars[i], op.res[i]} \cap used # {}]
                    masked == [op EXCEPT !.res = Select(@, mask),
                                 !.par = (IF IsFor(op) THEN << @[1] >> ELSE << >>) \o Select(vars, mask)]
                    b == WithDummies(a, masked, mask, used)
                    body == _prune_block(op.blocks[1], b.n, used, mask, << >>)
                IN [ops |-> [b.ops EXCEPT ![Len(b.ops)].blocks = << body.ops >>], n |-> body.n]
      [] op.k \in {"continue", "break"} -> WithDummies(a, op, loop_mask, used)
      [] op.k = "if" ->
           IF op.id \notin used THEN a
           ELSE LET mask == [i \in DOMAIN op.res |-> op.res[i] \in used]
                    th == _prune_block(op.blocks[1], a.n, used, loop_mask, mask)
                    el == _prune_block(op.blocks[2], th.n, used, loop_mask, mask)
                IN [ops |-> Append(a.ops, [op EXCEPT !.res = Select(@, mask),
                                                     !.blocks = << th.ops, el.ops >>]),
                    n |-> el.n]
      [] op.k = "yield" -> [a EXCEPT !.ops = Append(@, [op EXCEPT !.ins = Select(@, branch_mask)])]
      [] OTHER -> IF ToSet(op.res) \cap used # {} \/ _must_keep(op)
                  THEN [a EXCEPT !.ops = Append(@, op)] ELSE a,
    [ops |-> << >>, n |-> n], ops)

dead_code_elimination_pass(ir) ==
  LET used == _find_used_variables(Needs(ir.ops, << >>, << >>, 0), Roots(ir.ops, 0))
      b == _prune_block(ir.ops, ir.n, used, << >>, << >>)
  IN [ops |-> b.ops, n |-> b.n,
      abstract |-> ir.abstract \cup
        IdsOf(b.ops, LAMBDA op : op.k = "dummy" /\ op.id > ir.n /\ op.val \in ir.abstract)]

-----------------------------------------------------------------------------
(* dataflow_analysis.py: for every variable a divisor of all its values    *)
(* (0, before anything is known, is divisible by everything).  One call is *)
(* one walk over the program; the analysis walks until nothing changes.    *)

RECURSIVE gcd(_, _)
gcd(a, b) == IF b = 0 THEN a ELSE gcd(b, a % b)
Abs(x) == IF x < 0 THEN -x ELSE x

unify(p, v, d) == [p EXCEPT ![v] = gcd(@, d)]
propagate(p, src, dst) ==
  FoldOver(LAMBDA q, i : unify(q, dst[i], q[src[i]]), p, [i \in DOMAIN src |-> i])

Divisor(op, p) ==
  CASE op.ty = "flt" -> 1
    [] op.k = "const" -> Abs(op.val)
    [] op.k = "arith" /\ op.fn \in {"add", "sub"} -> gcd(p[op.ins[1]], p[op.ins[2]])
    [] op.k = "arith" /\ op.fn = "mul" -> p[op.ins[1]] * p[op.ins[2]]
    [] op.k = "neg" -> p[op.ins[1]]
    [] op.k = "assign" -> p[op.ins[1]]
    [] op.k = "assume" -> op.val
    [] OTHER -> 1

RECURSIVE Analyze(_, _, _, _)
Analyze(ops, p0, loop, branch) ==
  FoldOver(LAMBDA p, op :
    CASE op.k = "loop" ->
           LET q == IF IsFor(op) THEN unify(p, op.par[1], 1) ELSE p
               r == propagate(q, op.ins, BodyVars(op))
               s == IF IsFor(op) THEN propagate(r, op.ins, op.res) ELSE r
           IN Analyze(op.blocks[1], s, << op >>, << >>)
      [] op.k = "continue" ->
           LET q == propagate(p, op.ins, BodyVars(loop[1]))
           IN IF IsFor(loop[1]) THEN propagate(q, op.ins, loop[1].res) ELSE q
      [] op.k = "break" -> propagate(p, op.ins, loop[1].res)
      [] op.k = "if" ->
           Analyze(op.blocks[2], Analyze(op.blocks[1], p, loop, << op >>), loop, << op >>)
      [] op.k = "yield" -> propagate(p, op.ins, branch[1].res)
      [] op.res = << >> -> p
      [] OTHER -> unify(p, op.res[1], Divisor(op, p)),
    p0, ops)

-----------------------------------------------------------------------------
(* propagate_divby.py: what the analysis found is written down, as an      *)
(* assumption of the target compiler, where pointers and stored values     *)
(* are defined.                                                            *)

MaxDivBy == 1024
RECURSIVE PowerOfTwo(_)
PowerOfTwo(d) == IF d = 0 THEN 0 ELSE IF d % 2 = 1 THEN 1 ELSE 2 * PowerOfTwo(d \div 2)
SmallPower(d) == LET q == PowerOfTwo(d) IN IF q > MaxDivBy THEN MaxDivBy ELSE q

(* a: the operations so far, n, and var_map.                               *)
_add_assume_divby(a, x, p) ==
  LET q == SmallPower(p[x])
  IN IF x \in DOMAIN a.m \/ q <= 1 THEN a
     ELSE [n |-> a.n + 1, m |-> [v \in DOMAIN a.m \cup {x} |-> IF v = x THEN a.n + 1 ELSE a.m[v]],
           ops |-> Append(a.ops, Leaf(a.n + 1, "assume", "", << a.n + 1 >>, << x >>, q))]

RECURSIVE _rewrite_block(_, _, _, _)
_rewrite_block(ops, params, a0, pc) ==      \* pc: the predicates, the candidates
  LET Assume(a, vs) == FoldOver(LAMBDA b, x : _add_assume_divby(b, x, pc.p), a, vs)
  IN FoldOver(LAMBDA a, op :
       LET mapped == [op EXCEPT !.ins = ApplyAll(a.m, @), !.rng = ApplyAll(a.m, @)]
           b == Assume([a EXCEPT !.ops = Append(@, mapped)],
                       SelectSeq(op.res, LAMBDA v : v \in pc.candidates))
           inner == FoldOver(LAMBDA c, i :
                      LET d == _rewrite_block(op.blocks[i], op.par, [c.a EXCEPT !.ops = << >>], pc)
                      IN [a |-> [d EXCEPT !.ops = c.a.ops], blocks |-> Append(c.blocks, d.ops)],
                      [a |-> b, blocks |-> << >>], [i \in DOMAIN op.blocks |-> i])
       IN [inner.a EXCEPT !.ops[Len(a.ops) + 1].blocks = inner.blocks],
       Assume(a0, params), ops)

add_divby_pass(ir, p) ==
  LET flat == Flat(ir.ops)
      candidates == UNION {IF flat[i].k = "scatter" THEN ToSet(flat[i].ins) ELSE {} : i \in DOMAIN flat}
      b == _rewrite_block(ir.ops, << >>, [ops |-> << >>, n |-> ir.n, m |-> NoNames],
                          [p |-> p, candidates |-> candidates])
  IN [ops |-> b.ops, n |-> b.n,
      abstract |-> ir.abstract \cup IdsOf(b.ops, LAMBDA op : op.k = "assume" /\ op.ins[1] \in ir.abstract)]

-----------------------------------------------------------------------------
(* rewrite_patterns.py: a float product that is only added to something    *)
(* becomes a fused multiply-add.  Matches are looked for in program order, *)
(* and rewritten one after the other unless an operation of the match is   *)
(* already gone or its product is read elsewhere.                          *)

IsFloat(op, fns) == op.k = "arith" /\ op.ty = "flt" /\ op.fn \in fns

FusedMulAdd(op, mul, n) ==      \* what replaces op, whose operand mul defines
  LET onRight == mul.res[1] # op.ins[1]
      acc == op.ins[IF onRight THEN 1 ELSE 2]
      target == IF onRight THEN mul.ins[1] ELSE acc
      neg == Typed(Leaf(n + 1, "neg", "", << n + 1 >>, << target >>, 0), "flt")
      ins == CASE op.fn = "add" -> << mul.ins[1], mul.ins[2], acc >>
               [] onRight -> << n + 1, mul.ins[2], acc >>
               [] OTHER -> << mul.ins[1], mul.ins[2], n + 1 >>
      fma == Typed(Leaf(op.id, "fma", "", op.res, ins, 0), "flt")
  IN IF op.fn = "add" THEN << fma >> ELSE << neg, fma >>

RECURSIVE _apply_rewrites(_, _, _)
_apply_rewrites(ops, gone, new) ==
  FlattenSeq([i \in DOMAIN ops |->
    CASE ops[i].id \in DOMAIN new -> new[ops[i].id]
      [] ops[i].id \in gone -> << >>
      [] OTHER -> << [ops[i] EXCEPT !.blocks = [b \in DOMAIN @ |-> _apply_rewrites(@[b], gone, new)]] >>])

rewrite_patterns(ir) ==
  LET flat == Flat(ir.ops)
      muls(v) == {i \in DOMAIN flat : IsFloat(flat[i], {"mul"}) /\ flat[i].res[1] = v}
      The(v) == flat[CHOOSE i \in muls(v) : TRUE]
      matches == SelectSeq(flat, LAMBDA op : IsFloat(op, {"add", "sub"}) /\
                                             muls(op.ins[1]) \cup muls(op.ins[2]) # {})
      MulOf(op) == IF muls(op.ins[1]) # {} THEN The(op.ins[1]) ELSE The(op.ins[2])
      ReadElsewhere(v, op) == \E i \in DOMAIN flat : flat[i].id # op.id /\ v \in Reads(flat[i])
      Rewritten(a, op) ==
        LET mul == MulOf(op)
            new == FusedMulAdd(op, mul, a.n)
            inputs == UNION {ToSet(new[i].ins) : i \in DOMAIN new}
        IN IF {mul.id, op.id} \cap a.gone # {} \/ ReadElsewhere(mul.res[1], op) \/ mul.res[1] \in inputs
           THEN a
           ELSE [n |-> a.n + Len(new) - 1, gone |-> a.gone \cup {mul.id, op.id},
                 new |-> [i \in DOMAIN a.new \cup {op.id} |-> IF i = op.id THEN new ELSE a.new[i]]]
      b == FoldOver(Rewritten, [n |-> ir.n, gone |-> {}, new |-> NoNames], matches)
  IN [ir EXCEPT !.ops = _apply_rewrites(@, b.gone, b.new), !.n = b.n]

-----------------------------------------------------------------------------
(* code_motion.py.  The state h of the walk: stack, the new block of every *)
(* block around, and def_depth.  A block is taken off the stack with how   *)
(* mobile it is (0 IMMOVABLE, 1 CAN_MOVE_WITH_LOOP, 2 CAN_MOVE) and the    *)
(* depth its operations could at most be hoisted to.                       *)

MinOf(a, b) == IF a < b THEN a ELSE b
MaxOf(a, b) == IF a < b THEN b ELSE a

(* _DependencyInfo: what an operation's dependencies, defined at these     *)
(* depths, say of where it can go.                                         *)
\* Mutant: what the block itself defines does not count.
update_Free(dep, at, depth) ==
  [stay |-> dep.stay, max |-> Max({dep.max} \cup {d \in at : d < depth})]
\* Mutant: off by one block.
update_Near(dep, at, depth) ==
  [stay |-> dep.stay \/ \E d \in at : d >= depth - 1,
   max |-> Max({dep.max} \cup {d \in at : d < depth})]
update(dep, at, depth) ==
  [stay |-> dep.stay \/ \E d \in at : d >= depth,
   max |-> Max({dep.max} \cup {d \in at : d < depth})]

RECURSIVE _hoist(_, _, _)
_hoist(ops, h0, is_loop) ==      \* [h, ops, mobility, min]
  LET depth == Len(h0.stack)
      Depths(h, vs) == {h.def_depth[v] : v \in vs}
      \* one operation: its nested blocks, then what they and it depend on
      Visit(h, op) ==
        CASE op.k = "loop" ->
               LET b == _hoist(op.blocks[1],
                          [h EXCEPT !.def_depth = [v \in DOMAIN @ |->
                             IF v \in ToSet(op.par) THEN depth + 1 ELSE @[v]]], TRUE)
               IN [h |-> b.h, op |-> [op EXCEPT !.blocks = << b.ops >>],
                   mobility |-> IF b.mobility = 0 THEN 0 ELSE 2, pinned |-> b.mobility = 0,
                   at |-> Depths(b.h, ToSet(op.ins)) \cup {b.min}]
          [] op.k = "if" ->
               LET t == _hoist(op.blocks[1], h, FALSE)
                   e == _hoist(op.blocks[2], t.h, FALSE)
               IN [h |-> e.h, op |-> [op EXCEPT !.blocks = << t.ops, e.ops >>],
                   mobility |-> MinOf(t.mobility, e.mobility),
                   pinned |-> t.mobility # 2 \/ e.mobility # 2,
                   at |-> Depths(h, ToSet(op.ins)) \cup {t.min, e.min}]
          [] OTHER ->
               [h |-> h, op |-> op,
                mobility |-> CASE _must_keep(op) -> 0
                               [] op.k \in {"continue", "break"} -> 1
                               [] OTHER -> 2,
                pinned |-> _must_keep(op) \/ op.k \in Jumps,
                at |-> IF _must_keep(op) \/ op.k \in {"continue", "break"} THEN {}
                       ELSE Depths(h, ToSet(op.ins))]
      Place(a, op) ==
        LET v == Visit(a.h, op)
            dep == update([stay |-> ~is_loop \/ v.pinned, max |-> 0], v.at, depth)
            \* out of one loop body after the other
            reach == {d \in dep.max .. depth :
                        \A e \in d + 1 .. depth : v.h.stack[e + 1].is_loop}
            target == IF dep.stay THEN depth ELSE Min(reach)
        IN [h |-> [v.h EXCEPT !.stack[target + 1].ops = Append(@, v.op),
                              !.def_depth = [x \in DOMAIN @ |->
                                 IF x \in ToSet(op.res) THEN target ELSE @[x]]],
            mobility |-> MinOf(a.mobility, v.mobility),
            min |-> IF dep.stay THEN MaxOf(a.min, dep.max) ELSE a.min]
      b == FoldOver(Place, [h |-> [h0 EXCEPT !.stack = Append(@, [ops |-> << >>, is_loop |-> is_loop])],
                            mobility |-> 2, min |-> 0], ops)
  IN [h |-> [b.h EXCEPT !.stack = SubSeq(@, 1, depth)], ops |-> b.h.stack[depth + 1].ops,
      mobility |-> b.mobility, min |-> b.min]

hoist_loop_invariants(ir) ==
  [ir EXCEPT !.ops = _hoist(@, [stack |-> << >>, def_depth |-> [v \in 1 .. ir.n |-> 0]], FALSE).ops]

-----------------------------------------------------------------------------
(* unhoist_partition_views.py: a store gets a copy of its view in its own  *)
(* block.                                                                  *)

RECURSIVE _unhoist(_, _)
_unhoist(ops, n) ==
  FoldOver(LAMBDA a, op :
    LET here == \E i \in DOMAIN a.ops : ToSet(a.ops[i].res) \cap ToSet(op.ins) # {}
                                         /\ a.ops[i].k = "view"
        copy == Leaf(a.n + 1, "view", "", << a.n + 1 >>, << >>, 0)
        nested == FoldOver(LAMBDA c, b : LET d == _unhoist(b, c.n)
                                         IN [n |-> d.n, blocks |-> Append(c.blocks, d.ops)],
                           [n |-> a.n, blocks |-> << >>], op.blocks)
    IN IF op.k = "store" /\ ~here
       THEN [n |-> a.n + 1, ops |-> a.ops \o << copy, [op EXCEPT !.ins[1] = a.n + 1] >>]
       ELSE [n |-> nested.n, ops |-> Append(a.ops, [op EXCEPT !.blocks = nested.blocks])],
    [ops |-> << >>, n |-> n], ops)

unhoist_partition_views(ir) == _unhoist(ir.ops, ir.n) @@ ir

-----------------------------------------------------------------------------
(* loop_split.py: a for loop of step 1 with exactly one branch on how its  *)
(* induction variable compares to a value from outside becomes two loops   *)
(* without the branch.  (There are no assignments left to look through.)   *)

\* Mutant: the comparison negated, not turned around.
Flip_Not(fn) ==
  CASE fn = "ge" -> "lt" [] fn = "gt" -> "le" [] fn = "le" -> "gt" [] fn = "lt" -> "ge"
Flip(fn) == CASE fn = "ge" -> "le" [] fn = "gt" -> "lt" [] fn = "le" -> "ge" [] fn = "lt" -> "gt"

(* Walking the program: def_depth (Unknown for a variable no operation     *)
(* seen so far defines), the comparisons of the block, and the splits      *)
(* found, [loop, branch, cmp, rhs].  A lookup that fails ends it.          *)
RECURSIVE _find_splittable_loops(_, _, _, _)
_find_splittable_loops(ops, a0, depth, loop) ==      \* loop: << >>, or << a good for loop >>
  LET iv == IF loop = << >> THEN Unknown ELSE loop[1].par[1]
      Compare(a, op) ==
        LET other == IF op.ins[1] = iv THEN op.ins[2] ELSE op.ins[1]
            fn == IF op.ins[1] = iv THEN op.fn ELSE Flip(op.fn)
        IN CASE iv \notin ToSet(op.ins) \/ op.fn \in {"eq", "ne"} -> a
             [] a.def_depth[other] = Unknown -> [a EXCEPT !.err = "internal"]
             [] a.def_depth[other] < depth ->
                  [a EXCEPT !.comparisons = @ \cup {[res |-> op.res[1], cmp |-> fn, rhs |-> other]}]
             [] OTHER -> a
      Nested(a, block, around) ==
        [_find_splittable_loops(block, [a EXCEPT !.comparisons = {}], depth + 1, around)
           EXCEPT !.comparisons = a.comparisons]
      Visit(a, op) ==
        CASE op.k = "cmp" -> Compare(a, op)
          [] op.k = "if" ->
               LET found == {[loop |-> loop[1].id, branch |-> op.id, cmp |-> c.cmp, rhs |-> c.rhs] :
                               c \in {d \in a.comparisons : d.res = op.ins[1]}}
               IN Nested(Nested([a EXCEPT !.splits = @ \cup found], op.blocks[1], << >>),
                         op.blocks[2], << >>)
          [] op.k = "loop" ->
               Nested(a, op.blocks[1],
                      IF IsFor(op) /\ op.rng[3] \in a.ones THEN << op >> ELSE << >>)
          [] OTHER -> a
      Define(a, op) == [a EXCEPT !.def_depth = [v \in DOMAIN @ |->
                          IF v \in ToSet(op.res) THEN depth ELSE @[v]]]
  IN FoldOver(LAMBDA a, op : IF a.err # "" THEN a ELSE Define(Visit(a, op), op), a0, ops)

(* _clone_loop: the body with the branch replaced by one of its blocks.    *)
RECURSIVE Flattened(_, _, _)
Flattened(body, branch, side) ==
  IF body = << >> THEN << >>
  ELSE IF Head(body).id # branch \/ Head(body).k # "if"
       THEN << Head(body) >> \o Flattened(Tail(body), branch, side)
       ELSE LET kept == Head(body).blocks[side]
                jump == Last(kept)
                m == [v \in ToSet(Head(body).res) |->
                        jump.ins[CHOOSE i \in DOMAIN jump.ins : Head(body).res[i] = v]]
            IN CASE jump.k = "continue" -> kept      \* the rest of the body is skipped
                 [] jump.k = "yield" ->
                      Front(kept) \o Rename(Flattened(Tail(body), branch, side), m, NoNames)
                 [] OTHER -> kept \o Flattened(Tail(body), branch, side)

_split_loop(op, s, n, abstract) ==      \* [ops, n, abstract]
  LET adjust == s.cmp \in {"gt", "le"}
      one == Typed(Leaf(n + 1, "const", "", << n + 1 >>, << >>, 1), "int")
      plus == Typed(Leaf(n + 2, "arith", "add", << n + 2 >>, << s.rhs, n + 1 >>, 0), "int")
      point == IF adjust THEN n + 2 ELSE s.rhs
      stop == Typed(Leaf(n + 3, "arith", "min", << n + 3 >>, << op.rng[2], point >>, 0), "int")
      start == Typed(Leaf(n + 4, "arith", "max", << n + 4 >>, << op.rng[1], point >>, 0), "int")
      first == IF s.cmp \in {"ge", "gt"} THEN 2 ELSE 1
      \* the second loop has variables of its own
      shift == n + 4 + Len(op.res)
      inner == UNION {ToSet(o.res) \cup ToSet(o.par) \cup {o.id} : o \in ToSet(Flat(<< op >>))}
               \ ToSet(op.res)
      copy == [v \in inner |-> v + shift]
      middle == [i \in DOMAIN op.res |-> n + 4 + i]
      loop1 == [op EXCEPT !.rng[2] = n + 3, !.res = middle,
                          !.blocks = << Flattened(@[1], s.branch, first) >>]
      loop2 == [Rename(<< [op EXCEPT !.blocks = << Flattened(@[1], s.branch, 3 - first) >>,
                                     !.ins = << >>, !.rng = << >>] >>, copy, copy)[1]
                  EXCEPT !.rng = [op.rng EXCEPT ![1] = n + 4], !.ins = middle]
  IN [ops |-> (IF adjust THEN << one, plus >> ELSE << >>) \o << stop, start, loop1, loop2 >>,
      n |-> n + shift, abstract |-> abstract \cup {copy[v] : v \in inner \cap abstract}]

RECURSIVE _apply_splits(_, _, _)
_apply_splits(ops, splits, ir) ==
  FoldOver(LAMBDA a, op :
    LET nested == FoldOver(LAMBDA c, b : LET d == _apply_splits(b, splits, c.ir)
                                         IN [ir |-> d, blocks |-> Append(c.blocks, d.ops)],
                           [ir |-> a, blocks |-> << >>], op.blocks)
        here == [op EXCEPT !.blocks = nested.blocks]
        mine == {s \in splits : s.loop = op.id}
        done == IF op.k = "loop" /\ mine # {}
                THEN _split_loop(here, CHOOSE s \in mine : TRUE, nested.ir.n, nested.ir.abstract)
                ELSE [nested.ir EXCEPT !.ops = << here >>]
    IN [done EXCEPT !.ops = a.ops \o @],
    [ir EXCEPT !.ops = << >>], ops)

(* The split program, and "internal" if looking for loops to split failed. *)
split_loops(ir) ==
  LET flat == Flat(ir.ops)
      ones == IdsOf(ir.ops, LAMBDA op : op.k = "const" /\ op.val = 1)
      found == _find_splittable_loops(ir.ops, [def_depth |-> [v \in 1 .. ir.n |-> Unknown],
                 comparisons |-> {}, splits |-> {}, ones |-> ones, err |-> ""], 0, << >>)
      single == {s \in found.splits : Cardinality({t \in found.splits : t.loop = s.loop}) = 1}
  IN IF found.err # "" THEN ir @@ [err |-> found.err]
     ELSE _apply_splits(ir.ops, single, ir) @@ [err |-> ""]
=============================================================================
