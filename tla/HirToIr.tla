------------------------------ MODULE HirToIr ------------------------------
(***************************************************************************)
(* The front end's second half: running the calls of a block of HIR builds *)
(* IR (src/cuda/tile/_passes/hir2ir.py), inlining helper functions,        *)
(* propagating types and constants, and turning the local variables a loop *)
(* or a branch sets into its carried values and results                    *)
(* (src/cuda/tile/_ir/control_flow_ops.py, scope.py, PhiState in ir.py).   *)
(* The state g of it:                                                      *)
(*    vars   every variable made, [ty, con, bad, abstract]: its type, {c}  *)
(*           if it is known to be the constant c, whether its loose type   *)
(*           is invalid, and whether its location is in a helper function  *)
(*           as it was written and not, as for everything else, in the     *)
(*           copy of it that is inlined                                    *)
(*    ops, term   the current Builder: its operations, is_terminated       *)
(*    loc    the local scope: name -> variable, 0 when it has none or one  *)
(*           of an invalid type                                            *)
(*    val    the variables of HIR values      loop, br   ControlFlowInfo   *)
(*    err    "" or the exception that ended the translation                *)
(***************************************************************************)
EXTENDS AstToHir

LOCAL INSTANCE SequencesExt

Info(stored, flatten) == [stored |-> stored, flatten |-> flatten, jumps |-> << >>]
Give(g, why) == [g EXCEPT !.err = IF @ = "" THEN why ELSE @]
TypeOf(g, v) == IF v = 0 THEN "invalid" ELSE g.vars[v].ty
NoLocals == [x \in ToSet(Locals) |-> 0]

(* The newest variable, and an operation that defines it.                  *)
New(g) == Len(g.vars)
Make(g, ty, con) == [g EXCEPT !.vars = Append(@, [ty |-> ty, con |-> con, bad |-> FALSE,
                                                           abstract |-> FALSE])]
Emit(g, op) == [g EXCEPT !.ops = Append(@, op)]
Define(g, k, fn, ins, val, ty, con) ==
  LET h == Make(g, ty, con) IN Emit(h, Typed(Leaf(New(h), k, fn, << New(h) >>, ins, val), ty))
Constant(g, c, ty) == Define(g, "const", "", << >>, c, ty, {c})

(* loc: whether the new variable gets such a location.                     *)
store_var(g, x, v, loc) ==
  LET h == Define(g, "assign", "", << v >>, 0, g.vars[v].ty, g.vars[v].con)
  IN [h EXCEPT !.vars[New(h)].bad = g.vars[v].bad, !.vars[New(h)].abstract = loc,
               !.loc[x] = New(h)]

(* An operand of a call: [g, v], v a variable; a Python constant is given  *)
(* one.                                                                    *)
Resolve(g, o) ==
  IF o.con = {} THEN [g |-> g, v |-> g.val[o.id]]
  ELSE LET h == Constant(g, CHOOSE c \in o.con : TRUE, o.ty) IN [g |-> h, v |-> New(h)]

Outputs(g, info) == [i \in DOMAIN info.stored |-> g.loc[info.stored[i]]]
Sorted(S) == SelectSeq(Locals, LAMBDA x : x \in S)
Keep(seq, mask) ==
  LET kept == SelectSeq([i \in DOMAIN seq |-> i], LAMBDA i : mask[i])
  IN [j \in DOMAIN kept |-> seq[kept[j]]]

-----------------------------------------------------------------------------
(* PhiState: what is known of a variable several values flow into.         *)

Phi(g, srcs) ==
  LET tys == {TypeOf(g, srcs[i]) : i \in DOMAIN srcs}
      cons == {g.vars[srcs[i]].con : i \in DOMAIN srcs}
  IN IF Cardinality(tys) # 1 \/ "invalid" \in tys THEN [ty |-> "invalid", con |-> {}]
     ELSE [ty |-> CHOOSE t \in tys : TRUE,
           con |-> IF Cardinality(cons) = 1 THEN CHOOSE c \in cons : TRUE ELSE {}]

(* The location it gets, that of the value that came last; once the types  *)
(* disagree it stays.                                                      *)
last_loc(g, srcs) ==
  LET ty(i) == TypeOf(g, srcs[i])
      counts == SelectSeq([i \in DOMAIN srcs |-> i],
                          LAMBDA i : ty(i) # "invalid" /\ \A j \in 1 .. i - 1 : ty(j) = ty(1))
  IN srcs # << >> /\ ty(1) # "invalid" /\ g.vars[srcs[Last(counts)]].abstract

-----------------------------------------------------------------------------
(* Expressions: constants are folded; a bool meets an int as an int, and   *)
(* either a float as a float.                                              *)

Converted(g, v, ty) ==
  IF g.vars[v].ty = ty THEN [g |-> g, v |-> v]
  ELSE LET h == IF g.vars[v].con = {} THEN Define(g, "astype", "", << v >>, 0, ty, {})
                ELSE LET c == CHOOSE c \in g.vars[v].con : TRUE
                     IN Constant(g, IF ty = "bool" THEN Truth(c # 0) ELSE c, ty)
       IN [g |-> h, v |-> New(h)]

Binary(g, k, fn, x, y) ==
  LET tys == {TypeOf(g, x), TypeOf(g, y)}
      common == CASE "flt" \in tys -> "flt" [] "int" \in tys -> "int" [] OTHER -> "bool"
      a == Converted(g, x, common)
      b == Converted(a.g, y, common)
      res == IF k = "cmp" THEN "bool" ELSE common
      consts == {<< c, d >> : c \in g.vars[x].con, d \in g.vars[y].con}
      Fold(p) == IF k = "cmp" THEN Truth(Holds(fn, p[1], p[2])) ELSE Arith(fn, p[1], p[2])
  IN CASE "none" \in tys \/ (k = "bin" /\ tys = {"bool"}) -> Give(g, "rejected")
       [] g.vars[x].bad \/ g.vars[y].bad -> Give(g, "internal")
       [] consts # {} -> Constant(g, Fold(CHOOSE p \in consts : TRUE), res)
       [] OTHER -> Define(b.g, IF k = "cmp" THEN "cmp" ELSE "arith", fn, << a.v, b.v >>, 0, res, {})

-----------------------------------------------------------------------------
(* Jumps (continue_, break_, end_branch, return_): the jump carries the    *)
(* variable of every local the loop or branch may set; which of them stay  *)
(* is decided when the loop or branch is complete.  A flattened loop or    *)
(* branch has no jump.                                                     *)

Leap(g, k, ins) ==
  LET h == Make(g, "op", {})
  IN [Emit(h, Leaf(New(h), k, "", << >>, ins, 0)) EXCEPT !.term = TRUE]

EndBranch(g, result) ==
  LET outs == result \o IF g.br.flatten THEN << >> ELSE Outputs(g, g.br)
      h == IF g.br.flatten THEN g ELSE Leap(g, "yield", outs)
  IN [h EXCEPT !.br.jumps = Append(@, outs)]

LoopJump(g, k) ==
  IF g.loop.flatten THEN IF k = "break" THEN g ELSE Give(g, "internal")
  ELSE LET outs == Outputs(g, g.loop)
       IN [Leap(g, k, outs) EXCEPT !.loop.jumps = Append(@, [k |-> k, outs |-> outs])]

RECURSIVE Block(_, _), Calls(_, _), GenIf(_, _), GenLoop(_, _), Inline(_, _), Gen(_, _)

(* A block: its calls, until one ends the current builder, then its jump.  *)
Calls(cs, g0) ==
  FoldOver(LAMBDA g, c : IF g.term \/ g.err # "" THEN g ELSE Gen(c, g), g0, cs)

Block(b, g0) ==
  With(Calls(b.calls, g0), LAMBDA g :
    CASE g.term \/ g.err # "" \/ b.jump = "none" -> g
      [] b.jump = "end_branch" ->
           IF b.result = << >> THEN EndBranch(g, << >>)
           ELSE With(Resolve(g, b.result[1]), LAMBDA r : EndBranch(r.g, << r.v >>))
      [] b.jump = "return" -> Leap(g, "return", << >>)
      [] OTHER -> LoopJump(g, b.jump))

(* A nested block gets a builder and a copy of the scope of its own.       *)
Enter(g) == [g EXCEPT !.ops = << >>, !.term = FALSE]
Leave(g, in) == [in EXCEPT !.ops = g.ops, !.term = g.term, !.loc = g.loc, !.br = g.br]

Flatten(b, g) ==      \* [g, v]: the statements of a branch, in line
  With(Block(b, [g EXCEPT !.br = Info(<< >>, TRUE)]), LAMBDA h :
    [g |-> [h EXCEPT !.br = g.br],
     v |-> IF h.br.jumps \in {<< >>, << << >> >>} THEN 0 ELSE h.br.jumps[1][1]])

Masked(ops, mask) ==
  [ops EXCEPT ![Len(ops)].ins = IF ops[Len(ops)].k = "yield" THEN Keep(@, mask) ELSE @]

StoreAll(g, names, vs, locs) ==
  FoldOver(LAMBDA h, i : IF vs[i] = 0 THEN [h EXCEPT !.loc[names[i]] = 0]
                         ELSE store_var(h, names[i], vs[i], locs[i]),
           g, [i \in DOMAIN names |-> i])

MakeAll(g, phis) ==
  FoldOver(LAMBDA h, i : Make(h, phis[i].ty, phis[i].con), g, [i \in DOMAIN phis |-> i])

WithBlocks(op, par, blocks) == [op EXCEPT !.par = par, !.blocks = blocks]

(* Both branches translated: the results are the explicit one and the      *)
(* locals; those whose types disagree go.                                  *)
IfResults(c, g, cond, stored, th, el, phis, mask) ==
  LET g1 == MakeAll(Leave(g, el), Keep(phis, mask))
      \* the variable of each result, 0 for one of an invalid type
      res == [i \in DOMAIN phis |->
                IF mask[i] THEN New(g1) - Cardinality({j \in i + 1 .. Len(phis) : mask[j]}) ELSE 0]
      explicit == SubSeq(res, 1, Len(phis) - Len(stored))
      g2 == Make(g1, "op", {})
      op == WithBlocks(Leaf(New(g2), "if", "", Keep(res, mask), << cond >>, 0), << >>,
                       << Masked(th.ops, mask), Masked(el.ops, mask) >>)
      Flowing(i) == [j \in DOMAIN el.br.jumps |-> el.br.jumps[j][Len(explicit) + i]]
      g3 == StoreAll(Emit(g2, op), stored, SubSeq(res, Len(explicit) + 1, Len(res)),
                     [i \in DOMAIN stored |-> last_loc(el, Flowing(i))])
  IN IF explicit = << >> THEN g3 ELSE [g3 EXCEPT !.val[c.res] = explicit[1]]

(* "then" never yields: the rest goes after the if.                        *)
IfThenLeaves(c, g, cond, th) ==
  With(Leap(Enter(Leave(g, th)), "yield", << >>), LAMBDA y :
    With(Make(Leave(g, y), "op", {}), LAMBDA h :
      LET bare == WithBlocks(Leaf(New(h), "if", "", << >>, << cond >>, 0), << >>,
                             << th.ops, y.ops >>)
      IN With(Flatten(c.blocks[2], Emit(h, bare)), LAMBDA f : [f.g EXCEPT !.val[c.res] = f.v])))

IfElseImpl(c, g, cond, stored) ==
  With(Block(c.blocks[1], [Enter(g) EXCEPT !.br = Info(stored, FALSE)]), LAMBDA th :
    IF th.err # "" THEN th
    ELSE IF th.br.jumps = << >> THEN IfThenLeaves(c, g, cond, th)
    ELSE With(Block(c.blocks[2], [Enter(Leave(g, th)) EXCEPT !.br = th.br]), LAMBDA el :
           IF el.err # "" THEN el
           ELSE With([i \in DOMAIN el.br.jumps[1] |->
                        Phi(el, [j \in DOMAIN el.br.jumps |-> el.br.jumps[j][i]])], LAMBDA phis :
                  IfResults(c, g, cond, stored, th, el, phis,
                            [i \in DOMAIN phis |-> phis[i].ty # "invalid"]))))

GenIf(c, g) ==
  LET cond == g.val[c.args[1].id]
      known == g.vars[cond].con
  IN IF known = {}
     THEN IfElseImpl(c, g, cond, Sorted(c.blocks[1].stored \cup c.blocks[2].stored))
     ELSE With(Flatten(c.blocks[IF known = {1} THEN 1 ELSE 2], g), LAMBDA f :
            [f.g EXCEPT !.val[c.res] = f.v])

-----------------------------------------------------------------------------
(* Loops. *)

RECURSIVE NestedJump(_)      \* _have_nested_jump
NestedJump(cs) ==
  \E i \in DOMAIN cs : cs[i].op = "if" /\
    \E b \in DOMAIN cs[i].blocks :
      cs[i].blocks[b].jump # "end_branch" \/ NestedJump(cs[i].blocks[b].calls)

(* Once it is known which locals the loop carries, its jumps keep those,   *)
(* with a dummy for a value that is undefined there.                       *)
RECURSIVE Finished(_, _, _)
Finished(ops, mask, dummy) ==
  [i \in DOMAIN ops |->
     CASE ops[i].k \in {"continue", "break"} ->
            [ops[i] EXCEPT !.ins =
               Keep([j \in DOMAIN @ |-> IF @[j] = 0 THEN dummy[j] ELSE @[j]], mask)]
       [] ops[i].k = "if" ->
            [ops[i] EXCEPT !.blocks = [b \in {1, 2} |-> Finished(@[b], mask, dummy)]]
       [] OTHER -> ops[i]]

(* LoopVarState: what is known of every carried variable once the body has *)
(* been translated, from what flows into it at the start, init, and from   *)
(* the jumps.  A for loop hands over its last values, a while loop those   *)
(* of its breaks.  bad: the results' types disagree; headless: the phi has *)
(* no constant state, because no valid value came last.                    *)
Carried(g, init, jumps, isFor) ==
  [i \in DOMAIN init |->
     LET Outs(ks) == LET ms == SelectSeq(jumps, LAMBDA m : m.k \in ks)
                     IN [j \in DOMAIN ms |-> ms[j].outs[i]]
         next == Outs({"continue"})
         exits == IF isFor THEN << init[i] >> \o Outs({"continue", "break"}) ELSE Outs({"break"})
         body == TypeOf(g, init[i])
         phi == Phi(g, exits)
         res == IF exits = << >> THEN body ELSE phi.ty
     IN [ty |-> IF body = "invalid" THEN res ELSE body,
         con |-> IF res = "invalid" THEN {} ELSE phi.con,
         bad |-> res = "invalid", loc |-> last_loc(g, exits),
         clash |-> body # "invalid" /\ (\/ res \notin {"invalid", body}
                                       \/ \E j \in DOMAIN next : TypeOf(g, next[j]) # body),
         headless |-> exits = << >> \/ TypeOf(g, Last(exits)) = "invalid"]]

(* The range of a for loop, whose step is 1: [g, rng].                     *)
RangeOf(c, g) ==
  IF c.op # "for" THEN [g |-> g, rng |-> << >>]
  ELSE With(Resolve(g, c.args[1]), LAMBDA lo : With(Resolve(lo.g, c.args[2]), LAMBDA hi :
         With(Constant(hi.g, 1, "int"), LAMBDA h :
           [g |-> h, rng |-> << lo.v, hi.v, New(h) >>])))

(* The body variables follow the range's: typed as the initial values,     *)
(* never constant, and located like them; a for loop's induction variable  *)
(* is the last of them.                                                    *)
(* Reading a local that has no valid value yet is an error.                *)
BodyVar(r, i) == New(r.g) + i
Entered(c, r, stored, init) ==
  With(MakeAll(r.g, [i \in DOMAIN init |-> [ty |-> TypeOf(r.g, init[i]), con |-> {}]]
                    \o IF c.op = "for" THEN << [ty |-> "int", con |-> {}] >> ELSE << >>), LAMBDA h :
    [(IF c.op = "for" THEN [h EXCEPT !.val[c.args[3].id] = New(h)] ELSE h)
       EXCEPT !.ops = << >>, !.term = FALSE, !.loop = Info(stored, FALSE),
              !.vars = [v \in DOMAIN @ |->
                IF \E i \in DOMAIN init : BodyVar(r, i) = v /\ last_loc(r.g, << init[i] >>)
                THEN [@[v] EXCEPT !.abstract = TRUE] ELSE @[v]],
              !.loc = [x \in DOMAIN @ |->
                IF \E i \in DOMAIN stored : stored[i] = x
                THEN LET i == CHOOSE j \in DOMAIN stored : stored[j] = x
                     IN IF init[i] = 0 THEN 0 ELSE BodyVar(r, i)
                ELSE @[x]]])

(* The body, in, has been translated, and what its variables are, var: the *)
(* loop, with dummies before it for what is undefined on some way.         *)
LoopResults(c, r, stored, init, in, var, mask) ==
  LET n == Len(stored)
      jumps == in.loop.jumps
      out == [Leave(r.g, in) EXCEPT !.loop = r.g.loop]
      undefined == {i \in 1 .. n : mask[i] /\
                      (init[i] = 0 \/ \E j \in DOMAIN jumps : jumps[j].outs[i] = 0)}
      withDummies == FoldOver(LAMBDA h, i : IF i \in undefined
                                THEN Define(h, "dummy", "", << >>, 0, var[i].ty, {}) ELSE h,
                              [out EXCEPT !.vars = [v \in DOMAIN @ |->
                                 IF \E i \in 1 .. n : BodyVar(r, i) = v /\ mask[i]
                                 THEN [@[v] EXCEPT !.ty = var[v - New(r.g)].ty] ELSE @[v]]],
                              [i \in 1 .. n |-> i])
      dummy == [i \in 1 .. n |-> New(out) + Cardinality({j \in undefined : j <= i})]
      filled == [i \in 1 .. n |-> IF init[i] = 0 THEN dummy[i] ELSE init[i]]
      made == MakeAll(withDummies, Keep(var, mask))
      res == [i \in 1 .. n |-> IF mask[i]
                THEN New(made) - Cardinality({j \in i + 1 .. n : mask[j]}) ELSE 0]
      marked == [made EXCEPT !.vars = [v \in DOMAIN @ |->
                   IF \E i \in 1 .. n : res[i] = v /\ var[i].bad
                   THEN [@[v] EXCEPT !.bad = TRUE] ELSE @[v]]]
      g2 == Make(marked, "op", {})
      op == [WithBlocks(Leaf(New(g2), "loop", "", Keep(res, mask), Keep(filled, mask), 0),
                        (IF c.op = "for" THEN << BodyVar(r, n + 1) >> ELSE << >>)
                        \o Keep([i \in 1 .. n |-> BodyVar(r, i)], mask),
                        << Finished(in.ops, mask, dummy) >>) EXCEPT !.rng = r.rng]
  IN CASE \E i \in 1 .. n : var[i].clash -> Give(in, "rejected")
       [] \E i \in 1 .. n : mask[i] /\ var[i].headless -> Give(in, "internal")
       [] OTHER -> StoreAll(Emit(g2, op), stored, res, [i \in 1 .. n |-> var[i].loc])

LoopImpl(c, r, stored, init) ==
  With(Block(c.blocks[1], Entered(c, r, stored, init)), LAMBDA in :
    IF in.err # "" THEN in
    ELSE With(Carried(in, init, in.loop.jumps, c.op = "for"), LAMBDA var :
           LoopResults(c, r, stored, init, in, var, [i \in DOMAIN var |-> var[i].ty # "invalid"])))

GenLoop(c, g) ==
  LET body == c.blocks[1]
      stored == Sorted(body.stored)
  IN IF c.op # "for" /\ body.jump = "break" /\ ~NestedJump(body.calls)
     THEN \* no early return: the loop around a helper's body goes
          [Block(body, [g EXCEPT !.loop = Info(<< >>, TRUE)]) EXCEPT !.loop = g.loop]
     ELSE With(RangeOf(c, g), LAMBDA r :
            IF c.op = "for" /\ {TypeOf(r.g, r.rng[1]), TypeOf(r.g, r.rng[2])} # {"int"}
            THEN Give(g, "rejected")
            ELSE LoopImpl(c, r, stored, Outputs(r.g, Info(stored, FALSE))))

(* A helper function: its own scope, its body in the current builder.      *)
(* Only the locations of its parameters are not retargeted to this copy.   *)
Inline(c, g) ==
  With(With(Resolve(g, c.args[1]), LAMBDA a :
         Block(c.blocks[1], store_var([a.g EXCEPT !.loc = NoLocals], c.name, a.v, TRUE))), LAMBDA in :
    IF in.err # "" THEN in
    ELSE [in EXCEPT !.loc = g.loc, !.loop = g.loop, !.br = g.br,
                    !.val[c.res] = Resolve(in, c.blocks[1].result[1]).v])

Gen(c, g) ==
  LET x == Resolve(g, c.args[1])
      y == Resolve(x.g, c.args[2])
      To(h, v) == [h EXCEPT !.val[c.res] = v]
  IN CASE c.op = "load" ->
            IF g.loc[c.name] = 0 THEN Give(g, "rejected") ELSE To(g, g.loc[c.name])
       [] c.op = "set" ->
            IF TypeOf(x.g, x.v) = "invalid" THEN Give(g, "rejected") ELSE store_var(x.g, c.name, x.v, FALSE)
       [] c.op \in {"bin", "cmp"} -> LET h == Binary(y.g, c.op, c.name, x.v, y.v) IN To(h, New(h))
       [] c.op = "bool" ->
            IF TypeOf(x.g, x.v) = "none" THEN Give(g, "rejected")
            ELSE LET h == Converted(x.g, x.v, "bool") IN To(h.g, h.v)
       [] c.op \in Stores ->
            IF TypeOf(x.g, x.v) = "none" \/ x.g.vars[x.v].bad THEN Give(g, "internal")
            ELSE LET h == IF c.op = "store" THEN Define(x.g, "view", "", << >>, 0, "view", {}) ELSE x.g
                     i == Make(h, "op", {})
                     view == IF c.op = "store" THEN << New(h) >> ELSE << >>
                 IN Emit(i, Leaf(New(i), c.op, "", << >>, Append(view, x.v), 0))
       [] c.op = "if" -> GenIf(c, g)
       [] c.op \in {"loop", "for"} -> GenLoop(c, g)
       [] c.op = "apply" -> Inline(c, g)

(* The IR of a kernel: its operations, how many variables it has, their    *)
(* types, and those with an abstract location; the first variables are its *)
(* parameters.                                                             *)
Ir(hir, params) ==
  With(Block(hir.body,
         FoldOver(LAMBDA h, i : [Make(h, "int", {}) EXCEPT !.loc[params[i]] = i],
                  [vars |-> << >>, ops |-> << >>, term |-> FALSE, loc |-> NoLocals,
                   val |-> [i \in 0 .. hir.n |-> 0], loop |-> Info(<< >>, TRUE),
                   br |-> Info(<< >>, TRUE), err |-> ""],
                  [i \in DOMAIN params |-> i])), LAMBDA g :
    [ops |-> g.ops, n |-> Len(g.vars), err |-> g.err,
     ty |-> [v \in DOMAIN g.vars |-> g.vars[v].ty],
     abstract |-> {v \in DOMAIN g.vars : g.vars[v].abstract}])
=============================================================================
