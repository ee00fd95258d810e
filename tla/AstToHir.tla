------------------------------ MODULE AstToHir ------------------------------
(***************************************************************************)
(* The front end's first half (src/cuda/tile/_passes/ast2hir.py): a        *)
(* Python function becomes a block of calls of stub functions.  A context  *)
(* carries what _Context and its current block hold:                       *)
(*    n       the next value id                                            *)
(*    calls, jump, result, stored   the current block                      *)
(*    loops   parent_loops          entry  is this the kernel itself       *)
(*    res     the operand the last expression evaluated to                 *)
(*    err     "" or why the function was given up: "rejected" is a         *)
(*            TileSyntaxError, "internal" an assertion that failed         *)
(* An operand is a value [id |-> n, con |-> {}] or a constant              *)
(* [id |-> -1, con |-> {c}] of some type.                                  *)
(***************************************************************************)
EXTENDS PyProgram

LOCAL INSTANCE SequencesExt

Con(c, ty) == [id |-> -1, con |-> {c}, ty |-> ty]
NoneValue == Con(0, "none")

NewContext(n, entry) ==
  [n |-> n, calls |-> << >>, jump |-> "none", result |-> << >>, stored |-> {},
   loops |-> << >>, entry |-> entry, res |-> NoneValue, err |-> ""]

Fail(cx, why) == [cx EXCEPT !.err = IF @ = "" THEN why ELSE @]

(* A nested block, [blk, cx]: the block, and the context around it with    *)
(* what the block, in, has changed.                                        *)
Nested(cx, in) ==
  [blk |-> [calls |-> in.calls, jump |-> in.jump, result |-> in.result, stored |-> in.stored],
   cx |-> [cx EXCEPT !.n = in.n, !.stored = @ \cup in.stored, !.res = in.res, !.err = in.err]]
new_block(cx, Fill(_)) ==
  Nested(cx, Fill([cx EXCEPT !.calls = << >>, !.jump = "none", !.result = << >>, !.stored = {}]))

(* ctx.call: the call's result is a new value, the context's res.          *)
Call(cx, op, name, args, blocks) ==
  [cx EXCEPT !.n = @ + 1, !.res = [id |-> cx.n, con |-> {}, ty |-> ""],
             !.calls = Append(@, [op |-> op, name |-> name, args |-> args,
                                  blocks |-> blocks, res |-> cx.n])]

set_block_jump(cx, j) ==
  IF cx.jump # "none" THEN Fail(cx, "internal") ELSE [cx EXCEPT !.jump = j]
with_result(cx) == [set_block_jump(cx, "end_branch") EXCEPT !.result = << cx.res >>]
\* Mutant: over a jump that is there.
or_jump_Always(cx, j) == set_block_jump(cx, j)
or_jump(cx, j) == IF cx.jump = "none" THEN [cx EXCEPT !.jump = j] ELSE cx

Only(cx, j) == new_block(cx, LAMBDA c : set_block_jump(c, j))
Load(cx, x) == Call(cx, "load", x, << >>, << >>)
Store(cx, x, v) ==
  [Call(cx, "set", x, << v >>, << >>) EXCEPT !.stored = @ \cup {x}]

IfElse(cx, cond, Th(_), El(_)) ==
  With(new_block(cx, Th), LAMBDA th : With(new_block(th.cx, El), LAMBDA el :
    Call(el.cx, "if", "", << cond >>, << th.blk, el.blk >>)))

(* An early return of a helper function, once out of an inner loop, leaves *)
(* the loop around it too.                                                 *)
_propagate_return(cx) ==
  IF cx.entry THEN cx
  ELSE With(Load(cx, "$returning"), LAMBDA c :
         IfElse(c, c.res, LAMBDA b : set_block_jump(b, "break"),
                          LAMBDA b : set_block_jump(b, "end_branch")))

RECURSIVE Expr(_, _), StmtToHir(_, _), StmtList(_, _), Dead(_, _)

_bool_expr(e, cx) == With(Expr(e, cx), LAMBDA c : Call(c, "bool", "", << c.res >>, << >>))

Yielding(e, cx, cond) ==
  IF cond THEN with_result(_bool_expr(e, cx)) ELSE with_result(Expr(e, cx))

(* The body of a helper is a loop that is left once, so that a return is a *)
(* break; its result is the local variable $retval.                        *)
_ast2hir(body, cx) ==
  IF cx.entry THEN or_jump(StmtList(body, cx), "return")
  ELSE With(new_block(cx, LAMBDA b :
              With(StmtList(body, Store(b, "$returning", Con(0, "bool"))), LAMBDA c :
                IF c.jump # "none" THEN c
                ELSE set_block_jump(Store(c, "$retval", NoneValue), "break"))), LAMBDA loop :
       With(Load(Call(loop.cx, "loop", "", << >>, << loop.blk >>), "$retval"), LAMBDA c :
         [c EXCEPT !.result = << c.res >>]))

Expr(e, cx) ==
  CASE e.t = "num" -> [cx EXCEPT !.res = Con(e.v, "int")]
    [] e.t = "flt" -> [cx EXCEPT !.res = Con(e.v, "flt")]
    [] e.t = "bool" -> [cx EXCEPT !.res = Con(e.v, "bool")]
    [] e.t = "name" -> Load(cx, e.x)
    [] e.t \in {"bin", "cmp"} ->
         With(Expr(e.l, cx), LAMBDA a : With(Expr(e.r, a), LAMBDA b :
           Call(b, e.t, e.fn, << a.res, b.res >>, << >>)))
    [] e.t \in {"and", "or"} ->
         With(_bool_expr(e.l, cx), LAMBDA c :
           LET First(b) == with_result([b EXCEPT !.res = c.res])
               Second(b) == Yielding(e.r, b, TRUE)
           IN IF e.t = "and" THEN IfElse(c, c.res, Second, First)
              ELSE IfElse(c, c.res, First, Second))
    [] e.t = "ifexp" ->
         With(_bool_expr(e.c, cx), LAMBDA c :
           IfElse(c, c.res, LAMBDA b : Yielding(e.l, b, FALSE),
                            LAMBDA b : Yielding(e.r, b, FALSE)))
    [] e.t = "apply" ->
         With(Expr(e.e, cx), LAMBDA a :
           With(new_block(a, LAMBDA b :
                  [_ast2hir(e.body, [NewContext(b.n, FALSE) EXCEPT !.err = b.err])
                     EXCEPT !.stored = {}]), LAMBDA callee :
             Call(callee.cx, "apply", e.par, << a.res >>, << callee.blk >>)))

StmtToHir(st, cx) ==
  LET inFor == cx.loops # << >> /\ Last(cx.loops) = "for"
  IN CASE st.t = "set" -> With(Expr(st.e, cx), LAMBDA c : Store(c, st.x, c.res))
       [] st.t = "out" ->
            With(Expr(st.e, cx), LAMBDA c : Call(c, st.k, "", << c.res >>, << >>))
       [] st.t = "if" ->
            With(_bool_expr(st.c, cx), LAMBDA c :
              IfElse(c, c.res, LAMBDA b : or_jump(StmtList(st.th, b), "end_branch"),
                               LAMBDA b : or_jump(StmtList(st.el, b), "end_branch")))
       [] st.t = "while" ->
            With(new_block(cx, LAMBDA b :
                   With(With(_bool_expr(st.c, b), LAMBDA c :
                          IfElse(c, c.res, LAMBDA x : set_block_jump(x, "end_branch"),
                                           LAMBDA x : set_block_jump(x, "break"))), LAMBDA d :
                     or_jump(StmtList(st.body, [d EXCEPT !.loops = Append(@, "while")]),
                             "continue"))), LAMBDA loop :
              _propagate_return(Call(loop.cx, "loop", "", << >>, << loop.blk >>)))
       [] st.t = "for" ->
            With(Expr(st.lo, cx), LAMBDA lo : With(Expr(st.hi, lo), LAMBDA hi :
              With([hi EXCEPT !.n = @ + 1, !.loops = Append(@, "for"),
                              !.res = [id |-> hi.n, con |-> {}, ty |-> ""]], LAMBDA it :
                With(new_block(it, LAMBDA b :
                       or_jump(StmtList(st.body, Store(b, st.x, b.res)), "continue")), LAMBDA loop :
                  [Call(loop.cx, "for", "", << lo.res, hi.res, it.res >>, << loop.blk >>)
                     EXCEPT !.loops = cx.loops]))))
       [] st.t = "jump" ->
            IF st.k = "break" /\ inFor THEN Fail(cx, "rejected") ELSE set_block_jump(cx, st.k)
       [] st.t = "return" ->
            IF inFor THEN Fail(cx, "rejected")
            ELSE IF cx.entry THEN set_block_jump(cx, "return")
            ELSE With(Expr(st.e, cx), LAMBDA c :
                   set_block_jump(Store(Store(c, "$retval", c.res), "$returning",
                                        Con(1, "bool")), "break"))

(* Statements after a jump are looked at too, for the names they set: in a *)
(* block that is thrown away.                                              *)
StmtList(ss, cx) ==
  IF ss = << >> THEN cx
  ELSE With(StmtToHir(Head(ss), cx), LAMBDA c :
         IF c.jump = "none" THEN StmtList(Tail(ss), c)
         ELSE new_block(c, LAMBDA b : Dead(Tail(ss), b)).cx)

Dead(ss, cx) == IF ss = << >> THEN cx ELSE Dead(Tail(ss), StmtToHir(Head(ss), cx))

(* A kernel: its block of calls, how many values it has, and the error.    *)
Hir(prog) ==
  With(new_block(NewContext(0, TRUE), LAMBDA b : _ast2hir(prog, b)), LAMBDA c :
    [body |-> c.blk, n |-> c.cx.n, err |-> c.cx.err])
=============================================================================
