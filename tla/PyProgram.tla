----------------------------- MODULE PyProgram -----------------------------
(***************************************************************************)
(* The fragment of Python the kernels of the model are written in, and     *)
(* what such a program means: the reference the compiled program is held   *)
(* against.  A program is a sequence of statements, records whose field t  *)
(* says which statement or expression they are.  Locals maps every name of *)
(* a function; a helper function has a scope of its own, one parameter and *)
(* a result (0 stands for None).                                           *)
(***************************************************************************)
EXTENDS TileIR

CONSTANT Locals      \* the names of local variables, in the order of their indices

LOCAL INSTANCE SequencesExt

Num(v) == [t |-> "num", v |-> v]
Flt(v) == [t |-> "flt", v |-> v]
Bool(v) == [t |-> "bool", v |-> v]
Nm(x) == [t |-> "name", x |-> x]
Bin(fn, l, r) == [t |-> "bin", fn |-> fn, l |-> l, r |-> r]
Cmp(fn, l, r) == [t |-> "cmp", fn |-> fn, l |-> l, r |-> r]
And(l, r) == [t |-> "and", l |-> l, r |-> r]
Or(l, r) == [t |-> "or", l |-> l, r |-> r]
IfExp(c, l, r) == [t |-> "ifexp", c |-> c, l |-> l, r |-> r]
Apply(par, body, e) == [t |-> "apply", par |-> par, body |-> body, e |-> e]

Set(x, e) == [t |-> "set", x |-> x, e |-> e]
Out(k, e) == [t |-> "out", k |-> k, e |-> e]           \* ct.store, ct.scatter
If(c, th, el) == [t |-> "if", c |-> c, th |-> th, el |-> el]
While(c, body) == [t |-> "while", c |-> c, body |-> body]
For(x, lo, hi, body) == [t |-> "for", x |-> x, lo |-> lo, hi |-> hi, body |-> body]
Jump(k) == [t |-> "jump", k |-> k]                     \* break, continue
Return(e) == [t |-> "return", e |-> e]

-----------------------------------------------------------------------------
(* A run: the variables (Undef before they are set), what was stored, how  *)
(* control goes on (ctl) and the value of the last expression (val).       *)

RECURSIVE Value(_, _), Stmt(_, _), Body(_, _), Turn(_, _), Each(_, _, _, _)

Then(s, F(_)) == IF s.ctl = "next" THEN F(s) ELSE s

Value(e, s) ==
  CASE e.t \in {"num", "flt", "bool"} -> [s EXCEPT !.val = e.v]
    [] e.t = "name" ->
         IF s.env[e.x] = Undef THEN [s EXCEPT !.ctl = "error"] ELSE [s EXCEPT !.val = s.env[e.x]]
    [] e.t \in {"bin", "cmp"} ->
         Then(Value(e.l, s), LAMBDA a :
           Then(Value(e.r, a), LAMBDA b :
             [b EXCEPT !.val = IF e.t = "bin" THEN Arith(e.fn, a.val, b.val)
                               ELSE Truth(Holds(e.fn, a.val, b.val))]))
    [] e.t = "and" -> Then(Value(e.l, s), LAMBDA a : IF a.val = 0 THEN a ELSE Value(e.r, a))
    [] e.t = "or" -> Then(Value(e.l, s), LAMBDA a : IF a.val = 1 THEN a ELSE Value(e.r, a))
    [] e.t = "ifexp" ->
         Then(Value(e.c, s), LAMBDA a : Value(IF a.val # 0 THEN e.l ELSE e.r, a))
    [] e.t = "apply" ->
         Then(Value(e.e, s), LAMBDA a :
           LET r == Body(e.body, [a EXCEPT !.env = [x \in DOMAIN @ |->
                                    IF x = e.par THEN a.val ELSE Undef]])
           IN CASE r.ctl = "return" -> [r EXCEPT !.env = a.env, !.ctl = "next"]
                [] r.ctl = "next" -> [r EXCEPT !.env = a.env, !.val = 0]
                [] OTHER -> r)

Body(ss, s) ==
  IF ss = << >> THEN s ELSE Then(Stmt(Head(ss), s), LAMBDA a : Body(Tail(ss), a))

Stmt(st, s) ==
  CASE st.t = "set" -> Then(Value(st.e, s), LAMBDA a : [a EXCEPT !.env[st.x] = a.val])
    [] st.t = "out" -> Then(Value(st.e, s), LAMBDA a : [a EXCEPT !.tr = Append(@, a.val)])
    [] st.t = "if" ->
         Then(Value(st.c, s), LAMBDA a : Body(IF a.val # 0 THEN st.th ELSE st.el, a))
    [] st.t = "while" -> Turn(st, s)
    [] st.t = "for" ->
         Then(Value(st.lo, s), LAMBDA a :
           Then(Value(st.hi, a), LAMBDA b : Each(st, a.val, b.val, b)))
    [] st.t = "jump" -> [s EXCEPT !.ctl = st.k]
    [] st.t = "return" -> Then(Value(st.e, s), LAMBDA a : [a EXCEPT !.ctl = "return"])

Turn(st, s) ==
  IF s.fuel = 0 THEN [s EXCEPT !.ctl = "running"]
  ELSE Then(Value(st.c, s), LAMBDA a :
         IF a.val = 0 THEN a
         ELSE LET b == Body(st.body, [a EXCEPT !.fuel = @ - 1])
              IN CASE b.ctl = "break" -> [b EXCEPT !.ctl = "next"]
                   [] b.ctl \in {"next", "continue"} -> Turn(st, [b EXCEPT !.ctl = "next"])
                   [] OTHER -> b)

Each(st, i, hi, s) ==
  IF i >= hi THEN s
  ELSE IF s.fuel = 0 THEN [s EXCEPT !.ctl = "running"]
  ELSE LET b == Body(st.body, [s EXCEPT !.env[st.x] = i, !.fuel = @ - 1])
       IN CASE b.ctl = "break" -> [b EXCEPT !.ctl = "next"]
            [] b.ctl \in {"next", "continue"} -> Each(st, i + 1, hi, [b EXCEPT !.ctl = "next"])
            [] OTHER -> b

(* The meaning of a kernel called with these arguments, named params.      *)
Meaning(prog, params, args) ==
  LET env == [x \in ToSet(Locals) |->
                IF \E i \in DOMAIN params : params[i] = x
                THEN args[CHOOSE i \in DOMAIN params : params[i] = x] ELSE Undef]
      s == Body(prog, [env |-> env, tr |-> << >>, ctl |-> "next", val |-> 0, fuel |-> Fuel])
  IN [tr |-> s.tr, end |-> s.ctl]
=============================================================================
