------------------------------ MODULE MCCompile ------------------------------
(* Kernels to compile, in families: a skeleton whose holes are filled from *)
(* short lists.                                                            *)
EXTENDS Compile

LOCAL INSTANCE SequencesExt

MCLocals == << "a", "b", "c", "d", "i", "j", "m", "n", "t", "$returning", "$retval" >>
MCParams == << "n", "m" >>
MCInputs == {<< -1, 2 >>, << 0, 0 >>, << 2, 1 >>, << 3, 3 >>, << 4, -2 >>}

Fill(F(_), xs) == [k \in DOMAIN xs |-> F(xs[k])]
Fill2(F(_, _), xs, ys) == FlattenSeq(Fill(LAMBDA x : Fill(LAMBDA y : F(x, y), ys), xs))
Fill3(F(_, _, _), xs, ys, zs) ==
  FlattenSeq(Fill(LAMBDA x : Fill2(LAMBDA y, z : F(x, y, z), ys, zs), xs))

A == Nm("a")
B == Nm("b")
C == Nm("c")
I == Nm("i")
J == Nm("j")
M == Nm("m")
N == Nm("n")
T == Nm("t")
Add(x, y) == Bin("add", x, y)
Mul(x, y) == Bin("mul", x, y)
Sub(x, y) == Bin("sub", x, y)
Lt(x, y) == Cmp("lt", x, y)
Gt(x, y) == Cmp("gt", x, y)
Eq(x, y) == Cmp("eq", x, y)
Grow(x, e) == Set(x, Add(Nm(x), e))
When(cond, s) == If(cond, << s >>, << >>)
True == Bool(1)

\* A for loop with branches on its induction variable: one is split on
Conditions ==
  Fill3(LAMBDA fn, x, swap : IF swap THEN Cmp(fn, x, I) ELSE Cmp(fn, I, x),
        << "lt", "le", "gt", "ge" >>, << Num(1), T >>, << TRUE, FALSE >>)
  \o << Eq(I, Num(1)), Gt(Add(I, Num(1)), T) >>
Branch(cond) ==
  << << If(cond, << Grow("a", I) >>, << Grow("a", Num(3)) >>), Out("scatter", A) >>,
     << When(cond, Grow("a", Num(2))), Grow("a", Num(1)) >>,
     << When(cond, Jump("continue")), Out("store", Add(A, I)), Grow("a", Num(1)) >>,
     << If(cond, << Out("store", I), Jump("continue") >>, << Set("a", I), Jump("continue") >>) >>,
     << When(cond, Set("b", I)), If(cond, << >>, << Grow("a", Num(1)) >>) >> >>
Splits ==
  FlattenSeq(Fill(LAMBDA cond : Fill(LAMBDA body :
    << Set("t", Add(M, Num(1))), Set("a", Num(0)), For("i", Num(0), N, body), Out("store", A) >>,
    Branch(cond)), Conditions))

\* Nested for loops: values of neither, the outer or the inner iteration
Nests ==
  Fill3(LAMBDA x, y, body :
    << Set("a", Num(0)), Set("b", M),
       For("i", Num(0), N,
           << Set("c", x), For("j", M, N, << Set("b", y) >> \o body), Out("store", Add(A, Num(1))) >>),
       Out("store", Add(A, B)) >>,
    << Num(2), Mul(M, M), Add(I, Num(1)) >>,
    << Num(2), Mul(M, Num(2)), Mul(I, M), Mul(J, M), Add(C, Num(1)), Add(B, M) >>,
    << << Grow("a", B) >>, << Out("scatter", B) >>, << When(Gt(J, B), Grow("a", B)) >>,
       << If(Gt(M, Num(1)), << Set("a", Mul(B, B)) >>, << Set("a", Sub(M, B)) >>) >> >>)

\* While loops: the ways out of them, and what they carry
Ways == << When(Cmp("ge", A, N), Jump("break")),
           If(Cmp("ge", A, N), << Set("b", Num(7)), Jump("break") >>, << Grow("b", Num(1)) >>),
           If(Eq(A, M), << Grow("a", Num(2)), Jump("continue") >>, << >>),
           If(Lt(B, Num(3)), << Set("c", B), Jump("continue") >>, << Set("c", A) >>),
           Out("store", C) >>
Whiles ==
  Fill3(LAMBDA cond, s1, s2 :
    << Set("a", Num(0)), Set("b", Num(1)), Set("c", M),
       While(cond, << Grow("a", Num(1)), s1, s2, Grow("b", A) >>),
       Out("store", Add(A, B)), Out("scatter", C) >>,
    << Lt(A, Num(4)), And(Lt(A, N), Cmp("ne", B, M)), Or(Lt(A, N), Lt(B, Num(3))) >>, Ways, Ways)

\* Helper functions with a parameter a that return early, called in loops
Helpers ==
  << << When(Gt(A, Num(1)), Return(Num(1))), Return(Add(A, Num(1))) >>,
     << If(Gt(A, Num(1)), << Return(A) >>, << Out("store", A) >>), Return(Num(5)) >>,
     << While(True, << Grow("a", Num(3)), When(Gt(A, Num(4)), Return(A)) >>) >>,
     << While(Lt(A, Num(3)), << Grow("a", Num(1)),
          While(Lt(A, Num(2)), << When(Eq(A, Num(0)), Return(Num(4))), Grow("a", Num(1)) >>),
          Grow("a", Num(1)) >>), Return(A) >>,
     << Set("b", A), For("j", Num(0), Num(3), << Grow("b", J) >>), Return(B) >>,
     << Out("store", A), Return(Num(2)) >> >>
Callers(body) ==
  LET Of(e) == Set("t", Apply("a", body, e))
  IN << << Of(N), Out("store", T) >>,
        << Set("b", Num(0)), For("i", Num(0), N, << Of(Add(I, M)), Grow("b", T) >>), Out("scatter", B) >>,
        << Set("b", Num(0)), While(Lt(B, N), << Of(B), When(Gt(T, M), Jump("break")), Grow("b", T) >>),
           Out("store", B) >>,
        << If(Gt(N, M), << Of(M) >>, << Of(Num(1)), Out("scatter", T) >>), Out("store", T) >>,
        << Set("b", IfExp(Gt(Apply("a", body, N), M), Num(4), Num(6))), Out("scatter", B) >>,
        << Of(Apply("a", body, Num(3))), Out("store", T) >> >>
Inlined == FlattenSeq(Fill(Callers, Helpers))

\* Products and sums of floats, and who else reads the product
Products ==
  Fill3(LAMBDA e, s, last : << Set("a", Add(N, Flt(1))), Set("b", Mul(A, M)) >> \o s
                            \o << Set("c", e), Out("store", C) >> \o last,
        << Add(B, M), Add(M, B), Sub(B, A), Sub(A, B), Add(B, B), Add(B, Mul(A, A)), Sub(Add(B, A), B) >>,
        << << >>, << Out("store", B) >>, << When(Gt(N, M), Set("b", Mul(B, A))) >> >>,
        << << >>, << Out("store", Sub(C, B)) >>, << For("i", Num(0), N, << Out("store", Add(B, I)) >>) >> >>)

\* Divisors of what is scattered: through sums, products, branches, loops
Divisors ==
  Fill3(LAMBDA x, y, s : << Set("a", x), Set("b", y) >> \o s \o << Out("scatter", A), Out("scatter", B) >>,
        << Num(4), Mul(N, Num(4)), Mul(Num(2), Mul(M, Num(2))), IfExp(Gt(N, M), Num(4), Num(6)) >>,
        << Sub(A, Num(2)), Mul(A, A), Num(0), Add(A, N) >>,
        << << For("i", Num(0), N, << Grow("a", Num(2)), Set("b", Mul(I, Num(4))) >>) >>,
           << While(Lt(A, M), << Set("a", Add(Mul(A, Num(2)), Num(4))), When(Gt(A, N), Jump("break")),
                               Out("scatter", B) >>) >>,
           << If(Gt(N, M), << Set("a", B), Out("scatter", A) >>, << Grow("b", A) >>) >>,
           << For("i", Num(0), N, << Set("t", A), Set("a", B), Set("b", T) >>) >> >>)

\* Values nobody needs, and locals set on some ways only
Lost ==
  Fill2(LAMBDA s, out : << Set("a", Num(0)), Set("b", Num(1)), Set("t", M) >> \o s \o out,
        << << For("i", Num(0), N, << Set("t", Add(T, I)), Grow("a", I) >>) >>,
           << While(Lt(A, N), << Grow("a", Num(1)), Grow("b", Num(2)) >>) >>,
           << While(True, << Set("t", Add(T, Num(1))), When(Cmp("ge", T, N), Jump("break")),
                             Set("a", B), Set("b", T) >>) >>,
           << If(Gt(N, M), << Set("d", Num(1)), Set("a", Mul(N, N)) >>, << Set("b", Nm("a")) >>) >>,
           << For("i", Num(0), N, << Set("d", I), Set("c", A), Set("a", B) >>) >>,
           << If(Gt(N, M), << Set("c", Num(1)) >>, << Set("c", Flt(1)) >>) >>,
           << While(True, << Set("c", B), When(Gt(N, T), Jump("break")), Set("t", Sub(T, Num(1))),
                             Set("c", T) >>) >>,
           << If(Or(Gt(N, M), Eq(A, T)), << >>, << Return(Num(0)) >>), Set("a", Num(2)) >> >>,
        << << Out("store", A) >>, << Out("store", B) >>, << Out("store", C) >>,
           << When(Gt(M, Num(0)), Out("scatter", T)) >>, << Out("store", Num(3)) >>,
           << For("j", Num(0), M, << Set("a", Add(J, Num(1))) >>), Out("store", A) >> >>)

\* Loops of both kinds in loops of both kinds
Outers(body) ==
  << << For("i", Num(0), N, body) >>,
     << Set("i", Num(0)), While(Lt(I, N), << Grow("i", Num(1)) >> \o body) >> >>
Inners(body) ==
  << << For("j", Num(0), M, body), Out("store", A) >>,
     << Set("j", Num(0)), While(True, << Grow("j", Num(1)), When(Gt(J, M), Jump("break")) >> \o body),
        Grow("a", B) >> >>
Mixed ==
  LET Bodies ==
        << << Grow("a", Mul(I, J)) >>,
           << When(Gt(A, N), Jump("continue")), Grow("a", T), Set("b", J) >>,
           << Set("b", IfExp(And(Lt(J, T), Lt(I, B)), A, Mul(B, Num(2)))), Grow("a", B) >>,
           << If(Or(Lt(I, T), Eq(J, A)), << Out("scatter", Mul(T, Num(4))) >>, << Grow("a", Num(4)) >>) >>,
           << Set("b", Apply("a", Helpers[1], A)), When(Gt(B, T), Set("a", B)) >>,
           << If(Cmp("le", J, T), << Set("c", Mul(M, N)) >>, << Set("c", Add(A, Num(1))) >>), Grow("a", C) >> >>
  IN FlattenSeq(Fill(LAMBDA body : FlattenSeq(Fill(LAMBDA inner : Fill(LAMBDA outer :
       << Set("a", Num(0)), Set("b", Num(1)), Set("t", Add(M, Num(1))) >> \o outer
       \o << Out("store", Add(A, B)) >>, Outers(inner)), Inners(body))), Bodies))

\* Numbers that decide, and truths that count
Conversions ==
  Fill2(LAMBDA cond, e :
    << Set("a", N), If(cond, << Grow("a", e) >>, << Set("a", e) >>), Out("store", A),
       While(cond, << Grow("a", e), When(Gt(A, Num(9)), Jump("break")), Set("m", Sub(M, Num(1))) >>),
       Out("scatter", A) >>,
    << M, Sub(N, M), Num(2) >>,
    << Add(N, Lt(M, N)), Mul(Gt(N, Num(0)), M), IfExp(N, M, Num(3)), Add(Flt(1), Eq(N, M)) >>)

\* What the front end refuses
Refused ==
  << << For("i", Num(0), N, << Jump("break") >>) >>,
     << For("i", Num(0), N, << When(Gt(I, M), Return(Num(0))) >>) >>,
     << For("i", Num(0), Flt(1), << Out("store", I) >>) >>,
     << Set("a", Num(0)), For("i", Num(0), N, << Set("a", Flt(1)) >>) >>,
     << Set("a", Add(Gt(N, M), Gt(M, N))) >>,
     << Set("t", Apply("a", << When(Gt(A, Num(1)), Return(Num(1))) >>, N)), Out("store", T) >>,
     << When(Gt(N, M), Set("a", N)), Out("store", A) >> >>

MCPrograms == Splits \o Nests \o Whiles \o Inlined \o Products \o Divisors \o Lost \o Mixed
              \o Conversions \o Refused

\* A loop whose bound is computed in the loop around it
MCHoist ==
  << << For("i", Num(0), N,
          << Set("b", Num(0)), Set("t", Mul(I, M)), For("j", Num(0), T, << Grow("b", Num(1)) >>),
             Out("store", B) >>) >> >> \o SubSeq(Splits, 1, 20)
=============================================================================
