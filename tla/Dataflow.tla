------------------------------- MODULE Dataflow -------------------------------
(***************************************************************************)
(* The dataflow analysis of the compiler (dataflow_analysis.py), and what  *)
(* the other passes take from it: assumptions about divisors               *)
(* (propagate_divby.py) and the alias sets of the token order.             *)
(*                                                                         *)
(* A kernel is what the analysis sees of it: its parameters with their     *)
(* constraints, and the flow of values, in program order.  Each of its     *)
(* updates says how a variable gets a value, from at most two others.  A   *)
(* jump, an entry of a loop and the end of a branch copy several variables *)
(* at once: their updates have the same edge.                              *)
(*                                                                         *)
(* Then the kernel runs.  Control flow is left open: whatever operation    *)
(* has its operands may come next, any number of times, which includes     *)
(* every path through loops and branches.  Integers wrap.  A value is a    *)
(* number with the place whose memory it points to: an array parameter,    *)
(* the storage of a list parameter, or the arrays in it.                   *)
(***************************************************************************)
EXTENDS Integers, Sequences

CONSTANTS
  Vars,       \* variables of the program
  Names,      \* array and list parameters
  AliasGroups,
  Slots,      \* the words of an array: 0 is its address, then shape and strides
  Numbers,    \* what a number may be of which nothing is known
  Programs,   \* the kernels
  MaxDivBy    \* MAX_DIVBY: the largest divisor that is written down

\* q is a power of two: each divisor of it but 1 is even.
IsPower(q) == q >= 1 /\ \A d \in 2 .. q : q % d = 0 => d % 2 = 0

Abs(n) == IF n < 0 THEN -n ELSE n

\* An array's constraint: each word is known, or known to be divisible.
Arrays == [groups : SUBSET AliasGroups, internal : BOOLEAN,
           words : [Slots -> [static : BOOLEAN, n : Int]]]
Lists == [groups : SUBSET AliasGroups, internal : BOOLEAN, element : Arrays]
WellFormed(word) == ~word.static => word.n > 0
Params == [kind : {"array", "list", "scalar"}, of : Names, n : Slots]

\* fn, n, half and integral are details of the operation; 2 * half is the
\* number of values of the result's type.
Updates == [k : {"any", "copy", "assume", "item", "offset", "astype", "const", "arith", "unary"},
            fn : STRING, edge : Nat, dst : Vars, x : Vars, y : Vars,
            n : Int, half : Nat \ {0}, integral : BOOLEAN]

Operands(u) ==
  IF u.k \in {"any", "const"} THEN {} ELSE IF u.k \in {"offset", "arith"} THEN {u.x, u.y} ELSE {u.x}

Meaningful(u) ==
  /\ u.k = "assume" => u.n > 0
  /\ u.k = "item" => u.n \in Slots
  /\ u.k = "offset" => u.n >= 0
  /\ u.k \in {"offset", "astype", "arith", "unary"} => IsPower(2 * u.half)

ASSUME DataflowAssumption ==
  /\ Slots \subseteq Nat /\ 0 \in Slots
  /\ Numbers \subseteq Int
  /\ MaxDivBy \in Nat /\ IsPower(MaxDivBy)

\* A use comes after a definition.
ASSUME ProgramsAssumption ==
  \A prg \in Programs :
    /\ prg.flow \in Seq(Updates)
    /\ prg.arrays \in [Names -> Arrays] /\ prg.lists \in [Names -> Lists]
    /\ \A nm \in Names, n \in Slots :
         /\ WellFormed(prg.arrays[nm].words[n])
         /\ WellFormed(prg.lists[nm].element.words[n])
    /\ DOMAIN prg.params \subseteq Vars /\ prg.params \in [DOMAIN prg.params -> Params]
    /\ \A i \in DOMAIN prg.flow :
         /\ Meaningful(prg.flow[i])
         /\ \A v \in Operands(prg.flow[i]) :
              v \in DOMAIN prg.params \/ \E j \in 1 .. i - 1 : prg.flow[j].dst = v

VARIABLES
  stage,   \* "walk" over the program, "run" of the kernel
  program,
  facts,   \* both trackers: what is promised of a variable, and of the
           \* arrays in it if it is a list
  dirty,
  pc,      \* the update the walk is at
  env      \* the values of the variables that have one

vars == << stage, program, facts, dirty, pc, env >>

-----------------------------------------------------------------------------
(* Predicates. *)

gcd(a, b) ==
  LET common == {d \in 1 .. Abs(a) + Abs(b) : a % d = 0 /\ b % d = 0}
  IN IF common = {} THEN 0 ELSE CHOOSE d \in common : \A e \in common : e <= d

Places == {"array", "list", "element"} \X Names
Nowhere == << "nowhere" >>

\* _AliasSetMapper: a bit for each group, and one of its own for a parameter
\* without groups.  ALIAS_UNIVERSE has all bits, also those nobody has.
Bits == ({"group"} \X AliasGroups) \cup ({"own"} \X Places) \cup {<< "rest" >>}
ALIAS_UNIVERSE == Bits
AliasSet(place, groups) == IF groups = {} THEN {<< "own", place >>} ELSE {"group"} \X groups

Predicates == [alias : SUBSET Bits, div : Int, internal : BOOLEAN]
ALWAYS_TRUE == [alias |-> ALIAS_UNIVERSE, div |-> 1, internal |-> TRUE]
Divisible(pred, d) == [alias |-> pred.alias, div |-> d, internal |-> pred.internal]

\* Mutant: & for | of the alias sets.
unify_Common(p, q) ==
  [alias |-> p.alias \cap q.alias, div |-> gcd(p.div, q.div), internal |-> p.internal \/ q.internal]
unify(p, q) ==
  [alias |-> p.alias \cup q.alias, div |-> gcd(p.div, q.div), internal |-> p.internal \/ q.internal]

\* Of a variable: its predicate, and those of the words of its arrays.
Facts == [own : Predicates, items : [Slots -> Predicates]]
OfNumber(pred) == [own |-> pred, items |-> [n \in Slots |-> ALWAYS_TRUE]]
UnifyFacts(f, g) ==
  [own |-> unify(f.own, g.own), items |-> [n \in Slots |-> unify(f.items[n], g.items[n])]]

\* _get_array_predicates.
ArrayPredicate(place, a, n) ==
  IF n = 0 THEN [alias |-> AliasSet(place, a.groups), div |-> a.words[0].n, internal |-> a.internal]
  ELSE Divisible(ALWAYS_TRUE, a.words[n].n)

\* What is registered for a parameter.
Registered(prg, v) ==
  LET par == prg.params[v]
      list == prg.lists[par.of]
  IN CASE par.kind = "array" ->
            OfNumber(ArrayPredicate(<< "array", par.of >>, prg.arrays[par.of], par.n))
       [] par.kind = "list" ->
            [own |-> [alias |-> AliasSet(<< "list", par.of >>, list.groups), div |-> 1,
                      internal |-> list.internal],
             items |-> [n \in Slots |-> ArrayPredicate(<< "element", par.of >>, list.element, n)]]
       [] OTHER -> OfNumber(ALWAYS_TRUE)

-----------------------------------------------------------------------------
(* The walk. *)

\* _get_divisibility_for_binary_op, _get_divisibility_for_unary_op.
\* Mutant: a sum is taken for a product.
BinaryDivisor_Product(u, x, y) ==
  IF u.integral /\ u.fn \in {"add", "sub", "mul"} THEN x * y ELSE 1
BinaryDivisor(u, x, y) ==
  CASE u.integral /\ u.fn \in {"add", "sub"} -> gcd(x, y)
    [] u.integral /\ u.fn = "mul" -> x * y
    [] OTHER -> 1
UnaryDivisor(u, x) == IF u.integral /\ u.fn \in {"abs", "neg"} THEN x ELSE 1

\* A pointer that moves by y elements of n bytes; n is 0 for elements that
\* are no whole bytes, and only a single pointer is followed.
OffsetDivisor(u, x, y) ==
  IF u.fn = "single" THEN gcd(x, IF u.n > 0 THEN y * u.n ELSE 1) ELSE 1
AsTypeDivisor(u, x) == IF u.integral THEN gcd(x, 2 * u.half) ELSE 1

\* What update u promises of its result, if the facts F hold.
Promised(u, F) ==
  LET x == F[u.x].own
      y == F[u.y].own
  IN CASE u.k = "copy" -> F[u.x]
       [] u.k = "assume" -> [own |-> Divisible(x, u.n), items |-> F[u.x].items]
       [] u.k = "item" -> OfNumber(F[u.x].items[u.n])
       [] u.k = "offset" -> OfNumber(Divisible(x, OffsetDivisor(u, x.div, y.div)))
       [] u.k = "astype" -> OfNumber(Divisible(x, AsTypeDivisor(u, x.div)))
       [] u.k = "const" -> OfNumber(Divisible(ALWAYS_TRUE, Abs(u.n)))
       [] u.k = "arith" -> OfNumber(Divisible(ALWAYS_TRUE, BinaryDivisor(u, x.div, y.div)))
       [] u.k = "unary" -> OfNumber(Divisible(ALWAYS_TRUE, UnaryDivisor(u, x.div)))
       [] OTHER -> OfNumber(ALWAYS_TRUE)

\* _Tracker.update: unify with what is known; what is new makes dirty.
\* Mutant: what is known is overwritten.
Updated_Latest(F, v, new) ==
  [w \in DOMAIN F \cup {v} |-> IF w # v THEN F[w] ELSE new]
Updated(F, v, new) ==
  [w \in DOMAIN F \cup {v} |->
     IF w # v THEN F[w] ELSE IF v \in DOMAIN F THEN UnifyFacts(F[v], new) ELSE new]

Init ==
  /\ program \in Programs
  /\ facts = [v \in DOMAIN program.params |-> Registered(program, v)]
  /\ dirty = (DOMAIN program.params # {})
  /\ stage = "walk" /\ pc = 1
  /\ env = << >>

Visit ==
  LET u == program.flow[pc]
      new == Updated(facts, u.dst, Promised(u, facts))
  IN /\ stage = "walk" /\ pc <= Len(program.flow)
     /\ facts' = new
     /\ dirty' = (dirty \/ new # facts)
     /\ pc' = pc + 1
     /\ UNCHANGED << stage, program, env >>

\* The end of a walk: while state.dirty.
WalkAgain ==
  /\ stage = "walk" /\ pc > Len(program.flow) /\ dirty
  /\ dirty' = FALSE /\ pc' = 1
  /\ UNCHANGED << stage, program, facts, env >>

\* Mutant: one walk only.
Stop_Once ==
  /\ stage = "walk" /\ pc > Len(program.flow)
  /\ stage' = "run"
  /\ UNCHANGED << program, facts, dirty, pc, env >>
Stop ==
  /\ stage = "walk" /\ pc > Len(program.flow) /\ ~dirty
  /\ stage' = "run"
  /\ UNCHANGED << program, facts, dirty, pc, env >>

-----------------------------------------------------------------------------
(* The kernel runs. *)

\* The constraint of a place: whom it may share memory with, and whether its
\* own elements may overlap.
Constraint(prg, place) ==
  CASE place[1] = "array" -> prg.arrays[place[2]]
    [] place[1] = "list" -> prg.lists[place[2]]
    [] OTHER -> prg.lists[place[2]].element

\* Two parameters may alias if and only if they have a group in common.
MayShare(prg, p, q) ==
  p = q \/ Constraint(prg, p).groups \cap Constraint(prg, q).groups # {}

Value(num, place) == [num |-> num, place |-> place]

\* The numbers an array's word may have.
WordNumbers(a, n) ==
  {m \in Numbers \cup {a.words[n].n} :
     IF a.words[n].static THEN m = a.words[n].n ELSE m % a.words[n].n = 0}
WordValues(place, a, n) ==
  {Value(m, IF n = 0 THEN place ELSE Nowhere) : m \in WordNumbers(a, n)}

Arguments(prg, v) ==
  LET par == prg.params[v]
  IN CASE par.kind = "array" -> WordValues(<< "array", par.of >>, prg.arrays[par.of], par.n)
       [] par.kind = "list" -> {Value(m, << "list", par.of >>) : m \in Numbers}
       [] OTHER -> {Value(m, Nowhere) : m \in Numbers}

\* A result n of an operation on numbers of 2 * half values, signed or not.
Wrapped(n, half) == {n % (2 * half), ((n + half) % (2 * half)) - half}

Exact(fn, x, y) ==
  CASE fn = "add" -> x + y [] fn = "sub" -> x - y [] fn = "mul" -> x * y
    [] fn = "neg" -> -x [] fn = "abs" -> Abs(x) [] OTHER -> 0
Computed(u, x, y) ==
  IF u.integral /\ u.fn \in {"add", "sub", "mul", "neg", "abs"}
  THEN Wrapped(Exact(u.fn, x, y), u.half) ELSE Numbers

Results(prg, u, e) ==
  LET x == e[u.x]
      y == e[u.y]
      values(nums, place) == {Value(m, place) : m \in nums}
  IN CASE u.k = "assume" -> IF x.num % u.n = 0 THEN {x} ELSE {}
       [] u.k = "item" -> IF x.place[1] # "list" THEN {} ELSE
            WordValues(<< "element", x.place[2] >>, prg.lists[x.place[2]].element, u.n)
       [] u.k = "offset" -> values(IF u.n > 0 THEN Wrapped(x.num + y.num * u.n, u.half) ELSE Numbers, x.place)
       [] u.k = "astype" -> values(IF u.integral THEN Wrapped(x.num, u.half) ELSE Numbers, x.place)
       [] u.k = "const" -> values({u.n}, Nowhere)
       [] u.k = "arith" -> values(Computed(u, x.num, y.num), Nowhere)
       [] u.k = "unary" -> values(Computed(u, x.num, 0), Nowhere)
       [] OTHER -> [num : Numbers, place : Places \cup {Nowhere}]

\* The kernel is called with arguments that keep the constraints.
Receive(v) ==
  /\ stage = "run" /\ v \in DOMAIN program.params \ DOMAIN env
  /\ \E val \in Arguments(program, v) :
       env' = [w \in DOMAIN env \cup {v} |-> IF w = v THEN val ELSE env[w]]
  /\ UNCHANGED << stage, program, facts, dirty, pc >>

Compute(i) ==
  LET u == program.flow[i]
  IN /\ stage = "run" /\ u.k # "copy" /\ Operands(u) \subseteq DOMAIN env
     /\ \E val \in Results(program, u, env) :
          env' = [w \in DOMAIN env \cup {u.dst} |-> IF w = u.dst THEN val ELSE env[w]]
     /\ UNCHANGED << stage, program, facts, dirty, pc >>

Flow == {program.flow[i] : i \in DOMAIN program.flow}

\* An assignment, a jump, an entry of a loop, the end of a branch.
Copies(edge) == {u \in Flow : u.k = "copy" /\ u.edge = edge}
Move(edge) ==
  LET into(v) == {u \in Copies(edge) : u.dst = v}
  IN /\ stage = "run" /\ \A u \in Copies(edge) : u.x \in DOMAIN env
     /\ env' = [w \in DOMAIN env \cup {u.dst : u \in Copies(edge)} |->
                  IF into(w) = {} THEN env[w] ELSE env[(CHOOSE u \in into(w) : TRUE).x]]
     /\ UNCHANGED << stage, program, facts, dirty, pc >>

Next ==
  \/ Visit \/ WalkAgain \/ Stop
  \/ \E v \in Vars : Receive(v)
  \/ \E i \in DOMAIN program.flow : Compute(i)
  \/ \E u \in Flow : Move(u.edge)

\* The analysis is one Python function: it does not stop on its way.
Spec == Init /\ [][Next]_vars /\ WF_vars(Visit \/ WalkAgain \/ Stop)

-----------------------------------------------------------------------------
(* propagate_divby.py: what is written down of a variable whose divisor is *)
(* d: the power of two in it (d & -d), up to MAX_DIVBY.                    *)

LowBit(d) ==
  LET powers == {q \in 1 .. Abs(d) : IsPower(q) /\ d % q = 0}
  IN IF powers = {} THEN 0 ELSE CHOOSE q \in powers : \A p \in powers : p <= q
Assumed(d) == IF LowBit(d) < MaxDivBy THEN LowBit(d) ELSE MaxDivBy

-----------------------------------------------------------------------------
(* Properties *)

TypeOK ==
  /\ program \in Programs /\ stage \in {"walk", "run"} /\ dirty \in BOOLEAN
  /\ pc \in 1 .. Len(program.flow) + 1
  /\ DOMAIN facts \subseteq Vars /\ facts \in [DOMAIN facts -> Facts]
  /\ DOMAIN env \subseteq Vars /\ env \in [DOMAIN env -> [num : Int, place : Places \cup {Nowhere}]]

\* What is written down of a variable is true of each value it gets, on every
\* path, for numbers that wrap and for zero (propagate_divby.py).
AssumptionsHold ==
  stage = "run" =>
    \A v \in DOMAIN env : Assumed(facts[v].own.div) > 1 => env[v].num % Assumed(facts[v].own.div) = 0

\* Two variables that may point to the same memory have alias sets in common,
\* which is what keeps their accesses in order (token_order.py).
AliasesFound ==
  stage = "run" =>
    \A v, w \in DOMAIN env :
      LET p == env[v].place
          q == env[w].place
      IN p # Nowhere /\ q # Nowhere /\ MayShare(program, p, q) =>
           facts[v].own.alias \cap facts[w].own.alias # {}

\* A variable said not to alias internally never has a pointer to memory whose
\* elements may overlap (the parallel stores of token_order.py rely on it).
InternalAliasKept ==
  stage = "run" =>
    \A v \in DOMAIN env :
      env[v].place # Nowhere /\ Constraint(program, env[v].place).internal => facts[v].own.internal

\* What the memory order relies on is known of every pointer.
PointersKnown == AliasesFound /\ InternalAliasKept

\* The walks stop where a further one would change nothing.
FixpointReached ==
  stage = "run" =>
    \A u \in Flow : Updated(facts, u.dst, Promised(u, facts)) = facts

\* What p promises, q promises too.
Weaker(p, q) ==
  /\ q.alias \subseteq p.alias
  /\ q.internal => p.internal
  /\ IF p.div = 0 THEN q.div = 0 ELSE q.div % Abs(p.div) = 0

\* A walk only takes promises back: what was found before is never lost track of
\* when more is found.
OnlyWeaker ==
  [][ \A v \in DOMAIN facts :
        /\ v \in DOMAIN facts' /\ Weaker(facts'[v].own, facts[v].own)
        /\ \A n \in Slots : Weaker(facts'[v].items[n], facts[v].items[n]) ]_vars

\* The analysis ends: no loop makes it walk for ever.
AnalysisEnds == <>(stage = "run")

=============================================================================
