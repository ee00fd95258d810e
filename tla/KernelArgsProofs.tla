--------------------------- MODULE KernelArgsProofs ---------------------------
(***************************************************************************)
(* Proofs about KernelArgs: why a launch ends as it does, that the         *)
(* constants a kernel is compiled for are true of every array it is given, *)
(* and that the kernel finds those arrays through its parameters.          *)
(*                                                                         *)
(* ArgsInv, for the first two, is about the loop over the arguments.       *)
(* While a list is read, the shape of its first item still stands in the   *)
(* arena where the builder points to; every item so far has the builder's  *)
(* type, every promise of the builder, and the extents of the first item;  *)
(* and where extents are compared the arena has not moved since.           *)
(*                                                                         *)
(* WordsInv, for the third, follows the words: where each array's words    *)
(* lie in the arena and which parameter of the kernel points to them; that *)
(* every list has a part of the staged data of its own; that regions of    *)
(* launches that are not over never overlap, and are over in the order of  *)
(* the queue; and that what was delivered, to the host's region before the *)
(* copy or to the device's after it, stays until the kernel has run.       *)
(***************************************************************************)
EXTENDS KernelArgs, SequenceTheorems, FiniteSetTheorems, TLAPS

-----------------------------------------------------------------------------
(* The invariant. *)

IsSeq(q) == q \in Seq({q[n] : n \in DOMAIN q})

Whole(h) ==
  /\ DOMAIN h = {"arena", "room", "cuargs", "ptrs", "lists", "total", "constants"}
  /\ h.room \in Nat

(* A constant is true of an array that is passed for a parameter whose     *)
(* static axes are dims.                                                   *)
TrueOf(c, dims, o) ==
  /\ c.type = Type(o) /\ c.bits \subseteq Facts(o)
  /\ \A j \in DOMAIN c.dims : c.dims[j] = Shape[o][Axis(dims[j], Rank(o)) + 1]

Known(constants, params, saw) ==
  /\ IsSeq(constants) /\ params \in ArgLists /\ saw \in Seq(Seq(Arrays))
  /\ \A k \in DOMAIN constants : \A i \in DOMAIN saw[k] :
       TrueOf(constants[k], params[k].dims, saw[k][i])

AllKnown(constants, params, saw) ==
  /\ Known(constants, params, saw)
  /\ Len(constants) = Len(params) /\ Len(saw) = Len(params)

(* The arena tells the shape of o, whose words start at p.                 *)
Tells(arena, p, o) ==
  /\ p \in Nat \ {0} /\ p + Rank(o) <= Len(arena)
  /\ \A d \in 1 .. Rank(o) : arena[p + d] = << "int", Shape[o][d] >>

(* What the builder has of the items so far.                               *)
SameShape(dims, rank, o, first) ==
  \A j \in DOMAIN dims : InRange(dims[j], rank) =>
    Shape[o][Axis(dims[j], rank) + 1] = Shape[first][Axis(dims[j], rank) + 1]
Alike(b, dims, o, first) ==
  /\ b.type = Type(o) /\ b.bits \subseteq Facts(o)
  /\ SameShape(dims, b.type[2], o, first)
IsBuilder(b) ==
  /\ DOMAIN b = {"type", "bits", "items", "len", "first"}
  /\ DOMAIN b.first = {"room", "at"}
  /\ b.items \in Nat /\ b.len \in Nat /\ b.first.room \in Nat
Built(arena, b, dims, items) ==
  /\ IsBuilder(b) /\ items \in Seq(Arrays) /\ Len(items) >= 1
  /\ \A i \in DOMAIN items : Alike(b, dims, items[i], items[1])
  /\ Tells(arena, b.first.at, items[1])

InList ==
  /\ Param.kind = "list"
  /\ Len(seen) = at[1] /\ Len(seen[at[1]]) = at[2] /\ at[2] < builder.len
  /\ Param.dims # << >> => helper.room = builder.first.room
  /\ builder.first.at + builder.type[2] < builder.items
  /\ builder.items + builder.len <= Len(helper.arena) + 1
  /\ Built(helper.arena, builder, Param.dims, seen[at[1]])
Reading ==
  /\ IsSeq(helper.arena) /\ Known(helper.constants, call.params, seen)
  /\ at \in (1 .. Len(call.params)) \X Nat
  /\ Len(helper.constants) = at[1] - 1
  /\ IF at[2] = 0 THEN Len(seen) = at[1] - 1 ELSE InList

Typed == Whole(helper) /\ list \in Seq(Arrays)
AtRest == step = "idle" => at = << 1, 0 >> /\ seen = << >>
Read == step = "read" => Reading
Complete == step \in {"stage", "launch"} => AllKnown(helper.constants, call.params, seen)
Carried ==
  payload # << >> => /\ Whole(payload[1].helper)
                     /\ AllKnown(payload[1].helper.constants, payload[1].params, payload[1].seen)
IsEntry(w) ==
  DOMAIN w = {"region", "copies", "copied", "kernel", "params", "seen", "constants", "words"}
IsQueue(q) ==
  /\ IsSeq(q)
  /\ \A n \in DOMAIN q : IsEntry(q[n]) /\ AllKnown(q[n].constants, q[n].params, q[n].seen)
Launched == DOMAIN queue = Streams /\ \A s \in Streams : IsQueue(queue[s])

ArgsInv == /\ Typed /\ AtRest /\ Read /\ Complete /\ Carried /\ Launched
           /\ EndsAreExplained

-----------------------------------------------------------------------------
(* Sequences. *)

Joined(s, t) ==
  /\ IsSeq(s \o t) /\ Len(s \o t) = Len(s) + Len(t)
  /\ \A i \in 1 .. Len(s) : (s \o t)[i] = s[i]
  /\ \A i \in 1 .. Len(t) : (s \o t)[Len(s) + i] = t[i]
Appended(s, x) ==
  /\ IsSeq(Append(s, x)) /\ Len(Append(s, x)) = Len(s) + 1
  /\ \A i \in 1 .. Len(s) : Append(s, x)[i] = s[i]
  /\ Append(s, x)[Len(s) + 1] = x

LEMMA Elements ==
  ASSUME NEW S, NEW q \in Seq(S)
  PROVE  IsSeq(q) /\ Len(q) \in Nat /\ DOMAIN q = 1 .. Len(q)
<1>1. Len(q) \in Nat /\ DOMAIN q = 1 .. Len(q)
  BY LenProperties
<1>2. q = [n \in 1 .. Len(q) |-> q[n]]
  BY SeqDef
<1> QED BY <1>1, <1>2, SeqDef DEF IsSeq

\* A function on 1 .. n is a sequence.
LEMMA FunctionIsSeq ==
  ASSUME NEW n \in Nat, NEW q, DOMAIN q = 1 .. n, q = [i \in DOMAIN q |-> q[i]]
  PROVE  IsSeq(q) /\ Len(q) = n
<1>1. q \in Seq({q[i] : i \in DOMAIN q})
  BY SeqDef
<1> QED BY <1>1, LenProperties DEF IsSeq

LEMMA SeqDomain ==
  ASSUME NEW q, IsSeq(q)
  PROVE  Len(q) \in Nat /\ DOMAIN q = 1 .. Len(q)
BY Elements DEF IsSeq

LEMMA WiderSeq ==
  ASSUME NEW S, NEW T, S \subseteq T, NEW q \in Seq(S)
  PROVE  q \in Seq(T)
BY SeqDef

LEMMA Join ==
  ASSUME NEW s, NEW t, IsSeq(s), IsSeq(t)
  PROVE  Joined(s, t)
<1> DEFINE S == {s[n] : n \in DOMAIN s} \cup {t[n] : n \in DOMAIN t}
<1>1. s \in Seq(S) /\ t \in Seq(S)
  BY WiderSeq DEF IsSeq
<1> HIDE DEF S
<1>2. /\ s \o t \in Seq(S) /\ Len(s \o t) = Len(s) + Len(t)
      /\ Len(s) \in Nat /\ Len(t) \in Nat
  BY <1>1, ConcatProperties, LenProperties
<1>3. \A i \in 1 .. Len(s) + Len(t) :
        (s \o t)[i] = IF i <= Len(s) THEN s[i] ELSE t[i - Len(s)]
  BY <1>1, ConcatProperties
<1>4. \A i \in 1 .. Len(s) : (s \o t)[i] = s[i]
  BY <1>2, <1>3
<1>5. ASSUME NEW i \in 1 .. Len(t) PROVE (s \o t)[Len(s) + i] = t[i]
  <2> DEFINE k == Len(s) + i
  <2>1. k \in 1 .. Len(s) + Len(t) /\ ~(k <= Len(s)) /\ k - Len(s) = i
    BY <1>2
  <2> HIDE DEF k
  <2>2. (s \o t)[k] = t[i]
    BY <1>3, <2>1
  <2> QED BY <2>2 DEF k
<1>6. IsSeq(s \o t)
  BY <1>2, Elements
<1> QED BY <1>2, <1>4, <1>5, <1>6 DEF Joined

LEMMA Added ==
  ASSUME NEW s, NEW x, IsSeq(s)
  PROVE  Appended(s, x)
<1> DEFINE S == {s[n] : n \in DOMAIN s} \cup {x}
<1>1. s \in Seq(S) /\ x \in S
  BY WiderSeq DEF IsSeq
<1> HIDE DEF S
<1>2. Append(s, x) \in Seq(S) /\ Len(Append(s, x)) = Len(s) + 1 /\ Len(s) \in Nat
  BY <1>1, AppendProperties, LenProperties
<1>3. /\ \A i \in 1 .. Len(s) : Append(s, x)[i] = s[i]
      /\ Append(s, x)[Len(s) + 1] = x
  BY <1>1, AppendProperties
<1>4. IsSeq(Append(s, x))
  BY <1>2, Elements
<1> QED BY <1>2, <1>3, <1>4 DEF Appended

LEMMA Replaced ==
  ASSUME NEW s, IsSeq(s), NEW i, NEW x
  PROVE  /\ IsSeq([s EXCEPT ![i] = x]) /\ Len([s EXCEPT ![i] = x]) = Len(s)
         /\ DOMAIN [s EXCEPT ![i] = x] = DOMAIN s
         /\ \A j \in DOMAIN s \ {i} : [s EXCEPT ![i] = x][j] = s[j]
         /\ i \in DOMAIN s => [s EXCEPT ![i] = x][i] = x
<1> DEFINE t == [s EXCEPT ![i] = x]
<1>1. Len(s) \in Nat /\ DOMAIN s = 1 .. Len(s)
  BY SeqDomain
<1>2. DOMAIN t = 1 .. Len(s) /\ t = [j \in DOMAIN t |-> t[j]]
  BY <1>1
<1>3. /\ \A j \in DOMAIN s \ {i} : t[j] = s[j]
      /\ i \in DOMAIN s => t[i] = x
  OBVIOUS
<1> HIDE DEF t
<1>4. IsSeq(t) /\ Len(t) = Len(s)
  BY <1>1, <1>2, FunctionIsSeq
<1>5. t = [s EXCEPT ![i] = x]
  BY DEF t
<1> QED BY <1>1, <1>2, <1>3, <1>4, <1>5

LEMMA NotEmpty ==
  ASSUME NEW q, IsSeq(q)
  PROVE  q # << >> <=> Len(q) # 0
<1>1. q \in Seq({q[n] : n \in DOMAIN q})
  BY DEF IsSeq
<1> QED BY <1>1, EmptySeq

-----------------------------------------------------------------------------
(* Arrays and the words of the arena. *)

LEMMA RankOf ==
  ASSUME NEW o \in Arrays
  PROVE  /\ Rank(o) \in Nat /\ DOMAIN Shape[o] = 1 .. Rank(o)
         /\ \A d \in 1 .. Rank(o) : Shape[o][d] \in Nat
<1>1. Shape[o] \in Seq(Nat)
  BY ArgsAssumption
<1>2. Len(Shape[o]) \in Nat /\ DOMAIN Shape[o] = 1 .. Len(Shape[o])
  BY <1>1, LenProperties
<1>3. \A d \in 1 .. Len(Shape[o]) : Shape[o][d] \in Nat
  BY <1>1, <1>2, ElementOfSeq
<1> QED BY ONLY <1>2, <1>3 DEF Rank

\* What the words of an array tell of it.
LEMMA ReprTells ==
  ASSUME NEW o \in Arrays
  PROVE  /\ IsSeq(Repr(o)) /\ Len(Repr(o)) = 1 + 2 * Rank(o)
         /\ \A d \in 1 .. Rank(o) : Repr(o)[1 + d] = << "int", Shape[o][d] >>
<1> DEFINE a == << << "ptr", Base[o][1], Base[o][2] >> >>
           s == Ints(Shape[o])
           t == Ints(Strides(o))
           r == Rank(o)
<1>1. r \in Nat /\ DOMAIN Shape[o] = 1 .. r
  BY RankOf
<1>2. DOMAIN a = 1 .. 1 /\ a = [i \in DOMAIN a |-> a[i]]
  OBVIOUS
<1>3. DOMAIN s = 1 .. r /\ s = [i \in DOMAIN s |-> s[i]]
  BY <1>1 DEF Ints
<1>4. \A d \in 1 .. r : s[d] = << "int", Shape[o][d] >>
  BY <1>1 DEF Ints
<1>5. DOMAIN Strides(o) = 1 .. r
  BY DEF Strides
<1>6. DOMAIN t = 1 .. r /\ t = [i \in DOMAIN t |-> t[i]]
  BY <1>5 DEF Ints
<1>7. Repr(o) = (a \o s) \o t
  BY DEF Repr
<1>8. r = Rank(o)
  OBVIOUS
<1> HIDE DEF a, s, t, r
<1>9. IsSeq(a) /\ Len(a) = 1 /\ IsSeq(s) /\ Len(s) = r /\ IsSeq(t) /\ Len(t) = r
  BY <1>1, <1>2, <1>3, <1>6, FunctionIsSeq
<1> DEFINE b == a \o s
<1>10. Joined(a, s)
  BY <1>9, Join
<1>11. IsSeq(b) /\ Len(b) = 1 + r /\ \A d \in 1 .. r : b[1 + d] = s[d]
  BY <1>9, <1>10 DEF Joined
<1>12. Repr(o) = b \o t
  BY <1>7
<1> HIDE DEF b
<1>13. Joined(b, t)
  BY <1>9, <1>11, Join
<1>14. IsSeq(b \o t) /\ Len(b \o t) = (1 + r) + r /\ \A i \in 1 .. 1 + r : (b \o t)[i] = b[i]
  BY <1>9, <1>11, <1>13 DEF Joined
<1>15. ASSUME NEW d \in 1 .. r PROVE (b \o t)[1 + d] = << "int", Shape[o][d] >>
  <2>1. 1 + d \in 1 .. 1 + r
    BY <1>1
  <2>2. (b \o t)[1 + d] = b[1 + d]
    BY <1>14, <2>1
  <2> QED BY <1>4, <1>11, <2>2
<1>16. (1 + r) + r = 1 + 2 * r
  BY <1>1
<1> QED BY <1>8, <1>12, <1>14, <1>15, <1>16

\* What an arena tells stays when words follow.
LEMMA TellsMore ==
  ASSUME NEW a, NEW g, IsSeq(a), IsSeq(g), Len(a) <= Len(g),
         \A x \in 1 .. Len(a) : g[x] = a[x],
         NEW o \in Arrays, NEW p, Tells(a, p, o)
  PROVE  Tells(g, p, o)
<1>1. Len(a) \in Nat /\ Len(g) \in Nat /\ Rank(o) \in Nat
  BY SeqDomain, RankOf
<1>2. p \in Nat \ {0} /\ p + Rank(o) <= Len(a)
  BY DEF Tells
<1>3. p + Rank(o) <= Len(g)
  BY <1>1, <1>2
<1>4. ASSUME NEW d \in 1 .. Rank(o) PROVE g[p + d] = << "int", Shape[o][d] >>
  <2>1. p + d \in 1 .. Len(a)
    BY <1>1, <1>2
  <2>2. a[p + d] = << "int", Shape[o][d] >>
    BY DEF Tells
  <2> QED BY <2>1, <2>2
<1> QED BY <1>2, <1>3, <1>4 DEF Tells

\* A word that is not of the shape may be written.
LEMMA TellsStill ==
  ASSUME NEW a, IsSeq(a), NEW o \in Arrays, NEW p, Tells(a, p, o),
         NEW x \in Nat, x <= p \/ p + Rank(o) < x, NEW w
  PROVE  Tells([a EXCEPT ![x] = w], p, o)
<1> DEFINE g == [a EXCEPT ![x] = w]
<1>1. Len(a) \in Nat /\ DOMAIN a = 1 .. Len(a) /\ Rank(o) \in Nat
  BY SeqDomain, RankOf
<1>2. p \in Nat \ {0} /\ p + Rank(o) <= Len(a)
  BY DEF Tells
<1>3. Len(g) = Len(a) /\ \A y \in DOMAIN a \ {x} : g[y] = a[y]
  BY Replaced
<1> HIDE DEF g
<1>4. ASSUME NEW d \in 1 .. Rank(o) PROVE g[p + d] = << "int", Shape[o][d] >>
  <2>1. p + d \in DOMAIN a \ {x}
    BY <1>1, <1>2
  <2>2. a[p + d] = << "int", Shape[o][d] >>
    BY DEF Tells
  <2> QED BY <1>3, <2>1, <2>2
<1>5. Tells(g, p, o)
  BY <1>2, <1>3, <1>4 DEF Tells
<1> QED BY <1>5 DEF g

\* The extent that is read for an axis that exists.
LEMMA ExtentIsShape ==
  ASSUME NEW a, NEW o \in Arrays, NEW p, Tells(a, p, o),
         NEW d \in Int, InRange(d, Rank(o))
  PROVE  Extent(a, p, d, Rank(o)) = Shape[o][Axis(d, Rank(o)) + 1]
<1>1. Rank(o) \in Nat
  BY RankOf
<1>2. PICK k : k = Axis(d, Rank(o))
  OBVIOUS
<1>3. k \in 0 .. Rank(o) - 1
  BY <1>2 DEF InRange
<1>4. p \in Nat
  BY DEF Tells
<1>5. k + 1 \in 1 .. Rank(o) /\ p + 1 + k = p + (k + 1)
  BY <1>1, <1>3, <1>4
<1>6. a[p + (k + 1)] = << "int", Shape[o][k + 1] >>
  BY <1>5 DEF Tells
<1>7. a[p + 1 + k][2] = Shape[o][k + 1]
  BY <1>5, <1>6
<1> QED BY ONLY <1>2, <1>7 DEF Extent

-----------------------------------------------------------------------------
(* The builder. *)

LEMMA ParamOf ==
  ASSUME NEW params \in ArgLists
  PROVE  /\ Len(params) \in Nat /\ DOMAIN params = 1 .. Len(params)
         /\ params # << >> <=> Len(params) # 0
         /\ \A k \in DOMAIN params :
              /\ IsSeq(params[k].dims) /\ \A j \in DOMAIN params[k].dims : params[k].dims[j] \in Int
              /\ params[k].kind = "array" => params[k].obj \in Arrays
<1> DEFINE P == [kind : {"array", "list"}, obj : Arrays \cup {""}, dims : Seq(Int)]
<1>1. params \in Seq(P)
  BY ArgsAssumption
<1>2. \A p \in P : p.dims \in Seq(Int)
  OBVIOUS
<1> HIDE DEF P
<1>3. IsSeq(params) /\ Len(params) \in Nat /\ DOMAIN params = 1 .. Len(params)
  BY <1>1, Elements
<1>4. params # << >> <=> Len(params) # 0
  BY <1>3, NotEmpty
<1>5. ASSUME NEW k \in DOMAIN params
      PROVE  IsSeq(params[k].dims) /\ \A j \in DOMAIN params[k].dims : params[k].dims[j] \in Int
  <2>1. params[k] \in P
    BY <1>1, <1>3, <1>5, ElementOfSeq
  <2>2. PICK dims \in Seq(Int) : dims = params[k].dims
    BY <1>2, <2>1
  <2>3. IsSeq(dims) /\ \A j \in DOMAIN dims : dims[j] \in Int
    BY ElementOfSeq, Elements
  <2> QED BY <2>2, <2>3
<1>6. \A k \in DOMAIN params : params[k].kind = "array" => params[k].obj \in Arrays
  BY ArgsAssumption
<1> QED BY <1>3, <1>4, <1>5, <1>6

(* How reading the extents ends. *)
WalkEnds(h, b, dims) ==
  /\ Walk(h, b, dims) \in {"ok", "range", "undefined"}
  /\ Walk(h, b, dims) = "ok" => /\ \A j \in DOMAIN dims : InRange(dims[j], b.type[2])
                                /\ dims # << >> => h.room = b.first.room
  /\ Walk(h, b, dims) = "range" => \E j \in DOMAIN dims : ~InRange(dims[j], b.type[2])
  /\ Walk(h, b, dims) = "undefined" => dims # << >> /\ h.room # b.first.room

LEMMA WalkOf ==
  ASSUME NEW h, NEW b, NEW dims, IsSeq(dims)
  PROVE  WalkEnds(h, b, dims)
<1> DEFINE Bad == {j \in DOMAIN dims : ~InRange(dims[j], b.type[2])}
<1>1. Walk(h, b, dims) = IF dims = << >> THEN "ok"
                         ELSE IF 1 \notin Bad /\ h.room # b.first.room THEN "undefined"
                         ELSE IF Bad # {} THEN "range" ELSE "ok"
  BY DEF Walk
<1>2. \A j \in DOMAIN dims : j \in Bad <=> ~InRange(dims[j], b.type[2])
  OBVIOUS
<1>3. Bad # {} => \E j \in DOMAIN dims : ~InRange(dims[j], b.type[2])
  OBVIOUS
<1>4. dims = << >> => DOMAIN dims = {}
  OBVIOUS
<1>5. Bad \subseteq DOMAIN dims
  OBVIOUS
<1> HIDE DEF Bad
<1>6. CASE dims = << >>
  BY <1>1, <1>4, <1>6 DEF WalkEnds
<1>7. CASE dims # << >> /\ 1 \notin Bad /\ h.room # b.first.room
  BY <1>1, <1>7 DEF WalkEnds
<1>8. CASE dims # << >> /\ ~(1 \notin Bad /\ h.room # b.first.room) /\ Bad # {}
  BY <1>1, <1>3, <1>8 DEF WalkEnds
<1>9. CASE dims # << >> /\ ~(1 \notin Bad /\ h.room # b.first.room) /\ Bad = {}
  BY <1>1, <1>2, <1>9 DEF WalkEnds
<1> QED BY <1>6, <1>7, <1>8, <1>9

ConstantOf(a, b, dims) ==
  [type |-> b.type, bits |-> b.bits,
   dims |-> [j \in DOMAIN dims |-> Extent(a, b.first.at, dims[j], b.type[2])]]

\* What finalize writes down is true of every item.
LEMMA ConstantHolds ==
  ASSUME NEW a, NEW b, NEW dims, NEW items, Built(a, b, dims, items),
         \A j \in DOMAIN dims : dims[j] \in Int,
         \A j \in DOMAIN dims : InRange(dims[j], b.type[2]),
         NEW i \in DOMAIN items
  PROVE  TrueOf(ConstantOf(a, b, dims), dims, items[i])
<1> DEFINE o == items[i]
           f == items[1]
           c == ConstantOf(a, b, dims)
<1>1. items \in Seq(Arrays) /\ Len(items) >= 1 /\ 1 \in DOMAIN items
  <2>1. items \in Seq(Arrays) /\ Len(items) >= 1
    BY DEF Built
  <2>2. Len(items) \in Nat /\ DOMAIN items = 1 .. Len(items)
    BY <2>1, LenProperties
  <2> QED BY <2>1, <2>2
<1>2. o \in Arrays /\ f \in Arrays
  BY <1>1, ElementOfSeq, LenProperties
<1>3. Alike(b, dims, o, f) /\ Alike(b, dims, f, f) /\ Tells(a, b.first.at, f)
  BY <1>1 DEF Built
<1> HIDE DEF o, f
<1>4. b.type = Type(o) /\ b.bits \subseteq Facts(o) /\ b.type = Type(f)
  BY <1>3 DEF Alike
<1>5. b.type[2] = Rank(o) /\ b.type[2] = Rank(f)
  BY <1>4 DEF Type
<1>6. c.type = b.type /\ c.bits = b.bits /\ DOMAIN c.dims = DOMAIN dims
      /\ \A j \in DOMAIN dims : c.dims[j] = Extent(a, b.first.at, dims[j], b.type[2])
  BY DEF ConstantOf
<1> HIDE DEF c
<1>7. ASSUME NEW j \in DOMAIN dims
      PROVE  c.dims[j] = Shape[o][Axis(dims[j], Rank(o)) + 1]
  <2>1. PICK d \in Int : d = dims[j]
    OBVIOUS
  <2>2. InRange(d, b.type[2])
    BY <2>1
  <2>3. InRange(d, Rank(f))
    BY <1>5, <2>2
  <2>4. Extent(a, b.first.at, d, Rank(f)) = Shape[f][Axis(d, Rank(f)) + 1]
    BY <1>2, <1>3, <2>3, ExtentIsShape
  <2>5. Shape[o][Axis(d, b.type[2]) + 1] = Shape[f][Axis(d, b.type[2]) + 1]
    BY <1>3, <2>1, <2>2 DEF Alike, SameShape
  <2>6. c.dims[j] = Extent(a, b.first.at, d, b.type[2])
    BY <1>6, <2>1
  <2> QED BY ONLY <1>5, <2>1, <2>4, <2>5, <2>6
<1>8. TrueOf(c, dims, o)
  BY <1>4, <1>6, <1>7 DEF TrueOf
<1> QED BY <1>8 DEF c, o

-----------------------------------------------------------------------------
(* The helper while words are pushed. *)

Grown(h, g) ==
  /\ Whole(g) /\ IsSeq(g.arena) /\ g.constants = h.constants
  /\ Len(h.arena) <= Len(g.arena)
  /\ \A x \in 1 .. Len(h.arena) : g.arena[x] = h.arena[x]

LEMMA CapacityOf ==
  ASSUME NEW room \in Nat, NEW need \in Nat
  PROVE  Capacity(room, need) \in Nat /\ (Capacity(room, need) # room => need > room)
<1>1. PICK more : more = room + room \div 2 + 1
  OBVIOUS
<1>2. more \in Nat
  BY <1>1
<1>3. Capacity(room, need) = IF need <= room THEN room ELSE IF need < more THEN more ELSE need
  BY <1>1 DEF Capacity
<1> QED BY ONLY <1>2, <1>3

LEMMA GrownTwice ==
  ASSUME NEW h, NEW g, NEW k, IsSeq(h.arena), Grown(h, g), Grown(g, k)
  PROVE  Grown(h, k)
<1>1. Len(h.arena) \in Nat /\ Len(g.arena) \in Nat /\ Len(k.arena) \in Nat
  BY SeqDomain DEF Grown
<1>2. Len(h.arena) <= Len(g.arena) /\ Len(g.arena) <= Len(k.arena)
  BY DEF Grown
<1>3. Len(h.arena) <= Len(k.arena)
  BY <1>1, <1>2
<1>4. \A x \in 1 .. Len(h.arena) : x \in 1 .. Len(g.arena)
  BY <1>1, <1>2
<1>5. \A x \in 1 .. Len(h.arena) : k.arena[x] = h.arena[x]
  BY <1>4 DEF Grown
<1> QED BY <1>3, <1>5 DEF Grown

LEMMA PushGrows ==
  ASSUME NEW h, Whole(h), IsSeq(h.arena), NEW words, IsSeq(words)
  PROVE  /\ Grown(h, Push(h, words))
         /\ Push(h, words).arena = h.arena \o words
         /\ Push(h, words).room = Capacity(h.room, Len(h.arena) + Len(words))
<1>1. PICK a : a = h.arena \o words
  OBVIOUS
<1>2. PICK r : r = Capacity(h.room, Len(h.arena) + Len(words))
  OBVIOUS
<1>3. Len(h.arena) \in Nat /\ Len(words) \in Nat
  BY SeqDomain
<1>4. r \in Nat
  BY <1>2, <1>3, CapacityOf DEF Whole
<1>5. IsSeq(a) /\ Len(h.arena) <= Len(a) /\ \A x \in 1 .. Len(h.arena) : a[x] = h.arena[x]
  <2>1. Joined(h.arena, words)
    BY Join
  <2>2. IsSeq(a) /\ Len(a) = Len(h.arena) + Len(words)
        /\ \A x \in 1 .. Len(h.arena) : a[x] = h.arena[x]
    BY <1>1, <2>1 DEF Joined
  <2> QED BY <1>3, <2>2
<1>6. PICK g : g = [h EXCEPT !.arena = a, !.room = r]
  OBVIOUS
<1>7. Push(h, words) = g
  BY <1>1, <1>2, <1>6 DEF Push
<1>8. DOMAIN g = DOMAIN h /\ g.arena = a /\ g.room = r /\ g.constants = h.constants
  BY ONLY <1>6, Whole(h) DEF Whole
<1>9. Grown(h, g)
  BY <1>4, <1>5, <1>8 DEF Grown, Whole
<1> QED BY <1>1, <1>2, <1>7, <1>8, <1>9

\* A change of other fields than the arena is no harm.
LEMMA GrownAnyway ==
  ASSUME NEW h, NEW g, NEW k, Grown(h, g), DOMAIN k = DOMAIN g,
         k.arena = g.arena, k.room = g.room, k.constants = g.constants
  PROVE  Grown(h, k)
BY DEF Grown, Whole

LEMMA WordGrows ==
  ASSUME NEW h, Whole(h), IsSeq(h.arena), NEW word
  PROVE  Grown(h, push_single_word_cuarg(h, word))
<1>1. PICK words : words = << word >>
  OBVIOUS
<1>2. DOMAIN words = 1 .. 1 /\ words = [i \in DOMAIN words |-> words[i]]
  BY <1>1
<1>3. IsSeq(words)
  BY <1>2, FunctionIsSeq
<1>4. PICK g : g = Push(h, words)
  OBVIOUS
<1>5. Grown(h, g)
  BY <1>3, <1>4, PushGrows
<1>6. PICK x : x = Append(g.cuargs, Len(h.arena) + 1)
  OBVIOUS
<1>7. PICK k : k = [g EXCEPT !.cuargs = x]
  OBVIOUS
<1>8. push_single_word_cuarg(h, word) = k
  BY <1>1, <1>4, <1>6, <1>7 DEF push_single_word_cuarg
<1>9. DOMAIN k = DOMAIN g /\ k.arena = g.arena /\ k.room = g.room /\ k.constants = g.constants
  BY ONLY <1>5, <1>7 DEF Grown, Whole
<1> QED BY <1>5, <1>8, <1>9, GrownAnyway

\* After an array is pushed the arena tells its shape.
LEMMA ArrayTells ==
  ASSUME NEW h, Whole(h), IsSeq(h.arena), NEW o \in Arrays
  PROVE  /\ Grown(h, Push(h, Repr(o)))
         /\ Tells(Push(h, Repr(o)).arena, Len(h.arena) + 1, o)
         /\ Push(h, Repr(o)).room = Capacity(h.room, Len(h.arena) + 1 + 2 * Rank(o))
<1>1. PICK r : r = Repr(o)
  OBVIOUS
<1>2. /\ IsSeq(r) /\ Len(r) = 1 + 2 * Rank(o) /\ Rank(o) \in Nat
      /\ \A d \in 1 .. Rank(o) : r[1 + d] = << "int", Shape[o][d] >>
  BY <1>1, ReprTells, RankOf
<1>3. PICK a : a = h.arena
  OBVIOUS
<1>4. IsSeq(a) /\ Len(a) \in Nat
  BY <1>3, SeqDomain
<1>5. PICK p : p = Len(a) + 1
  OBVIOUS
<1>6. /\ Grown(h, Push(h, r)) /\ Push(h, r).arena = a \o r
      /\ Push(h, r).room = Capacity(h.room, Len(a) + Len(r))
  BY <1>2, <1>3, PushGrows
<1>7. Joined(a, r)
  BY <1>2, <1>4, Join
<1>8. Len(a \o r) = Len(a) + Len(r) /\ \A i \in 1 .. Len(r) : (a \o r)[Len(a) + i] = r[i]
  BY <1>7 DEF Joined
<1>9. ASSUME NEW d \in 1 .. Rank(o) PROVE (a \o r)[p + d] = << "int", Shape[o][d] >>
  <2>1. 1 + d \in 1 .. Len(r) /\ p + d = Len(a) + (1 + d)
    BY <1>2, <1>4, <1>5
  <2>2. (a \o r)[Len(a) + (1 + d)] = r[1 + d]
    BY <1>8, <2>1
  <2> QED BY <1>2, <2>1, <2>2
<1>10. p \in Nat \ {0} /\ p + Rank(o) <= Len(a \o r)
  BY <1>2, <1>4, <1>5, <1>8
<1>11. Tells(a \o r, p, o)
  BY <1>9, <1>10 DEF Tells
<1>12. Len(a) + Len(r) = Len(a) + 1 + 2 * Rank(o)
  BY <1>2, <1>4
<1> QED BY ONLY <1>1, <1>3, <1>5, <1>6, <1>11, <1>12

LEMMA ListTells ==
  ASSUME NEW h, Whole(h), IsSeq(h.arena), NEW o \in Arrays, NEW len \in Nat
  PROVE  /\ Grown(h, ListWords(h, o, len))
         /\ Tells(ListWords(h, o, len).arena, Len(h.arena) + 1, o)
         /\ Len(h.arena) + Len(Repr(o)) + len <= Len(ListWords(h, o, len).arena)
<1>1. PICK p : p = Len(h.arena) + 1
  OBVIOUS
<1>2. PICK g : g = Push(h, Repr(o))
  OBVIOUS
<1>3. Grown(h, g) /\ Tells(g.arena, p, o)
  BY <1>1, <1>2, ArrayTells
<1>4. PICK words : words = [j \in 1 .. len |-> IF j = 1 THEN << "item", p >> ELSE Nothing]
  OBVIOUS
<1>5. IsSeq(words)
  <2>1. DOMAIN words = 1 .. len /\ words = [j \in DOMAIN words |-> words[j]]
    BY <1>4
  <2> QED BY <2>1, FunctionIsSeq
<1>6. PICK items : items = Push(g, words)
  OBVIOUS
<1>7. Grown(g, items)
  BY <1>3, <1>5, <1>6, PushGrows DEF Grown
<1>8. PICK base : base = push_single_word_cuarg(items, << "size", h.total >>)
  OBVIOUS
<1>9. Grown(items, base)
  BY <1>7, <1>8, WordGrows DEF Grown
<1>10. PICK both : both = push_single_word_cuarg(base, << "int", len >>)
  OBVIOUS
<1>11. Grown(base, both)
  BY <1>9, <1>10, WordGrows DEF Grown
<1>12. PICK size : size = Len(Repr(o))
  OBVIOUS
<1>13. PICK ptrs : ptrs = Append(both.ptrs, p)
  OBVIOUS
<1>14. PICK total : total = both.total + len * size
  OBVIOUS
<1>15. PICK lists : lists = Append(both.lists, [base |-> p + size + len, len |-> len,
                                                items |-> p + size, size |-> size])
  OBVIOUS
<1>16. PICK k : k = [both EXCEPT !.ptrs = ptrs, !.total = total, !.lists = lists]
  OBVIOUS
<1>17. ListWords(h, o, len) = k
  BY <1>1, <1>2, <1>4, <1>6, <1>8, <1>10, <1>12, <1>13, <1>14, <1>15, <1>16 DEF ListWords
<1>18. DOMAIN k = DOMAIN both /\ k.arena = both.arena /\ k.room = both.room
       /\ k.constants = both.constants
  BY ONLY <1>11, <1>16 DEF Grown, Whole
<1>19. IsSeq(g.arena) /\ IsSeq(items.arena) /\ IsSeq(base.arena)
  BY <1>3, <1>7, <1>9 DEF Grown
<1>20. Grown(g, both)
  BY <1>7, <1>9, <1>11, <1>19, GrownTwice
<1>21. Grown(g, k)
  BY <1>18, <1>20, GrownAnyway
<1>22. Grown(h, k)
  BY <1>3, <1>21, GrownTwice
<1>23. Tells(k.arena, p, o)
  <2>1. IsSeq(k.arena) /\ Len(g.arena) <= Len(k.arena)
        /\ \A x \in 1 .. Len(g.arena) : k.arena[x] = g.arena[x]
    BY <1>21 DEF Grown
  <2> QED BY <1>3, <1>19, <2>1, TellsMore
<1>24. Len(h.arena) + Len(Repr(o)) + len <= Len(k.arena)
  <2>1. g.arena = h.arena \o Repr(o) /\ items.arena = g.arena \o words
    BY <1>2, <1>3, <1>5, <1>6, ReprTells, PushGrows DEF Grown
  <2>2. Joined(h.arena, Repr(o)) /\ Joined(g.arena, words)
    BY <1>5, <1>19, ReprTells, Join
  <2>3. /\ Len(g.arena) = Len(h.arena) + Len(Repr(o))
        /\ Len(items.arena) = Len(g.arena) + Len(words)
    BY <2>1, <2>2 DEF Joined
  <2>4. Len(words) = len
    <3>1. DOMAIN words = 1 .. len /\ words = [j \in DOMAIN words |-> words[j]]
      BY <1>4
    <3> QED BY <3>1, FunctionIsSeq
  <2>5. Grown(items, k)
    <3>1. Grown(items, both)
      BY <1>9, <1>11, <1>19, GrownTwice
    <3> QED BY <1>18, <3>1, GrownAnyway
  <2>6. Len(items.arena) <= Len(k.arena)
    BY <2>5 DEF Grown
  <2> QED BY ONLY <2>3, <2>4, <2>6
<1> QED BY <1>1, <1>17, <1>22, <1>23, <1>24

-----------------------------------------------------------------------------
(* The end of a parameter. *)

\* A constant more.
LEMMA KnownMore ==
  ASSUME NEW constants, NEW params, NEW saw, Known(constants, params, saw),
         NEW more \in Seq(Seq(Arrays)), NEW c,
         \A k \in DOMAIN constants : more[k] = saw[k],
         \A i \in DOMAIN more[Len(constants) + 1] :
           TrueOf(c, params[Len(constants) + 1].dims, more[Len(constants) + 1][i])
  PROVE  /\ Known(Append(constants, c), params, more)
         /\ Len(Append(constants, c)) = Len(constants) + 1
<1>1. PICK n : n = Len(constants) + 1
  OBVIOUS
<1>2. IsSeq(constants)
  BY DEF Known
<1>3. Len(constants) \in Nat /\ DOMAIN constants = 1 .. Len(constants)
  BY <1>2, SeqDomain
<1>4. PICK longer : longer = Append(constants, c)
  OBVIOUS
<1>5. Appended(constants, c)
  BY <1>2, Added
<1>6. IsSeq(longer) /\ Len(longer) = n /\ longer[n] = c
      /\ \A k \in 1 .. Len(constants) : longer[k] = constants[k]
  BY <1>1, <1>4, <1>5 DEF Appended
<1>7. DOMAIN longer = 1 .. n
  BY <1>6, SeqDomain
<1>8. ASSUME NEW k \in DOMAIN longer, NEW i \in DOMAIN more[k]
      PROVE  TrueOf(longer[k], params[k].dims, more[k][i])
  <2>1. CASE k = n
    BY <1>1, <1>6, <2>1
  <2>2. CASE k # n
    <3>1. k \in DOMAIN constants /\ k \in 1 .. Len(constants)
      BY <1>1, <1>3, <1>7, <2>2
    <3>2. longer[k] = constants[k] /\ more[k] = saw[k]
      BY <1>6, <3>1
    <3>3. i \in DOMAIN saw[k]
      BY <3>2
    <3>4. TrueOf(constants[k], params[k].dims, saw[k][i])
      BY <3>1, <3>3 DEF Known
    <3> QED BY <3>2, <3>4
  <2> QED BY <2>1, <2>2
<1>9. params \in ArgLists
  BY DEF Known
<1>10. Known(longer, params, more)
  BY <1>6, <1>8, <1>9 DEF Known
<1> QED BY <1>1, <1>4, <1>6, <1>10

Held == /\ Typed /\ AtRest /\ Read /\ Complete

\* Where a parameter is read.
LEMMA Here ==
  ASSUME Read, step = "read"
  PROVE  /\ at[1] \in DOMAIN call.params /\ at[1] \in Nat \ {0} /\ at[2] \in Nat
         /\ at = << at[1], at[2] >> /\ Len(call.params) \in Nat /\ at[1] <= Len(call.params)
         /\ DOMAIN call.params = 1 .. Len(call.params)
         /\ IsSeq(Param.dims) /\ (\A j \in DOMAIN Param.dims : Param.dims[j] \in Int)
         /\ (Param.kind = "array" => Param.obj \in Arrays)
         /\ call.params \in ArgLists
<1>1. Reading
  BY DEF Read
<1>2. call.params \in ArgLists /\ at \in (1 .. Len(call.params)) \X Nat
  BY <1>1 DEF Reading, Known
<1>3. Len(call.params) \in Nat /\ DOMAIN call.params = 1 .. Len(call.params)
  BY <1>2, ParamOf
<1>4. at[1] \in 1 .. Len(call.params) /\ at[2] \in Nat /\ at = << at[1], at[2] >>
  BY <1>2
<1>5. /\ IsSeq(Param.dims) /\ \A j \in DOMAIN Param.dims : Param.dims[j] \in Int
      /\ Param.kind = "array" => Param.obj \in Arrays
  BY <1>2, <1>3, <1>4, ParamOf DEF Param
<1> QED BY <1>2, <1>3, <1>4, <1>5

LEMMA EndsKeeps ==
  ASSUME Typed, list' \in Seq(Arrays), NEW how \in {"undefined", "aborted"}, Ends(how)
  PROVE  Held'
<1>1. step' = how /\ helper' = helper
  BY DEF Ends
<1>2. Typed'
  BY <1>1 DEF Typed, Whole
<1>3. AtRest' /\ Read' /\ Complete'
  BY <1>1 DEF AtRest, Read, Complete
<1> QED BY <1>2, <1>3 DEF Held

\* An axis that does not exist, of an array that was read.
LEMMA NoSuchAxis ==
  ASSUME NEW a, NEW b, NEW dims, NEW items, Built(a, b, dims, items),
         NEW j \in DOMAIN dims, ~InRange(dims[j], b.type[2])
  PROVE  \E i \in DOMAIN dims, o \in Arrays : ~InRange(dims[i], Rank(o))
<1>1. items \in Seq(Arrays) /\ Len(items) >= 1
  BY DEF Built
<1>2. 1 \in DOMAIN items /\ items[1] \in Arrays
  BY <1>1, LenProperties, ElementOfSeq
<1>3. b.type = Type(items[1])
  BY <1>2 DEF Built, Alike
<1>4. b.type[2] = Rank(items[1])
  BY <1>3 DEF Type
<1>5. ~InRange(dims[j], Rank(items[1]))
  BY <1>4
<1> QED BY <1>2, <1>5

LEMMA FinalizedKeeps ==
  ASSUME Typed, Read, step = "read", list' \in Seq(Arrays),
         NEW h, NEW b, NEW saw \in Seq(Seq(Arrays)), Len(saw) = at[1],
         Whole(h), IsSeq(h.arena), h.constants = helper.constants,
         \A k \in 1 .. at[1] - 1 : saw[k] = seen[k],
         Built(h.arena, b, Param.dims, saw[at[1]]),
         Walk(h, b, Param.dims) # "undefined",
         Finalized(h, b, saw)
  PROVE  Held' /\ EndsAreExplained'
<1>1. WalkEnds(h, b, Param.dims)
  BY Here, WalkOf
<1>2. CASE Walk(h, b, Param.dims) = "range"
  <2>1. Ends("aborted")
    BY <1>2 DEF Finalized
  <2>2. Held'
    BY <2>1, EndsKeeps
  <2>3. PICK dims : dims = Param.dims
    OBVIOUS
  <2>4. PICK j \in DOMAIN dims : ~InRange(dims[j], b.type[2])
    BY <1>1, <1>2, <2>3 DEF WalkEnds
  <2>5. \E i \in DOMAIN dims, o \in Arrays : ~InRange(dims[i], Rank(o))
    BY <2>3, <2>4, NoSuchAxis
  <2>6. step' = "aborted" /\ Param' = Param
    BY <2>1 DEF Ends, Param
  <2>7. EndsAreExplained'
    BY <2>3, <2>5, <2>6 DEF EndsAreExplained
  <2> QED BY <2>2, <2>7
<1>3. CASE Walk(h, b, Param.dims) = "ok"
  <2>1. PICK c : c = ConstantOf(h.arena, b, Param.dims)
    OBVIOUS
  <2>2. PICK constants : constants = Append(h.constants, c)
    OBVIOUS
  <2>3. helper' = [h EXCEPT !.constants = constants]
    <3>1. helper' = [h EXCEPT !.constants = Append(@, ConstantOf(h.arena, b, Param.dims))]
      BY <1>3 DEF Finalized, ConstantOf
    <3> QED BY <2>1, <2>2, <3>1
  <2>4. /\ seen' = saw /\ at' = << at[1] + 1, 0 >> /\ call' = call
        /\ step' = IF at[1] = Len(call.params) THEN "stage" ELSE "read"
    BY <1>3 DEF Finalized
  <2>5. Reading
    BY DEF Read
  <2>6. h.constants = helper.constants /\ Whole(h) /\ IsSeq(h.arena)
    OBVIOUS
  <2>7. PICK n : n = at[1]
    OBVIOUS
  <2>8. n \in Nat \ {0} /\ n <= Len(call.params) /\ Len(call.params) \in Nat
    BY <2>7, Here
  <2>9. Known(h.constants, call.params, seen) /\ Len(h.constants) = n - 1
    BY <2>5, <2>6, <2>7 DEF Reading
  <2>10. DOMAIN h.constants = 1 .. n - 1 /\ Len(h.constants) + 1 = n
    BY <2>8, <2>9, SeqDomain DEF Known
  <2>11. \A k \in DOMAIN h.constants : saw[k] = seen[k]
    BY <2>7, <2>10
  <2>12. PICK dims : dims = Param.dims
    OBVIOUS
  <2>13. dims = call.params[n].dims
    BY <2>7, <2>12 DEF Param
  <2>14. /\ \A j \in DOMAIN dims : dims[j] \in Int
         /\ \A j \in DOMAIN dims : InRange(dims[j], b.type[2])
    BY <1>1, <1>3, <2>12, Here DEF WalkEnds
  <2>15. PICK items : items = saw[n]
    OBVIOUS
  <2>16. Built(h.arena, b, dims, items)
    BY <2>7, <2>12, <2>15
  <2>17. \A i \in DOMAIN items : TrueOf(c, dims, items[i])
    BY <2>1, <2>12, <2>14, <2>16, ConstantHolds
  <2>18. \A i \in DOMAIN saw[Len(h.constants) + 1] :
           TrueOf(c, call.params[Len(h.constants) + 1].dims, saw[Len(h.constants) + 1][i])
    BY <2>10, <2>13, <2>15, <2>17
  <2>19. Known(constants, call.params, saw) /\ Len(constants) = n
    <3>1. PICK before : before = h.constants
      OBVIOUS
    <3>2. PICK params : params = call.params
      OBVIOUS
    <3>3. PICK old : old = seen
      OBVIOUS
    <3>4. Known(before, params, old) /\ \A k \in DOMAIN before : saw[k] = old[k]
      BY <2>9, <2>11, <3>1, <3>2, <3>3
    <3>5. \A i \in DOMAIN saw[Len(before) + 1] :
            TrueOf(c, params[Len(before) + 1].dims, saw[Len(before) + 1][i])
      BY <2>18, <3>1, <3>2
    <3>6. Known(Append(before, c), params, saw) /\ Len(Append(before, c)) = Len(before) + 1
      BY <3>4, <3>5, KnownMore
    <3> QED BY ONLY <2>2, <2>10, <3>1, <3>2, <3>6
  <2>20. /\ DOMAIN helper' = DOMAIN h /\ helper'.arena = h.arena /\ helper'.room = h.room
         /\ helper'.constants = constants
    BY ONLY <2>3, <2>6 DEF Whole
  <2>21. Typed'
    BY <2>6, <2>20 DEF Typed, Whole
  <2>22. step' \in {"stage", "read"}
    BY <2>4
  <2>23. AtRest' /\ EndsAreExplained'
    BY <2>22 DEF AtRest, EndsAreExplained
  <2>24. Known(helper'.constants, call'.params, seen')
    BY <2>4, <2>19, <2>20
  <2>25. Read'
    <3>1. SUFFICES ASSUME step' = "read" PROVE Reading'
      BY DEF Read
    <3>2. n + 1 \in 1 .. Len(call.params)
      BY <2>4, <2>7, <2>8, <3>1
    <3>3. at' = << n + 1, 0 >>
      BY <2>4, <2>7
    <3>4. at'[1] = n + 1 /\ at'[2] = 0 /\ at' \in (1 .. Len(call.params)) \X Nat
      BY <3>2, <3>3
    <3>5. IsSeq(helper'.arena)
      BY <2>6, <2>20
    <3>6. Len(helper'.constants) = at'[1] - 1 /\ Len(seen') = at'[1] - 1
      BY <2>4, <2>7, <2>8, <2>19, <2>20, <3>4
    <3> QED BY <2>4, <2>24, <3>4, <3>5, <3>6 DEF Reading
  <2>26. Complete'
    <3>1. SUFFICES ASSUME step' \in {"stage", "launch"}
                   PROVE  AllKnown(helper'.constants, call'.params, seen')
      BY DEF Complete
    <3>2. n = Len(call.params)
      BY <2>4, <2>7, <3>1
    <3> QED BY <2>4, <2>7, <2>19, <2>20, <2>24, <3>2 DEF AllKnown
  <2> QED BY <2>21, <2>23, <2>25, <2>26 DEF Held
<1> QED BY <1>1, <1>2, <1>3 DEF WalkEnds

-----------------------------------------------------------------------------
(* The steps of the loop over the arguments. *)

LEMMA ConvertedList ==
  ASSUME Typed, NEW o, Converted(o)
  PROVE  list' \in Seq(Arrays)
BY ArgsAssumption DEF Typed, Converted

LEMMA ReturnedKeeps ==
  ASSUME Returned, Whole(helper')
  PROVE  Held' /\ EndsAreExplained'
<1>1. step' = "idle" /\ at' = << 1, 0 >> /\ seen' = << >> /\ list' = << >>
  BY DEF Returned
<1>2. << >> \in Seq(Arrays)
  BY EmptySeq
<1>3. Typed'
  BY <1>1, <1>2 DEF Typed
<1> QED BY <1>1, <1>3 DEF Held, AtRest, Read, Complete, EndsAreExplained

\* The builder after the first array.
LEMMA BuiltFirst ==
  ASSUME NEW a, NEW b, NEW dims, NEW o \in Arrays, NEW items,
         items \in Seq(Arrays), Len(items) = 1, items[1] = o,
         IsBuilder(b), b.type = Type(o), b.bits = Facts(o), Tells(a, b.first.at, o)
  PROVE  Built(a, b, dims, items)
<1>1. DOMAIN items = 1 .. 1
  BY LenProperties
<1>2. Alike(b, dims, o, o)
  BY DEF Alike, SameShape
<1>3. \A i \in DOMAIN items : Alike(b, dims, items[i], items[1])
  BY <1>1, <1>2
<1> QED BY <1>3 DEF Built

\* The first array that is seen for a parameter.
LEMMA SeenFirst ==
  ASSUME Read, step = "read", Len(seen) = at[1] - 1, NEW o \in Arrays
  PROVE  \E items, saw :
           /\ items \in Seq(Arrays) /\ Len(items) = 1 /\ items[1] = o
           /\ saw = Append(seen, << o >>) /\ saw \in Seq(Seq(Arrays)) /\ Len(saw) = at[1]
           /\ saw[at[1]] = items /\ \A k \in 1 .. at[1] - 1 : saw[k] = seen[k]
<1>1. PICK items : items = << o >>
  OBVIOUS
<1>2. items \in Seq(Arrays) /\ Len(items) = 1 /\ items[1] = o
  BY <1>1
<1>3. PICK saw : saw = Append(seen, items)
  OBVIOUS
<1>4. seen \in Seq(Seq(Arrays))
  BY DEF Read, Reading, Known
<1>5. /\ saw \in Seq(Seq(Arrays)) /\ Len(saw) = Len(seen) + 1
      /\ saw[Len(seen) + 1] = items /\ \A k \in 1 .. Len(seen) : saw[k] = seen[k]
  BY <1>2, <1>3, <1>4, AppendProperties
<1>6. Len(seen) + 1 = at[1]
  BY Here
<1>7. Len(saw) = at[1] /\ saw[at[1]] = items
  BY <1>5, <1>6
<1>8. \A k \in 1 .. at[1] - 1 : saw[k] = seen[k]
  BY <1>5
<1>9. saw = Append(seen, << o >>) /\ saw \in Seq(Seq(Arrays))
  BY <1>1, <1>3, <1>5
<1> QED BY ONLY <1>2, <1>7, <1>8, <1>9

LEMMA ReadArray ==
  ASSUME Typed, Read, extract_array
  PROVE  Held' /\ EndsAreExplained'
<1>1. step = "read" /\ Param.kind = "array"
  BY DEF extract_array
<1>2. PICK o \in Arrays : o = Param.obj
  BY <1>1, Here
<1>3. PICK p : p = Len(helper.arena) + 1
  OBVIOUS
<1>4. PICK g : g = Push(helper, Repr(o))
  OBVIOUS
<1>5. PICK ptrs : ptrs = Append(g.ptrs, p)
  OBVIOUS
<1>6. PICK cuargs : cuargs = g.cuargs \o [j \in DOMAIN Repr(o) |-> p + j - 1]
  OBVIOUS
<1>7. PICK h : h = [g EXCEPT !.ptrs = ptrs, !.cuargs = cuargs]
  OBVIOUS
<1>8. PICK b : b = Started(h, o, p)
  OBVIOUS
<1>9. Converted(o) /\ Finalized(h, b, Append(seen, << o >>))
  BY <1>2, <1>3, <1>4, <1>5, <1>6, <1>7, <1>8 DEF extract_array
<1>10. IsSeq(helper.arena) /\ Whole(helper) /\ Reading
  BY <1>1 DEF Read, Reading, Typed
<1>11. Grown(helper, g) /\ Tells(g.arena, p, o)
  BY <1>3, <1>4, <1>10, ArrayTells
<1>12. DOMAIN h = DOMAIN g /\ h.arena = g.arena /\ h.room = g.room /\ h.constants = g.constants
  BY ONLY <1>7, <1>11 DEF Grown, Whole
<1>13. Grown(helper, h) /\ Tells(h.arena, p, o) /\ h.room \in Nat
  BY <1>11, <1>12, GrownAnyway DEF Grown, Whole
<1>14. /\ IsBuilder(b) /\ b.type = Type(o) /\ b.bits = Facts(o)
       /\ b.first.at = p /\ b.first.room = h.room
  BY <1>8, <1>13 DEF Started, NoBuilder, IsBuilder
<1>15. Len(seen) = at[1] - 1
  <2>1. CASE at[2] = 0
    BY <1>10, <2>1 DEF Reading
  <2>2. CASE at[2] # 0
    BY <1>1, <1>10, <2>2 DEF Reading, InList
  <2> QED BY <2>1, <2>2
<1>16. PICK items, saw :
           /\ items \in Seq(Arrays) /\ Len(items) = 1 /\ items[1] = o
           /\ saw = Append(seen, << o >>) /\ saw \in Seq(Seq(Arrays)) /\ Len(saw) = at[1]
           /\ saw[at[1]] = items /\ \A k \in 1 .. at[1] - 1 : saw[k] = seen[k]
  BY <1>1, <1>15, SeenFirst
<1>17. Built(h.arena, b, Param.dims, items)
  BY <1>13, <1>14, <1>16, BuiltFirst
<1>18. Walk(h, b, Param.dims) # "undefined"
  BY <1>1, <1>14, Here, WalkOf DEF WalkEnds
<1>19. list' \in Seq(Arrays)
  BY <1>9, ConvertedList
<1>20. Whole(h) /\ IsSeq(h.arena) /\ h.constants = helper.constants
  BY <1>13 DEF Grown
<1>21. Finalized(h, b, saw)
  BY <1>9, <1>16
<1> QED BY <1>1, <1>16, <1>17, <1>18, <1>19, <1>20, <1>21, FinalizedKeeps

LEMMA ReadFirst ==
  ASSUME Typed, Read, FirstItem
  PROVE  Held' /\ EndsAreExplained'
<1>1. step = "read" /\ Param.kind = "list" /\ at[2] = 0 /\ list # << >>
  BY DEF FirstItem
<1>2. PICK len : len = Len(list)
  OBVIOUS
<1>3. len \in Nat \ {0} /\ 1 \in DOMAIN list
  BY <1>1, <1>2, EmptySeq, LenProperties DEF Typed
<1>4. PICK o \in Arrays : o = list[1]
  BY <1>3, ElementOfSeq, LenProperties DEF Typed
<1>5. PICK p : p = Len(helper.arena) + 1
  OBVIOUS
<1>6. PICK h : h = ListWords(helper, o, len)
  OBVIOUS
<1>7. PICK b : b = [Started(h, o, p) EXCEPT !.items = p + Len(Repr(o)), !.len = len]
  OBVIOUS
<1>8. /\ Converted(o)
      /\ IF len = 1 THEN Finalized(h, b, Append(seen, << o >>))
         ELSE /\ helper' = h /\ builder' = b /\ seen' = Append(seen, << o >>)
              /\ at' = [at EXCEPT ![2] = 1]
              /\ UNCHANGED << step, call >>
  BY <1>2, <1>4, <1>5, <1>6, <1>7 DEF FirstItem
<1>9. IsSeq(helper.arena) /\ Whole(helper) /\ Reading
  BY <1>1 DEF Read, Reading, Typed
<1>10. Grown(helper, h) /\ Tells(h.arena, p, o)
  BY <1>3, <1>5, <1>6, <1>9, ListTells
<1>22. p + Len(Repr(o)) + len <= Len(h.arena) + 1
  <2>1. Len(helper.arena) + Len(Repr(o)) + len <= Len(h.arena)
    BY <1>3, <1>6, <1>9, ListTells
  <2>2. Len(helper.arena) \in Nat /\ Len(h.arena) \in Nat /\ Len(Repr(o)) \in Nat
    BY <1>9, <1>10, ReprTells, SeqDomain DEF Grown
  <2> QED BY ONLY <1>3, <1>5, <2>1, <2>2
<1>11. Len(Repr(o)) = 1 + 2 * Rank(o) /\ Rank(o) \in Nat /\ p \in Nat
  BY <1>10, ReprTells, RankOf DEF Tells
<1>12. PICK items : items = p + Len(Repr(o))
  OBVIOUS
<1>13. items \in Nat /\ p + Rank(o) < items
  BY ONLY <1>11, <1>12
<1>14. /\ DOMAIN b = {"type", "bits", "items", "len", "first"} /\ DOMAIN b.first = {"room", "at"}
       /\ b.type = Type(o) /\ b.bits = Facts(o) /\ b.items = items /\ b.len = len
       /\ b.first.at = p /\ b.first.room = h.room
  BY ONLY <1>7, <1>12 DEF Started, NoBuilder
<1>15. IsBuilder(b)
  BY <1>3, <1>10, <1>13, <1>14 DEF IsBuilder, Grown, Whole
<1>16. Len(seen) = at[1] - 1
  BY <1>1, <1>9 DEF Reading
<1>17. PICK first, saw :
           /\ first \in Seq(Arrays) /\ Len(first) = 1 /\ first[1] = o
           /\ saw = Append(seen, << o >>) /\ saw \in Seq(Seq(Arrays)) /\ Len(saw) = at[1]
           /\ saw[at[1]] = first /\ \A k \in 1 .. at[1] - 1 : saw[k] = seen[k]
  BY <1>1, <1>16, SeenFirst
<1>18. Built(h.arena, b, Param.dims, first)
  BY <1>10, <1>14, <1>15, <1>17, BuiltFirst
<1>19. list' \in Seq(Arrays)
  BY <1>8, ConvertedList
<1>20. CASE len = 1
  <2>1. Walk(h, b, Param.dims) # "undefined"
    BY <1>1, <1>14, Here, WalkOf DEF WalkEnds
  <2>2. Finalized(h, b, saw)
    BY <1>8, <1>17, <1>20
  <2>3. Whole(h) /\ IsSeq(h.arena) /\ h.constants = helper.constants
    BY <1>10 DEF Grown
  <2> QED BY <1>1, <1>17, <1>18, <1>19, <2>1, <2>2, <2>3, FinalizedKeeps
<1>21. CASE len # 1
  <2>1. /\ helper' = h /\ builder' = b /\ seen' = saw /\ step' = "read" /\ call' = call
        /\ at' = [at EXCEPT ![2] = 1]
    BY <1>1, <1>8, <1>17, <1>21
  <2>2. PICK n \in Nat : n = at[1] /\ n \in 1 .. Len(call.params) /\ at = << n, at[2] >>
    BY <1>1, Here
  <2>3. at' = << n, 1 >>
    BY <2>1, <2>2
  <2>4. Typed' /\ AtRest' /\ Complete' /\ EndsAreExplained'
    BY <1>10, <1>19, <2>1 DEF Typed, AtRest, Complete, EndsAreExplained, Grown
  <2>5. Param' = Param
    BY <2>1, <2>2, <2>3 DEF Param
  <2>6. InList'
    <3>1. at'[1] = n /\ at'[2] = 1
      BY <2>3
    <3>2. Len(seen') = n /\ seen'[n] = first /\ Len(first) = 1
      BY <1>17, <2>1, <2>2
    <3>3. 1 < builder'.len
      BY <1>3, <1>14, <1>21, <2>1
    <3>4. b.type[2] = Rank(o)
      BY <1>14 DEF Type
    <3>5. builder'.first.at + builder'.type[2] < builder'.items
      BY <1>13, <1>14, <2>1, <3>4
    <3>8. builder'.items + builder'.len <= Len(helper'.arena) + 1
      BY <1>12, <1>14, <1>22, <2>1
    <3>6. helper'.room = builder'.first.room /\ Param'.kind = "list"
      BY <1>1, <1>14, <2>1, <2>5
    <3>7. Built(helper'.arena, builder', Param'.dims, first)
      BY <1>18, <2>1, <2>5
    <3> QED BY <3>1, <3>2, <3>3, <3>5, <3>6, <3>7, <3>8 DEF InList
  <2>7. Known(helper'.constants, call'.params, seen') /\ Len(helper'.constants) = n - 1
    <3>1. h.constants = helper.constants
      BY <1>10 DEF Grown
    <3>2. Known(helper.constants, call.params, seen) /\ Len(helper.constants) = n - 1
      BY <1>9, <2>2 DEF Reading
    <3>3. DOMAIN helper.constants = 1 .. n - 1
      BY <3>2, SeqDomain DEF Known
    <3>4. \A k \in DOMAIN helper.constants : saw[k] = seen[k]
      BY <1>17, <2>2, <3>3
    <3>5. Known(helper.constants, call.params, saw)
      BY <1>17, <3>2, <3>4 DEF Known
    <3> QED BY <2>1, <3>1, <3>2, <3>5
  <2>8. Reading'
    <3>1. IsSeq(helper'.arena)
      BY <1>10, <2>1 DEF Grown
    <3>2. at' \in (1 .. Len(call'.params)) \X Nat /\ at'[1] = n /\ at'[2] = 1
      BY <2>1, <2>2, <2>3
    <3> QED BY <2>6, <2>7, <3>1, <3>2 DEF Reading
  <2>9. Read'
    BY <2>8 DEF Read
  <2> QED BY <2>4, <2>9 DEF Held
<1> QED BY <1>20, <1>21

LEMMA ReadNothing ==
  ASSUME Typed, Read, PastTheEnd
  PROVE  Held' /\ EndsAreExplained'
<1>1. /\ step = "read" /\ at[2] > 0 /\ at[2] + 1 > Len(list)
      /\ Ends("undefined") /\ list' = list
  BY DEF PastTheEnd
<1>2. Held'
  <2>1. list' \in Seq(Arrays)
    BY <1>1 DEF Typed
  <2> QED BY <1>1, <2>1, EndsKeeps
<1>3. at[2] \in Nat
  BY <1>1, Here
<1>4. at[2] < builder.len /\ builder.len \in Nat
  BY <1>1, <1>3 DEF Read, Reading, InList, Built, IsBuilder
<1>5. Len(list) \in Nat
  BY LenProperties DEF Typed
<1>6. Len(list') < builder'.len
  <2>1. Len(list) < builder.len
    BY ONLY <1>1, <1>3, <1>4, <1>5
  <2>2. builder' = builder
    BY <1>1 DEF Ends
  <2> QED BY <1>1, <2>1, <2>2
<1>7. step' = "undefined"
  BY <1>1 DEF Ends
<1>8. EndsAreExplained'
  BY <1>6, <1>7 DEF EndsAreExplained
<1> QED BY <1>2, <1>8

\* One more item that is like the first.
LEMMA BuiltNext ==
  ASSUME NEW a, NEW g, NEW b, NEW c, NEW dims, NEW items, Built(a, b, dims, items),
         NEW o \in Arrays, NEW more, more = Append(items, o),
         IsBuilder(c), c.type = b.type, c.bits \subseteq b.bits, c.bits \subseteq Facts(o),
         c.first = b.first, Type(o) = b.type,
         SameShape(dims, b.type[2], o, items[1]),
         Tells(g, b.first.at, items[1])
  PROVE  Built(g, c, dims, more)
<1>1. items \in Seq(Arrays) /\ Len(items) >= 1 /\ Len(items) \in Nat /\ DOMAIN items = 1 .. Len(items)
  BY LenProperties DEF Built
<1>2. PICK n : n = Len(items)
  OBVIOUS
<1>3. n \in Nat /\ n >= 1 /\ DOMAIN items = 1 .. n
  BY ONLY <1>1, <1>2
<1>4. /\ more \in Seq(Arrays) /\ Len(more) = n + 1 /\ more[n + 1] = o
      /\ \A i \in 1 .. n : more[i] = items[i]
  BY <1>1, <1>2, AppendProperties
<1>5. DOMAIN more = 1 .. n + 1
  BY <1>4, LenProperties
<1>6. more[1] = items[1]
  BY <1>3, <1>4
<1>7. ASSUME NEW i \in DOMAIN more PROVE Alike(c, dims, more[i], more[1])
  <2>1. CASE i = n + 1
    BY <1>4, <1>6, <2>1 DEF Alike
  <2>2. CASE i # n + 1
    <3>1. i \in 1 .. n
      BY <1>3, <1>5, <2>2
    <3>2. Alike(b, dims, items[i], items[1]) /\ more[i] = items[i]
      BY <1>3, <1>4, <3>1 DEF Built
    <3> QED BY <1>6, <3>2 DEF Alike
  <2> QED BY <2>1, <2>2
<1>8. Len(more) >= 1
  BY <1>3, <1>4
<1> QED BY <1>4, <1>6, <1>7, <1>8 DEF Built

\* The comparison of the extents compares those of the arrays.
LEMMA ComparedExtents ==
  ASSUME NEW h, NEW b, NEW p, NEW dims, NEW o \in Arrays, NEW f \in Arrays,
         \A j \in DOMAIN dims : dims[j] \in Int,
         b.type = Type(o), b.type = Type(f),
         Tells(h.arena, b.first.at, f), Tells(h.arena, p, o), SameExtents(h, b, p, dims),
         NEW j \in DOMAIN dims, InRange(dims[j], b.type[2])
  PROVE  Shape[o][Axis(dims[j], b.type[2]) + 1] = Shape[f][Axis(dims[j], b.type[2]) + 1]
<1>1. PICK a : a = h.arena
  OBVIOUS
<1>2. PICK d \in Int : d = dims[j]
  OBVIOUS
<1>3. PICK r : r = b.type[2]
  OBVIOUS
<1>4. r = Rank(o) /\ r = Rank(f)
  BY <1>3 DEF Type
<1>5. Extent(a, b.first.at, d, r) = Extent(a, p, d, r)
  BY <1>1, <1>2, <1>3 DEF SameExtents
<1>6. InRange(d, Rank(o)) /\ InRange(d, Rank(f))
  BY <1>2, <1>3, <1>4
<1>7. Extent(a, b.first.at, d, Rank(f)) = Shape[f][Axis(d, Rank(f)) + 1]
  BY <1>1, <1>6, ExtentIsShape
<1>8. Extent(a, p, d, Rank(o)) = Shape[o][Axis(d, Rank(o)) + 1]
  BY <1>1, <1>6, ExtentIsShape
<1> QED BY ONLY <1>2, <1>3, <1>4, <1>5, <1>7, <1>8

SeenAlso(saw, n, items) == [saw EXCEPT ![n] = items]
Longer(saw, more) ==
  /\ saw \in Seq(Seq(Arrays)) /\ Len(saw) = at[1] /\ saw[at[1]] = more
  /\ Len(more) = at[2] + 1 /\ \A k \in 1 .. at[1] - 1 : saw[k] = seen[k]

\* The next array that is seen for a parameter.
LEMMA SeenNext ==
  ASSUME Read, step = "read", at[2] > 0, NEW o \in Arrays,
         NEW more, more = Append(seen[at[1]], o), NEW saw, saw = SeenAlso(seen, at[1], more)
  PROVE  Longer(saw, more)
<1>1. InList /\ seen \in Seq(Seq(Arrays))
  BY Here DEF Read, Reading, Known
<1>2. PICK n : n = at[1]
  OBVIOUS
<1>3. n \in Nat \ {0} /\ Len(seen) = n /\ DOMAIN seen = 1 .. n
  BY <1>1, <1>2, Here, LenProperties DEF InList
<1>4. PICK items : items = seen[n]
  OBVIOUS
<1>5. items \in Seq(Arrays) /\ Len(items) = at[2]
  BY <1>1, <1>2, <1>4 DEF InList, Built
<1>6. more = Append(items, o)
  BY <1>2, <1>4
<1>7. more \in Seq(Arrays) /\ Len(more) = at[2] + 1
  BY <1>5, <1>6, AppendProperties
<1>8. saw = [seen EXCEPT ![n] = more]
  BY <1>2 DEF SeenAlso
<1>9. seen \in [1 .. n -> Seq(Arrays)]
  BY <1>1, <1>3, LenProperties
<1>10. /\ saw \in [1 .. n -> Seq(Arrays)] /\ saw[n] = more
       /\ \A k \in 1 .. n - 1 : saw[k] = seen[k]
  BY ONLY <1>3, <1>7, <1>8, <1>9
<1>11. saw \in Seq(Seq(Arrays))
  BY <1>3, <1>10, SeqDef
<1>12. Len(saw) = n
  BY <1>3, <1>10, <1>11, LenProperties
<1> QED BY ONLY <1>2, <1>7, <1>10, <1>11, <1>12 DEF Longer

LEMMA ReadNext ==
  ASSUME Typed, Read, NextItem
  PROVE  Held' /\ EndsAreExplained'
<1>1. step = "read" /\ at[2] > 0 /\ at[2] + 1 <= Len(list) /\ at[2] \in Nat
  BY Here DEF NextItem
<1>2. PICK i : i = at[2] + 1
  OBVIOUS
<1>3. Len(list) \in Nat /\ DOMAIN list = 1 .. Len(list)
  BY LenProperties DEF Typed
<1>4. i \in Nat /\ i \in DOMAIN list
  BY ONLY <1>1, <1>2, <1>3
<1>5. PICK o \in Arrays : o = list[i]
  BY <1>3, <1>4, ElementOfSeq DEF Typed
<1>6. PICK p : p = Len(helper.arena) + 1
  OBVIOUS
<1>7. PICK g : g = Push(helper, Repr(o))
  OBVIOUS
<1>8. PICK x : x = builder.items + i - 1
  OBVIOUS
<1>9. PICK arena : arena = [g.arena EXCEPT ![x] = << "item", p >>]
  OBVIOUS
<1>10. PICK ptrs : ptrs = Append(g.ptrs, p)
  OBVIOUS
<1>11. PICK h : h = [g EXCEPT !.ptrs = ptrs, !.arena = arena]
  OBVIOUS
<1>12. PICK bits : bits = Common(builder.bits, o)
  OBVIOUS
<1>13. PICK b : b = [builder EXCEPT !.bits = bits]
  OBVIOUS
<1>14. PICK more : more = Append(seen[at[1]], o)
  OBVIOUS
<1>41. PICK saw : saw = SeenAlso(seen, at[1], more)
  OBVIOUS
<1>42. /\ saw \in Seq(Seq(Arrays)) /\ Len(saw) = at[1] /\ saw[at[1]] = more
       /\ Len(more) = at[2] + 1 /\ \A k \in 1 .. at[1] - 1 : saw[k] = seen[k]
  <2>1. Longer(saw, more)
    BY <1>1, <1>14, <1>41, SeenNext
  <2> QED BY <2>1 DEF Longer
<1>15. PICK dims : dims = Param.dims
  OBVIOUS
<1>16. PICK walk : walk = Walk(h, b, dims)
  OBVIOUS
<1>17. IF \/ Type(o) # builder.type \/ walk = "range"
          \/ walk = "ok" /\ ~SameExtents(h, b, p, dims)
       THEN Returned /\ helper' = h
       ELSE /\ Converted(o)
            /\ CASE walk = "undefined" -> Ends("undefined")
                 [] walk = "ok" /\ IsLast(i) -> Finalized(h, b, saw)
                 [] OTHER ->
                      /\ helper' = h /\ builder' = b /\ seen' = saw
                      /\ at' = [at EXCEPT ![2] = i]
                      /\ UNCHANGED << step, call >>
  <2>1. h = [Push(helper, Repr(o)) EXCEPT !.ptrs = Append(@, p),
               !.arena[builder.items + i - 1] = << "item", p >>]
    BY <1>7, <1>8, <1>9, <1>10, <1>11
  <2>2. b = [builder EXCEPT !.bits = Common(@, o)]
    BY <1>12, <1>13
  <2>3. saw = [seen EXCEPT ![at[1]] = Append(@, o)]
    BY <1>14, <1>41 DEF SeenAlso
  <2> QED BY <1>2, <1>5, <1>6, <1>15, <1>16, <2>1, <2>2, <2>3 DEF NextItem
<1>18. Reading /\ InList /\ IsSeq(helper.arena) /\ Whole(helper)
  BY <1>1 DEF Read, Reading, Typed
<1>19. /\ Grown(helper, g) /\ Tells(g.arena, p, o)
       /\ g.room = Capacity(helper.room, Len(helper.arena) + 1 + 2 * Rank(o))
  BY <1>6, <1>7, <1>18, ArrayTells
<1>20. PICK items : items = seen[at[1]]
  OBVIOUS
<1>21. Built(helper.arena, builder, dims, items)
  BY <1>15, <1>18, <1>20 DEF InList
<1>22. /\ items \in Seq(Arrays) /\ Len(items) >= 1 /\ IsBuilder(builder)
       /\ Tells(helper.arena, builder.first.at, items[1])
  BY <1>21 DEF Built
<1>23. 1 \in DOMAIN items
  BY <1>22, LenProperties
<1>24. PICK f \in Arrays : f = items[1]
  BY <1>22, <1>23, ElementOfSeq, LenProperties
<1>25. builder.type = Type(f) /\ builder.type[2] = Rank(f)
  BY <1>21, <1>23, <1>24 DEF Built, Alike, Type
<1>26. PICK q : q = builder.first.at
  OBVIOUS
<1>27. q \in Nat /\ Rank(f) \in Nat /\ q + Rank(f) < builder.items /\ builder.items \in Nat
  BY <1>18, <1>22, <1>24, <1>25, <1>26, RankOf DEF Tells, InList, IsBuilder
<1>28. x \in Nat /\ q + Rank(f) < x
  BY ONLY <1>1, <1>2, <1>8, <1>27
<1>29. Tells(g.arena, q, f) /\ IsSeq(g.arena)
  BY <1>18, <1>19, <1>22, <1>24, <1>26, TellsMore DEF Grown
<1>30. Tells(arena, q, f)
  BY <1>9, <1>28, <1>29, TellsStill
<1>31. /\ DOMAIN h = DOMAIN g /\ h.arena = arena /\ h.room = g.room
       /\ h.constants = g.constants
  BY ONLY <1>11, <1>19 DEF Grown, Whole
<1>32. Whole(h) /\ IsSeq(h.arena) /\ h.constants = helper.constants
  <2>1. IsSeq(arena)
    BY <1>9, <1>29, Replaced
  <2> QED BY <1>19, <1>31, <2>1 DEF Grown, Whole
<1>33. /\ DOMAIN b = DOMAIN builder /\ b.type = builder.type /\ b.bits = bits
       /\ b.items = builder.items /\ b.len = builder.len /\ b.first = builder.first
  BY ONLY <1>13, <1>22 DEF IsBuilder
<1>34. IsBuilder(b)
  BY <1>22, <1>33 DEF IsBuilder
<1>35. bits \subseteq builder.bits /\ bits \subseteq Facts(o)
  BY <1>12 DEF Common
<1>36. WalkEnds(h, b, dims) /\ \A j \in DOMAIN dims : dims[j] \in Int
  BY <1>1, <1>15, Here, WalkOf
<1>37. CASE Type(o) # builder.type \/ walk = "range" \/ (walk = "ok" /\ ~SameExtents(h, b, p, dims))
  BY <1>17, <1>32, <1>37, ReturnedKeeps
<1>38. CASE Type(o) = builder.type /\ walk = "undefined"
  <2>1. Ends("undefined") /\ Converted(o)
    BY <1>17, <1>38
  <2>2. list' \in Seq(Arrays)
    BY <2>1, ConvertedList
  <2>3. Held'
    BY <2>1, <2>2, EndsKeeps
  <2>4. dims # << >> /\ h.room # b.first.room
    BY <1>16, <1>36, <1>38 DEF WalkEnds
  <2>5. helper.room = builder.first.room
    BY <1>15, <1>18, <2>4 DEF InList
  <2>6. PICK need : need = Len(helper.arena) + 1 + 2 * Rank(o)
    OBVIOUS
  <2>7. need \in Nat
    BY <1>18, <2>6, SeqDomain, RankOf
  <2>8. Capacity(helper.room, need) # helper.room
    BY <1>19, <1>31, <1>33, <2>4, <2>5, <2>6
  <2>9. need > helper.room
    BY <1>18, <2>7, <2>8, CapacityOf DEF Whole
  <2>10. Rank(o) = builder.type[2]
    BY <1>38 DEF Type
  <2>11. step' = "undefined" /\ helper' = helper /\ builder' = builder /\ Param' = Param
    BY <2>1 DEF Ends, Param
  <2>12. Param'.dims # << >> /\ Len(helper'.arena) + 1 + 2 * builder'.type[2] > builder'.first.room
    BY ONLY <1>15, <2>4, <2>5, <2>6, <2>9, <2>10, <2>11
  <2>13. EndsAreExplained'
    BY <2>11, <2>12 DEF EndsAreExplained
  <2> QED BY <2>3, <2>13
<1>39. CASE Type(o) = builder.type /\ walk = "ok" /\ SameExtents(h, b, p, dims)
  <2>1. list' \in Seq(Arrays)
    <3>1. Converted(o)
      BY <1>17, <1>39
    <3> QED BY <3>1, ConvertedList
  <2>2. \A j \in DOMAIN dims : InRange(dims[j], b.type[2])
    BY <1>16, <1>36, <1>39 DEF WalkEnds
  <2>3. Rank(o) = Rank(f)
    BY <1>25, <1>39 DEF Type
  <2>4. i <= builder.len /\ builder.len \in Nat
    BY <1>1, <1>2, <1>18, <1>22 DEF InList, IsBuilder
  <2>5. Tells(arena, p, o) /\ Len(helper.arena) + 1 <= Len(arena) + 1
    <3>1. Len(helper.arena) \in Nat /\ builder.items + builder.len <= Len(helper.arena) + 1
      BY <1>18, SeqDomain DEF InList
    <3>2. x <= p /\ p \in Nat
      <4>1. PICK l \in Nat : l = Len(helper.arena)
        BY <3>1
      <4>2. p = l + 1 /\ builder.items + builder.len <= l + 1 /\ builder.items \in Nat
        BY <1>6, <1>27, <3>1, <4>1
      <4>3. x <= p
        BY ONLY <1>4, <1>8, <2>4, <4>1, <4>2
      <4> QED BY ONLY <4>1, <4>2, <4>3
    <3>3. Tells(arena, p, o)
      BY <1>9, <1>19, <1>28, <1>29, <3>2, TellsStill
    <3>4. Len(arena) = Len(g.arena) /\ Len(helper.arena) <= Len(g.arena) /\ Len(g.arena) \in Nat
      BY <1>9, <1>19, <1>29, Replaced, SeqDomain DEF Grown
    <3> QED BY ONLY <3>1, <3>3, <3>4
  <2>6. ASSUME NEW j \in DOMAIN dims, InRange(dims[j], builder.type[2])
        PROVE  Shape[o][Axis(dims[j], builder.type[2]) + 1] = Shape[f][Axis(dims[j], builder.type[2]) + 1]
    <3>1. Tells(h.arena, b.first.at, f) /\ Tells(h.arena, p, o)
      BY <1>26, <1>30, <1>31, <1>33, <2>5
    <3>2. b.type = Type(o) /\ b.type = Type(f) /\ InRange(dims[j], b.type[2])
      BY <1>25, <1>33, <1>39, <2>6
    <3>3. Shape[o][Axis(dims[j], b.type[2]) + 1] = Shape[f][Axis(dims[j], b.type[2]) + 1]
      BY <1>36, <1>39, <3>1, <3>2, ComparedExtents
    <3> QED BY <1>33, <3>3
  <2>7. Built(h.arena, b, dims, more)
    <3>1. more = Append(items, o)
      BY <1>14, <1>42, <1>20
    <3>2. Tells(h.arena, builder.first.at, items[1])
      BY <1>24, <1>26, <1>30, <1>31
    <3>3. PICK old : old = builder
      OBVIOUS
    <3>4. PICK a, w : a = h.arena /\ w = helper.arena
      OBVIOUS
    <3>5. Built(w, old, dims, items)
      BY <1>21, <3>3, <3>4
    <3>6. /\ b.type = old.type /\ b.bits \subseteq old.bits /\ b.bits \subseteq Facts(o)
          /\ b.first = old.first /\ Type(o) = old.type
      BY <1>33, <1>35, <1>39, <3>3
    <3>7. Tells(a, old.first.at, items[1])
      BY <3>2, <3>3, <3>4
    <3>8. SameShape(dims, old.type[2], o, items[1])
      BY <1>24, <2>6, <3>3 DEF SameShape
    <3>9. Built(a, b, dims, more)
      BY <1>34, <3>1, <3>5, <3>6, <3>7, <3>8, BuiltNext
    <3> QED BY <3>4, <3>9
  <2>8. CASE IsLast(i)
    <3>1. Finalized(h, b, saw)
      BY <1>17, <1>39, <2>8
    <3>2. Walk(h, b, Param.dims) # "undefined"
      BY <1>15, <1>16, <1>39
    <3>3. Built(h.arena, b, Param.dims, saw[at[1]])
      BY <1>14, <1>42, <1>15, <2>7
    <3> QED BY <1>1, <1>14, <1>42, <1>32, <2>1, <3>1, <3>2, <3>3, FinalizedKeeps
  <2>9. CASE ~IsLast(i)
    <3>1. /\ helper' = h /\ builder' = b /\ seen' = saw /\ step' = "read" /\ call' = call
          /\ at' = [at EXCEPT ![2] = i]
      BY <1>1, <1>17, <1>39, <2>9
    <3>2. PICK n \in Nat : n = at[1] /\ n \in 1 .. Len(call.params) /\ at = << n, at[2] >>
      BY <1>1, Here
    <3>3. at' = << n, i >>
      BY <3>1, <3>2
    <3>4. at'[1] = n /\ at'[2] = i /\ at' \in (1 .. Len(call'.params)) \X Nat
      BY <1>4, <3>1, <3>2, <3>3
    <3>5. Param' = Param
      BY <3>1, <3>2, <3>4 DEF Param
    <3>6. Typed' /\ AtRest' /\ Complete' /\ EndsAreExplained'
      BY <1>32, <2>1, <3>1 DEF Typed, AtRest, Complete, EndsAreExplained
    <3>7. i < builder'.len
      <4>1. i # builder.len
        BY <2>9 DEF IsLast
      <4> QED BY <1>4, <1>33, <2>4, <3>1, <4>1
    <3>8. Len(seen') = n /\ seen'[n] = more /\ Len(more) = i
      BY <1>2, <1>14, <1>42, <3>1, <3>2
    <3>9. /\ builder'.first.at + builder'.type[2] < builder'.items
          /\ builder'.items + builder'.len <= Len(helper'.arena) + 1
      <4>1. /\ builder.first.at + builder.type[2] < builder.items
            /\ builder.items + builder.len <= Len(helper.arena) + 1
        BY <1>18 DEF InList
      <4>2. Len(helper.arena) \in Nat /\ Len(arena) \in Nat
        BY <1>18, <1>31, <1>32, SeqDomain
      <4>3. builder.items + builder.len <= Len(arena) + 1
        BY ONLY <1>27, <2>4, <2>5, <4>1, <4>2
      <4> QED BY <1>31, <1>33, <3>1, <4>1, <4>3
    <3>10. Param'.kind = "list" /\ (Param'.dims # << >> => helper'.room = builder'.first.room)
      <4>1. Param.kind = "list"
        BY <1>18 DEF InList
      <4>2. dims # << >> => h.room = b.first.room
        BY <1>16, <1>36, <1>39 DEF WalkEnds
      <4> QED BY <1>15, <3>1, <3>5, <4>1, <4>2
    <3>11. Built(helper'.arena, builder', Param'.dims, more)
      BY <1>15, <2>7, <3>1, <3>5
    <3>12. InList'
      BY <3>4, <3>7, <3>8, <3>9, <3>10, <3>11 DEF InList
    <3>13. Known(helper'.constants, call'.params, seen') /\ Len(helper'.constants) = n - 1
      <4>1. Known(helper.constants, call.params, seen) /\ Len(helper.constants) = n - 1
        BY <1>18, <3>2 DEF Reading
      <4>2. DOMAIN helper.constants = 1 .. n - 1
        BY <4>1, SeqDomain DEF Known
      <4>3. \A k \in DOMAIN helper.constants : saw[k] = seen[k]
        BY <1>14, <1>42, <3>2, <4>2
      <4>4. Known(helper.constants, call.params, saw)
        BY <1>14, <1>42, <4>1, <4>3 DEF Known
      <4> QED BY <1>32, <3>1, <4>1, <4>4
    <3>14. Reading'
      BY <1>1, <1>2, <1>32, <3>1, <3>4, <3>12, <3>13 DEF Reading
    <3>15. Read'
      BY <3>14 DEF Read
    <3> QED BY <3>6, <3>15 DEF Held
  <2> QED BY <2>8, <2>9
<1>40. \/ Type(o) # builder.type \/ walk = "range" \/ (walk = "ok" /\ ~SameExtents(h, b, p, dims))
       \/ Type(o) = builder.type /\ walk = "undefined"
       \/ Type(o) = builder.type /\ walk = "ok" /\ SameExtents(h, b, p, dims)
  BY <1>16, <1>36 DEF WalkEnds
<1> QED BY <1>37, <1>38, <1>39, <1>40

-----------------------------------------------------------------------------
(* The other steps of a call. *)

LEMMA NothingKnown ==
  ASSUME NEW params \in ArgLists
  PROVE  /\ Known(<< >>, params, << >>) /\ IsSeq(<< >>) /\ Len(<< >>) = 0
         /\ params = << >> => AllKnown(<< >>, params, << >>)
<1>1. << >> \in Seq({}) /\ << >> \in Seq(Seq(Arrays)) /\ Len(<< >>) = 0
  BY EmptySeq
<1>2. IsSeq(<< >>) /\ DOMAIN << >> = 1 .. 0
  BY <1>1, Elements
<1>3. Known(<< >>, params, << >>)
  BY <1>1, <1>2 DEF Known
<1> QED BY <1>1, <1>2, <1>3 DEF AllKnown

LEMMA CallKeeps ==
  ASSUME Typed, AtRest, Call
  PROVE  Held' /\ EndsAreExplained'
<1>1. step = "idle" /\ at = << 1, 0 >> /\ seen = << >>
  BY DEF Call, AtRest
<1>2. PICK params \in ArgLists :
        /\ call'.params = params /\ step' = IF params = << >> THEN "stage" ELSE "read"
        /\ (list' \in Contents \/ list' = << >>)
  BY DEF Call
<1>3. at' = << 1, 0 >> /\ seen' = << >> /\ helper' = Cleared(helper)
  BY <1>1 DEF Call
<1>4. /\ DOMAIN helper' = {"arena", "room", "cuargs", "ptrs", "lists", "total", "constants"}
      /\ helper'.arena = << >> /\ helper'.room = helper.room /\ helper'.constants = << >>
  BY <1>3 DEF Cleared
<1>5. Typed'
  <2>1. list' \in Seq(Arrays)
    <3>1. << >> \in Seq(Arrays)
      BY EmptySeq
    <3> QED BY <1>2, <3>1, ArgsAssumption
  <2> QED BY <1>4, <2>1 DEF Typed, Whole
<1>6. AtRest' /\ EndsAreExplained'
  BY <1>2 DEF AtRest, EndsAreExplained
<1>7. Read'
  <2>1. SUFFICES ASSUME step' = "read" PROVE Reading'
    BY DEF Read
  <2>2. Len(params) \in Nat /\ Len(params) # 0
    BY <1>2, <2>1, ParamOf
  <2>3. 1 \in 1 .. Len(params)
    BY <2>2
  <2>4. at' \in (1 .. Len(call'.params)) \X Nat /\ at'[1] = 1 /\ at'[2] = 0
    BY <1>2, <1>3, <2>3
  <2>5. /\ IsSeq(helper'.arena) /\ Known(helper'.constants, call'.params, seen')
        /\ Len(helper'.constants) = 0 /\ Len(seen') = 0
    BY <1>2, <1>3, <1>4, NothingKnown
  <2>6. Len(helper'.constants) = at'[1] - 1 /\ Len(seen') = at'[1] - 1
    BY <2>4, <2>5
  <2> QED BY <2>4, <2>5, <2>6 DEF Reading
<1>8. Complete'
  BY <1>2, <1>3, <1>4, NothingKnown DEF Complete
<1> QED BY <1>5, <1>6, <1>7, <1>8 DEF Held

\* A step that neither reads nor returns.
LEMMA OnlyStep ==
  ASSUME Typed, step' \in {"stage", "launch", "wait"}, Whole(helper'), list' = list,
         step' # "wait" => AllKnown(helper'.constants, call'.params, seen')
  PROVE  Held' /\ EndsAreExplained'
<1>1. Typed' /\ AtRest' /\ Read' /\ Complete'
  BY DEF Typed, AtRest, Read, Complete
<1> QED BY <1>1 DEF Held, EndsAreExplained

LEMMA StageKeeps ==
  ASSUME Typed, Complete, stage_list_args_on_stream \/ NothingToStage
  PROVE  Held' /\ EndsAreExplained'
<1>1. step = "stage" /\ step' = "launch" /\ call' = call /\ seen' = seen /\ list' = list
  BY DEF stage_list_args_on_stream, NothingToStage, inCall
<1>2. AllKnown(helper.constants, call.params, seen) /\ Whole(helper)
  BY <1>1 DEF Complete, Typed
<1>3. \/ helper' = helper
      \/ \E c, lo : helper' = Patched(helper, c, lo)
  BY DEF stage_list_args_on_stream, NothingToStage
<1>4. Whole(helper') /\ helper'.constants = helper.constants
  <2>1. ASSUME NEW c, NEW lo, helper' = Patched(helper, c, lo)
        PROVE  Whole(helper') /\ helper'.constants = helper.constants
    <3>1. PICK arena : arena = Patched(helper, c, lo).arena
      OBVIOUS
    <3>2. helper' = [helper EXCEPT !.arena = arena]
      BY <1>2, <2>1, <3>1 DEF Patched, Whole
    <3> QED BY ONLY <1>2, <3>2 DEF Whole
  <2> QED BY <1>2, <1>3, <2>1
<1> QED BY <1>1, <1>2, <1>4, OnlyStep

LEMMA ImportKeeps ==
  ASSUME Typed, Carried, Import
  PROVE  Held' /\ EndsAreExplained'
<1>1. payload # << >> /\ step' = "stage" /\ list' = list
  BY DEF Import
<1>2. PICK p : p = payload[1]
  OBVIOUS
<1>3. Whole(p.helper) /\ AllKnown(p.helper.constants, p.params, p.seen) /\ helper.room \in Nat
  BY <1>1, <1>2 DEF Carried, Typed, Whole
<1>4. call'.params = p.params /\ seen' = p.seen
  BY <1>2 DEF Import
<1>5. PICK arena : helper' = [p.helper EXCEPT !.room = helper.room, !.arena = arena]
  <2>1. \E arena : helper' = [p.helper EXCEPT !.room = helper.room, !.arena = arena]
    BY <1>2 DEF Import
  <2> QED BY <2>1
<1>6. Whole(helper') /\ helper'.constants = p.helper.constants
  BY ONLY <1>3, <1>5 DEF Whole
<1> QED BY <1>1, <1>3, <1>4, <1>6, OnlyStep

-----------------------------------------------------------------------------
(* The queues of the device. *)

LEMMA QueueChanged ==
  ASSUME Launched, NEW s, NEW q, s \in Streams => IsQueue(q), queue' = [queue EXCEPT ![s] = q]
  PROVE  Launched'
<1>1. DOMAIN queue' = Streams /\ \A t \in Streams : queue'[t] = IF t = s THEN q ELSE queue[t]
  BY DEF Launched
<1>2. ASSUME NEW t \in Streams PROVE IsQueue(queue'[t])
  BY <1>1 DEF Launched
<1> QED BY <1>1, <1>2 DEF Launched

LEMMA QueueAppended ==
  ASSUME NEW q, IsQueue(q), NEW w, IsEntry(w), AllKnown(w.constants, w.params, w.seen)
  PROVE  IsQueue(Append(q, w))
<1>1. PICK r : r = Append(q, w)
  OBVIOUS
<1>2. IsSeq(q)
  BY DEF IsQueue
<1>3. Appended(q, w)
  BY <1>2, Added
<1>4. PICK n : n = Len(q)
  OBVIOUS
<1>5. n \in Nat /\ DOMAIN q = 1 .. n
  BY <1>2, <1>4, SeqDomain
<1>6. /\ IsSeq(r) /\ Len(r) = n + 1 /\ r[n + 1] = w
      /\ \A i \in 1 .. n : r[i] = q[i]
  BY <1>1, <1>3, <1>4 DEF Appended
<1>7. DOMAIN r = 1 .. n + 1
  BY <1>6, SeqDomain
<1>8. ASSUME NEW i \in DOMAIN r
      PROVE  IsEntry(r[i]) /\ AllKnown(r[i].constants, r[i].params, r[i].seen)
  <2>1. CASE i = n + 1
    BY <1>6, <2>1
  <2>2. CASE i # n + 1
    <3>1. i \in DOMAIN q
      BY <1>5, <1>7, <2>2
    <3> QED BY <1>5, <1>6, <3>1 DEF IsQueue
  <2> QED BY <2>1, <2>2
<1>9. IsQueue(r)
  BY <1>6, <1>8 DEF IsQueue
<1> QED BY <1>1, <1>9

LEMMA QueueCopied ==
  ASSUME NEW q, IsQueue(q), q # << >>
  PROVE  IsQueue([q EXCEPT ![1] = [q[1] EXCEPT !.copied = TRUE]])
<1>1. IsSeq(q)
  BY DEF IsQueue
<1>2. 1 \in DOMAIN q
  <2>1. Len(q) \in Nat /\ DOMAIN q = 1 .. Len(q) /\ Len(q) # 0
    BY <1>1, NotEmpty, SeqDomain
  <2> QED BY <2>1
<1>3. PICK w : w = [q[1] EXCEPT !.copied = TRUE]
  OBVIOUS
<1>4. PICK v : v = q[1]
  OBVIOUS
<1>5. IsEntry(v) /\ AllKnown(v.constants, v.params, v.seen)
  BY <1>2, <1>4 DEF IsQueue
<1>6. w = [v EXCEPT !.copied = TRUE]
  BY <1>3, <1>4
<1>7. DOMAIN w = DOMAIN v /\ w.constants = v.constants /\ w.params = v.params /\ w.seen = v.seen
  BY ONLY <1>5, <1>6 DEF IsEntry
<1>8. IsEntry(w) /\ AllKnown(w.constants, w.params, w.seen)
  BY <1>5, <1>7 DEF IsEntry
<1>9. PICK r : r = [q EXCEPT ![1] = w]
  OBVIOUS
<1>10. /\ IsSeq(r) /\ DOMAIN r = DOMAIN q /\ r[1] = w
       /\ \A i \in DOMAIN q \ {1} : r[i] = q[i]
  BY <1>1, <1>2, <1>9, Replaced
<1>11. ASSUME NEW i \in DOMAIN r
       PROVE  IsEntry(r[i]) /\ AllKnown(r[i].constants, r[i].params, r[i].seen)
  <2>1. CASE i = 1
    BY <1>8, <1>10, <2>1
  <2>2. CASE i # 1
    BY <1>10, <2>2 DEF IsQueue
  <2> QED BY <2>1, <2>2
<1>12. IsQueue(r)
  BY <1>10, <1>11 DEF IsQueue
<1> QED BY <1>3, <1>9, <1>12

LEMMA QueueTail ==
  ASSUME NEW q, IsQueue(q), q # << >>
  PROVE  IsQueue(Tail(q))
<1>1. IsSeq(q)
  BY DEF IsQueue
<1>2. PICK S : S = {q[n] : n \in DOMAIN q}
  OBVIOUS
<1>3. q \in Seq(S)
  BY <1>1, <1>2 DEF IsSeq
<1>4. PICK r : r = Tail(q)
  OBVIOUS
<1>5. r \in Seq(S) /\ Len(q) \in Nat /\ Len(q) # 0 /\ Len(r) = Len(q) - 1
      /\ \A i \in 1 .. Len(q) - 1 : r[i] = q[i + 1]
  BY <1>1, <1>3, <1>4, HeadTailProperties, NotEmpty, SeqDomain
<1>6. IsSeq(r) /\ DOMAIN r = 1 .. Len(q) - 1 /\ DOMAIN q = 1 .. Len(q)
  BY <1>3, <1>5, Elements
<1>7. ASSUME NEW i \in DOMAIN r
      PROVE  IsEntry(r[i]) /\ AllKnown(r[i].constants, r[i].params, r[i].seen)
  <2>1. i + 1 \in DOMAIN q /\ r[i] = q[i + 1]
    BY <1>5, <1>6
  <2>2. PICK k \in DOMAIN q : r[i] = q[k]
    BY <2>1
  <2> QED BY <2>2 DEF IsQueue
<1>8. IsQueue(r)
  BY <1>6, <1>7 DEF IsQueue
<1> QED BY <1>4, <1>8

LEMMA LaunchKeeps ==
  ASSUME Typed, Complete, Launched, Launch
  PROVE  Held' /\ EndsAreExplained' /\ Launched'
<1>1. step = "launch" /\ helper' = helper
  BY DEF Launch
<1>2. AllKnown(helper.constants, call.params, seen) /\ Whole(helper')
  BY <1>1 DEF Complete, Typed, Whole
<1>3. \/ step' = "wait" /\ UNCHANGED inCall
      \/ Returned
  BY DEF Launch
<1>4. Held' /\ EndsAreExplained'
  <2>1. CASE step' = "wait" /\ UNCHANGED inCall
    <3>1. list' = list
      BY <2>1 DEF inCall
    <3> QED BY <1>2, <2>1, <3>1, OnlyStep
  <2>2. CASE Returned
    BY <1>2, <2>2, ReturnedKeeps
  <2> QED BY <1>3, <2>1, <2>2
<1>5. \/ queue' = queue
      \/ \E regions, copies, kernel :
           queue' = [queue EXCEPT ![call.stream] = Append(@, Work(regions, copies, kernel))]
  BY DEF Launch
<1>6. CASE queue' = queue
  BY <1>4, <1>6 DEF Launched
<1>7. CASE queue' # queue
  <2>1. PICK regions, copies, kernel :
          queue' = [queue EXCEPT ![call.stream] = Append(@, Work(regions, copies, kernel))]
    BY <1>5, <1>7
  <2>2. PICK w : w = Work(regions, copies, kernel)
    OBVIOUS
  <2>3. IsEntry(w) /\ w.constants = helper.constants /\ w.params = call.params /\ w.seen = seen
    BY <2>2 DEF Work, IsEntry
  <2>4. PICK s : s = call.stream
    OBVIOUS
  <2>5. queue' = [queue EXCEPT ![s] = Append(queue[s], w)]
    BY <2>1, <2>2, <2>4
  <2>6. s \in Streams => IsQueue(Append(queue[s], w))
    BY <1>2, <2>3, QueueAppended DEF Launched
  <2>7. Launched'
    BY <2>5, <2>6, QueueChanged
  <2> QED BY <1>4, <2>7
<1> QED BY <1>6, <1>7

LEMMA DeviceKeeps ==
  ASSUME Launched, NEW s \in Streams, Copy(s) \/ Finish(s)
  PROVE  Launched' /\ UNCHANGED << step, inCall, helper, payload >>
<1>1. queue[s] # << >> /\ IsQueue(queue[s])
  BY DEF Copy, Finish, Launched
<1>2. PICK q : q = queue[s]
  OBVIOUS
<1>3. CASE Copy(s)
  <2>1. queue' = [queue EXCEPT ![s] = [q EXCEPT ![1] = [q[1] EXCEPT !.copied = TRUE]]]
    BY <1>2, <1>3 DEF Copy
  <2>2. IsQueue([q EXCEPT ![1] = [q[1] EXCEPT !.copied = TRUE]])
    BY <1>1, <1>2, QueueCopied
  <2> QED BY <1>3, <2>1, <2>2, QueueChanged DEF Copy
<1>4. CASE Finish(s)
  <2>1. queue' = [queue EXCEPT ![s] = Tail(q)]
    BY <1>2, <1>4 DEF Finish
  <2>2. IsQueue(Tail(q))
    BY <1>1, <1>2, QueueTail
  <2> QED BY <1>4, <2>1, <2>2, QueueChanged DEF Finish
<1> QED BY <1>3, <1>4

\* What the worker is sent is what was read.
LEMMA ExportKeeps ==
  ASSUME Typed, Complete, Export
  PROVE  Held' /\ EndsAreExplained' /\ Carried'
<1>1. step = "stage" /\ Returned /\ helper' = helper
  BY DEF Export
<1>2. AllKnown(helper.constants, call.params, seen) /\ Whole(helper)
  BY <1>1 DEF Complete, Typed
<1>3. PICK p : /\ payload' = << p >> /\ p.helper = helper
               /\ p.params = call.params /\ p.seen = seen
  <2>1. \E p : payload' = << p >> /\ p.helper = helper /\ p.params = call.params /\ p.seen = seen
    BY DEF Export
  <2> QED BY <2>1
<1>4. payload'[1] = p
  BY <1>3
<1>5. Carried'
  BY <1>2, <1>3, <1>4 DEF Carried
<1>6. Held' /\ EndsAreExplained'
  BY <1>1, <1>2, ReturnedKeeps
<1> QED BY <1>5, <1>6

-----------------------------------------------------------------------------
(* The invariant, and what it says of every launch. *)

LEMMA InitArgs == Init => ArgsInv
<1> SUFFICES ASSUME Init PROVE ArgsInv
  OBVIOUS
<1>1. Typed
  <2>1. list = << >> /\ helper = Cleared([room |-> 0])
    BY DEF Init
  <2>2. Whole(helper)
    BY <2>1 DEF Whole, Cleared
  <2>3. << >> \in Seq(Arrays)
    BY EmptySeq
  <2> QED BY <2>1, <2>2, <2>3 DEF Typed
<1>2. AtRest /\ Read /\ Complete /\ EndsAreExplained /\ Carried
  BY DEF Init, AtRest, Read, Complete, EndsAreExplained, Carried
<1>3. Launched
  <2>1. DOMAIN queue = Streams /\ \A s \in Streams : queue[s] = << >>
    BY DEF Init
  <2>2. << >> \in Seq({}) /\ DOMAIN << >> = {}
    BY EmptySeq
  <2>3. IsQueue(<< >>)
    BY <2>2, Elements DEF IsQueue
  <2> QED BY <2>1, <2>3 DEF Launched
<1> QED BY <1>1, <1>2, <1>3 DEF ArgsInv

\* A step that leaves the call alone.
LEMMA CallAlone ==
  ASSUME Typed, AtRest, Read, Complete, EndsAreExplained,
         UNCHANGED << step, inCall, helper >>
  PROVE  Held' /\ EndsAreExplained'
<1>1. /\ step' = step /\ helper' = helper /\ call' = call /\ list' = list /\ at' = at
      /\ builder' = builder /\ seen' = seen
  BY DEF inCall
<1>2. Param' = Param
  BY <1>1 DEF Param
<1>3. Typed' /\ AtRest' /\ Complete'
  BY <1>1 DEF Typed, AtRest, Complete
<1>4. Reading => Reading'
  BY <1>1, <1>2 DEF Reading, InList
<1>5. Read'
  BY <1>1, <1>4 DEF Read
<1>6. EndsAreExplained'
  BY <1>1, <1>2 DEF EndsAreExplained
<1> QED BY <1>3, <1>5, <1>6 DEF Held

LEMMA NextArgs == ArgsInv /\ [Next]_vars => ArgsInv'
<1> SUFFICES ASSUME ArgsInv, [Next]_vars PROVE ArgsInv'
  OBVIOUS
<1> USE DEF ArgsInv, Held
<1>1. CASE Call
  <2>1. payload' = payload /\ queue' = queue
    BY <1>1 DEF Call, onDevice
  <2> QED BY <1>1, <2>1, CallKeeps DEF Carried, Launched
<1>2. CASE extract_array
  <2>1. payload' = payload /\ queue' = queue
    BY <1>2 DEF extract_array, onDevice
  <2> QED BY <1>2, <2>1, ReadArray DEF Carried, Launched
<1>3. CASE FirstItem
  <2>1. payload' = payload /\ queue' = queue
    BY <1>3 DEF FirstItem, onDevice
  <2> QED BY <1>3, <2>1, ReadFirst DEF Carried, Launched
<1>4. CASE PastTheEnd
  <2>1. payload' = payload /\ queue' = queue
    BY <1>4 DEF PastTheEnd, onDevice
  <2> QED BY <1>4, <2>1, ReadNothing DEF Carried, Launched
<1>5. CASE NextItem
  <2>1. payload' = payload /\ queue' = queue
    BY <1>5 DEF NextItem, onDevice
  <2> QED BY <1>5, <2>1, ReadNext DEF Carried, Launched
<1>6. CASE Raise
  <2>1. payload' = payload /\ queue' = queue /\ helper' = helper /\ Returned
    BY <1>6 DEF Raise, onDevice
  <2>2. Whole(helper')
    BY <2>1 DEF Typed
  <2> QED BY <2>1, <2>2, ReturnedKeeps DEF Carried, Launched
<1>7. CASE stage_list_args_on_stream \/ NothingToStage
  <2>1. payload' = payload /\ queue' = queue
    BY <1>7 DEF stage_list_args_on_stream, NothingToStage, onDevice
  <2> QED BY <1>7, <2>1, StageKeeps DEF Carried, Launched
<1>8. CASE Launch
  <2>1. payload' = payload
    BY <1>8 DEF Launch
  <2> QED BY <1>8, <2>1, LaunchKeeps DEF Carried
<1>9. CASE Export
  <2>1. queue' = queue
    BY <1>9 DEF Export, onDevice
  <2> QED BY <1>9, <2>1, ExportKeeps DEF Launched
<1>10. CASE Import
  <2>1. payload' = << >> /\ queue' = queue
    BY <1>10 DEF Import, onDevice
  <2> QED BY <1>10, <2>1, ImportKeeps DEF Carried, Launched
<1>11. CASE Synchronize
  <2>1. payload' = payload /\ queue' = queue /\ helper' = helper /\ Returned
    BY <1>11 DEF Synchronize, onDevice
  <2>2. Whole(helper')
    BY <2>1 DEF Typed
  <2> QED BY <2>1, <2>2, ReturnedKeeps DEF Carried, Launched
<1>12. ASSUME NEW s \in Streams, Copy(s) \/ Finish(s) PROVE ArgsInv'
  <2>1. Launched' /\ UNCHANGED << step, inCall, helper, payload >>
    BY <1>12, DeviceKeeps
  <2> QED BY <2>1, CallAlone DEF Carried
<1>13. CASE UNCHANGED vars
  <2>1. UNCHANGED << step, inCall, helper >> /\ payload' = payload /\ queue' = queue
    BY <1>13 DEF vars, onDevice
  <2> QED BY <2>1, CallAlone DEF Carried, Launched
<1> QED
  BY <1>1, <1>2, <1>3, <1>4, <1>5, <1>6, <1>7, <1>8, <1>9, <1>10, <1>11, <1>12, <1>13
  DEF Next, Stopped

\* Whatever is read in which order, and whatever the Python code that runs
\* in between does to the list: the invariant of the loop holds.
THEOREM ArgumentsAreRead == Spec => []ArgsInv
BY InitArgs, NextArgs, PTL DEF Spec

(* A launch ends in a wild read only if Python code shortened the list     *)
(* while it was read, or if the next item does not fit into the arena any  *)
(* more; and it aborts only for a static axis that some array lacks        *)
(* (extract_list, ArrayTypeConstantBuilder).                               *)
THEOREM EndsExplained == Spec => []EndsAreExplained
<1>1. ArgsInv => EndsAreExplained
  BY DEF ArgsInv
<1> QED BY <1>1, ArgumentsAreRead, PTL

(* The constants of every kernel that is waiting or running, in either     *)
(* process, are true of all the arrays that were read for it: type, rank,  *)
(* the divisibilities it was compiled for, and the static extents.         *)
THEOREM ConstantsTrue == Spec => []ConstantsAreTrue
<1>1. ArgsInv => ConstantsAreTrue
  <2> SUFFICES ASSUME ArgsInv,
                      NEW s \in Streams, NEW n \in DOMAIN queue[s],
                      NEW k \in DOMAIN queue[s][n].params,
                      NEW i \in DOMAIN queue[s][n].seen[k]
               PROVE  TrueOf(queue[s][n].constants[k], queue[s][n].params[k].dims,
                             queue[s][n].seen[k][i])
    BY DEF ConstantsAreTrue, TrueOf
  <2>1. PICK w : w = queue[s][n]
    OBVIOUS
  <2>2. AllKnown(w.constants, w.params, w.seen)
    BY <2>1 DEF ArgsInv, Launched, IsQueue
  <2>3. /\ Known(w.constants, w.params, w.seen) /\ Len(w.constants) = Len(w.params)
        /\ IsSeq(w.constants) /\ w.params \in ArgLists
    BY <2>2 DEF AllKnown, Known
  <2>4. DOMAIN w.constants = DOMAIN w.params
    BY <2>3, SeqDomain, ParamOf
  <2>5. TrueOf(w.constants[k], w.params[k].dims, w.seen[k][i])
    BY <2>1, <2>3, <2>4 DEF Known
  <2> QED BY <2>1, <2>5
<1> QED BY <1>1, ArgumentsAreRead, PTL

-----------------------------------------------------------------------------
(* The layout of the words.  m says whether the pointers are the worker's. *)

Img(m, w) == IF m /\ w[1] = "ptr" THEN << "map", w[2], w[3] >> ELSE w

(* The words of o are in the arena, at p.                                  *)
Lies(a, m, p, o) ==
  /\ p \in Nat
  /\ \A j \in 1 .. 1 + 2 * Rank(o) : p + j - 1 \in DOMAIN a /\ a[p + j - 1] = Img(m, Repr(o)[j])

(* The words of a ListArg, as far as its items are read.                   *)
ItemsAt(a, m, x, items) ==
  /\ x.base + 1 \in DOMAIN a /\ a[x.base + 1] = << "int", x.len >>
  /\ \A i \in DOMAIN items :
       /\ x.items + i - 1 \in DOMAIN a /\ a[x.items + i - 1][1] = "item"
       /\ x.size = 1 + 2 * Rank(items[i])
       /\ Lies(a, m, a[x.items + i - 1][2], items[i])

(* The kernel's parameter whose first word is the p-th.                    *)
ListAt(h, p, l) ==
  /\ l \in DOMAIN h.lists /\ p \in DOMAIN h.cuargs /\ p + 1 \in DOMAIN h.cuargs
  /\ h.cuargs[p] = h.lists[l].base /\ h.cuargs[p + 1] = h.lists[l].base + 1
Laid(h, m, kind, items, p) ==
  IF kind = "list"
  THEN \E l \in DOMAIN h.lists :
         ListAt(h, p, l) /\ h.lists[l].len = Len(items) /\ ItemsAt(h.arena, m, h.lists[l], items)
  ELSE /\ Len(items) = 1
       /\ \A j \in 1 .. 1 + 2 * Rank(items[1]) :
            /\ p + j - 1 \in DOMAIN h.cuargs /\ h.cuargs[p + j - 1] \in DOMAIN h.arena
            /\ h.arena[h.cuargs[p + j - 1]] = Img(m, Repr(items[1])[j])

WordsOf(kind, c) == IF kind = "list" THEN 2 ELSE 1 + 2 * c.type[2]
Layings(n, params, constants) ==
  {f \in [1 .. n + 1 -> Nat \ {0}] :
     f[1] = 1 /\ \A k \in 1 .. n : f[k + 1] = f[k] + WordsOf(params[k].kind, constants[k])}
Spread(n, more, h, m, params, saw) ==
  \E f \in Layings(n, params, h.constants) :
    /\ Len(h.cuargs) = f[n + 1] - 1 + more
    /\ \A k \in 1 .. n : Laid(h, m, params[k].kind, saw[k], f[k])

(* Every list has a part of the staged data of its own.                    *)
HasPart(h, l) ==
  LET x == h.lists[l]
  IN /\ x.base \in Nat /\ x.items \in Nat /\ x.len \in Nat \ {0} /\ x.size \in Nat \ {0}
     /\ x.base \in DOMAIN h.arena /\ h.arena[x.base][1] = "size"
     /\ Offset(h, x) \in Nat /\ Offset(h, x) + x.len * x.size <= h.total
Apart(h) ==
  /\ \A l \in DOMAIN h.lists : HasPart(h, l)
  /\ \A l, k \in DOMAIN h.lists : l < k =>
       Offset(h, h.lists[l]) + h.lists[l].len * h.lists[l].size <= Offset(h, h.lists[k])

Elems(q) == {q[j] : j \in DOMAIN q}
Ptrs(a) == {x \in DOMAIN a : a[x][1] = "ptr"}
Listed(h) == Ptrs(h.arena) = Elems(h.ptrs)

Sound(h) == /\ Whole(h) /\ IsSeq(h.arena) /\ IsSeq(h.cuargs) /\ IsSeq(h.ptrs) /\ IsSeq(h.lists)
            /\ h.total \in Nat /\ Apart(h)
Settled(h, m, params, saw) ==
  Sound(h) /\ (m \/ Listed(h)) /\ Spread(Len(params), 0, h, m, params, saw)

(* A list of which some items are read.                                    *)
HalfRead(h, b, items) ==
  LET x == h.lists[Len(h.lists)]
      last == Len(h.cuargs)
  IN /\ last >= 2 /\ ListAt(h, last - 1, Len(h.lists))
     /\ b.len = x.len /\ b.items = x.items /\ x.size = 1 + 2 * b.type[2]
     /\ ItemsAt(h.arena, FALSE, x, items)
     /\ \A i \in Len(items) + 1 .. x.len :
          x.items + i - 1 \in DOMAIN h.arena /\ h.arena[x.items + i - 1] = Nothing
ReadWords ==
  step = "read" =>
    /\ Sound(helper) /\ Listed(helper)
    /\ Spread(at[1] - 1, IF at[2] = 0 THEN 0 ELSE 2, helper, FALSE, call.params, seen)
    /\ at[2] > 0 => HalfRead(helper, builder, seen[at[1]])
StageWords == step = "stage" => Settled(helper, call.stream = Worker, call.params, seen)
PayloadWords ==
  payload # << >> =>
    LET p == payload[1]
    IN /\ Settled(p.helper, FALSE, p.params, p.seen)
       /\ p.patches = Patches(p.helper) /\ p.handles = Handles(p.helper)
CallSane ==
  /\ step \in {"read", "stage", "launch", "wait"} => call.stream \in Streams
  /\ step = "read" => call.stream # Worker
  /\ call.export => call.stream # Worker

-----------------------------------------------------------------------------
(* What a launch finds, and where it stays. *)

Arrives(mem, s, w, k, p) ==
  LET items == w.seen[k]
  IN IF w.params[k].kind = "list"
     THEN \E r \in w.region, n \in Nat :
            /\ w.words[p] = << "addr", r.chunk, n >> /\ w.words[p + 1] = << "int", Len(items) >>
            /\ r.lo <= n /\ n + Len(items) * Size(w, k) <= r.hi
            /\ \A i \in 1 .. Len(items), j \in 1 .. Size(w, k) :
                 mem[r.chunk][n + (i - 1) * Size(w, k) + j - 1] = Img(s = Worker, Repr(items[i])[j])
     ELSE /\ Len(items) = 1
          /\ \A j \in 1 .. Size(w, k) : w.words[p + j - 1] = Img(s = Worker, Repr(items[1])[j])
Delivered(mem, s, w) ==
  \E f \in Layings(Len(w.params), w.params, w.constants) :
    \A k \in 1 .. Len(w.params) : Arrives(mem, s, w, k, f[k])

Mine(s, r) ==
  /\ r.stream = s /\ r.chunk \in Chunks /\ r.lo \in Nat /\ r.hi \in Nat /\ r.hi <= ChunkWords
LaunchWords ==
  step = "launch" => Delivered(host, call.stream, Work(staged, FALSE, FALSE))

Bytes(mem) == DOMAIN mem = Chunks /\ \A c \in Chunks : DOMAIN mem[c] = 0 .. ChunkWords - 1
Flight(r, n) == [stream |-> r.stream, chunk |-> r.chunk, lo |-> r.lo, hi |-> r.hi, left |-> n]

(* The regions of a stream are over in the order of its queue.             *)
InOrder(s, g) ==
  /\ DOMAIN g = DOMAIN queue[s]
  /\ \A n \in DOMAIN queue[s] : queue[s][n].region # {} =>
       /\ g[n] \in 1 .. pend[s]
       /\ \A r \in queue[s][n].region : Flight(r, g[n]) \in inflight
  /\ \A n, k \in DOMAIN queue[s] :
       n < k /\ queue[s][n].region # {} /\ queue[s][k].region # {} => g[n] < g[k]
Regions ==
  /\ Bytes(host) /\ Bytes(dev)
  /\ DOMAIN pend = Streams /\ \A s \in Streams : pend[s] \in Nat
  /\ \A s \in Streams : \E g : InOrder(s, g)
  /\ \A s \in Streams : \A n \in DOMAIN queue[s] : \A r \in queue[s][n].region : Mine(s, r)
  /\ \A s, t \in Streams : \A n \in DOMAIN queue[s], k \in DOMAIN queue[t] :
       << s, n >> # << t, k >> =>
         \A r \in queue[s][n].region, q \in queue[t][k].region : ~Memory!Overlap(r, q)
  /\ step # "launch" => staged = {}
  /\ \A r \in staged : Mine(call.stream, r)
  /\ \A r \in staged, s \in Streams : \A n \in DOMAIN queue[s] : \A q \in queue[s][n].region :
       ~Memory!Overlap(r, q)

QueueWords ==
  \A s \in Streams : \A n \in DOMAIN queue[s] :
    LET w == queue[s][n]
    IN /\ w.kernel /\ w.region # {} => w.copies
       /\ Delivered(IF w.copied THEN dev ELSE host, s, w)
HasThem(saw) == \A k \in DOMAIN saw : \A i \in DOMAIN saw[k] : Base[saw[k][i]][1] \in mapped
Opened ==
  /\ step \in {"stage", "launch"} /\ call.stream = Worker => HasThem(seen)
  /\ \A n \in DOMAIN queue[Worker] :
       queue[Worker][n].kernel => step = "wait" /\ HasThem(queue[Worker][n].seen)

WordsInv == /\ ReadWords /\ StageWords /\ PayloadWords /\ CallSane
            /\ LaunchWords /\ Regions /\ QueueWords /\ Opened

-----------------------------------------------------------------------------
(* What is written stays. *)

LEMMA ReprWords ==
  ASSUME NEW o \in Arrays
  PROVE  /\ Repr(o)[1] = << "ptr", Base[o][1], Base[o][2] >>
         /\ \A j \in 2 .. 1 + 2 * Rank(o) : Repr(o)[j][1] = "int"
<1> DEFINE a == << << "ptr", Base[o][1], Base[o][2] >> >>
           s == Ints(Shape[o])
           t == Ints(Strides(o))
           r == Rank(o)
<1>1. r \in Nat /\ DOMAIN Shape[o] = 1 .. r
  BY RankOf
<1>2. DOMAIN a = 1 .. 1 /\ a = [i \in DOMAIN a |-> a[i]] /\ a[1] = << "ptr", Base[o][1], Base[o][2] >>
  OBVIOUS
<1>3. DOMAIN s = 1 .. r /\ s = [i \in DOMAIN s |-> s[i]] /\ \A i \in 1 .. r : s[i][1] = "int"
  BY <1>1 DEF Ints
<1>4. DOMAIN Strides(o) = 1 .. r
  BY DEF Strides
<1>5. DOMAIN t = 1 .. r /\ t = [i \in DOMAIN t |-> t[i]] /\ \A i \in 1 .. r : t[i][1] = "int"
  BY <1>4 DEF Ints
<1>6. Repr(o) = (a \o s) \o t
  BY DEF Repr
<1>7. r = Rank(o)
  OBVIOUS
<1> HIDE DEF a, s, t, r
<1>8. IsSeq(a) /\ Len(a) = 1 /\ IsSeq(s) /\ Len(s) = r /\ IsSeq(t) /\ Len(t) = r
  BY <1>1, <1>2, <1>3, <1>5, FunctionIsSeq
<1> DEFINE b == a \o s
<1>9. Joined(a, s)
  BY <1>8, Join
<1>10. IsSeq(b) /\ Len(b) = 1 + r /\ b[1] = a[1] /\ \A d \in 1 .. r : b[1 + d] = s[d]
  BY <1>8, <1>9 DEF Joined
<1>11. Repr(o) = b \o t
  BY <1>6
<1> HIDE DEF b
<1>12. Joined(b, t)
  BY <1>8, <1>10, Join
<1>13. PICK c : c = b \o t
  OBVIOUS
<1>14. /\ \A i \in 1 .. 1 + r : c[i] = b[i]
       /\ \A i \in 1 .. r : c[1 + r + i] = t[i]
  BY <1>8, <1>10, <1>12, <1>13 DEF Joined
<1>15. ASSUME NEW j \in 2 .. 1 + 2 * r PROVE c[j][1] = "int"
  <2>1. CASE j <= 1 + r
    <3>1. PICK d \in 1 .. r : j = 1 + d /\ j \in 1 .. 1 + r
      <4>1. j - 1 \in 1 .. r /\ j = 1 + (j - 1) /\ j \in 1 .. 1 + r
        BY <1>1, <2>1
      <4> QED BY <4>1
    <3>2. c[j] = s[d]
      BY <1>10, <1>14, <3>1
    <3> QED BY <1>3, <3>2
  <2>2. CASE ~(j <= 1 + r)
    <3>1. PICK d \in 1 .. r : j = 1 + r + d
      <4>1. j - (1 + r) \in 1 .. r /\ j = 1 + r + (j - (1 + r))
        BY <1>1, <2>2
      <4> QED BY <4>1
    <3>2. c[j] = t[d]
      BY <1>14, <3>1
    <3> QED BY <1>5, <3>2
  <2> QED BY <2>1, <2>2
<1>16. c[1] = << "ptr", Base[o][1], Base[o][2] >>
  BY <1>1, <1>2, <1>10, <1>14
<1> QED BY <1>7, <1>11, <1>13, <1>15, <1>16

LEMMA ImgWord ==
  ASSUME NEW o \in Arrays, NEW m \in BOOLEAN, NEW j \in 1 .. 1 + 2 * Rank(o)
  PROVE  Img(m, Repr(o)[j])[1] \in {"ptr", "map", "int"}
<1>1. Rank(o) \in Nat
  BY RankOf
<1>2. CASE j = 1
  BY <1>2, ReprWords DEF Img
<1>3. CASE j # 1
  <2>1. j \in 2 .. 1 + 2 * Rank(o)
    BY <1>1, <1>3
  <2>2. PICK w : w = Repr(o)[j]
    OBVIOUS
  <2>3. w[1] = "int"
    BY <2>1, <2>2, ReprWords
  <2>4. Img(m, w) = w
    BY <2>3 DEF Img
  <2> QED BY <2>2, <2>3, <2>4
<1> QED BY <1>2, <1>3

KeepsArena(a, g) ==
  \A x \in DOMAIN a : x \in DOMAIN g /\ (a[x][1] # "none" => g[x] = a[x])
Keeps(h, g) ==
  /\ KeepsArena(h.arena, g.arena)
  /\ \A j \in DOMAIN h.cuargs : j \in DOMAIN g.cuargs /\ g.cuargs[j] = h.cuargs[j]
  /\ \A l \in DOMAIN h.lists : l \in DOMAIN g.lists /\ g.lists[l] = h.lists[l]

LEMMA KeepsTwice ==
  ASSUME NEW h, NEW g, NEW k, Keeps(h, g), Keeps(g, k)
  PROVE  Keeps(h, k)
<1>1. ASSUME NEW x \in DOMAIN h.arena
      PROVE  x \in DOMAIN k.arena /\ (h.arena[x][1] # "none" => k.arena[x] = h.arena[x])
  <2>1. x \in DOMAIN g.arena /\ (h.arena[x][1] # "none" => g.arena[x] = h.arena[x])
    BY DEF Keeps, KeepsArena
  <2>2. x \in DOMAIN k.arena /\ (g.arena[x][1] # "none" => k.arena[x] = g.arena[x])
    BY <2>1 DEF Keeps, KeepsArena
  <2> QED BY <2>1, <2>2
<1>2. KeepsArena(h.arena, k.arena)
  BY <1>1 DEF KeepsArena
<1>3. \A j \in DOMAIN h.cuargs : j \in DOMAIN k.cuargs /\ k.cuargs[j] = h.cuargs[j]
  BY DEF Keeps
<1>4. \A l \in DOMAIN h.lists : l \in DOMAIN k.lists /\ k.lists[l] = h.lists[l]
  BY DEF Keeps
<1> QED BY <1>2, <1>3, <1>4 DEF Keeps

LEMMA LiesKept ==
  ASSUME NEW a, NEW g, KeepsArena(a, g), NEW m \in BOOLEAN, NEW p, NEW o \in Arrays,
         Lies(a, m, p, o)
  PROVE  Lies(g, m, p, o)
<1>1. p \in Nat
  BY DEF Lies
<1>2. ASSUME NEW j \in 1 .. 1 + 2 * Rank(o)
      PROVE  p + j - 1 \in DOMAIN g /\ g[p + j - 1] = Img(m, Repr(o)[j])
  <2>1. PICK x : x = p + j - 1
    OBVIOUS
  <2>2. PICK w : w = Img(m, Repr(o)[j])
    OBVIOUS
  <2>3. x \in DOMAIN a /\ a[x] = w
    BY <2>1, <2>2 DEF Lies
  <2>4. w[1] # "none"
    BY <2>2, ImgWord
  <2>5. x \in DOMAIN g /\ g[x] = w
    BY <2>3, <2>4 DEF KeepsArena
  <2> QED BY <2>1, <2>2, <2>5
<1> QED BY <1>1, <1>2 DEF Lies

LEMMA ItemsKept ==
  ASSUME NEW a, NEW g, KeepsArena(a, g), NEW m \in BOOLEAN, NEW x,
         NEW items \in Seq(Arrays), ItemsAt(a, m, x, items)
  PROVE  ItemsAt(g, m, x, items)
<1>1. x.base + 1 \in DOMAIN g /\ g[x.base + 1] = << "int", x.len >>
  <2>1. x.base + 1 \in DOMAIN a /\ a[x.base + 1] = << "int", x.len >>
    BY DEF ItemsAt
  <2>2. a[x.base + 1][1] # "none"
    BY <2>1
  <2> QED BY <2>1, <2>2 DEF KeepsArena
<1>2. ASSUME NEW i \in DOMAIN items
      PROVE  /\ x.items + i - 1 \in DOMAIN g /\ g[x.items + i - 1][1] = "item"
             /\ x.size = 1 + 2 * Rank(items[i])
             /\ Lies(g, m, g[x.items + i - 1][2], items[i])
  <2>1. PICK y : y = x.items + i - 1
    OBVIOUS
  <2>2. y \in DOMAIN a /\ a[y][1] = "item" /\ x.size = 1 + 2 * Rank(items[i])
        /\ Lies(a, m, a[y][2], items[i])
    BY <2>1 DEF ItemsAt
  <2>3. y \in DOMAIN g /\ g[y] = a[y]
    BY <2>2 DEF KeepsArena
  <2>4. items[i] \in Arrays
    BY ElementOfSeq, LenProperties
  <2>5. Lies(g, m, a[y][2], items[i])
    BY <2>2, <2>4, LiesKept
  <2> QED BY <2>1, <2>2, <2>3, <2>5
<1> QED BY <1>1, <1>2 DEF ItemsAt

LEMMA LaidKept ==
  ASSUME NEW h, NEW g, Keeps(h, g), NEW m \in BOOLEAN, NEW kind,
         NEW items \in Seq(Arrays), NEW p, Laid(h, m, kind, items, p)
  PROVE  Laid(g, m, kind, items, p)
<1>1. KeepsArena(h.arena, g.arena)
  BY DEF Keeps
<1>2. CASE kind = "list"
  <2>1. PICK l : /\ ListAt(h, p, l) /\ h.lists[l].len = Len(items)
                 /\ ItemsAt(h.arena, m, h.lists[l], items)
    BY <1>2 DEF Laid
  <2>2. l \in DOMAIN g.lists /\ g.lists[l] = h.lists[l] /\ ListAt(g, p, l)
    BY <2>1 DEF Keeps, ListAt
  <2>3. ItemsAt(g.arena, m, g.lists[l], items)
    BY <1>1, <2>1, <2>2, ItemsKept
  <2> QED BY <1>2, <2>1, <2>2, <2>3 DEF Laid
<1>3. CASE kind # "list"
  <2>1. Len(items) = 1
    BY <1>3 DEF Laid
  <2>2. items[1] \in Arrays
    BY <2>1, ElementOfSeq, LenProperties
  <2>3. ASSUME NEW j \in 1 .. 1 + 2 * Rank(items[1])
        PROVE  /\ p + j - 1 \in DOMAIN g.cuargs /\ g.cuargs[p + j - 1] \in DOMAIN g.arena
               /\ g.arena[g.cuargs[p + j - 1]] = Img(m, Repr(items[1])[j])
    <3>1. PICK w : w = Img(m, Repr(items[1])[j])
      OBVIOUS
    <3>2. PICK q : q = p + j - 1
      OBVIOUS
    <3>3. q \in DOMAIN h.cuargs /\ h.cuargs[q] \in DOMAIN h.arena /\ h.arena[h.cuargs[q]] = w
      BY <1>3, <3>1, <3>2 DEF Laid
    <3>4. w[1] # "none"
      BY <2>2, <3>1, ImgWord
    <3>5. q \in DOMAIN g.cuargs /\ g.cuargs[q] = h.cuargs[q]
      BY <3>3 DEF Keeps
    <3>6. g.cuargs[q] \in DOMAIN g.arena /\ g.arena[g.cuargs[q]] = w
      BY <1>1, <3>3, <3>4, <3>5 DEF KeepsArena
    <3> QED BY <3>1, <3>2, <3>5, <3>6
  <2> QED BY <1>3, <2>1, <2>3 DEF Laid
<1> QED BY <1>2, <1>3

-----------------------------------------------------------------------------
(* Words that are pushed. *)

Extends(a, g) == \A x \in DOMAIN a : x \in DOMAIN g /\ g[x] = a[x]
JoinedArena(a, t) ==
  /\ IsSeq(a \o t) /\ DOMAIN (a \o t) = 1 .. Len(a) + Len(t)
  /\ Extends(a, a \o t)
  /\ \A x \in DOMAIN a : (a \o t)[x] = a[x]
  /\ \A i \in 1 .. Len(t) : (a \o t)[Len(a) + i] = t[i]

LEMMA ArenaJoin ==
  ASSUME NEW a, NEW t, IsSeq(a), IsSeq(t)
  PROVE  JoinedArena(a, t)
<1>1. PICK g : g = a \o t
  OBVIOUS
<1>2. Joined(a, t)
  BY Join
<1>3. /\ IsSeq(g) /\ Len(g) = Len(a) + Len(t)
      /\ \A i \in 1 .. Len(a) : g[i] = a[i]
      /\ \A i \in 1 .. Len(t) : g[Len(a) + i] = t[i]
  BY <1>1, <1>2 DEF Joined
<1>4. Len(a) \in Nat /\ DOMAIN a = 1 .. Len(a) /\ Len(t) \in Nat
  BY SeqDomain
<1>5. DOMAIN g = 1 .. Len(a) + Len(t)
  BY <1>3, SeqDomain
<1>6. \A x \in DOMAIN a : x \in DOMAIN g /\ g[x] = a[x]
  BY ONLY <1>3, <1>4, <1>5
<1>7. Extends(a, g)
  BY <1>6 DEF Extends
<1> QED BY ONLY <1>1, <1>3, <1>5, <1>6, <1>7 DEF JoinedArena

\* Words without pointers.
LEMMA PtrsJoin ==
  ASSUME NEW a, NEW t, IsSeq(a), IsSeq(t), \A i \in 1 .. Len(t) : t[i][1] # "ptr"
  PROVE  Ptrs(a \o t) = Ptrs(a)
<1>1. PICK g : g = a \o t
  OBVIOUS
<1>2. JoinedArena(a, t)
  BY ArenaJoin
<1>3. /\ DOMAIN g = 1 .. Len(a) + Len(t)
      /\ \A x \in DOMAIN a : g[x] = a[x]
      /\ \A i \in 1 .. Len(t) : g[Len(a) + i] = t[i]
  BY <1>1, <1>2 DEF JoinedArena
<1>4. Len(a) \in Nat /\ DOMAIN a = 1 .. Len(a) /\ Len(t) \in Nat
  BY SeqDomain
<1>5. ASSUME NEW x \in DOMAIN g, x \notin DOMAIN a PROVE g[x][1] # "ptr"
  <2>1. PICK i : i = x - Len(a)
    OBVIOUS
  <2>2. i \in 1 .. Len(t) /\ x = Len(a) + i
    BY ONLY <1>3, <1>4, <1>5, <2>1
  <2>3. g[x] = t[i]
    BY <1>3, <2>2
  <2> QED BY <2>2, <2>3
<1>6. DOMAIN a \subseteq DOMAIN g
  BY ONLY <1>3, <1>4
<1>7. ASSUME NEW x PROVE x \in Ptrs(g) <=> x \in Ptrs(a)
  BY <1>3, <1>5, <1>6 DEF Ptrs
<1> QED BY <1>1, <1>7

\* The words of an array.
LEMMA ArrayJoin ==
  ASSUME NEW a, IsSeq(a), NEW o \in Arrays
  PROVE  /\ Lies(a \o Repr(o), FALSE, Len(a) + 1, o)
         /\ Ptrs(a \o Repr(o)) = Ptrs(a) \cup {Len(a) + 1}
<1>1. PICK r : r = Repr(o)
  OBVIOUS
<1>2. PICK g : g = a \o r
  OBVIOUS
<1>3. IsSeq(r) /\ Len(r) = 1 + 2 * Rank(o) /\ Rank(o) \in Nat
  BY <1>1, ReprTells, RankOf
<1>4. JoinedArena(a, r)
  BY <1>3, ArenaJoin
<1>5. /\ DOMAIN g = 1 .. Len(a) + Len(r)
      /\ \A x \in DOMAIN a : g[x] = a[x]
      /\ \A i \in 1 .. Len(r) : g[Len(a) + i] = r[i]
  BY <1>2, <1>4 DEF JoinedArena
<1>6. Len(a) \in Nat /\ DOMAIN a = 1 .. Len(a) /\ Len(r) \in Nat
  BY <1>3, SeqDomain
<1>7. PICK p : p = Len(a) + 1
  OBVIOUS
<1>8. ASSUME NEW j \in 1 .. Len(r)
      PROVE  p + j - 1 \in DOMAIN g /\ g[p + j - 1] = r[j]
  <2>1. p + j - 1 = Len(a) + j /\ Len(a) + j \in 1 .. Len(a) + Len(r)
    BY ONLY <1>6, <1>7
  <2> QED BY <1>5, <2>1
<1>9. \A j \in 1 .. Len(r) : Img(FALSE, r[j]) = r[j]
  BY DEF Img
<1>10. Lies(g, FALSE, p, o)
  <2>1. ASSUME NEW j \in 1 .. 1 + 2 * Rank(o)
        PROVE  p + j - 1 \in DOMAIN g /\ g[p + j - 1] = Img(FALSE, Repr(o)[j])
    <3>1. j \in 1 .. Len(r)
      BY <1>3
    <3> QED BY <1>1, <1>8, <1>9, <3>1
  <2>2. p \in Nat
    BY <1>6, <1>7
  <2> QED BY <2>1, <2>2 DEF Lies
<1>11. r[1][1] = "ptr" /\ \A j \in 2 .. Len(r) : r[j][1] = "int"
  BY <1>1, <1>3, ReprWords
<1>12. ASSUME NEW x \in DOMAIN g, x \notin DOMAIN a
       PROVE  g[x][1] = "ptr" <=> x = p
  <2>1. PICK i : i = x - Len(a)
    OBVIOUS
  <2>4. x \in 1 .. Len(a) + Len(r) /\ x \notin 1 .. Len(a)
    BY <1>5, <1>6, <1>12
  <2>2. i \in 1 .. Len(r) /\ x = Len(a) + i /\ (x = p <=> i = 1) /\ (i # 1 => i \in 2 .. Len(r))
    BY ONLY <1>6, <1>7, <2>1, <2>4
  <2>3. g[x] = r[i]
    BY <1>5, <2>2
  <2> QED BY <1>11, <2>2, <2>3
<1>13. DOMAIN a \subseteq DOMAIN g /\ p \in DOMAIN g /\ p \notin DOMAIN a
  BY ONLY <1>3, <1>5, <1>6, <1>7
<1>14. ASSUME NEW x PROVE x \in Ptrs(g) <=> x \in Ptrs(a) \cup {p}
  BY <1>5, <1>12, <1>13 DEF Ptrs
<1> QED BY <1>1, <1>2, <1>7, <1>10, <1>14

PushedTo(h, g, words) ==
  /\ Whole(g) /\ g.arena = h.arena \o words /\ g.constants = h.constants
  /\ g.cuargs = h.cuargs /\ g.ptrs = h.ptrs /\ g.lists = h.lists /\ g.total = h.total

LEMMA PushWords ==
  ASSUME NEW h, Whole(h), IsSeq(h.arena), NEW words, IsSeq(words)
  PROVE  PushedTo(h, Push(h, words), words)
<1>1. PICK a : a = h.arena \o words
  OBVIOUS
<1>2. PICK r : r = Capacity(h.room, Len(h.arena) + Len(words))
  OBVIOUS
<1>3. PICK g : g = [h EXCEPT !.arena = a, !.room = r]
  OBVIOUS
<1>4. Push(h, words) = g
  BY <1>1, <1>2, <1>3 DEF Push
<1>5. Whole(g) /\ g.arena = a
  BY <1>1, <1>4, PushGrows DEF Grown
<1>6. /\ g.cuargs = h.cuargs /\ g.ptrs = h.ptrs /\ g.lists = h.lists /\ g.total = h.total
      /\ g.constants = h.constants
  BY ONLY <1>3, Whole(h) DEF Whole
<1> QED BY <1>1, <1>4, <1>5, <1>6 DEF PushedTo

WordPushed(h, g, word) ==
  /\ Whole(g) /\ IsSeq(g.arena) /\ g.constants = h.constants
  /\ Extends(h.arena, g.arena) /\ DOMAIN g.arena = 1 .. Len(h.arena) + 1
  /\ g.arena[Len(h.arena) + 1] = word
  /\ word[1] # "ptr" => Ptrs(g.arena) = Ptrs(h.arena)
  /\ g.cuargs = Append(h.cuargs, Len(h.arena) + 1)
  /\ g.ptrs = h.ptrs /\ g.lists = h.lists /\ g.total = h.total

LEMMA PushWord ==
  ASSUME NEW h, Whole(h), IsSeq(h.arena), NEW word
  PROVE  WordPushed(h, push_single_word_cuarg(h, word), word)
<1>1. PICK words : words = << word >>
  OBVIOUS
<1>2. DOMAIN words = 1 .. 1 /\ words = [i \in DOMAIN words |-> words[i]] /\ words[1] = word
  BY <1>1
<1>3. IsSeq(words) /\ Len(words) = 1
  BY <1>2, FunctionIsSeq
<1>4. PICK g : g = Push(h, words)
  OBVIOUS
<1>5. PushedTo(h, g, words)
  BY <1>3, <1>4, PushWords
<1>6. PICK x : x = Append(h.cuargs, Len(h.arena) + 1)
  OBVIOUS
<1>7. PICK k : k = [g EXCEPT !.cuargs = x]
  OBVIOUS
<1>8. push_single_word_cuarg(h, word) = k
  BY <1>1, <1>4, <1>5, <1>6, <1>7 DEF push_single_word_cuarg, PushedTo
<1>9. /\ DOMAIN k = DOMAIN g /\ k.arena = g.arena /\ k.room = g.room /\ k.constants = g.constants
      /\ k.cuargs = x /\ k.ptrs = g.ptrs /\ k.lists = g.lists /\ k.total = g.total
  BY ONLY <1>5, <1>7 DEF PushedTo, Whole
<1>10. JoinedArena(h.arena, words)
  BY <1>3, ArenaJoin
<1>11. /\ IsSeq(k.arena) /\ DOMAIN k.arena = 1 .. Len(h.arena) + 1
       /\ Extends(h.arena, k.arena) /\ k.arena[Len(h.arena) + 1] = word
  BY <1>2, <1>3, <1>5, <1>9, <1>10 DEF JoinedArena, PushedTo
<1>12. word[1] # "ptr" => Ptrs(k.arena) = Ptrs(h.arena)
  BY <1>2, <1>3, <1>5, <1>9, PtrsJoin DEF PushedTo
<1>13. Whole(k)
  BY <1>5, <1>9 DEF PushedTo, Whole
<1>14. WordPushed(h, k, word)
  BY <1>5, <1>6, <1>9, <1>11, <1>12, <1>13 DEF WordPushed, PushedTo
<1> QED BY <1>8, <1>14

LEMMA ExtendsTwice ==
  ASSUME NEW a, NEW b, NEW c, Extends(a, b), Extends(b, c)
  PROVE  Extends(a, c)
BY DEF Extends

LEMMA ExtendsKeeps ==
  ASSUME NEW a, NEW b, Extends(a, b)
  PROVE  KeepsArena(a, b)
BY DEF Extends, KeepsArena

(* What ListWords adds for a list of len items, the first of them o: its   *)
(* words at p, the offsets of the items from q, the two words of the list  *)
(* from b.                                                                 *)
ListPushed(h, k, o, len, p, q, b, size) ==
  /\ Whole(k) /\ IsSeq(k.arena) /\ k.constants = h.constants
  /\ Extends(h.arena, k.arena)
  /\ Lies(k.arena, FALSE, p, o)
  /\ \A i \in 1 .. len : /\ q + i - 1 \in DOMAIN k.arena
                         /\ k.arena[q + i - 1] = IF i = 1 THEN << "item", p >> ELSE Nothing
  /\ b \in DOMAIN k.arena /\ k.arena[b] = << "size", h.total >>
  /\ b + 1 \in DOMAIN k.arena /\ k.arena[b + 1] = << "int", len >>
  /\ Ptrs(k.arena) = Ptrs(h.arena) \cup {p}
  /\ k.ptrs = Append(h.ptrs, p)
  /\ k.cuargs = Append(Append(h.cuargs, b), b + 1)
  /\ k.lists = Append(h.lists, [base |-> b, len |-> len, items |-> q, size |-> size])
  /\ k.total = h.total + len * size

LEMMA PushList ==
  ASSUME NEW h, Whole(h), IsSeq(h.arena), NEW o \in Arrays, NEW len \in Nat,
         NEW p, p = Len(h.arena) + 1, NEW size, size = Len(Repr(o)),
         NEW q, q = p + size, NEW b, b = p + size + len
  PROVE  ListPushed(h, ListWords(h, o, len), o, len, p, q, b, size)
<1>1. PICK l : l = Len(h.arena) /\ DOMAIN h.arena = 1 .. l /\ l \in Nat
  BY SeqDomain
<1>2. size \in Nat /\ size = 1 + 2 * Rank(o) /\ IsSeq(Repr(o))
  BY ReprTells, RankOf
<1>3. p = l + 1 /\ q = l + size + 1 /\ b = l + size + len + 1
      /\ p \in Nat /\ q \in Nat /\ b \in Nat
  <2>1. l \in Nat /\ size \in Nat /\ len \in Nat /\ p = l + 1
    BY <1>1, <1>2
  <2> QED BY ONLY <2>1, q = p + size, b = p + size + len
<1>4. PICK g : g = Push(h, Repr(o))
  OBVIOUS
<1>5. PushedTo(h, g, Repr(o))
  BY <1>2, <1>4, PushWords
<1>6. JoinedArena(h.arena, Repr(o))
  BY <1>2, ArenaJoin
<1>7. /\ IsSeq(g.arena) /\ DOMAIN g.arena = 1 .. l + size /\ Extends(h.arena, g.arena)
      /\ Lies(g.arena, FALSE, p, o) /\ Ptrs(g.arena) = Ptrs(h.arena) \cup {p}
  BY <1>1, <1>5, <1>6, ArrayJoin DEF PushedTo, JoinedArena
<1>8. PICK words : words = [j \in 1 .. len |-> IF j = 1 THEN << "item", p >> ELSE Nothing]
  OBVIOUS
<1>9. /\ IsSeq(words) /\ Len(words) = len
      /\ \A j \in 1 .. len : words[j] = IF j = 1 THEN << "item", p >> ELSE Nothing
      /\ \A j \in 1 .. Len(words) : words[j][1] # "ptr"
  <2>1. DOMAIN words = 1 .. len /\ words = [j \in DOMAIN words |-> words[j]]
    BY <1>8
  <2>2. IsSeq(words) /\ Len(words) = len
    BY <2>1, FunctionIsSeq
  <2>3. \A j \in 1 .. len : words[j] = IF j = 1 THEN << "item", p >> ELSE Nothing
    BY <1>8
  <2> QED BY <2>2, <2>3 DEF Nothing
<1>10. PICK items : items = Push(g, words)
  OBVIOUS
<1>11. Len(g.arena) = l + size
  <2>1. Len(g.arena) \in Nat /\ DOMAIN g.arena = 1 .. Len(g.arena)
    BY <1>7, SeqDomain
  <2>2. l \in Nat /\ size \in Nat
    BY <1>1, <1>2
  <2>3. DOMAIN g.arena = 1 .. l + size
    BY <1>7
  <2> QED BY ONLY <2>1, <2>2, <2>3
<1>12. PushedTo(g, items, words)
  BY <1>5, <1>7, <1>9, <1>10, PushWords DEF PushedTo
<1>13. JoinedArena(g.arena, words)
  BY <1>7, <1>9, ArenaJoin
<1>14. /\ IsSeq(items.arena) /\ DOMAIN items.arena = 1 .. l + size + len
       /\ Extends(g.arena, items.arena) /\ Ptrs(items.arena) = Ptrs(g.arena)
       /\ \A i \in 1 .. len : items.arena[l + size + i] = words[i]
  <2>1. items.arena = g.arena \o words
    BY <1>12 DEF PushedTo
  <2>2. PICK a : a = g.arena \o words
    OBVIOUS
  <2>3. Ptrs(a) = Ptrs(g.arena)
    BY <1>7, <1>9, <2>2, PtrsJoin
  <2>4. /\ IsSeq(a) /\ DOMAIN a = 1 .. Len(g.arena) + Len(words)
        /\ Extends(g.arena, a)
        /\ \A i \in 1 .. Len(words) : a[Len(g.arena) + i] = words[i]
    BY <1>13, <2>2 DEF JoinedArena
  <2> QED BY ONLY <1>9, <1>11, <2>1, <2>2, <2>3, <2>4
<1>15. Len(items.arena) = l + size + len
  <2>1. Len(items.arena) \in Nat /\ DOMAIN items.arena = 1 .. Len(items.arena)
    BY <1>14, SeqDomain
  <2>2. l + size + len \in Nat
    BY <1>1, <1>2
  <2>3. DOMAIN items.arena = 1 .. l + size + len
    BY <1>14
  <2> QED BY ONLY <2>1, <2>2, <2>3
<1>16. PICK base : base = push_single_word_cuarg(items, << "size", h.total >>)
  OBVIOUS
<1>17. WordPushed(items, base, << "size", h.total >>)
  BY <1>12, <1>14, <1>16, PushWord DEF PushedTo
<1>18. PICK both : both = push_single_word_cuarg(base, << "int", len >>)
  OBVIOUS
<1>19. WordPushed(base, both, << "int", len >>)
  <2>1. Whole(base) /\ IsSeq(base.arena)
    BY <1>17 DEF WordPushed
  <2>2. PICK word : word = << "int", len >>
    OBVIOUS
  <2> QED BY <1>18, <2>1, <2>2, PushWord
<1>20. Len(base.arena) = b
  <2>1. IsSeq(base.arena) /\ DOMAIN base.arena = 1 .. l + size + len + 1
    BY <1>15, <1>17 DEF WordPushed
  <2>2. Len(base.arena) \in Nat /\ DOMAIN base.arena = 1 .. Len(base.arena)
    BY <2>1, SeqDomain
  <2>3. l + size + len + 1 \in Nat /\ b = l + size + len + 1
    BY <1>1, <1>2, <1>3
  <2> QED BY ONLY <2>1, <2>2, <2>3
<1>21. /\ base.arena[b] = << "size", h.total >> /\ DOMAIN base.arena = 1 .. b
       /\ both.arena[b + 1] = << "int", len >> /\ DOMAIN both.arena = 1 .. b + 1
       /\ Extends(items.arena, base.arena) /\ Extends(base.arena, both.arena)
  <2>1. Len(items.arena) + 1 = b
    BY <1>3, <1>15
  <2> QED BY <1>17, <1>19, <1>20, <2>1 DEF WordPushed
<1>22. PICK ptrs : ptrs = Append(both.ptrs, p)
  OBVIOUS
<1>23. PICK total : total = both.total + len * size
  OBVIOUS
<1>24. PICK lists : lists = Append(both.lists, [base |-> p + size + len, len |-> len,
                                                items |-> p + size, size |-> size])
  OBVIOUS
<1>25. PICK k : k = [both EXCEPT !.ptrs = ptrs, !.total = total, !.lists = lists]
  OBVIOUS
<1>26. ListWords(h, o, len) = k
  BY <1>4, <1>8, <1>10, <1>16, <1>18, <1>22, <1>23, <1>24, <1>25 DEF ListWords
<1>27. /\ DOMAIN k = DOMAIN both /\ k.arena = both.arena /\ k.room = both.room
       /\ k.constants = both.constants /\ k.cuargs = both.cuargs
       /\ k.ptrs = ptrs /\ k.total = total /\ k.lists = lists
  BY ONLY <1>19, <1>25 DEF WordPushed, Whole
<1>28. /\ both.ptrs = h.ptrs /\ both.lists = h.lists /\ both.total = h.total
       /\ both.constants = h.constants
       /\ both.cuargs = Append(Append(h.cuargs, b), b + 1)
  <2>1. /\ base.ptrs = h.ptrs /\ base.lists = h.lists /\ base.total = h.total
        /\ base.constants = h.constants /\ base.cuargs = Append(h.cuargs, Len(items.arena) + 1)
    BY <1>5, <1>12, <1>17 DEF PushedTo, WordPushed
  <2>2. Len(items.arena) + 1 = b
    BY <1>3, <1>15
  <2> QED BY <1>19, <1>20, <2>1, <2>2 DEF WordPushed
<1>29. Whole(k) /\ IsSeq(k.arena)
  BY <1>19, <1>27 DEF WordPushed, Whole
<1>30. Extends(g.arena, k.arena) /\ Extends(items.arena, k.arena) /\ Extends(h.arena, k.arena)
  <2>1. Extends(items.arena, k.arena)
    BY <1>21, <1>27, ExtendsTwice
  <2>2. Extends(g.arena, k.arena)
    BY <1>14, <2>1, ExtendsTwice
  <2> QED BY <1>7, <2>1, <2>2, ExtendsTwice
<1>31. Lies(k.arena, FALSE, p, o)
  BY <1>7, <1>30, ExtendsKeeps, LiesKept
<1>32. ASSUME NEW i \in 1 .. len
       PROVE  /\ q + i - 1 \in DOMAIN k.arena
              /\ k.arena[q + i - 1] = IF i = 1 THEN << "item", p >> ELSE Nothing
  <2>1. PICK x : x = l + size + i
    OBVIOUS
  <2>2. q + i - 1 = x /\ x \in 1 .. l + size + len
    <3>1. l \in Nat /\ size \in Nat /\ len \in Nat /\ q = l + size + 1
      BY <1>1, <1>2, <1>3
    <3> QED BY ONLY <2>1, <3>1, i \in 1 .. len
  <2>3. x \in DOMAIN items.arena /\ items.arena[x] = words[i]
    BY <1>14, <2>1, <2>2
  <2>4. x \in DOMAIN k.arena /\ k.arena[x] = words[i]
    BY <1>30, <2>3 DEF Extends
  <2> QED BY <1>9, <2>2, <2>4
<1>33. /\ b \in DOMAIN k.arena /\ k.arena[b] = << "size", h.total >>
       /\ b + 1 \in DOMAIN k.arena /\ k.arena[b + 1] = << "int", len >>
  <2>1. b \in 1 .. b /\ b + 1 \in 1 .. b + 1
    BY <1>3
  <2>2. k.arena[b] = base.arena[b]
    BY <1>21, <1>27, <2>1 DEF Extends
  <2>3. b \in 1 .. b + 1
    BY <1>3
  <2> QED BY <1>21, <1>27, <2>1, <2>2, <2>3
<1>34. Ptrs(k.arena) = Ptrs(h.arena) \cup {p}
  <2>1. << "size", h.total >>[1] # "ptr" /\ << "int", len >>[1] # "ptr"
    OBVIOUS
  <2>2. Ptrs(base.arena) = Ptrs(items.arena) /\ Ptrs(both.arena) = Ptrs(base.arena)
    BY <1>17, <1>19, <2>1 DEF WordPushed
  <2> QED BY <1>7, <1>14, <1>27, <2>2
<1>35. /\ k.ptrs = Append(h.ptrs, p) /\ k.cuargs = Append(Append(h.cuargs, b), b + 1)
       /\ k.lists = Append(h.lists, [base |-> b, len |-> len, items |-> q, size |-> size])
       /\ k.total = h.total + len * size /\ k.constants = h.constants
  BY <1>22, <1>23, <1>24, <1>27, <1>28
<1>36. ListPushed(h, k, o, len, p, q, b, size)
  BY <1>29, <1>30, <1>31, <1>32, <1>33, <1>34, <1>35 DEF ListPushed
<1> QED BY <1>26, <1>36

-----------------------------------------------------------------------------
(* The layout when an argument is read. *)

LEMMA SpreadKept ==
  ASSUME NEW h, NEW g, Keeps(h, g), g.constants = h.constants, NEW m \in BOOLEAN,
         NEW n \in Nat, NEW more \in Nat, NEW also \in Nat, NEW sum, sum = more + also,
         NEW params, NEW saw, NEW new,
         \A k \in 1 .. n : saw[k] \in Seq(Arrays) /\ new[k] = saw[k],
         Len(g.cuargs) = Len(h.cuargs) + also,
         Spread(n, more, h, m, params, saw)
  PROVE  Spread(n, sum, g, m, params, new)
<1>1. PICK f \in Layings(n, params, h.constants) :
        /\ Len(h.cuargs) = f[n + 1] - 1 + more
        /\ \A k \in 1 .. n : Laid(h, m, params[k].kind, saw[k], f[k])
  BY DEF Spread
<1>2. f \in Layings(n, params, g.constants)
  BY <1>1
<1>3. f[n + 1] \in Nat
  <2>1. n + 1 \in 1 .. n + 1 /\ f \in [1 .. n + 1 -> Nat \ {0}]
    BY DEF Layings
  <2> QED BY <2>1
<1>4. Len(g.cuargs) = f[n + 1] - 1 + sum
  <2>1. PICK z \in Nat : z = f[n + 1]
    BY <1>3
  <2>2. Len(g.cuargs) = z - 1 + more + also
    BY <1>1, <2>1
  <2> QED BY <2>1, <2>2
<1>5. ASSUME NEW k \in 1 .. n PROVE Laid(g, m, params[k].kind, new[k], f[k])
  BY <1>1, LaidKept
<1> QED BY <1>2, <1>4, <1>5 DEF Spread

\* One parameter more, of which the words were the last.
LEMMA SpreadOn ==
  ASSUME NEW h, NEW g, Keeps(h, g), g.cuargs = h.cuargs, NEW m \in BOOLEAN,
         NEW n \in Nat, IsSeq(h.constants), Len(h.constants) = n,
         NEW c, g.constants = Append(h.constants, c),
         NEW params, NEW saw, \A k \in 1 .. n + 1 : saw[k] \in Seq(Arrays),
         NEW more \in Nat, more = WordsOf(params[n + 1].kind, c),
         Spread(n, more, h, m, params, saw),
         Laid(h, m, params[n + 1].kind, saw[n + 1], Len(h.cuargs) + 1 - more)
  PROVE  Spread(n + 1, 0, g, m, params, saw)
<1>1. PICK f \in Layings(n, params, h.constants) :
        /\ Len(h.cuargs) = f[n + 1] - 1 + more
        /\ \A k \in 1 .. n : Laid(h, m, params[k].kind, saw[k], f[k])
  BY DEF Spread
<1>2. /\ f \in [1 .. n + 1 -> Nat \ {0}] /\ f[1] = 1
      /\ \A k \in 1 .. n : f[k + 1] = f[k] + WordsOf(params[k].kind, h.constants[k])
  BY DEF Layings
<1>3. PICK z \in Nat \ {0} : z = f[n + 1]
  BY <1>2
<1>4. PICK e : e = [k \in 1 .. n + 2 |-> IF k = n + 2 THEN z + more ELSE f[k]]
  OBVIOUS
<1>5. e \in [1 .. n + 2 -> Nat \ {0}] /\ e[1] = 1 /\ e[n + 2] = z + more
      /\ \A k \in 1 .. n + 1 : e[k] = f[k]
  <2>1. z + more \in Nat \ {0} /\ n + 2 \in 1 .. n + 2
    BY <1>3
  <2>2. ASSUME NEW k \in 1 .. n + 1
        PROVE  k \in 1 .. n + 2 /\ e[k] = f[k] /\ e[k] \in Nat \ {0}
    <3>1. k \in 1 .. n + 2 /\ k # n + 2
      BY <2>2
    <3>2. f[k] \in Nat \ {0}
      BY <1>2, <2>2
    <3> QED BY ONLY <1>4, <3>1, <3>2
  <2>3. e[n + 2] = z + more
    BY ONLY <1>4, <2>1
  <2>4. \A k \in 1 .. n + 2 : e[k] \in Nat \ {0}
    <3>1. \A k \in 1 .. n + 2 : k = n + 2 \/ k \in 1 .. n + 1
      OBVIOUS
    <3> QED BY ONLY <2>1, <2>2, <2>3, <3>1
  <2>5. e \in [1 .. n + 2 -> Nat \ {0}]
    BY ONLY <1>4, <2>4
  <2>6. 1 \in 1 .. n + 1
    OBVIOUS
  <2> QED BY <1>2, <2>2, <2>3, <2>5, <2>6
<1>6. Appended(h.constants, c)
  BY Added
<1>7. /\ \A k \in 1 .. n : g.constants[k] = h.constants[k]
      /\ g.constants[n + 1] = c
  BY <1>6 DEF Appended
<1>8. ASSUME NEW k \in 1 .. n + 1
      PROVE  e[k + 1] = e[k] + WordsOf(params[k].kind, g.constants[k])
  <2>1. CASE k = n + 1
    BY <1>3, <1>5, <1>7, <2>1
  <2>2. CASE k # n + 1
    <3>1. k \in 1 .. n /\ k \in 1 .. n + 1 /\ k + 1 \in 1 .. n + 1
      BY <2>2
    <3> QED BY <1>2, <1>5, <1>7, <3>1
  <2> QED BY <2>1, <2>2
<1>9. e \in Layings(n + 1, params, g.constants)
  <2>1. n + 1 + 1 = n + 2
    OBVIOUS
  <2> QED BY <1>5, <1>8, <2>1 DEF Layings
<1>10. /\ Len(g.cuargs) = e[n + 1 + 1] - 1 + 0 /\ z = Len(h.cuargs) + 1 - more
  <2>1. Len(h.cuargs) = z - 1 + more
    BY <1>1, <1>3
  <2>2. e[n + 1 + 1] = z + more
    BY <1>5
  <2> QED BY <2>1, <2>2
<1>11. ASSUME NEW k \in 1 .. n + 1 PROVE Laid(g, m, params[k].kind, saw[k], e[k])
  <2>1. Laid(h, m, params[k].kind, saw[k], e[k])
    <3>1. CASE k = n + 1
      BY <1>3, <1>5, <1>10, <3>1
    <3>2. CASE k # n + 1
      <4>1. k \in 1 .. n
        BY <3>2
      <4> QED BY <1>1, <1>5, <4>1
    <3> QED BY <3>1, <3>2
  <2> QED BY <2>1, LaidKept
<1> QED BY <1>9, <1>10, <1>11 DEF Spread

LEMMA ApartKept ==
  ASSUME NEW h, NEW g, Apart(h), KeepsArena(h.arena, g.arena),
         g.lists = h.lists, g.total = h.total
  PROVE  Apart(g)
<1>1. ASSUME NEW l \in DOMAIN h.lists
      PROVE  HasPart(g, l) /\ Offset(g, h.lists[l]) = Offset(h, h.lists[l])
  <2>1. PICK x : x = h.lists[l]
    OBVIOUS
  <2>2. HasPart(h, l)
    BY DEF Apart
  <2>3. x.base \in DOMAIN h.arena /\ h.arena[x.base][1] = "size"
    BY <2>1, <2>2 DEF HasPart
  <2>4. x.base \in DOMAIN g.arena /\ g.arena[x.base] = h.arena[x.base]
    BY <2>3 DEF KeepsArena
  <2>5. Offset(g, x) = Offset(h, x)
    BY <2>4 DEF Offset
  <2>6. /\ x.base \in Nat /\ x.items \in Nat /\ x.len \in Nat \ {0} /\ x.size \in Nat \ {0}
        /\ Offset(h, x) \in Nat /\ Offset(h, x) + x.len * x.size <= h.total
    BY <2>1, <2>2 DEF HasPart
  <2>7. HasPart(g, l)
    BY <2>1, <2>3, <2>4, <2>5, <2>6 DEF HasPart
  <2> QED BY <2>1, <2>5, <2>7
<1>2. ASSUME NEW l \in DOMAIN h.lists, NEW k \in DOMAIN h.lists, l < k
      PROVE  Offset(g, h.lists[l]) + h.lists[l].len * h.lists[l].size <= Offset(g, h.lists[k])
  <2>1. Offset(h, h.lists[l]) + h.lists[l].len * h.lists[l].size <= Offset(h, h.lists[k])
    BY <1>2 DEF Apart
  <2> QED BY <1>1, <2>1
<1> QED BY <1>1, <1>2 DEF Apart

\* A list more, behind what the others have.
LEMMA ApartMore ==
  ASSUME NEW h, NEW g, Apart(h), KeepsArena(h.arena, g.arena), IsSeq(h.lists), h.total \in Nat,
         NEW x, x.base \in Nat, x.items \in Nat, x.len \in Nat \ {0}, x.size \in Nat \ {0},
         g.lists = Append(h.lists, x), g.total = h.total + x.len * x.size,
         x.base \in DOMAIN g.arena, g.arena[x.base] = << "size", h.total >>
  PROVE  Apart(g)
<1>1. PICK n \in Nat : n = Len(h.lists) /\ DOMAIN h.lists = 1 .. n
  BY SeqDomain
<1>2. Appended(h.lists, x)
  BY Added
<1>3. /\ IsSeq(g.lists) /\ Len(g.lists) = n + 1 /\ g.lists[n + 1] = x
      /\ \A l \in 1 .. n : g.lists[l] = h.lists[l]
  BY <1>1, <1>2 DEF Appended
<1>4. DOMAIN g.lists = 1 .. n + 1
  BY <1>3, SeqDomain
<1>5. PICK part \in Nat : part = x.len * x.size
  OBVIOUS
<1>6. PICK t \in Nat : t = h.total
  OBVIOUS
<1>7. Offset(g, x) = t /\ g.total = t + part
  BY <1>5, <1>6 DEF Offset
<1>8. HasPart(g, n + 1)
  <2>1. g.arena[x.base][1] = "size"
    OBVIOUS
  <2>2. Offset(g, x) \in Nat /\ Offset(g, x) + part <= g.total
    BY <1>7
  <2> QED BY <1>3, <1>5, <2>1, <2>2 DEF HasPart
<1>9. ASSUME NEW l \in 1 .. n
      PROVE  /\ HasPart(g, l) /\ Offset(g, h.lists[l]) = Offset(h, h.lists[l])
             /\ Offset(g, h.lists[l]) + h.lists[l].len * h.lists[l].size <= t
  <2>1. PICK y : y = h.lists[l]
    OBVIOUS
  <2>2. HasPart(h, l)
    BY <1>1 DEF Apart
  <2>3. y.base \in DOMAIN h.arena /\ h.arena[y.base][1] = "size"
    BY <2>1, <2>2 DEF HasPart
  <2>4. y.base \in DOMAIN g.arena /\ g.arena[y.base] = h.arena[y.base]
    BY <2>3 DEF KeepsArena
  <2>5. Offset(g, y) = Offset(h, y)
    BY <2>4 DEF Offset
  <2>6. /\ y.base \in Nat /\ y.items \in Nat /\ y.len \in Nat \ {0} /\ y.size \in Nat \ {0}
        /\ Offset(h, y) \in Nat /\ Offset(h, y) + y.len * y.size <= t
    BY <1>6, <2>1, <2>2 DEF HasPart
  <2>7. Offset(g, y) + y.len * y.size <= g.total
    <3>1. PICK z \in Nat : z = y.len * y.size
      BY <2>6
    <3>2. PICK u \in Nat : u = Offset(h, y)
      BY <2>6
    <3>3. u + z <= t
      BY <2>6, <3>1, <3>2
    <3>4. u + z <= t + part
      BY ONLY <1>5, <1>6, <3>1, <3>2, <3>3
    <3> QED BY <1>7, <2>5, <3>1, <3>2, <3>4
  <2>8. HasPart(g, l)
    BY <1>3, <2>1, <2>3, <2>4, <2>5, <2>6, <2>7 DEF HasPart
  <2> QED BY <2>1, <2>5, <2>6, <2>8
<1>10. ASSUME NEW l \in 1 .. n + 1, NEW k \in 1 .. n + 1, l < k
       PROVE  Offset(g, g.lists[l]) + g.lists[l].len * g.lists[l].size <= Offset(g, g.lists[k])
  <2>1. l \in 1 .. n
    BY <1>10
  <2>2. CASE k = n + 1
    BY <1>3, <1>7, <1>9, <2>1, <2>2
  <2>3. CASE k # n + 1
    <3>1. k \in 1 .. n
      BY <2>3
    <3>2. Offset(h, h.lists[l]) + h.lists[l].len * h.lists[l].size <= Offset(h, h.lists[k])
      BY <1>1, <1>10, <2>1, <3>1 DEF Apart
    <3> QED BY <1>3, <1>9, <2>1, <3>1, <3>2
  <2> QED BY <2>2, <2>3
<1>11. \A l \in 1 .. n + 1 : HasPart(g, l)
  <2>1. ASSUME NEW l \in 1 .. n + 1 PROVE HasPart(g, l)
    <3>1. l = n + 1 \/ l \in 1 .. n
      OBVIOUS
    <3> QED BY <1>8, <1>9, <3>1
  <2> QED BY <2>1
<1> QED BY <1>4, <1>10, <1>11 DEF Apart

\* h has the words of all parameters up to this one.
FullyRead(h, b, items) ==
  /\ Sound(h) /\ Listed(h)
  /\ Laid(h, FALSE, Param.kind, items, Len(h.cuargs) + 1 - WordsOf(Param.kind, b))

ReadOn == /\ ReadWords' /\ StageWords' /\ CallSane'
          /\ step' \notin {"launch", "wait"} /\ (step' = "stage" => call'.stream # Worker)

LEMMA FinalizedWords ==
  ASSUME Read, CallSane, step = "read", NEW h, NEW b, NEW saw \in Seq(Seq(Arrays)),
         Len(saw) = at[1], h.constants = helper.constants, b.type[2] \in Nat,
         FullyRead(h, b, saw[at[1]]),
         Spread(at[1] - 1, WordsOf(Param.kind, b), h, FALSE, call.params, saw),
         Finalized(h, b, saw)
  PROVE  ReadOn
<1>1. call.stream \in Streams /\ call.stream # Worker
  BY DEF CallSane
<1>2. CASE Ends("aborted") \/ Ends("undefined")
  <2>1. step' \in {"aborted", "undefined"} /\ call' = call
    BY <1>2 DEF Ends
  <2>2. ReadWords' /\ StageWords'
    BY <2>1 DEF ReadWords, StageWords
  <2>3. CallSane'
    BY <2>1 DEF CallSane
  <2> QED BY <2>1, <2>2, <2>3 DEF ReadOn
<1>3. CASE ~(Ends("aborted") \/ Ends("undefined"))
  <2>1. PICK c : c = ConstantOf(h.arena, b, Param.dims)
    OBVIOUS
  <2>2. PICK constants : constants = Append(h.constants, c)
    OBVIOUS
  <2>3. /\ helper' = [h EXCEPT !.constants = constants] /\ seen' = saw
        /\ at' = << at[1] + 1, 0 >> /\ call' = call
        /\ step' = IF at[1] = Len(call.params) THEN "stage" ELSE "read"
    <3>1. /\ helper' = [h EXCEPT !.constants = Append(@, ConstantOf(h.arena, b, Param.dims))]
          /\ seen' = saw /\ at' = << at[1] + 1, 0 >> /\ call' = call
          /\ step' = IF at[1] = Len(call.params) THEN "stage" ELSE "read"
      BY <1>3 DEF Finalized, ConstantOf
    <3> QED BY <2>1, <2>2, <3>1
  <2>4. PICK g : g = [h EXCEPT !.constants = constants]
    OBVIOUS
  <2>5. Sound(h) /\ Listed(h)
    BY DEF FullyRead
  <2>6. /\ DOMAIN g = DOMAIN h /\ g.arena = h.arena /\ g.room = h.room /\ g.cuargs = h.cuargs
        /\ g.ptrs = h.ptrs /\ g.lists = h.lists /\ g.total = h.total
        /\ g.constants = constants
    BY ONLY <2>4, <2>5 DEF Sound, Whole
  <2>7. Keeps(h, g) /\ KeepsArena(h.arena, g.arena)
    BY <2>6 DEF Keeps, KeepsArena
  <2>8. Apart(g)
    BY <2>5, <2>6, <2>7, ApartKept DEF Sound
  <2>9. Sound(g) /\ Listed(g)
    BY <2>5, <2>6, <2>8 DEF Sound, Listed, Whole
  <2>10. PICK n \in Nat : n = at[1] - 1 /\ n + 1 = at[1]
    BY Here
  <2>11. IsSeq(h.constants) /\ Len(h.constants) = n
    BY <2>10 DEF Read, Reading, Known
  <2>12. \A k \in 1 .. n + 1 : saw[k] \in Seq(Arrays)
    BY <2>10, ElementOfSeq
  <2>13. PICK params : params = call.params
    OBVIOUS
  <2>14. PICK more : more = WordsOf(Param.kind, b)
    OBVIOUS
  <2>15. more \in Nat
    BY <2>14 DEF WordsOf
  <2>16. more = WordsOf(params[n + 1].kind, c)
    <3>1. c.type = b.type
      BY <2>1 DEF ConstantOf
    <3>2. Param.kind = params[n + 1].kind
      BY <2>10, <2>13 DEF Param
    <3> QED BY <2>14, <3>1, <3>2 DEF WordsOf
  <2>17. Spread(n, more, h, FALSE, params, saw)
    BY <2>10, <2>13, <2>14
  <2>18. Laid(h, FALSE, params[n + 1].kind, saw[n + 1], Len(h.cuargs) + 1 - more)
    BY <2>10, <2>13, <2>14 DEF FullyRead, Param
  <2>19. Spread(n + 1, 0, g, FALSE, params, saw)
    BY ONLY <2>2, <2>6, <2>7, <2>11, <2>12, <2>15, <2>16, <2>17, <2>18, n \in Nat, SpreadOn
  <2>20. ReadWords'
    <3>1. at'[1] - 1 = n + 1 /\ at'[2] = 0 /\ ~(at'[2] > 0)
      BY <2>3, <2>10
    <3>2. /\ Sound(helper') /\ Listed(helper')
          /\ Spread(at'[1] - 1, 0, helper', FALSE, call'.params, seen')
      BY <2>3, <2>4, <2>9, <2>13, <2>19, <3>1
    <3>3. (IF at[2] = 0 THEN 0 ELSE 2)' = 0
      BY <3>1
    <3> QED BY <3>1, <3>2, <3>3 DEF ReadWords
  <2>21. StageWords'
    <3>1. SUFFICES ASSUME step' = "stage"
                   PROVE  Settled(helper', call'.stream = Worker, call'.params, seen')
      BY DEF StageWords
    <3>2. Len(params) = n + 1
      BY <2>3, <2>10, <2>13, <3>1
    <3>3. Settled(g, FALSE, params, saw)
      BY <2>9, <2>19, <3>2 DEF Settled
    <3> QED BY <1>1, <2>3, <2>4, <2>13, <3>3
  <2>22. step' \in {"stage", "read"} /\ CallSane'
    BY <1>1, <2>3 DEF CallSane
  <2> QED BY <1>1, <2>3, <2>20, <2>21, <2>22 DEF ReadOn
<1> QED BY <1>2, <1>3

\* All items are read: the list is laid.
LEMMA LaidList ==
  ASSUME NEW h, NEW b, NEW items \in Seq(Arrays), HalfRead(h, b, items),
         Len(items) = b.len, Len(h.cuargs) \in Nat
  PROVE  Laid(h, FALSE, "list", items, Len(h.cuargs) + 1 - 2)
<1>1. PICK l : l = Len(h.lists)
  OBVIOUS
<1>2. /\ ListAt(h, Len(h.cuargs) - 1, l) /\ h.lists[l].len = Len(items)
      /\ ItemsAt(h.arena, FALSE, h.lists[l], items)
  BY <1>1 DEF HalfRead
<1>3. l \in DOMAIN h.lists
  BY <1>2 DEF ListAt
<1>4. Len(h.cuargs) + 1 - 2 = Len(h.cuargs) - 1
  OBVIOUS
<1> QED BY <1>2, <1>3, <1>4 DEF Laid

LEMMA ListedMore ==
  ASSUME NEW h, NEW g, Listed(h), IsSeq(h.ptrs), NEW p,
         Ptrs(g.arena) = Ptrs(h.arena) \cup {p}, g.ptrs = Append(h.ptrs, p)
  PROVE  IsSeq(g.ptrs) /\ Listed(g)
<1>1. PICK n \in Nat : n = Len(h.ptrs) /\ DOMAIN h.ptrs = 1 .. n
  BY SeqDomain
<1>2. Appended(h.ptrs, p)
  BY Added
<1>3. /\ IsSeq(g.ptrs) /\ Len(g.ptrs) = n + 1 /\ g.ptrs[n + 1] = p
      /\ \A j \in 1 .. n : g.ptrs[j] = h.ptrs[j]
  BY <1>1, <1>2 DEF Appended
<1>4. DOMAIN g.ptrs = 1 .. n + 1
  BY <1>3, SeqDomain
<1>5. \A j \in 1 .. n + 1 : j \in 1 .. n \/ j = n + 1
  OBVIOUS
<1>6. ASSUME NEW x PROVE x \in Elems(g.ptrs) <=> x \in Elems(h.ptrs) \cup {p}
  <2>1. ASSUME x \in Elems(g.ptrs) PROVE x \in Elems(h.ptrs) \cup {p}
    <3>1. PICK j \in 1 .. n + 1 : x = g.ptrs[j]
      BY <1>4, <2>1 DEF Elems
    <3>2. j \in 1 .. n \/ j = n + 1
      BY <1>5
    <3> QED BY <1>1, <1>3, <3>1, <3>2 DEF Elems
  <2>2. ASSUME x \in Elems(h.ptrs) PROVE x \in Elems(g.ptrs)
    <3>1. PICK j \in 1 .. n : x = h.ptrs[j]
      BY <1>1, <2>2 DEF Elems
    <3>2. j \in 1 .. n + 1 /\ x = g.ptrs[j]
      BY <1>3, <3>1
    <3> QED BY <1>4, <3>2 DEF Elems
  <2>3. n + 1 \in 1 .. n + 1
    OBVIOUS
  <2>4. p \in Elems(g.ptrs)
    BY <1>3, <1>4, <2>3 DEF Elems
  <2> QED BY <2>1, <2>2, <2>4
<1>7. Elems(g.ptrs) = Elems(h.ptrs) \cup {p}
  BY <1>6
<1> QED BY <1>3, <1>7 DEF Listed

ArrayPushed(h, k, o, p) ==
  /\ Whole(k) /\ IsSeq(k.arena) /\ k.constants = h.constants
  /\ Extends(h.arena, k.arena)
  /\ Lies(k.arena, FALSE, p, o)
  /\ Ptrs(k.arena) = Ptrs(h.arena) \cup {p}
  /\ k.ptrs = Append(h.ptrs, p)
  /\ k.cuargs = h.cuargs \o [j \in 1 .. 1 + 2 * Rank(o) |-> p + j - 1]
  /\ k.lists = h.lists /\ k.total = h.total

LEMMA PushArray ==
  ASSUME NEW h, Whole(h), IsSeq(h.arena), NEW o \in Arrays, NEW p, p = Len(h.arena) + 1,
         NEW g, g = Push(h, Repr(o)), NEW ptrs, ptrs = Append(g.ptrs, p),
         NEW cuargs, cuargs = g.cuargs \o [j \in DOMAIN Repr(o) |-> p + j - 1],
         NEW k, k = [g EXCEPT !.ptrs = ptrs, !.cuargs = cuargs]
  PROVE  ArrayPushed(h, k, o, p)
<1>1. IsSeq(Repr(o)) /\ DOMAIN Repr(o) = 1 .. 1 + 2 * Rank(o)
  BY ReprTells, SeqDomain
<1>2. PushedTo(h, g, Repr(o))
  BY <1>1, PushWords
<1>3. JoinedArena(h.arena, Repr(o))
  BY <1>1, ArenaJoin
<1>4. /\ IsSeq(g.arena) /\ Extends(h.arena, g.arena)
      /\ Lies(g.arena, FALSE, p, o) /\ Ptrs(g.arena) = Ptrs(h.arena) \cup {p}
  BY <1>2, <1>3, ArrayJoin DEF PushedTo, JoinedArena
<1>5. Whole(g) /\ g.ptrs = h.ptrs /\ g.cuargs = h.cuargs /\ g.lists = h.lists
      /\ g.total = h.total /\ g.constants = h.constants
  BY <1>2 DEF PushedTo
<1>6. /\ DOMAIN k = DOMAIN g /\ k.arena = g.arena /\ k.room = g.room /\ k.constants = g.constants
      /\ k.ptrs = ptrs /\ k.cuargs = cuargs /\ k.lists = g.lists /\ k.total = g.total
  BY ONLY <1>5, k = [g EXCEPT !.ptrs = ptrs, !.cuargs = cuargs] DEF Whole
<1>7. Whole(k)
  BY <1>5, <1>6 DEF Whole
<1> QED BY <1>1, <1>4, <1>5, <1>6, <1>7 DEF ArrayPushed

\* The words of an array parameter.
LEMMA LaidArray ==
  ASSUME NEW h, IsSeq(h.cuargs), NEW k, NEW o \in Arrays, NEW p, ArrayPushed(h, k, o, p),
         NEW items \in Seq(Arrays), Len(items) = 1, items[1] = o
  PROVE  /\ IsSeq(k.cuargs) /\ Len(k.cuargs) = Len(h.cuargs) + (1 + 2 * Rank(o))
         /\ Keeps(h, k)
         /\ Laid(k, FALSE, "array", items, Len(h.cuargs) + 1)
<1>1. PICK s \in Nat : s = 1 + 2 * Rank(o)
  BY RankOf
<1>2. PICK t : t = [j \in 1 .. s |-> p + j - 1]
  OBVIOUS
<1>3. IsSeq(t) /\ Len(t) = s /\ \A j \in 1 .. s : t[j] = p + j - 1
  <2>1. DOMAIN t = 1 .. s /\ t = [j \in DOMAIN t |-> t[j]]
    BY <1>2
  <2> QED BY <1>2, <2>1, FunctionIsSeq
<1>4. k.cuargs = h.cuargs \o t
  BY <1>1, <1>2 DEF ArrayPushed
<1>5. PICK l \in Nat : l = Len(h.cuargs) /\ DOMAIN h.cuargs = 1 .. l
  BY SeqDomain
<1>6. JoinedArena(h.cuargs, t)
  BY <1>3, ArenaJoin
<1>7. /\ IsSeq(k.cuargs) /\ DOMAIN k.cuargs = 1 .. l + s
      /\ Extends(h.cuargs, k.cuargs) /\ \A j \in 1 .. s : k.cuargs[l + j] = p + j - 1
  BY <1>3, <1>4, <1>5, <1>6 DEF JoinedArena
<1>8. Len(k.cuargs) = l + s
  <2>1. Len(k.cuargs) \in Nat /\ DOMAIN k.cuargs = 1 .. Len(k.cuargs)
    BY <1>7, SeqDomain
  <2>2. DOMAIN k.cuargs = 1 .. l + s
    BY <1>7
  <2> QED BY ONLY <2>1, <2>2, l \in Nat, s \in Nat
<1>9. Keeps(h, k)
  <2>1. KeepsArena(h.arena, k.arena) /\ k.lists = h.lists
    BY ExtendsKeeps DEF ArrayPushed
  <2> QED BY <1>7, <2>1 DEF Keeps, Extends
<1>10. ASSUME NEW j \in 1 .. s
       PROVE  /\ l + 1 + j - 1 \in DOMAIN k.cuargs /\ k.cuargs[l + 1 + j - 1] \in DOMAIN k.arena
              /\ k.arena[k.cuargs[l + 1 + j - 1]] = Img(FALSE, Repr(o)[j])
  <2>1. l + 1 + j - 1 = l + j /\ l + j \in 1 .. l + s
    OBVIOUS
  <2>2. PICK x : x = p + j - 1
    OBVIOUS
  <2>3. k.cuargs[l + j] = x
    BY <1>7, <2>2
  <2>4. x \in DOMAIN k.arena /\ k.arena[x] = Img(FALSE, Repr(o)[j])
    BY <1>1, <2>2 DEF ArrayPushed, Lies
  <2> QED BY <1>7, <2>1, <2>3, <2>4
<1>11. Laid(k, FALSE, "array", items, l + 1)
  <2>1. PICK y : y = l + 1
    OBVIOUS
  <2>2. \A j \in 1 .. 1 + 2 * Rank(items[1]) :
          /\ y + j - 1 \in DOMAIN k.cuargs /\ k.cuargs[y + j - 1] \in DOMAIN k.arena
          /\ k.arena[k.cuargs[y + j - 1]] = Img(FALSE, Repr(items[1])[j])
    BY <1>1, <1>10, <2>1
  <2> QED BY <2>1, <2>2 DEF Laid
<1> QED BY <1>1, <1>5, <1>7, <1>8, <1>9, <1>11

LEMMA ArrayWords ==
  ASSUME Typed, Read, ReadWords, CallSane, extract_array
  PROVE  ReadOn
<1>1. step = "read" /\ Param.kind = "array"
  BY DEF extract_array
<1>2. PICK o \in Arrays : o = Param.obj
  BY <1>1, Here
<1>3. PICK p : p = Len(helper.arena) + 1
  OBVIOUS
<1>4. PICK g : g = Push(helper, Repr(o))
  OBVIOUS
<1>5. PICK ptrs : ptrs = Append(g.ptrs, p)
  OBVIOUS
<1>6. PICK cuargs : cuargs = g.cuargs \o [j \in DOMAIN Repr(o) |-> p + j - 1]
  OBVIOUS
<1>7. PICK h : h = [g EXCEPT !.ptrs = ptrs, !.cuargs = cuargs]
  OBVIOUS
<1>8. PICK b : b = Started(h, o, p)
  OBVIOUS
<1>9. Converted(o) /\ Finalized(h, b, Append(seen, << o >>))
  BY <1>2, <1>3, <1>4, <1>5, <1>6, <1>7, <1>8 DEF extract_array
<1>10. IsSeq(helper.arena) /\ Whole(helper) /\ Reading
  BY <1>1 DEF Read, Reading, Typed
<1>11. ArrayPushed(helper, h, o, p)
  BY ONLY <1>3, <1>4, <1>5, <1>6, <1>7, <1>10, o \in Arrays, PushArray
<1>12. b.type = Type(o)
  BY <1>8 DEF Started, NoBuilder
<1>13. b.type[2] = Rank(o) /\ Rank(o) \in Nat
  BY <1>12, RankOf DEF Type
<1>14. at[2] = 0 /\ Len(seen) = at[1] - 1
  <2>1. CASE at[2] = 0
    BY <1>10, <2>1 DEF Reading
  <2>2. CASE at[2] # 0
    BY <1>1, <1>10, <2>2 DEF Reading, InList
  <2> QED BY <2>1, <2>2
<1>15. PICK items, saw :
           /\ items \in Seq(Arrays) /\ Len(items) = 1 /\ items[1] = o
           /\ saw = Append(seen, << o >>) /\ saw \in Seq(Seq(Arrays)) /\ Len(saw) = at[1]
           /\ saw[at[1]] = items /\ \A k \in 1 .. at[1] - 1 : saw[k] = seen[k]
  BY <1>1, <1>14, SeenFirst
<1>16. PICK n \in Nat : n = at[1] - 1 /\ n + 1 = at[1]
  BY <1>1, Here
<1>17. /\ Sound(helper) /\ Listed(helper)
       /\ Spread(n, 0, helper, FALSE, call.params, seen)
  BY <1>1, <1>14, <1>16 DEF ReadWords
<1>18. IsSeq(helper.cuargs) /\ IsSeq(helper.ptrs) /\ IsSeq(helper.lists)
       /\ helper.total \in Nat /\ Apart(helper)
  BY <1>17 DEF Sound
<1>19. PICK more \in Nat : more = 1 + 2 * Rank(o)
  BY <1>13
<1>20. /\ IsSeq(h.cuargs) /\ Len(h.cuargs) = Len(helper.cuargs) + more
       /\ Keeps(helper, h) /\ Laid(h, FALSE, "array", items, Len(helper.cuargs) + 1)
  BY <1>11, <1>15, <1>18, <1>19, LaidArray
<1>21. PICK l \in Nat : l = Len(helper.cuargs)
  BY <1>18, SeqDomain
<1>22. Len(h.cuargs) + 1 - more = l + 1
  <2>1. Len(h.cuargs) = l + more
    BY <1>20, <1>21
  <2> QED BY <2>1
<1>23. IsSeq(h.ptrs) /\ Listed(h)
  BY <1>11, <1>17, <1>18, ListedMore DEF ArrayPushed
<1>24. Apart(h)
  BY <1>11, <1>18, <1>20, ApartKept DEF ArrayPushed, Keeps
<1>25. Sound(h)
  BY <1>11, <1>18, <1>20, <1>23, <1>24 DEF Sound, ArrayPushed
<1>26. WordsOf(Param.kind, b) = more
  BY <1>1, <1>13, <1>19 DEF WordsOf
<1>27. FullyRead(h, b, saw[at[1]])
  <2>1. Laid(h, FALSE, Param.kind, items, Len(h.cuargs) + 1 - WordsOf(Param.kind, b))
    BY <1>1, <1>20, <1>21, <1>22, <1>26
  <2> QED BY <1>15, <1>23, <1>25, <2>1 DEF FullyRead
<1>28. Spread(n, more, h, FALSE, call.params, saw)
  <2>1. PICK params : params = call.params
    OBVIOUS
  <2>2. PICK old : old = seen
    OBVIOUS
  <2>3. \A k \in 1 .. n : old[k] \in Seq(Arrays) /\ saw[k] = old[k]
    <3>1. seen \in Seq(Seq(Arrays))
      BY <1>10 DEF Reading, Known
    <3>2. \A k \in 1 .. n : seen[k] \in Seq(Arrays)
      BY <1>14, <1>16, <3>1, ElementOfSeq
    <3>3. \A k \in 1 .. n : saw[k] = seen[k]
      BY <1>15, <1>16
    <3> QED BY <2>2, <3>2, <3>3
  <2>4. PICK h0 : h0 = helper
    OBVIOUS
  <2>5. Keeps(h0, h) /\ h.constants = h0.constants /\ Len(h.cuargs) = Len(h0.cuargs) + more
    BY <1>11, <1>20, <2>4 DEF ArrayPushed
  <2>6. Spread(n, 0, h0, FALSE, params, old)
    BY <1>17, <2>1, <2>2, <2>4
  <2>7. more = 0 + more
    OBVIOUS
  <2>8. Spread(n, more, h, FALSE, params, saw)
    BY ONLY <2>3, <2>5, <2>6, <2>7, n \in Nat, more \in Nat, SpreadKept
  <2> QED BY <2>1, <2>8
<1>29. Finalized(h, b, saw)
  BY <1>9, <1>15
<1>30. h.constants = helper.constants
  BY <1>11 DEF ArrayPushed
<1>31. Spread(at[1] - 1, WordsOf(Param.kind, b), h, FALSE, call.params, saw)
  BY <1>16, <1>26, <1>28
<1> QED BY <1>1, <1>13, <1>15, <1>27, <1>29, <1>30, <1>31, FinalizedWords

HalfPushed(h, k, b, items) ==
  /\ Sound(k) /\ Listed(k) /\ Keeps(h, k) /\ k.constants = h.constants
  /\ Len(k.cuargs) = Len(h.cuargs) + 2 /\ HalfRead(k, b, items)

LEMMA HalfFirst ==
  ASSUME NEW h, Sound(h), Listed(h), NEW k, NEW o \in Arrays, NEW len \in Nat \ {0},
         NEW p, NEW q \in Nat, NEW b \in Nat, NEW size, size = 1 + 2 * Rank(o),
         ListPushed(h, k, o, len, p, q, b, size),
         NEW bld, bld.len = len, bld.items = q, bld.type[2] = Rank(o),
         NEW items \in Seq(Arrays), Len(items) = 1, items[1] = o
  PROVE  HalfPushed(h, k, bld, items)
<1>1. size \in Nat \ {0}
  BY RankOf
<1>2. IsSeq(h.cuargs) /\ IsSeq(h.ptrs) /\ IsSeq(h.lists) /\ h.total \in Nat /\ Apart(h)
  BY DEF Sound
<1>3. PICK l \in Nat : l = Len(h.cuargs) /\ DOMAIN h.cuargs = 1 .. l
  BY <1>2, SeqDomain
<1>4. PICK c : c = Append(h.cuargs, b)
  OBVIOUS
<1>5. /\ IsSeq(c) /\ Len(c) = l + 1 /\ c[l + 1] = b
      /\ \A j \in 1 .. l : c[j] = h.cuargs[j]
  BY <1>2, <1>3, <1>4, Added DEF Appended
<1>6. k.cuargs = Append(c, b + 1)
  BY <1>4 DEF ListPushed
<1>7. /\ IsSeq(k.cuargs) /\ Len(k.cuargs) = l + 1 + 1 /\ k.cuargs[l + 1 + 1] = b + 1
      /\ \A j \in 1 .. l + 1 : k.cuargs[j] = c[j]
  BY <1>5, <1>6, Added DEF Appended
<1>8. DOMAIN k.cuargs = 1 .. l + 2 /\ Len(k.cuargs) = l + 2
  BY <1>7, SeqDomain
<1>9. PICK m \in Nat : m = Len(h.lists) /\ DOMAIN h.lists = 1 .. m
  BY <1>2, SeqDomain
<1>10. PICK x : x = [base |-> b, len |-> len, items |-> q, size |-> size]
  OBVIOUS
<1>11. x.base = b /\ x.len = len /\ x.items = q /\ x.size = size
  BY <1>10
<1>12. k.lists = Append(h.lists, x)
  BY <1>10 DEF ListPushed
<1>13. /\ IsSeq(k.lists) /\ Len(k.lists) = m + 1 /\ k.lists[m + 1] = x
       /\ \A j \in 1 .. m : k.lists[j] = h.lists[j]
  BY <1>2, <1>9, <1>12, Added DEF Appended
<1>14. DOMAIN k.lists = 1 .. m + 1
  BY <1>13, SeqDomain
<1>15. KeepsArena(h.arena, k.arena)
  BY ExtendsKeeps DEF ListPushed
<1>16. Keeps(h, k)
  <2>1. ASSUME NEW j \in 1 .. l PROVE j \in 1 .. l + 2 /\ k.cuargs[j] = h.cuargs[j]
    <3>1. j \in 1 .. l + 1 /\ j \in 1 .. l + 2
      OBVIOUS
    <3> QED BY <1>5, <1>7, <3>1
  <2>2. ASSUME NEW j \in 1 .. m PROVE j \in 1 .. m + 1 /\ k.lists[j] = h.lists[j]
    BY <1>13
  <2> QED BY <1>3, <1>8, <1>9, <1>14, <1>15, <2>1, <2>2 DEF Keeps
<1>17. Apart(k)
  <2>1. k.total = h.total + x.len * x.size
    BY <1>11 DEF ListPushed
  <2>2. x.base \in DOMAIN k.arena /\ k.arena[x.base] = << "size", h.total >>
    BY <1>11 DEF ListPushed
  <2>3. x.base \in Nat /\ x.items \in Nat /\ x.len \in Nat \ {0} /\ x.size \in Nat \ {0}
    BY <1>1, <1>11
  <2> QED BY <1>2, <1>12, <1>15, <2>1, <2>2, <2>3, ApartMore
<1>18. IsSeq(k.ptrs) /\ Listed(k)
  BY <1>2, ListedMore DEF ListPushed
<1>19. k.total \in Nat
  <2>1. k.total = h.total + len * size
    BY DEF ListPushed
  <2> QED BY <1>1, <1>2, <2>1
<1>20. Sound(k)
  BY <1>7, <1>13, <1>17, <1>18, <1>19 DEF Sound, ListPushed
<1>21. ListAt(k, l + 1, m + 1)
  <2>1. l + 1 \in 1 .. l + 2 /\ l + 1 + 1 \in 1 .. l + 2 /\ m + 1 \in 1 .. m + 1
        /\ l + 1 \in 1 .. l + 1
    OBVIOUS
  <2>2. k.cuargs[l + 1] = b
    BY <1>5, <1>7, <2>1
  <2>3. k.cuargs[l + 1 + 1] = b + 1
    BY <1>7
  <2>4. k.lists[m + 1].base = b
    BY <1>11, <1>13
  <2> QED BY <1>8, <1>14, <2>1, <2>2, <2>3, <2>4 DEF ListAt
<1>22. ASSUME NEW i \in 1 .. len
       PROVE  /\ q + i - 1 \in DOMAIN k.arena
              /\ k.arena[q + i - 1] = IF i = 1 THEN << "item", p >> ELSE Nothing
  BY DEF ListPushed
<1>23. ItemsAt(k.arena, FALSE, x, items)
  <2>1. x.base + 1 \in DOMAIN k.arena /\ k.arena[x.base + 1] = << "int", x.len >>
    BY <1>11 DEF ListPushed
  <2>2. DOMAIN items = 1 .. 1
    BY LenProperties
  <2>3. 1 \in 1 .. len
    OBVIOUS
  <2>4. x.items + 1 - 1 \in DOMAIN k.arena /\ k.arena[x.items + 1 - 1] = << "item", p >>
    BY <1>11, <1>22, <2>3
  <2>5. << "item", p >>[1] = "item" /\ << "item", p >>[2] = p
    OBVIOUS
  <2>6. Lies(k.arena, FALSE, p, o)
    BY DEF ListPushed
  <2>7. ASSUME NEW i \in DOMAIN items
        PROVE  /\ x.items + i - 1 \in DOMAIN k.arena /\ k.arena[x.items + i - 1][1] = "item"
               /\ x.size = 1 + 2 * Rank(items[i])
               /\ Lies(k.arena, FALSE, k.arena[x.items + i - 1][2], items[i])
    <3>1. i = 1
      BY <2>2
    <3> QED BY <1>11, <2>4, <2>5, <2>6, <3>1
  <2> QED BY <2>1, <2>7 DEF ItemsAt
<1>24. ASSUME NEW i \in Len(items) + 1 .. len
       PROVE  q + i - 1 \in DOMAIN k.arena /\ k.arena[q + i - 1] = Nothing
  <2>1. i \in 1 .. len /\ i # 1
    OBVIOUS
  <2> QED BY <1>22, <2>1
<1>25. HalfRead(k, bld, items)
  <2>1. Len(k.cuargs) >= 2 /\ Len(k.cuargs) - 1 = l + 1
    BY <1>8
  <2>2. ListAt(k, Len(k.cuargs) - 1, Len(k.lists))
    BY <1>13, <1>21, <2>1
  <2>3. k.lists[Len(k.lists)] = x
    BY <1>13
  <2>4. /\ bld.len = x.len /\ bld.items = x.items /\ x.size = 1 + 2 * bld.type[2]
    BY <1>11
  <2> QED BY <1>11, <1>23, <1>24, <2>1, <2>2, <2>3, <2>4 DEF HalfRead
<1>26. k.constants = h.constants /\ Len(k.cuargs) = Len(h.cuargs) + 2
  BY <1>3, <1>8 DEF ListPushed
<1> QED BY <1>16, <1>18, <1>20, <1>25, <1>26 DEF HalfPushed

\* The words of the parameters before are still there.
LEMMA StillSpread ==
  ASSUME Read, step = "read", NEW n \in Nat, n = at[1] - 1, NEW h, Keeps(helper, h),
         h.constants = helper.constants, NEW more \in Nat, NEW also \in Nat,
         NEW sum, sum = more + also, Len(h.cuargs) = Len(helper.cuargs) + also,
         NEW saw, \A k \in 1 .. n : saw[k] = seen[k],
         Spread(n, more, helper, FALSE, call.params, seen)
  PROVE  Spread(n, sum, h, FALSE, call.params, saw)
<1>1. PICK params : params = call.params
  OBVIOUS
<1>2. PICK old : old = seen
  OBVIOUS
<1>3. PICK h0 : h0 = helper
  OBVIOUS
<1>4. \A k \in 1 .. n : old[k] \in Seq(Arrays) /\ saw[k] = old[k]
  <2>1. seen \in Seq(Seq(Arrays)) /\ n <= Len(seen)
    <3>1. CASE at[2] = 0
      BY <3>1 DEF Read, Reading, Known
    <3>2. CASE at[2] # 0
      BY <3>2, Here DEF Read, Reading, Known, InList
    <3> QED BY <3>1, <3>2
  <2>2. ASSUME NEW k \in 1 .. n PROVE seen[k] \in Seq(Arrays)
    <3>1. k \in 1 .. Len(seen)
      BY <2>1, LenProperties
    <3> QED BY <2>1, <3>1, ElementOfSeq
  <2> QED BY <1>2, <2>2
<1>5. Keeps(h0, h) /\ h.constants = h0.constants /\ Len(h.cuargs) = Len(h0.cuargs) + also
  BY <1>3
<1>6. Spread(n, more, h0, FALSE, params, old)
  BY <1>1, <1>2, <1>3
<1>7. Spread(n, sum, h, FALSE, params, saw)
  BY ONLY <1>4, <1>5, <1>6, n \in Nat, more \in Nat, also \in Nat, sum = more + also, SpreadKept
<1> QED BY <1>1, <1>7

\* The last item of a list is read.
LEMMA LastWords ==
  ASSUME Read, CallSane, step = "read", Param.kind = "list", NEW h, NEW b,
         NEW saw \in Seq(Seq(Arrays)), Len(saw) = at[1], h.constants = helper.constants,
         b.type[2] \in Nat, NEW items \in Seq(Arrays), items = saw[at[1]],
         Len(items) = b.len, Sound(h), Listed(h), HalfRead(h, b, items),
         Spread(at[1] - 1, 2, h, FALSE, call.params, saw), Finalized(h, b, saw)
  PROVE  ReadOn
<1>1. WordsOf(Param.kind, b) = 2
  BY DEF WordsOf
<1>2. Len(h.cuargs) \in Nat
  BY SeqDomain DEF Sound
<1>3. Laid(h, FALSE, "list", items, Len(h.cuargs) + 1 - 2)
  BY <1>2, LaidList
<1>4. FullyRead(h, b, saw[at[1]])
  BY <1>1, <1>3 DEF FullyRead
<1>5. Spread(at[1] - 1, WordsOf(Param.kind, b), h, FALSE, call.params, saw)
  BY <1>1
<1> QED BY <1>4, <1>5, FinalizedWords

\* Another item has been read.
LEMMA HalfWords ==
  ASSUME Read, CallSane, step = "read", UNCHANGED << step, call >>,
         NEW n, n = at[1] - 1, at'[1] = at[1], at'[2] \in Nat \ {0},
         Sound(helper'), Listed(helper'), HalfRead(helper', builder', seen'[at[1]]),
         Spread(n, 2, helper', FALSE, call.params, seen')
  PROVE  ReadOn
<1>1. step' = "read" /\ call' = call
  OBVIOUS
<1>2. (IF at[2] = 0 THEN 0 ELSE 2)' = 2
  OBVIOUS
<1>3. /\ Sound(helper') /\ Listed(helper')
      /\ Spread(at'[1] - 1, 2, helper', FALSE, call'.params, seen')
      /\ HalfRead(helper', builder', seen'[at'[1]])
  BY <1>1
<1>4. ReadWords'
  BY <1>2, <1>3 DEF ReadWords
<1>5. StageWords' /\ CallSane'
  BY <1>1 DEF StageWords, CallSane
<1> QED BY <1>1, <1>4, <1>5 DEF ReadOn

LEMMA FirstWords ==
  ASSUME Typed, Read, ReadWords, CallSane, FirstItem
  PROVE  ReadOn
<1>1. step = "read" /\ Param.kind = "list" /\ at[2] = 0 /\ list # << >>
  BY DEF FirstItem
<1>2. PICK len : len = Len(list)
  OBVIOUS
<1>3. len \in Nat \ {0} /\ 1 \in DOMAIN list
  BY <1>1, <1>2, EmptySeq, LenProperties DEF Typed
<1>4. PICK o \in Arrays : o = list[1]
  BY <1>3, ElementOfSeq, LenProperties DEF Typed
<1>5. PICK p : p = Len(helper.arena) + 1
  OBVIOUS
<1>6. PICK h : h = ListWords(helper, o, len)
  OBVIOUS
<1>7. PICK b : b = [Started(h, o, p) EXCEPT !.items = p + Len(Repr(o)), !.len = len]
  OBVIOUS
<1>8. /\ Converted(o)
      /\ IF len = 1 THEN Finalized(h, b, Append(seen, << o >>))
         ELSE /\ helper' = h /\ builder' = b /\ seen' = Append(seen, << o >>)
              /\ at' = [at EXCEPT ![2] = 1]
              /\ UNCHANGED << step, call >>
  BY <1>2, <1>4, <1>5, <1>6, <1>7 DEF FirstItem
<1>9. IsSeq(helper.arena) /\ Whole(helper) /\ Reading
  BY <1>1 DEF Read, Reading, Typed
<1>10. Len(Repr(o)) = 1 + 2 * Rank(o) /\ Rank(o) \in Nat /\ Len(helper.arena) \in Nat
  BY <1>9, ReprTells, RankOf, SeqDomain
<1>11. PICK size \in Nat : size = Len(Repr(o)) /\ size = 1 + 2 * Rank(o)
  BY <1>10
<1>12. PICK q \in Nat : q = p + size
  BY <1>5, <1>10
<1>13. PICK first \in Nat : first = p + size + len
  BY <1>3, <1>5, <1>10
<1>14. ListPushed(helper, h, o, len, p, q, first, size)
  BY <1>3, <1>5, <1>6, <1>9, <1>11, <1>12, <1>13, PushList
<1>15. /\ b.type = Type(o) /\ b.items = q /\ b.len = len
  BY ONLY <1>7, <1>11, <1>12 DEF Started, NoBuilder
<1>16. b.type[2] = Rank(o)
  BY <1>15 DEF Type
<1>17. Len(seen) = at[1] - 1
  BY <1>1, <1>9 DEF Reading
<1>18. PICK items, saw :
           /\ items \in Seq(Arrays) /\ Len(items) = 1 /\ items[1] = o
           /\ saw = Append(seen, << o >>) /\ saw \in Seq(Seq(Arrays)) /\ Len(saw) = at[1]
           /\ saw[at[1]] = items /\ \A k \in 1 .. at[1] - 1 : saw[k] = seen[k]
  BY <1>1, <1>17, SeenFirst
<1>19. PICK n \in Nat : n = at[1] - 1 /\ n + 1 = at[1]
  BY <1>1, Here
<1>20. Sound(helper) /\ Listed(helper) /\ Spread(n, 0, helper, FALSE, call.params, seen)
  BY <1>1, <1>19 DEF ReadWords
<1>21. HalfPushed(helper, h, b, items)
  <2>1. PICK h0 : h0 = helper
    OBVIOUS
  <2>2. Sound(h0) /\ Listed(h0) /\ ListPushed(h0, h, o, len, p, q, first, size)
    BY <1>14, <1>20, <2>1
  <2>3. HalfPushed(h0, h, b, items)
    BY ONLY <1>3, <1>11, <1>15, <1>16, <1>18, <2>2, q \in Nat, first \in Nat, o \in Arrays,
            ArgsAssumption, HalfFirst
  <2> QED BY <2>1, <2>3
<1>22. /\ Sound(h) /\ Listed(h) /\ Keeps(helper, h) /\ h.constants = helper.constants
       /\ Len(h.cuargs) = Len(helper.cuargs) + 2 /\ HalfRead(h, b, items)
  BY <1>21 DEF HalfPushed
<1>23. Spread(n, 2, h, FALSE, call.params, saw)
  <2>1. \A k \in 1 .. n : saw[k] = seen[k]
    BY <1>18, <1>19
  <2>2. 2 = 0 + 2
    OBVIOUS
  <2> QED BY <1>1, <1>19, <1>20, <1>22, <2>1, <2>2, StillSpread
<1>24. CASE len = 1
  <2>1. Finalized(h, b, saw)
    BY <1>8, <1>18, <1>24
  <2>2. Len(items) = b.len /\ b.type[2] \in Nat
    BY <1>10, <1>15, <1>16, <1>18, <1>24
  <2>3. Spread(at[1] - 1, 2, h, FALSE, call.params, saw)
    BY <1>19, <1>23
  <2> QED BY <1>1, <1>18, <1>22, <2>1, <2>2, <2>3, LastWords
<1>25. CASE len # 1
  <2>1. /\ helper' = h /\ builder' = b /\ seen' = saw /\ UNCHANGED << step, call >>
        /\ at' = [at EXCEPT ![2] = 1]
    BY <1>1, <1>8, <1>18, <1>25
  <2>2. PICK i \in Nat : i = at[1] /\ at = << i, at[2] >>
    BY <1>1, Here
  <2>3. at' = << i, 1 >>
    BY <2>1, <2>2
  <2>4. at'[1] = at[1] /\ at'[2] \in Nat \ {0}
    BY <2>2, <2>3
  <2>5. /\ Sound(helper') /\ Listed(helper') /\ HalfRead(helper', builder', seen'[at[1]])
        /\ Spread(n, 2, helper', FALSE, call.params, seen')
    BY <1>18, <1>22, <1>23, <2>1
  <2> QED BY <1>1, <1>19, <2>1, <2>4, <2>5, HalfWords
<1> QED BY <1>24, <1>25

ItemPushed(h, k, o, p, x) ==
  /\ Whole(k) /\ IsSeq(k.arena) /\ k.constants = h.constants
  /\ KeepsArena(h.arena, k.arena)
  /\ Lies(k.arena, FALSE, p, o)
  /\ x \in DOMAIN k.arena /\ k.arena[x] = << "item", p >>
  /\ \A y \in DOMAIN h.arena : y # x => k.arena[y] = h.arena[y]
  /\ Ptrs(k.arena) = Ptrs(h.arena) \cup {p}
  /\ k.ptrs = Append(h.ptrs, p)
  /\ k.cuargs = h.cuargs /\ k.lists = h.lists /\ k.total = h.total

LEMMA PushItem ==
  ASSUME NEW h, Whole(h), IsSeq(h.arena), NEW o \in Arrays, NEW p, p = Len(h.arena) + 1,
         NEW x \in DOMAIN h.arena, h.arena[x] = Nothing,
         NEW g, g = Push(h, Repr(o)), NEW ptrs, ptrs = Append(g.ptrs, p),
         NEW arena, arena = [g.arena EXCEPT ![x] = << "item", p >>],
         NEW k, k = [g EXCEPT !.ptrs = ptrs, !.arena = arena]
  PROVE  ItemPushed(h, k, o, p, x)
<1>1. IsSeq(Repr(o))
  BY ReprTells
<1>2. PushedTo(h, g, Repr(o))
  BY <1>1, PushWords
<1>3. JoinedArena(h.arena, Repr(o))
  BY <1>1, ArenaJoin
<1>4. /\ IsSeq(g.arena) /\ Extends(h.arena, g.arena)
      /\ Lies(g.arena, FALSE, p, o) /\ Ptrs(g.arena) = Ptrs(h.arena) \cup {p}
  BY <1>2, <1>3, ArrayJoin DEF PushedTo, JoinedArena
<1>5. Whole(g) /\ g.ptrs = h.ptrs /\ g.cuargs = h.cuargs /\ g.lists = h.lists
      /\ g.total = h.total /\ g.constants = h.constants
  BY <1>2 DEF PushedTo
<1>6. /\ DOMAIN k = DOMAIN g /\ k.arena = arena /\ k.room = g.room /\ k.constants = g.constants
      /\ k.ptrs = ptrs /\ k.cuargs = g.cuargs /\ k.lists = g.lists /\ k.total = g.total
  BY ONLY <1>5, k = [g EXCEPT !.ptrs = ptrs, !.arena = arena] DEF Whole
<1>7. Whole(k)
  BY <1>5, <1>6 DEF Whole
<1>8. PICK w : w = << "item", p >>
  OBVIOUS
<1>9. w[1] = "item"
  BY <1>8
<1>10. PICK a : a = g.arena
  OBVIOUS
<1>11. arena = [a EXCEPT ![x] = w]
  BY <1>8, <1>10
<1>12. x \in DOMAIN a /\ a[x][1] = "none"
  BY <1>4, <1>10 DEF Extends, Nothing
<1>13. /\ IsSeq(arena) /\ DOMAIN arena = DOMAIN a /\ arena[x] = w
       /\ \A y \in DOMAIN a \ {x} : arena[y] = a[y]
  <2>1. IsSeq(a)
    BY <1>4, <1>10
  <2> QED BY ONLY <1>11, <1>12, <2>1, Replaced
<1>14. KeepsArena(a, arena)
  BY ONLY <1>12, <1>13 DEF KeepsArena
<1>15. Lies(arena, FALSE, p, o)
  <2>1. Lies(a, FALSE, p, o)
    BY <1>4, <1>10
  <2> QED BY ONLY <1>14, <2>1, o \in Arrays, ArgsAssumption, LiesKept
<1>16. KeepsArena(h.arena, arena) /\ \A y \in DOMAIN h.arena : y # x => arena[y] = h.arena[y]
  <2>1. ASSUME NEW y \in DOMAIN h.arena, y # x PROVE y \in DOMAIN arena /\ arena[y] = h.arena[y]
    <3>1. y \in DOMAIN a \ {x} /\ a[y] = h.arena[y]
      BY <1>4, <1>10, <2>1 DEF Extends
    <3> QED BY <1>13, <3>1
  <2>2. x \in DOMAIN arena /\ h.arena[x][1] = "none"
    BY <1>12, <1>13 DEF Nothing
  <2> QED BY <2>1, <2>2 DEF KeepsArena
<1>17. Ptrs(arena) = Ptrs(a)
  <2>1. ASSUME NEW y PROVE y \in Ptrs(arena) <=> y \in Ptrs(a)
    <3>1. CASE y = x
      BY <1>9, <1>12, <1>13, <3>1 DEF Ptrs
    <3>2. CASE y # x
      BY <1>13, <3>2 DEF Ptrs
    <3> QED BY <3>1, <3>2
  <2> QED BY <2>1
<1>18. x \in DOMAIN arena /\ arena[x] = << "item", p >>
  BY <1>8, <1>12, <1>13
<1>19. Ptrs(arena) = Ptrs(h.arena) \cup {p}
  BY <1>4, <1>10, <1>17
<1>20. k.ptrs = Append(h.ptrs, p)
  BY <1>5, <1>6
<1>21. k.constants = h.constants /\ k.cuargs = h.cuargs /\ k.lists = h.lists /\ k.total = h.total
  BY <1>5, <1>6
<1>22. k.arena = arena /\ IsSeq(arena)
  BY <1>6, <1>13
<1> QED BY ONLY <1>7, <1>15, <1>16, <1>18, <1>19, <1>20, <1>21, <1>22 DEF ItemPushed

LEMMA HalfNext ==
  ASSUME NEW h, Sound(h), Listed(h), NEW bld, NEW items \in Seq(Arrays), HalfRead(h, bld, items),
         NEW i \in Nat, i = Len(items) + 1, NEW o \in Arrays, Rank(o) = bld.type[2],
         bld.items \in Nat, NEW p, NEW x, x = bld.items + i - 1,
         NEW k, ItemPushed(h, k, o, p, x),
         NEW b, b.len = bld.len, b.items = bld.items, b.type = bld.type,
         NEW more, more = Append(items, o)
  PROVE  /\ Sound(k) /\ Listed(k) /\ Keeps(h, k) /\ HalfRead(k, b, more)
<1>1. /\ IsSeq(h.cuargs) /\ IsSeq(h.ptrs) /\ IsSeq(h.lists) /\ h.total \in Nat /\ Apart(h)
  BY DEF Sound
<1>2. IsSeq(k.ptrs) /\ Listed(k)
  BY <1>1, ListedMore DEF ItemPushed
<1>3. KeepsArena(h.arena, k.arena) /\ k.cuargs = h.cuargs /\ k.lists = h.lists /\ k.total = h.total
  BY DEF ItemPushed
<1>4. Keeps(h, k) /\ Apart(k)
  BY <1>1, <1>3, ApartKept DEF Keeps
<1>5. Sound(k)
  BY <1>1, <1>2, <1>3, <1>4 DEF Sound, ItemPushed
<1>6. PICK y : y = h.lists[Len(h.lists)]
  OBVIOUS
<1>7. /\ Len(h.cuargs) >= 2 /\ ListAt(h, Len(h.cuargs) - 1, Len(h.lists))
      /\ bld.len = y.len /\ bld.items = y.items /\ y.size = 1 + 2 * bld.type[2]
      /\ ItemsAt(h.arena, FALSE, y, items)
      /\ \A j \in Len(items) + 1 .. y.len :
           y.items + j - 1 \in DOMAIN h.arena /\ h.arena[y.items + j - 1] = Nothing
  BY <1>6 DEF HalfRead
<1>8. ItemsAt(k.arena, FALSE, y, items)
  BY <1>3, <1>7, ItemsKept
<1>9. Len(items) \in Nat /\ DOMAIN items = 1 .. Len(items)
  BY LenProperties
<1>10. /\ more \in Seq(Arrays) /\ Len(more) = i /\ more[i] = o
       /\ \A j \in 1 .. Len(items) : more[j] = items[j]
  BY AppendProperties
<1>11. DOMAIN more = 1 .. i
  BY <1>10, LenProperties
<1>12. ItemsAt(k.arena, FALSE, y, more)
  <2>1. ASSUME NEW j \in 1 .. i
        PROVE  /\ y.items + j - 1 \in DOMAIN k.arena /\ k.arena[y.items + j - 1][1] = "item"
               /\ y.size = 1 + 2 * Rank(more[j])
               /\ Lies(k.arena, FALSE, k.arena[y.items + j - 1][2], more[j])
    <3>1. CASE j = i
      <4>1. y.items + j - 1 = x
        BY <1>7, <3>1
      <4>2. << "item", p >>[1] = "item" /\ << "item", p >>[2] = p
        OBVIOUS
      <4> QED BY <1>7, <1>10, <3>1, <4>1, <4>2 DEF ItemPushed
    <3>2. CASE j # i
      <4>1. j \in 1 .. Len(items)
        BY <1>9, <3>2
      <4> QED BY <1>8, <1>9, <1>10, <4>1 DEF ItemsAt
    <3> QED BY <3>1, <3>2
  <2> QED BY <1>8, <1>11, <2>1 DEF ItemsAt
<1>13. ASSUME NEW j \in i + 1 .. y.len
       PROVE  y.items + j - 1 \in DOMAIN k.arena /\ k.arena[y.items + j - 1] = Nothing
  <2>1. PICK z : z = y.items + j - 1
    OBVIOUS
  <2>2. j \in Len(items) + 1 .. y.len
    BY ONLY <1>9, i = Len(items) + 1, i \in Nat, j \in i + 1 .. y.len
  <2>3. z \in DOMAIN h.arena /\ h.arena[z] = Nothing
    BY <1>7, <2>1, <2>2
  <2>4. z # x
    BY ONLY <1>7, <2>1, bld.items \in Nat, x = bld.items + i - 1, i \in Nat, j \in i + 1 .. y.len
  <2>5. z \in DOMAIN k.arena /\ k.arena[z] = h.arena[z]
    BY <1>3, <2>3, <2>4 DEF ItemPushed, KeepsArena
  <2> QED BY <2>1, <2>3, <2>5
<1>14. ListAt(k, Len(k.cuargs) - 1, Len(k.lists))
  BY <1>3, <1>7 DEF ListAt
<1>15. HalfRead(k, b, more)
  BY <1>3, <1>6, <1>7, <1>10, <1>12, <1>13, <1>14 DEF HalfRead
<1> QED BY <1>2, <1>4, <1>5, <1>15

LEMMA EndsWords ==
  ASSUME CallSane, step' \in {"idle", "undefined", "aborted"}, call' \in {call, NoCall}
  PROVE  ReadOn
<1>1. step' \notin {"read", "stage", "launch", "wait"}
  OBVIOUS
<1>2. ReadWords' /\ StageWords'
  BY <1>1 DEF ReadWords, StageWords
<1>3. CallSane'
  BY <1>1 DEF CallSane, NoCall
<1> QED BY <1>1, <1>2, <1>3 DEF ReadOn

LEMMA NextWords ==
  ASSUME Typed, Read, ReadWords, CallSane, NextItem
  PROVE  ReadOn
<1>1. step = "read" /\ at[2] > 0 /\ at[2] + 1 <= Len(list) /\ at[2] \in Nat
  BY Here DEF NextItem
<1>2. PICK i : i = at[2] + 1
  OBVIOUS
<1>3. Len(list) \in Nat /\ DOMAIN list = 1 .. Len(list)
  BY LenProperties DEF Typed
<1>4. i \in Nat /\ i \in DOMAIN list
  BY ONLY <1>1, <1>2, <1>3
<1>5. PICK o \in Arrays : o = list[i]
  BY <1>3, <1>4, ElementOfSeq DEF Typed
<1>6. PICK p : p = Len(helper.arena) + 1
  OBVIOUS
<1>7. PICK g : g = Push(helper, Repr(o))
  OBVIOUS
<1>8. PICK x : x = builder.items + i - 1
  OBVIOUS
<1>9. PICK arena : arena = [g.arena EXCEPT ![x] = << "item", p >>]
  OBVIOUS
<1>10. PICK ptrs : ptrs = Append(g.ptrs, p)
  OBVIOUS
<1>11. PICK h : h = [g EXCEPT !.ptrs = ptrs, !.arena = arena]
  OBVIOUS
<1>12. PICK bits : bits = Common(builder.bits, o)
  OBVIOUS
<1>13. PICK b : b = [builder EXCEPT !.bits = bits]
  OBVIOUS
<1>14. PICK items : items = seen[at[1]]
  OBVIOUS
<1>15. PICK more : more = Append(items, o)
  OBVIOUS
<1>16. PICK saw : saw = SeenAlso(seen, at[1], more)
  OBVIOUS
<1>17. /\ saw \in Seq(Seq(Arrays)) /\ Len(saw) = at[1] /\ saw[at[1]] = more
       /\ Len(more) = at[2] + 1 /\ \A k \in 1 .. at[1] - 1 : saw[k] = seen[k]
  <2>1. Longer(saw, more)
    BY <1>1, <1>14, <1>15, <1>16, SeenNext
  <2> QED BY <2>1 DEF Longer
<1>18. PICK dims : dims = Param.dims
  OBVIOUS
<1>19. PICK walk : walk = Walk(h, b, dims)
  OBVIOUS
<1>20. IF \/ Type(o) # builder.type \/ walk = "range"
          \/ walk = "ok" /\ ~SameExtents(h, b, p, dims)
       THEN Returned /\ helper' = h
       ELSE /\ Converted(o)
            /\ CASE walk = "undefined" -> Ends("undefined")
                 [] walk = "ok" /\ IsLast(i) -> Finalized(h, b, saw)
                 [] OTHER ->
                      /\ helper' = h /\ builder' = b /\ seen' = saw
                      /\ at' = [at EXCEPT ![2] = i]
                      /\ UNCHANGED << step, call >>
  <2>1. h = [Push(helper, Repr(o)) EXCEPT !.ptrs = Append(@, p),
               !.arena[builder.items + i - 1] = << "item", p >>]
    BY <1>7, <1>8, <1>9, <1>10, <1>11
  <2>2. b = [builder EXCEPT !.bits = Common(@, o)]
    BY <1>12, <1>13
  <2>3. saw = [seen EXCEPT ![at[1]] = Append(@, o)]
    BY <1>14, <1>15, <1>16 DEF SeenAlso
  <2> QED BY <1>2, <1>5, <1>6, <1>18, <1>19, <2>1, <2>2, <2>3 DEF NextItem
<1>21. Reading /\ InList /\ IsSeq(helper.arena) /\ Whole(helper) /\ IsBuilder(builder)
  BY <1>1 DEF Read, Reading, Typed, InList, Built
<1>22. /\ DOMAIN b = DOMAIN builder /\ b.type = builder.type
       /\ b.items = builder.items /\ b.len = builder.len
  BY ONLY <1>13, <1>21 DEF IsBuilder
<1>23. items \in Seq(Arrays) /\ Len(items) = at[2] /\ at[2] < builder.len
       /\ builder.len \in Nat /\ builder.items \in Nat
  BY <1>14, <1>21 DEF InList, Built, IsBuilder
<1>24. PICK n \in Nat : n = at[1] - 1 /\ n + 1 = at[1]
  BY <1>1, Here
<1>25. /\ Sound(helper) /\ Listed(helper) /\ HalfRead(helper, builder, items)
       /\ Spread(n, 2, helper, FALSE, call.params, seen)
  <2>1. (IF at[2] = 0 THEN 0 ELSE 2) = 2
    BY <1>1
  <2>2. /\ Sound(helper) /\ Listed(helper) /\ HalfRead(helper, builder, seen[at[1]])
        /\ Spread(at[1] - 1, 2, helper, FALSE, call.params, seen)
    BY <1>1, <2>1 DEF ReadWords
  <2> QED BY <1>14, <1>24, <2>2
<1>26. CASE \/ Type(o) # builder.type \/ walk = "range"
            \/ (walk = "ok" /\ ~SameExtents(h, b, p, dims))
  <2>1. Returned
    BY <1>20, <1>26
  <2> QED BY <2>1, EndsWords DEF Returned
<1>27. CASE walk = "undefined" /\ Type(o) = builder.type
  <2>1. Ends("undefined")
    BY <1>20, <1>27
  <2> QED BY <2>1, EndsWords DEF Ends
<1>28. CASE Type(o) = builder.type /\ walk = "ok" /\ SameExtents(h, b, p, dims)
  <2>1. builder.type[2] = Rank(o) /\ Rank(o) \in Nat
    BY <1>28, RankOf DEF Type
  <2>2. x \in DOMAIN helper.arena /\ helper.arena[x] = Nothing
    <3>1. PICK y : y = helper.lists[Len(helper.lists)]
      OBVIOUS
    <3>2. /\ builder.len = y.len /\ builder.items = y.items
          /\ \A j \in Len(items) + 1 .. y.len :
               y.items + j - 1 \in DOMAIN helper.arena /\ helper.arena[y.items + j - 1] = Nothing
      BY <1>25, <3>1 DEF HalfRead
    <3>3. i \in Len(items) + 1 .. y.len
      BY ONLY <1>1, <1>2, <1>23, <3>2
    <3> QED BY <1>8, <3>2, <3>3
  <2>3. ItemPushed(helper, h, o, p, x)
    BY ONLY <1>6, <1>7, <1>9, <1>10, <1>11, <1>21, <2>2, o \in Arrays, ArgsAssumption, PushItem
  <2>4. i \in Nat /\ i = Len(items) + 1
    BY <1>2, <1>4, <1>23
  <2>5. Sound(h) /\ Listed(h) /\ Keeps(helper, h) /\ HalfRead(h, b, more)
    <3>1. PICK h0 : h0 = helper
      OBVIOUS
    <3>2. PICK b0 : b0 = builder
      OBVIOUS
    <3>3. Sound(h0) /\ Listed(h0) /\ HalfRead(h0, b0, items) /\ ItemPushed(h0, h, o, p, x)
      BY <1>25, <2>3, <3>1, <3>2
    <3>4. /\ Rank(o) = b0.type[2] /\ b0.items \in Nat /\ x = b0.items + i - 1
          /\ b.len = b0.len /\ b.items = b0.items /\ b.type = b0.type
      BY <1>8, <1>22, <1>23, <2>1, <3>2
    <3>5. Sound(h) /\ Listed(h) /\ Keeps(h0, h) /\ HalfRead(h, b, more)
      BY ONLY <1>15, <1>23, <2>4, <3>3, <3>4, o \in Arrays, ArgsAssumption, HalfNext
    <3> QED BY <3>1, <3>5
  <2>6. h.constants = helper.constants /\ h.cuargs = helper.cuargs
    BY <2>3 DEF ItemPushed
  <2>7. Spread(n, 2, h, FALSE, call.params, saw)
    <3>1. \A k \in 1 .. n : saw[k] = seen[k]
      BY <1>17, <1>24
    <3>2. Len(helper.cuargs) \in Nat
      BY <1>25, SeqDomain DEF Sound
    <3>3. Len(h.cuargs) = Len(helper.cuargs) + 0 /\ 2 = 2 + 0
      BY <2>6, <3>2
    <3> QED BY <1>1, <1>24, <1>25, <2>5, <2>6, <3>1, <3>3, StillSpread
  <2>8. CASE IsLast(i)
    <3>1. Finalized(h, b, saw)
      BY <1>20, <1>28, <2>8
    <3>2. Len(more) = b.len /\ b.type[2] \in Nat /\ more \in Seq(Arrays)
      BY <1>2, <1>15, <1>17, <1>22, <1>23, <2>1, <2>8, AppendProperties DEF IsLast
    <3>3. Spread(at[1] - 1, 2, h, FALSE, call.params, saw)
      BY <1>24, <2>7
    <3>4. Param.kind = "list"
      BY <1>21 DEF InList
    <3> QED BY <1>1, <1>17, <2>5, <2>6, <3>1, <3>2, <3>3, <3>4, LastWords
  <2>9. CASE ~IsLast(i)
    <3>1. /\ helper' = h /\ builder' = b /\ seen' = saw /\ UNCHANGED << step, call >>
          /\ at' = [at EXCEPT ![2] = i]
      BY <1>20, <1>28, <2>9
    <3>2. PICK m \in Nat : m = at[1] /\ at = << m, at[2] >>
      BY <1>1, Here
    <3>3. at' = << m, i >>
      BY <3>1, <3>2
    <3>4. at'[1] = at[1] /\ at'[2] \in Nat \ {0}
      BY <1>1, <1>2, <3>2, <3>3
    <3>5. /\ Sound(helper') /\ Listed(helper') /\ HalfRead(helper', builder', seen'[at[1]])
          /\ Spread(n, 2, helper', FALSE, call.params, seen')
      BY <1>17, <2>5, <2>7, <3>1
    <3> QED BY <1>1, <1>24, <3>1, <3>4, <3>5, HalfWords
  <2> QED BY <2>8, <2>9
<1>29. WalkEnds(h, b, dims)
  BY <1>1, <1>18, Here, WalkOf
<1> QED BY <1>19, <1>26, <1>27, <1>28, <1>29 DEF WalkEnds

-----------------------------------------------------------------------------
(* Steps that leave the device and the payload alone. *)

LEMMA Quiet ==
  ASSUME WordsInv, step \notin {"launch", "wait"}, ReadOn,
         UNCHANGED << payload, onDevice >>
  PROVE  WordsInv'
<1>1. /\ payload' = payload /\ host' = host /\ dev' = dev /\ queue' = queue
      /\ pend' = pend /\ staged' = staged /\ inflight' = inflight
  BY DEF onDevice, memory
<1>2. /\ ReadWords' /\ StageWords' /\ CallSane' /\ step' \notin {"launch", "wait"}
      /\ (step' = "stage" => call'.stream # Worker)
  BY DEF ReadOn
<1>3. LaunchWords'
  BY <1>2 DEF LaunchWords
<1>4. PayloadWords'
  BY <1>1 DEF WordsInv, PayloadWords
<1>5. QueueWords'
  BY <1>1 DEF WordsInv, QueueWords
<1>6. Opened'
  BY <1>1, <1>2 DEF WordsInv, Opened
<1>7. Regions'
  <2>1. Regions /\ staged = {}
    BY DEF WordsInv, Regions
  <2>2. \A s \in Streams : \A g : InOrder(s, g)' <=> InOrder(s, g)
    BY <1>1 DEF InOrder
  <2>3. \A s \in Streams : \E g : InOrder(s, g)'
    BY <2>1, <2>2 DEF Regions
  <2>4. staged' = {}
    BY <1>1, <2>1
  <2>5. Bytes(host)' /\ Bytes(dev)' /\ DOMAIN pend' = Streams /\ \A s \in Streams : pend'[s] \in Nat
    BY <1>1, <2>1 DEF Regions, Bytes
  <2>6. \A s \in Streams : \A n \in DOMAIN queue[s] : \A r \in queue[s][n].region : Mine(s, r)
    BY <2>1 DEF Regions
  <2>7. \A s, t \in Streams : \A n \in DOMAIN queue[s], k \in DOMAIN queue[t] :
         << s, n >> # << t, k >> =>
           \A r \in queue[s][n].region, q \in queue[t][k].region : ~Memory!Overlap(r, q)
    BY <2>1 DEF Regions
  <2> QED BY <1>1, <2>3, <2>4, <2>5, <2>6, <2>7 DEF Regions
<1> QED BY <1>2, <1>3, <1>4, <1>5, <1>6, <1>7 DEF WordsInv

LEMMA ReadingWords ==
  ASSUME Typed, Read, WordsInv, extract_array \/ FirstItem \/ NextItem \/ PastTheEnd
  PROVE  WordsInv'
<1>1. step = "read" /\ UNCHANGED << payload, onDevice >>
  BY DEF extract_array, FirstItem, NextItem, PastTheEnd
<1>2. ReadWords /\ CallSane
  BY DEF WordsInv
<1>3. ReadOn
  <2>1. CASE PastTheEnd
    <3>1. step' = "undefined" /\ call' = call
      BY <2>1 DEF PastTheEnd, Ends
    <3> QED BY <1>2, <3>1, EndsWords
  <2> QED BY <1>2, <2>1, ArrayWords, FirstWords, NextWords
<1> QED BY <1>1, <1>3, Quiet

LEMMA RaiseWords ==
  ASSUME WordsInv, Raise
  PROVE  WordsInv'
<1>1. step \in {"read", "stage"} /\ UNCHANGED << payload, onDevice >>
  BY DEF Raise
<1>2. step' = "idle" /\ call' = NoCall
  BY DEF Raise, Returned
<1>3. ReadOn
  BY <1>2, EndsWords DEF WordsInv
<1> QED BY <1>1, <1>2, <1>3, Quiet

LEMMA CallWords ==
  ASSUME Typed, AtRest, WordsInv, Call
  PROVE  WordsInv'
<1>1. step = "idle" /\ at' = << 1, 0 >> /\ seen' = << >> /\ UNCHANGED << payload, onDevice >>
  BY DEF Call, AtRest
<1>2. PICK params \in ArgLists, s \in Streams \ {Worker}, export \in BOOLEAN :
        /\ call' = [params |-> params, stream |-> s, export |-> export]
        /\ step' = IF params = << >> THEN "stage" ELSE "read"
  BY DEF Call
<1>3. call'.params = params /\ call'.stream = s
  BY <1>2
<1>4. helper' = Cleared(helper)
  BY DEF Call
<1>5. PICK h : h = helper'
  OBVIOUS
<1>6. /\ DOMAIN h = {"arena", "room", "cuargs", "ptrs", "lists", "total", "constants"}
      /\ h.arena = << >> /\ h.room = helper.room /\ h.cuargs = << >> /\ h.ptrs = << >>
      /\ h.lists = << >> /\ h.total = 0 /\ h.constants = << >>
  BY <1>4, <1>5 DEF Cleared
<1>7. IsSeq(<< >>) /\ Len(<< >>) = 0 /\ DOMAIN << >> = {}
  <2>1. << >> \in Seq({}) /\ Len(<< >>) = 0
    BY EmptySeq
  <2>2. DOMAIN << >> = 1 .. 0
    BY <2>1, Elements
  <2>3. IsSeq(<< >>)
    BY <2>1, Elements
  <2>4. 1 .. 0 = {}
    OBVIOUS
  <2> QED BY ONLY <2>1, <2>2, <2>3, <2>4
<1>8. Whole(h)
  BY <1>6 DEF Whole, Typed
<1>9. Apart(h)
  BY <1>6, <1>7 DEF Apart
<1>10. Sound(h) /\ Listed(h)
  BY <1>6, <1>7, <1>8, <1>9 DEF Sound, Listed, Ptrs, Elems
<1>11. Spread(0, 0, h, FALSE, params, << >>)
  <2>1. PICK f : f = [k \in 1 .. 0 + 1 |-> 1]
    OBVIOUS
  <2>2. f \in [1 .. 0 + 1 -> Nat \ {0}] /\ f[1] = 1 /\ f[0 + 1] = 1
    BY <2>1
  <2>3. f \in Layings(0, params, h.constants)
    BY <2>2 DEF Layings
  <2>4. Len(h.cuargs) = f[0 + 1] - 1 + 0
    BY <1>6, <1>7, <2>2
  <2> QED BY <2>3, <2>4 DEF Spread
<1>12. ReadWords'
  <2>1. at'[1] - 1 = 0 /\ at'[2] = 0 /\ ~(at'[2] > 0)
    BY <1>1
  <2>2. (IF at[2] = 0 THEN 0 ELSE 2)' = 0
    BY <2>1
  <2>3. /\ Sound(helper') /\ Listed(helper')
        /\ Spread(at'[1] - 1, 0, helper', FALSE, call'.params, seen')
    BY <1>1, <1>3, <1>5, <1>10, <1>11, <2>1
  <2> QED BY <2>1, <2>2, <2>3 DEF ReadWords
<1>13. StageWords'
  <2>1. SUFFICES ASSUME step' = "stage"
                 PROVE  Settled(helper', call'.stream = Worker, call'.params, seen')
    BY DEF StageWords
  <2>2. Len(params) = 0
    BY <1>2, <1>7, <2>1
  <2>3. Settled(h, FALSE, params, << >>)
    BY <1>10, <1>11, <2>2 DEF Settled
  <2> QED BY <1>1, <1>3, <1>5, <2>3
<1>14. step' \in {"read", "stage"} /\ CallSane'
  BY <1>2, <1>3 DEF CallSane
<1>15. ReadOn
  BY <1>3, <1>12, <1>13, <1>14 DEF ReadOn
<1> QED BY <1>1, <1>15, Quiet

-----------------------------------------------------------------------------
(* Staging. *)

LEMMA Quotient ==
  ASSUME NEW e \in Nat, NEW size \in Nat \ {0}, NEW j \in 0 .. size - 1
  PROVE  (e * size + j) \div size = e /\ (e * size + j) % size = j
<1>1. PICK z \in Nat : z = e * size
  OBVIOUS
<1>2. z + j \in Nat
  BY <1>1
<1>3. (e * size + j) \div size = e
  OBVIOUS
<1>4. (e * size + j) % size = j
  OBVIOUS
<1> QED BY <1>3, <1>4

LEMMA Product2 ==
  ASSUME NEW e \in Nat, NEW len \in Nat, e < len, NEW size \in Nat \ {0}, NEW j \in 0 .. size - 1
  PROVE  e * size + j \in 0 .. len * size - 1
<1>1. PICK r \in Nat : len = e + 1 + r
  <2>1. len - (e + 1) \in Nat /\ len = e + 1 + (len - (e + 1))
    OBVIOUS
  <2> QED BY <2>1
<1>2. len * size = e * size + size + r * size
  BY <1>1
<1>3. PICK z \in Nat : z = r * size
  OBVIOUS
<1>4. PICK y \in Nat : y = e * size
  OBVIOUS
<1>5. PICK t \in Nat : t = len * size
  OBVIOUS
<1>6. t = y + size + z
  BY <1>2, <1>3, <1>4, <1>5
<1>7. y + j \in 0 .. t - 1
  BY ONLY <1>6, y \in Nat, z \in Nat, t \in Nat, size \in Nat \ {0}, j \in 0 .. size - 1
<1> QED BY <1>4, <1>5, <1>7

\* A word of the region of a list is the word of the item.
LEMMA StagedWord ==
  ASSUME NEW h, Apart(h), IsSeq(h.lists), NEW l \in DOMAIN h.lists, NEW lo \in Nat,
         NEW x, x = h.lists[l], NEW e \in Nat, e < x.len, NEW j \in Nat, j < x.size,
         NEW mem, NEW y \in DOMAIN mem, y = lo + Offset(h, x) + (e * x.size + j)
  PROVE  Staged(h, lo, mem)[y] = h.arena[h.arena[x.items + e][2] + j]
<1>1. DOMAIN h.lists = 1 .. Len(h.lists) /\ Len(h.lists) \in Nat
  BY SeqDomain
<1> DEFINE From(k) == y - lo - Offset(h, h.lists[k])
           hits == {k \in DOMAIN h.lists : From(k) \in 0 .. h.lists[k].len * h.lists[k].size - 1}
           last == CHOOSE k \in hits : \A i \in hits : i <= k
<1>2. Staged(h, lo, mem)[y] =
        IF hits = {} THEN mem[y]
        ELSE h.arena[h.arena[h.lists[last].items + (From(last) \div h.lists[last].size)][2]
                     + (From(last) % h.lists[last].size)]
  BY DEF Staged
<1>3. /\ x.len \in Nat \ {0} /\ x.size \in Nat \ {0} /\ Offset(h, x) \in Nat
  BY DEF Apart, HasPart
<1>4. PICK u \in Nat : u = Offset(h, x)
  BY <1>3
<1>5. PICK d \in Nat : d = e * x.size + j
  BY <1>3
<1>6. j \in 0 .. x.size - 1
  BY <1>3
<1>7. d \in 0 .. x.len * x.size - 1
  BY <1>3, <1>5, <1>6, Product2
<1>8. d \div x.size = e /\ d % x.size = j
  BY <1>3, <1>5, <1>6, Quotient
<1>9. y = lo + u + d
  BY <1>4, <1>5
<1>10. From(l) = d
  BY <1>4, <1>9
<1>11. l \in hits
  BY <1>7, <1>10
<1>12. ASSUME NEW k \in hits, k # l PROVE FALSE
  <2>1. PICK z : z = h.lists[k]
    OBVIOUS
  <2>2. k \in DOMAIN h.lists /\ z.len \in Nat \ {0} /\ z.size \in Nat \ {0} /\ Offset(h, z) \in Nat
    BY <2>1 DEF Apart, HasPart
  <2>3. PICK v \in Nat : v = Offset(h, z)
    BY <2>2
  <2>4. PICK t \in Nat : t = z.len * z.size
    BY <2>2
  <2>5. y - lo - v \in 0 .. t - 1
    BY <1>12, <2>1, <2>3, <2>4
  <2>6. PICK w \in Nat : w = x.len * x.size
    BY <1>3
  <2>7. d < w
    BY <1>7, <2>6
  <2>8. l < k \/ k < l
    BY <1>1, <1>12, <2>2
  <2>9. CASE l < k
    <3>1. u + w <= v
      BY <1>4, <2>1, <2>2, <2>3, <2>6, <2>9 DEF Apart
    <3> QED BY ONLY <1>9, <2>5, <2>7, <3>1, y \in Int, lo \in Nat, u \in Nat, v \in Nat,
                    d \in Nat, t \in Nat, w \in Nat
  <2>10. CASE k < l
    <3>1. v + t <= u
      BY <1>4, <2>1, <2>2, <2>3, <2>4, <2>10 DEF Apart
    <3> QED BY ONLY <1>9, <2>5, <2>7, <3>1, lo \in Nat, u \in Nat, v \in Nat,
                    d \in Nat, t \in Nat, w \in Nat
  <2> QED BY <2>8, <2>9, <2>10
<1>13. hits = {l}
  BY <1>11, <1>12
<1>14. last = l
  <2>1. hits = {l} /\ l <= l
    BY <1>1, <1>13
  <2> QED BY <2>1
<1> HIDE DEF From, hits, last
<1>15. Staged(h, lo, mem)[y] =
         h.arena[h.arena[x.items + (d \div x.size)][2] + (d % x.size)]
  BY <1>2, <1>10, <1>11, <1>14
<1> QED BY <1>8, <1>15

\* Only the words for addresses change.
Steady(a, g) == \A x \in DOMAIN a : a[x][1] # "size" => g[x] = a[x]
PatchedArena(h, g, c, lo) ==
  /\ Whole(g) /\ g.cuargs = h.cuargs /\ g.constants = h.constants
  /\ Steady(h.arena, g.arena)
  /\ \A l \in DOMAIN h.lists :
       g.arena[h.lists[l].base] = << "addr", c, lo + Offset(h, h.lists[l]) >>

LEMMA PatchWords ==
  ASSUME NEW h, Whole(h), Apart(h), NEW c, NEW lo
  PROVE  PatchedArena(h, Patched(h, c, lo), c, lo)
<1>1. PICK a : a = h.arena
  OBVIOUS
<1>2. PICK arena : arena = [x \in DOMAIN a |->
          IF \E l \in DOMAIN h.lists : h.lists[l].base = x THEN << "addr", c, lo + a[x][2] >> ELSE a[x]]
  OBVIOUS
<1>3. PICK g : g = [h EXCEPT !.arena = arena]
  OBVIOUS
<1>4. Patched(h, c, lo) = g
  BY <1>1, <1>2, <1>3 DEF Patched, Whole
<1>5. /\ DOMAIN g = DOMAIN h /\ g.arena = arena /\ g.room = h.room /\ g.cuargs = h.cuargs
      /\ g.constants = h.constants
  BY ONLY <1>3, Whole(h) DEF Whole
<1>6. Whole(g)
  BY <1>5 DEF Whole
<1>7. ASSUME NEW l \in DOMAIN h.lists
      PROVE  /\ h.lists[l].base \in DOMAIN a /\ a[h.lists[l].base][1] = "size"
             /\ arena[h.lists[l].base] = << "addr", c, lo + Offset(h, h.lists[l]) >>
  <2>1. PICK x : x = h.lists[l].base
    OBVIOUS
  <2>2. x \in DOMAIN a /\ a[x][1] = "size"
    BY <1>1, <2>1 DEF Apart, HasPart
  <2>3. a[x][2] = Offset(h, h.lists[l])
    BY <1>1, <2>1 DEF Offset
  <2>4. arena[x] = << "addr", c, lo + a[x][2] >>
    BY <1>2, <2>1, <2>2
  <2> QED BY <2>1, <2>2, <2>3, <2>4
<1>8. ASSUME NEW x \in DOMAIN a, a[x][1] # "size" PROVE arena[x] = a[x]
  <2>1. ~ \E l \in DOMAIN h.lists : h.lists[l].base = x
    BY <1>7, <1>8
  <2> QED BY <1>2, <2>1
<1>9. Steady(h.arena, g.arena)
  BY <1>1, <1>5, <1>8 DEF Steady
<1> QED BY <1>4, <1>5, <1>6, <1>7, <1>9 DEF PatchedArena

\* What an entry w says of the parameter k.
Tagged(w, k, kind, items, g) ==
  /\ w.params[k].kind = kind /\ w.seen[k] = items
  /\ w.constants[k].type[2] = Rank(items[1])
  /\ w.words = [j \in DOMAIN g.cuargs |-> g.arena[g.cuargs[j]]]

LEMMA ArrayArrives ==
  ASSUME NEW h, NEW g, Steady(h.arena, g.arena), g.cuargs = h.cuargs, NEW m \in BOOLEAN,
         NEW items \in Seq(Arrays), NEW p, NEW kind, kind # "list", Laid(h, m, kind, items, p),
         NEW w, NEW k, Tagged(w, k, kind, items, g), NEW s, m = (s = Worker), NEW mem
  PROVE  Arrives(mem, s, w, k, p)
<1>1. /\ Len(items) = 1
      /\ \A j \in 1 .. 1 + 2 * Rank(items[1]) :
            /\ p + j - 1 \in DOMAIN h.cuargs /\ h.cuargs[p + j - 1] \in DOMAIN h.arena
            /\ h.arena[h.cuargs[p + j - 1]] = Img(m, Repr(items[1])[j])
  BY DEF Laid
<1>2. items[1] \in Arrays
  BY <1>1, ElementOfSeq, LenProperties
<1>3. Size(w, k) = 1 + 2 * Rank(items[1])
  BY DEF Tagged, Size
<1>4. ASSUME NEW j \in 1 .. 1 + 2 * Rank(items[1])
      PROVE  w.words[p + j - 1] = Img(m, Repr(items[1])[j])
  <2>1. PICK q : q = p + j - 1
    OBVIOUS
  <2>2. PICK v : v = Img(m, Repr(items[1])[j])
    OBVIOUS
  <2>3. q \in DOMAIN h.cuargs /\ h.cuargs[q] \in DOMAIN h.arena /\ h.arena[h.cuargs[q]] = v
    BY <1>1, <2>1, <2>2
  <2>4. v[1] # "size"
    BY <1>2, <2>2, ImgWord
  <2>5. g.arena[h.cuargs[q]] = v
    BY <2>3, <2>4 DEF Steady
  <2>6. w.words[q] = g.arena[g.cuargs[q]]
    BY <2>3 DEF Tagged
  <2> QED BY <2>1, <2>2, <2>5, <2>6
<1> QED BY <1>1, <1>3, <1>4 DEF Arrives, Tagged

\* The region r of mem holds the items of the lists of h.
HoldsLists(mem, h, c, lo, r) ==
  /\ r.chunk = c /\ r.lo = lo /\ r.hi = lo + h.total /\ lo + h.total <= ChunkWords
  /\ \E old : DOMAIN old = 0 .. ChunkWords - 1 /\ mem[c] = Staged(h, lo, old)

LEMMA ListArrives ==
  ASSUME NEW h, Sound(h), NEW g, NEW c, NEW lo \in Nat, PatchedArena(h, g, c, lo),
         NEW m \in BOOLEAN, NEW items \in Seq(Arrays), NEW p,
         Laid(h, m, "list", items, p),
         NEW w, NEW k, Tagged(w, k, "list", items, g), NEW s, m = (s = Worker),
         NEW mem, NEW r \in w.region, HoldsLists(mem, h, c, lo, r)
  PROVE  Arrives(mem, s, w, k, p)
<1>0. PICK old : /\ r.chunk = c /\ r.lo = lo /\ r.hi = lo + h.total /\ lo + h.total <= ChunkWords
                 /\ DOMAIN old = 0 .. ChunkWords - 1 /\ mem[c] = Staged(h, lo, old)
  BY DEF HoldsLists
<1>1. PICK l : /\ ListAt(h, p, l) /\ h.lists[l].len = Len(items)
               /\ ItemsAt(h.arena, m, h.lists[l], items)
  BY DEF Laid
<1>2. PICK x : x = h.lists[l]
  OBVIOUS
<1>3. l \in DOMAIN h.lists /\ HasPart(h, l)
  BY <1>1 DEF ListAt, Sound, Apart
<1>4. /\ x.len \in Nat \ {0} /\ x.size \in Nat \ {0} /\ Offset(h, x) \in Nat
      /\ Offset(h, x) + x.len * x.size <= h.total /\ h.total \in Nat
  BY <1>2, <1>3 DEF HasPart, Sound
<1>5. /\ x.base + 1 \in DOMAIN h.arena /\ h.arena[x.base + 1] = << "int", x.len >>
      /\ \A i \in DOMAIN items :
           /\ x.items + i - 1 \in DOMAIN h.arena /\ h.arena[x.items + i - 1][1] = "item"
           /\ x.size = 1 + 2 * Rank(items[i])
           /\ Lies(h.arena, m, h.arena[x.items + i - 1][2], items[i])
  BY <1>1, <1>2 DEF ItemsAt
<1>6. DOMAIN items = 1 .. x.len /\ Len(items) = x.len /\ 1 \in DOMAIN items
  BY <1>1, <1>2, <1>4, LenProperties
<1>7. Size(w, k) = x.size
  BY <1>5, <1>6 DEF Size, Tagged
<1>8. PICK n \in Nat : n = lo + Offset(h, x)
  BY <1>4
<1>9. w.words[p] = << "addr", r.chunk, n >>
  <2>1. p \in DOMAIN h.cuargs /\ h.cuargs[p] = x.base
    BY <1>1, <1>2 DEF ListAt
  <2>2. g.arena[x.base] = << "addr", c, n >>
    BY <1>2, <1>3, <1>8 DEF PatchedArena
  <2> QED BY <1>0, <2>1, <2>2 DEF Tagged, PatchedArena
<1>10. w.words[p + 1] = << "int", Len(items) >>
  <2>1. PICK q : q = p + 1
    OBVIOUS
  <2>2. q \in DOMAIN h.cuargs /\ h.cuargs[q] = x.base + 1
    BY <1>1, <1>2, <2>1 DEF ListAt
  <2>3. PICK v : v = << "int", x.len >>
    OBVIOUS
  <2>4. v[1] # "size"
    BY <2>3
  <2>5. g.arena[x.base + 1] = v
    BY <1>5, <2>3, <2>4 DEF PatchedArena, Steady
  <2> QED BY <1>6, <2>1, <2>2, <2>3, <2>5 DEF Tagged, PatchedArena
<1>11. r.lo <= n /\ n + Len(items) * Size(w, k) <= r.hi
  <2>1. PICK u \in Nat : u = Offset(h, x)
    BY <1>4
  <2>2. PICK z \in Nat : z = x.len * x.size
    BY <1>4
  <2>3. PICK t \in Nat : t = h.total
    BY <1>4
  <2>4. u + z <= t /\ n = lo + u
    BY <1>4, <1>8, <2>1, <2>2, <2>3
  <2>5. lo <= n /\ n + z <= lo + t
    BY ONLY <2>4, lo \in Nat, u \in Nat, z \in Nat, t \in Nat
  <2> QED BY <1>0, <1>6, <1>7, <2>2, <2>3, <2>5
<1>12. ASSUME NEW i \in 1 .. Len(items), NEW j \in 1 .. Size(w, k)
       PROVE  mem[r.chunk][n + (i - 1) * Size(w, k) + j - 1] = Img(s = Worker, Repr(items[i])[j])
  <2>1. PICK e \in Nat : e = i - 1 /\ e < x.len
    BY <1>4, <1>6
  <2>2. PICK f \in Nat : f = j - 1 /\ f < x.size
    BY <1>4, <1>7
  <2>3. PICK d \in Nat : d = e * x.size
    BY <1>4
  <2>4. PICK y : y = n + (i - 1) * Size(w, k) + j - 1
    OBVIOUS
  <2>5. y = n + (d + f)
    BY <1>7, <2>1, <2>2, <2>3, <2>4
  <2>6. PICK u \in Nat : u = Offset(h, x)
    BY <1>4
  <2>7. y = lo + Offset(h, x) + (e * x.size + f)
    BY <1>8, <2>3, <2>5, <2>6
  <2>8. y \in DOMAIN old
    <3>1. PICK z \in Nat : z = x.len * x.size
      BY <1>4
    <3>2. e * x.size + f \in 0 .. x.len * x.size - 1
      <4>1. f \in 0 .. x.size - 1
        BY <1>4, <2>2
      <4> QED BY <1>4, <2>1, <4>1, Product2
    <3>3. d + f < z
      BY <2>3, <3>1, <3>2
    <3>4. PICK top \in Nat : top = r.hi /\ top <= ChunkWords
      BY <1>0, <1>4
    <3>5. n + z <= top
      <4>1. Len(items) * Size(w, k) = z
        BY <1>6, <1>7, <3>1
      <4> QED BY <1>11, <3>4, <4>1
    <3>6. ChunkWords \in Nat
      BY ArgsAssumption
    <3>7. y \in 0 .. ChunkWords - 1
      BY ONLY <2>5, <3>3, <3>4, <3>5, <3>6, n \in Nat, d \in Nat, f \in Nat, z \in Nat, top \in Nat
    <3> QED BY <1>0, <3>7
  <2>9. Staged(h, lo, old)[y] = h.arena[h.arena[x.items + e][2] + f]
    <3>1. Apart(h) /\ IsSeq(h.lists)
      BY DEF Sound
    <3>2. l \in DOMAIN h.lists /\ e < x.len /\ f < x.size
      BY <1>3, <2>1, <2>2
    <3> QED BY ONLY <1>2, <2>7, <2>8, <3>1, <3>2, lo \in Nat, e \in Nat, f \in Nat, StagedWord
  <2>10. x.items \in Nat
    BY <1>2, <1>3 DEF HasPart
  <2>11. i \in DOMAIN items /\ x.items + i - 1 = x.items + e
    BY <1>6, <2>1, <2>10
  <2>12. PICK q : q = h.arena[x.items + e][2]
    OBVIOUS
  <2>13. Lies(h.arena, m, q, items[i]) /\ x.size = 1 + 2 * Rank(items[i])
    BY <1>5, <2>11, <2>12
  <2>14. q \in Nat /\ h.arena[q + j - 1] = Img(m, Repr(items[i])[j])
    BY <1>7, <2>13 DEF Lies
  <2>15. q + f = q + j - 1
    BY <2>2, <2>14
  <2> QED BY <1>0, <2>4, <2>9, <2>12, <2>14, <2>15
<1> QED BY <1>9, <1>10, <1>11, <1>12 DEF Arrives, Tagged

Entry(w, params, saw, constants, g) ==
  /\ w.params = params /\ w.seen = saw /\ w.constants = constants
  /\ w.words = [j \in DOMAIN g.cuargs |-> g.arena[g.cuargs[j]]]

LEMMA TaggedEntry ==
  ASSUME NEW constants, NEW params, NEW saw, AllKnown(constants, params, saw),
         NEW k \in 1 .. Len(params), Len(saw[k]) >= 1, NEW g, NEW w,
         Entry(w, params, saw, constants, g)
  PROVE  Tagged(w, k, params[k].kind, saw[k], g) /\ saw[k] \in Seq(Arrays)
<1>1. /\ IsSeq(constants) /\ saw \in Seq(Seq(Arrays))
      /\ Len(constants) = Len(params) /\ Len(saw) = Len(params)
      /\ \A i \in DOMAIN constants : \A j \in DOMAIN saw[i] :
           TrueOf(constants[i], params[i].dims, saw[i][j])
  BY DEF AllKnown, Known
<1>2. k \in DOMAIN constants /\ saw[k] \in Seq(Arrays)
  BY <1>1, SeqDomain, ElementOfSeq
<1>3. 1 \in DOMAIN saw[k]
  BY <1>2, LenProperties
<1>4. TrueOf(constants[k], params[k].dims, saw[k][1])
  BY <1>1, <1>2, <1>3
<1>5. constants[k].type[2] = Rank(saw[k][1])
  BY <1>4 DEF TrueOf, Type
<1> QED BY <1>2, <1>5 DEF Tagged, Entry

ListsArrive(h, m, w, s, mem) ==
  \A p : \A k \in DOMAIN w.params :
    w.params[k].kind = "list" /\ Laid(h, m, "list", w.seen[k], p) => Arrives(mem, s, w, k, p)

LEMMA AllArrive ==
  ASSUME NEW h, NEW m \in BOOLEAN, NEW params, NEW saw, Settled(h, m, params, saw),
         AllKnown(h.constants, params, saw),
         NEW g, Steady(h.arena, g.arena), g.cuargs = h.cuargs, NEW w,
         Entry(w, params, saw, h.constants, g), NEW s, m = (s = Worker), NEW mem, ListsArrive(h, m, w, s, mem)
  PROVE  Delivered(mem, s, w)
<1>1. PICK f \in Layings(Len(params), params, h.constants) :
        \A k \in 1 .. Len(params) : Laid(h, m, params[k].kind, saw[k], f[k])
  BY DEF Settled, Spread
<1>2. DOMAIN params = 1 .. Len(params)
  BY ParamOf DEF AllKnown, Known
<1>3. ASSUME NEW k \in 1 .. Len(params) PROVE Arrives(mem, s, w, k, f[k])
  <2>1. Laid(h, m, params[k].kind, saw[k], f[k])
    BY <1>1
  <2>2. CASE params[k].kind = "list"
    BY <1>2, <2>1, <2>2 DEF ListsArrive, Entry
  <2>3. CASE params[k].kind # "list"
    <3>1. Len(saw[k]) >= 1
      BY <2>1, <2>3 DEF Laid
    <3>2. PICK constants, items, kind :
            constants = h.constants /\ items = saw[k] /\ kind = params[k].kind
      OBVIOUS
    <3>3. Tagged(w, k, kind, items, g) /\ items \in Seq(Arrays)
      <4>1. AllKnown(constants, params, saw) /\ Entry(w, params, saw, constants, g)
        BY <3>2
      <4>2. Tagged(w, k, params[k].kind, saw[k], g) /\ saw[k] \in Seq(Arrays)
        BY <3>1, <4>1, TaggedEntry
      <4> QED BY <3>2, <4>2
    <3>4. Laid(h, m, kind, items, f[k]) /\ kind # "list"
      BY <2>1, <2>3, <3>2
    <3> QED BY <3>3, <3>4, ArrayArrives
  <2> QED BY <2>2, <2>3
<1> QED BY <1>1, <1>3 DEF Delivered, Entry

-----------------------------------------------------------------------------
(* What was delivered stays. *)

SameEntry(w, v) ==
  /\ v.params = w.params /\ v.seen = w.seen /\ v.constants = w.constants
  /\ v.words = w.words /\ v.region = w.region
MemKept(mem, new, regions) ==
  \A r \in regions : \A y \in r.lo .. r.hi - 1 : new[r.chunk][y] = mem[r.chunk][y]
Bounds(regions) == \A r \in regions : r.lo \in Nat /\ r.hi \in Nat

LEMMA SizeOf ==
  ASSUME NEW w, AllKnown(w.constants, w.params, w.seen), NEW k \in 1 .. Len(w.params),
         Len(w.seen[k]) >= 1
  PROVE  /\ Size(w, k) \in Nat \ {0} /\ Size(w, k) = 1 + 2 * Rank(w.seen[k][1])
         /\ \A i \in DOMAIN w.seen[k] : Rank(w.seen[k][i]) = Rank(w.seen[k][1])
<1>1. /\ IsSeq(w.constants) /\ w.seen \in Seq(Seq(Arrays))
      /\ Len(w.constants) = Len(w.params) /\ Len(w.seen) = Len(w.params)
      /\ \A i \in DOMAIN w.constants : \A j \in DOMAIN w.seen[i] :
           TrueOf(w.constants[i], w.params[i].dims, w.seen[i][j])
  BY DEF AllKnown, Known
<1>2. k \in DOMAIN w.constants /\ w.seen[k] \in Seq(Arrays)
  BY <1>1, SeqDomain, ElementOfSeq
<1>3. 1 \in DOMAIN w.seen[k]
  BY <1>2, LenProperties
<1>4. ASSUME NEW i \in DOMAIN w.seen[k] PROVE w.constants[k].type[2] = Rank(w.seen[k][i])
  <2>1. TrueOf(w.constants[k], w.params[k].dims, w.seen[k][i])
    BY <1>1, <1>2
  <2> QED BY <2>1 DEF TrueOf, Type
<1>5. w.seen[k][1] \in Arrays
  BY <1>2, <1>3, ElementOfSeq, LenProperties
<1>6. Rank(w.seen[k][1]) \in Nat
  BY <1>5, RankOf
<1>7. Size(w, k) = 1 + 2 * Rank(w.seen[k][1])
  BY <1>3, <1>4 DEF Size
<1> QED BY <1>3, <1>4, <1>6, <1>7

LEMMA StillDelivered ==
  ASSUME NEW w, AllKnown(w.constants, w.params, w.seen), NEW v, SameEntry(w, v),
         Bounds(w.region), NEW mem, NEW new, MemKept(mem, new, w.region), NEW s,
         Delivered(mem, s, w)
  PROVE  Delivered(new, s, v)
<1>1. PICK f \in Layings(Len(w.params), w.params, w.constants) :
        \A k \in 1 .. Len(w.params) : Arrives(mem, s, w, k, f[k])
  BY DEF Delivered
<1>2. ASSUME NEW k \in 1 .. Len(w.params) PROVE Arrives(new, s, v, k, f[k])
  <2>1. Arrives(mem, s, w, k, f[k]) /\ Size(v, k) = Size(w, k)
    BY <1>1 DEF SameEntry, Size
  <2>2. CASE w.params[k].kind # "list"
    BY <2>1, <2>2 DEF Arrives, SameEntry
  <2>3. CASE w.params[k].kind = "list"
    <3>1. PICK items, size : items = w.seen[k] /\ size = Size(w, k)
      OBVIOUS
    <3>2. PICK r \in w.region, n \in Nat :
            /\ w.words[f[k]] = << "addr", r.chunk, n >> /\ w.words[f[k] + 1] = << "int", Len(items) >>
            /\ r.lo <= n /\ n + Len(items) * size <= r.hi
            /\ \A i \in 1 .. Len(items), j \in 1 .. size :
                 mem[r.chunk][n + (i - 1) * size + j - 1] = Img(s = Worker, Repr(items[i])[j])
      BY <2>1, <2>3, <3>1 DEF Arrives
    <3>3. ASSUME NEW i \in 1 .. Len(items), NEW j \in 1 .. size
          PROVE  new[r.chunk][n + (i - 1) * size + j - 1] = Img(s = Worker, Repr(items[i])[j])
      <4>1. items \in Seq(Arrays)
        <5>1. w.seen \in Seq(Seq(Arrays)) /\ Len(w.seen) = Len(w.params)
          BY DEF AllKnown, Known
        <5> QED BY <3>1, <5>1, ElementOfSeq
      <4>2. PICK len \in Nat : len = Len(items) /\ len >= 1
        BY <4>1, LenProperties
      <4>3. size \in Nat \ {0}
        BY <3>1, <4>2, SizeOf
      <4>4. PICK e \in Nat : e = i - 1 /\ e < len
        BY <4>2
      <4>5. PICK h \in Nat : h = j - 1 /\ h \in 0 .. size - 1
        BY <4>3
      <4>6. e * size + h \in 0 .. len * size - 1
        BY <4>3, <4>4, <4>5, Product2
      <4>7. PICK d \in Nat : d = e * size
        BY <4>3
      <4>8. PICK z \in Nat : z = len * size
        BY <4>3
      <4>9. PICK y : y = n + (i - 1) * size + j - 1
        OBVIOUS
      <4>10. y = n + d + h
        BY <4>3, <4>4, <4>5, <4>7, <4>9
      <4>11. PICK lo \in Nat, hi \in Nat : lo = r.lo /\ hi = r.hi
        BY DEF Bounds
      <4>12. d + h < z /\ lo <= n /\ n + z <= hi
        BY <3>2, <4>2, <4>6, <4>7, <4>8, <4>11
      <4>13. y \in lo .. hi - 1
        BY ONLY <4>10, <4>12, n \in Nat, d \in Nat, h \in Nat, z \in Nat, lo \in Nat, hi \in Nat
      <4>14. new[r.chunk][y] = mem[r.chunk][y]
        BY <4>11, <4>13 DEF MemKept
      <4> QED BY <3>2, <4>9, <4>14
    <3>4. /\ v.words[f[k]] = << "addr", r.chunk, n >> /\ v.words[f[k] + 1] = << "int", Len(items) >>
          /\ r \in v.region /\ v.seen[k] = items /\ Size(v, k) = size /\ v.params[k].kind = "list"
      BY <2>1, <2>3, <3>1, <3>2 DEF SameEntry
    <3> QED BY <3>2, <3>3, <3>4 DEF Arrives
  <2> QED BY <2>2, <2>3
<1> QED BY <1>1, <1>2 DEF Delivered, SameEntry

EntryWords(s, w, h, d) ==
  /\ w.kernel /\ w.region # {} => w.copies
  /\ Delivered(IF w.copied THEN d ELSE h, s, w)

LEMMA EntryKept ==
  ASSUME NEW w, AllKnown(w.constants, w.params, w.seen), NEW s, NEW h, NEW d, NEW h2, NEW d2,
         Bounds(w.region), MemKept(h, h2, w.region), MemKept(d, d2, w.region),
         EntryWords(s, w, h, d)
  PROVE  EntryWords(s, w, h2, d2)
<1>1. SameEntry(w, w)
  BY DEF SameEntry
<1>2. PICK old, new : old = (IF w.copied THEN d ELSE h) /\ new = (IF w.copied THEN d2 ELSE h2)
  OBVIOUS
<1>3. MemKept(old, new, w.region) /\ Delivered(old, s, w)
  BY <1>2 DEF EntryWords
<1>4. Delivered(new, s, w)
  BY ONLY <1>1, <1>3, AllKnown(w.constants, w.params, w.seen), Bounds(w.region), ArgsAssumption,
          StillDelivered
<1> QED BY <1>2, <1>4 DEF EntryWords

LEMMA EntryOf ==
  ASSUME Launched, Regions, QueueWords, NEW s \in Streams, NEW n \in DOMAIN queue[s],
         NEW w, w = queue[s][n]
  PROVE  /\ EntryWords(s, w, host, dev) /\ AllKnown(w.constants, w.params, w.seen)
         /\ IsEntry(w) /\ Bounds(w.region)
<1>1. AllKnown(w.constants, w.params, w.seen) /\ IsEntry(w)
  BY DEF Launched, IsQueue
<1>2. EntryWords(s, w, host, dev)
  BY DEF QueueWords, EntryWords
<1>3. \A r \in w.region : Mine(s, r)
  BY DEF Regions
<1>4. Bounds(w.region)
  BY <1>3 DEF Mine, Bounds
<1> QED BY <1>1, <1>2, <1>4

\* Regions do not move while queues, events and open regions are the same.
LEMMA SameRegions ==
  ASSUME Regions, UNCHANGED << queue, pend, inflight >>, Bytes(host)', Bytes(dev)',
         step' # "launch" => staged' = {}, \A r \in staged' : Mine(call'.stream, r),
         \A r \in staged', s \in Streams : \A n \in DOMAIN queue[s] :
           \A q \in queue[s][n].region : ~Memory!Overlap(r, q)
  PROVE  Regions'
<1>1. queue' = queue /\ pend' = pend /\ inflight' = inflight
  OBVIOUS
<1>2. \A s \in Streams : \A g : InOrder(s, g)' <=> InOrder(s, g)
  BY <1>1 DEF InOrder
<1>3. \A s \in Streams : \E g : InOrder(s, g)'
  BY <1>2 DEF Regions
<1>4. DOMAIN pend' = Streams /\ \A s \in Streams : pend'[s] \in Nat
  BY <1>1 DEF Regions
<1>5. \A s \in Streams : \A n \in DOMAIN queue[s] : \A r \in queue[s][n].region : Mine(s, r)
  BY DEF Regions
<1>6. \A s, t \in Streams : \A n \in DOMAIN queue[s], k \in DOMAIN queue[t] :
        << s, n >> # << t, k >> =>
          \A r \in queue[s][n].region, q \in queue[t][k].region : ~Memory!Overlap(r, q)
  BY DEF Regions
<1> QED BY <1>1, <1>3, <1>4, <1>5, <1>6 DEF Regions

LEMMA NothingWords ==
  ASSUME Typed, Complete, Launched, WordsInv, NothingToStage
  PROVE  WordsInv'
<1>1. /\ step = "stage" /\ step' = "launch" /\ helper.lists = << >>
      /\ UNCHANGED << inCall, helper, payload, mapped, onDevice >>
  BY DEF NothingToStage
<1>2. /\ call' = call /\ seen' = seen /\ helper' = helper /\ payload' = payload
      /\ mapped' = mapped /\ host' = host /\ dev' = dev /\ queue' = queue
      /\ pend' = pend /\ staged' = staged /\ inflight' = inflight
  BY <1>1 DEF inCall, onDevice, memory
<1>3. ReadWords' /\ StageWords'
  BY <1>1 DEF ReadWords, StageWords
<1>4. PayloadWords' /\ QueueWords'
  BY <1>2 DEF WordsInv, PayloadWords, QueueWords
<1>5. CallSane'
  BY <1>1, <1>2 DEF WordsInv, CallSane
<1>6. Opened'
  BY <1>1, <1>2 DEF WordsInv, Opened, HasThem
<1>7. staged = {} /\ Bytes(host) /\ Bytes(dev)
  BY <1>1 DEF WordsInv, Regions
<1>8. Regions'
  <2>1. Bytes(host)' /\ Bytes(dev)' /\ staged' = {}
    BY <1>2, <1>7 DEF Bytes
  <2> QED BY <1>2, <2>1, SameRegions DEF WordsInv
<1>9. LaunchWords'
  <2>1. PICK w : w = Work(staged, FALSE, FALSE)'
    OBVIOUS
  <2>2. Entry(w, call.params, seen, helper.constants, helper)
    BY <1>2, <2>1 DEF Work, Entry
  <2>3. PICK m \in BOOLEAN : m = (call.stream = Worker)
    OBVIOUS
  <2>4. Settled(helper, m, call.params, seen)
    BY <1>1, <2>3 DEF WordsInv, StageWords
  <2>5. AllKnown(helper.constants, call.params, seen)
    BY <1>1 DEF Complete
  <2>6. Steady(helper.arena, helper.arena)
    BY DEF Steady
  <2>7. DOMAIN helper.lists = {}
    BY <1>1
  <2>8. ListsArrive(helper, m, w, call.stream, host)
    BY <2>7 DEF ListsArrive, Laid, ListAt
  <2>9. PICK h, params, saw, s, c : /\ h = helper /\ params = call.params /\ saw = seen
                                    /\ s = call.stream /\ c = helper.constants
    OBVIOUS
  <2>10. /\ Settled(h, m, params, saw) /\ AllKnown(h.constants, params, saw)
         /\ Steady(h.arena, h.arena) /\ h.cuargs = h.cuargs
         /\ Entry(w, params, saw, h.constants, h) /\ m = (s = Worker)
         /\ ListsArrive(h, m, w, s, host)
    BY <2>2, <2>3, <2>4, <2>5, <2>6, <2>8, <2>9
  <2>11. Delivered(host, s, w)
    BY ONLY <2>10, m \in BOOLEAN, ArgsAssumption, AllArrive
  <2>12. Delivered(host', call'.stream, Work(staged, FALSE, FALSE)')
    BY <1>2, <2>1, <2>9, <2>11
  <2> QED BY <2>12 DEF LaunchWords
<1> QED BY <1>3, <1>4, <1>5, <1>6, <1>8, <1>9 DEF WordsInv

LEMMA StagedElsewhere ==
  ASSUME NEW h, Apart(h), NEW lo \in Nat, h.total \in Nat, NEW mem, NEW y \in DOMAIN mem, y \in Int,
         ~(lo <= y /\ y < lo + h.total)
  PROVE  Staged(h, lo, mem)[y] = mem[y]
<1> DEFINE From(k) == y - lo - Offset(h, h.lists[k])
           hits == {k \in DOMAIN h.lists : From(k) \in 0 .. h.lists[k].len * h.lists[k].size - 1}
           last == CHOOSE k \in hits : \A i \in hits : i <= k
<1>1. Staged(h, lo, mem)[y] =
        IF hits = {} THEN mem[y]
        ELSE h.arena[h.arena[h.lists[last].items + (From(last) \div h.lists[last].size)][2]
                     + (From(last) % h.lists[last].size)]
  BY DEF Staged
<1>2. ASSUME NEW k \in hits PROVE FALSE
  <2>1. PICK z : z = h.lists[k]
    OBVIOUS
  <2>2. /\ z.len \in Nat \ {0} /\ z.size \in Nat \ {0} /\ Offset(h, z) \in Nat
        /\ Offset(h, z) + z.len * z.size <= h.total
    BY <2>1 DEF Apart, HasPart
  <2>3. PICK v \in Nat : v = Offset(h, z)
    BY <2>2
  <2>4. PICK t \in Nat : t = z.len * z.size
    BY <2>2
  <2>5. PICK total \in Nat : total = h.total
    OBVIOUS
  <2>6. y - lo - v \in 0 .. t - 1 /\ v + t <= total
    BY <1>2, <2>1, <2>2, <2>3, <2>4, <2>5
  <2>7. ~(lo <= y /\ y < lo + total)
    BY <2>5
  <2> QED BY ONLY <2>6, <2>7, y \in Int, lo \in Nat, v \in Nat, t \in Nat, total \in Nat
<1>3. hits = {}
  BY <1>2
<1> QED BY <1>1, <1>3

\* Regions that do not overlap the one that is staged keep their words.
LEMMA StagedKeeps ==
  ASSUME NEW h, Sound(h), Bytes(host), NEW c \in Chunks, NEW lo \in Nat, NEW own,
         own.chunk = c, own.lo = lo, own.hi = lo + h.total,
         NEW regions, NEW s, \A r \in regions : Mine(s, r) /\ ~Memory!Overlap(own, r),
         NEW new, new = [host EXCEPT ![c] = Staged(h, lo, host[c])]
  PROVE  MemKept(host, new, regions)
<1>1. SUFFICES ASSUME NEW r \in regions, NEW y \in r.lo .. r.hi - 1
               PROVE  new[r.chunk][y] = host[r.chunk][y]
  BY DEF MemKept
<1>2. Mine(s, r) /\ ~Memory!Overlap(own, r)
  OBVIOUS
<1>3. PICK low \in Nat, high \in Nat : low = r.lo /\ high = r.hi /\ high <= ChunkWords
  BY <1>2 DEF Mine
<1>4. y \in low .. high - 1
  BY <1>3
<1>5. DOMAIN host = Chunks /\ DOMAIN host[c] = 0 .. ChunkWords - 1
  BY DEF Bytes
<1>6. CASE r.chunk # c
  BY <1>5, <1>6
<1>7. CASE r.chunk = c
  <2>1. PICK total \in Nat : total = h.total
    BY DEF Sound
  <2>2. ~(lo < high /\ low < lo + total)
    BY <1>2, <1>3, <1>7, <2>1 DEF Memory!Overlap
  <2>3. ~(lo <= y /\ y < lo + total) /\ y \in Int
    BY ONLY <1>4, <2>2, low \in Nat, high \in Nat, lo \in Nat, total \in Nat
  <2>4. ChunkWords \in Nat
    BY ArgsAssumption
  <2>5. y \in 0 .. ChunkWords - 1
    BY ONLY <1>3, <1>4, <2>4, low \in Nat, high \in Nat
  <2>6. PICK mem : mem = host[c]
    OBVIOUS
  <2>7. Staged(h, lo, mem)[y] = mem[y]
    <3>1. Apart(h) /\ h.total \in Nat
      BY DEF Sound
    <3>2. y \in DOMAIN mem /\ ~(lo <= y /\ y < lo + h.total)
      BY <1>5, <2>1, <2>3, <2>5, <2>6
    <3> QED BY <2>3, <3>1, <3>2, StagedElsewhere
  <2>8. new[c] = Staged(h, lo, host[c])
    BY <1>5
  <2> QED BY <1>7, <2>6, <2>7, <2>8
<1> QED BY <1>6, <1>7

LEMMA ListsFound ==
  ASSUME NEW h, Sound(h), NEW params, NEW saw, AllKnown(h.constants, params, saw),
         NEW g, NEW c, NEW lo \in Nat, PatchedArena(h, g, c, lo),
         NEW m \in BOOLEAN,
         NEW w, Entry(w, params, saw, h.constants, g), NEW s, m = (s = Worker),
         NEW mem, NEW r \in w.region, HoldsLists(mem, h, c, lo, r)
  PROVE  ListsArrive(h, m, w, s, mem)
<1>1. SUFFICES ASSUME NEW k \in DOMAIN w.params, NEW p, w.params[k].kind = "list",
                      Laid(h, m, "list", w.seen[k], p)
               PROVE  Arrives(mem, s, w, k, p)
  BY DEF ListsArrive
<1>2. k \in 1 .. Len(params)
  <2>1. DOMAIN params = 1 .. Len(params)
    BY ParamOf DEF AllKnown, Known
  <2> QED BY <2>1 DEF Entry
<1>3. PICK items, constants : items = saw[k] /\ constants = h.constants
  OBVIOUS
<1>4. Laid(h, m, "list", items, p)
  BY <1>1, <1>3 DEF Entry
<1>5. Len(items) >= 1
  <2>1. PICK l \in DOMAIN h.lists : h.lists[l].len = Len(items)
    BY <1>4 DEF Laid, ListAt
  <2>2. h.lists[l].len \in Nat \ {0}
    BY DEF Sound, Apart, HasPart
  <2> QED BY <2>1, <2>2
<1>6. Tagged(w, k, "list", items, g) /\ items \in Seq(Arrays)
  <2>1. AllKnown(constants, params, saw) /\ Entry(w, params, saw, constants, g) /\ Len(saw[k]) >= 1
    BY <1>3, <1>5
  <2>2. Tagged(w, k, params[k].kind, saw[k], g) /\ saw[k] \in Seq(Arrays)
    BY <1>2, <2>1, TaggedEntry
  <2>3. params[k].kind = "list"
    BY <1>1 DEF Entry
  <2> QED BY <1>3, <2>2, <2>3
<1> QED
  BY ONLY <1>4, <1>6, ListArrives, Sound(h), PatchedArena(h, g, c, lo), m = (s = Worker), lo \in Nat,
          m \in BOOLEAN, r \in w.region, HoldsLists(mem, h, c, lo, r), ArgsAssumption

LEMMA FlightsApart ==
  ASSUME Regions, NEW own, \A q \in Memory!Live : ~Memory!Overlap(own, q),
         NEW t \in Streams, NEW n \in DOMAIN queue[t], NEW q \in queue[t][n].region
  PROVE  ~Memory!Overlap(own, q)
<1>1. PICK g : InOrder(t, g)
  BY DEF Regions
<1>2. Flight(q, g[n]) \in inflight
  BY <1>1 DEF InOrder
<1>3. ~Memory!Overlap(own, Flight(q, g[n]))
  BY <1>2 DEF Memory!Live
<1> QED BY <1>3 DEF Memory!Overlap, Flight

Stages(own, c, lo) ==
  /\ lo + helper.total <= ChunkWords
  /\ own = [stream |-> call.stream, chunk |-> c, lo |-> lo, hi |-> lo + helper.total]
  /\ staged' = {own} /\ pend' = pend /\ inflight' = inflight
  /\ \A q \in Memory!Live : ~Memory!Overlap(own, q)
  /\ host' = [host EXCEPT ![c] = Staged(helper, lo, host[c])]
  /\ helper' = Patched(helper, c, lo)

LEMMA StagedRegion ==
  ASSUME WordsInv, stage_list_args_on_stream
  PROVE  \E own : \E c \in Chunks, lo \in Nat : Stages(own, c, lo)
<1>1. staged = {}
  BY DEF stage_list_args_on_stream, WordsInv, Regions
<1>2. PICK c \in PoolOf[call.stream], lo \in Starts :
        /\ lo + helper.total <= ChunkWords
        /\ staged' = staged \cup {[stream |-> call.stream, chunk |-> c,
                                   lo |-> lo, hi |-> lo + helper.total]}
        /\ Memory!Grant(call.stream)
        /\ host' = [host EXCEPT ![c] = Staged(helper, lo, host[c])]
        /\ helper' = Patched(helper, c, lo)
  BY DEF stage_list_args_on_stream
<1>3. PICK own : own = [stream |-> call.stream, chunk |-> c, lo |-> lo, hi |-> lo + helper.total]
  OBVIOUS
<1>4. staged' = {own}
  BY <1>1, <1>2, <1>3
<1>5. /\ own.chunk \in Chunks /\ \A q \in Memory!Live : ~Memory!Overlap(own, q)
      /\ pend' = pend /\ inflight' = inflight
  BY <1>1, <1>2, <1>4 DEF Memory!Grant
<1>6. c \in Chunks /\ lo \in Nat
  BY <1>3, <1>5, ArgsAssumption
<1> QED BY <1>2, <1>3, <1>4, <1>5, <1>6 DEF Stages

LEMMA StagingWords ==
  ASSUME Typed, Complete, Launched, WordsInv, stage_list_args_on_stream
  PROVE  WordsInv'
<1>1. /\ step = "stage" /\ step' = "launch" /\ ~call.export
      /\ UNCHANGED << inCall, payload, mapped, dev, queue >>
  BY DEF stage_list_args_on_stream
<1>2. /\ call' = call /\ seen' = seen /\ payload' = payload
      /\ mapped' = mapped /\ dev' = dev /\ queue' = queue
  BY <1>1 DEF inCall
<1>3. ReadWords' /\ StageWords'
  BY <1>1 DEF ReadWords, StageWords
<1>4. PayloadWords'
  BY <1>2 DEF WordsInv, PayloadWords
<1>5. CallSane' /\ call.stream \in Streams
  BY <1>1, <1>2 DEF WordsInv, CallSane
<1>6. Opened'
  BY <1>1, <1>2 DEF WordsInv, Opened, HasThem
<1>7. Bytes(host) /\ Bytes(dev) /\ Regions /\ QueueWords
  BY DEF WordsInv, Regions
<1>0. PICK m \in BOOLEAN : m = (call.stream = Worker)
  OBVIOUS
<1>8. PICK h, s, params, saw :
        /\ h = helper /\ s = call.stream /\ params = call.params /\ saw = seen /\ m = (s = Worker)
  BY <1>0
<1>9. PICK own : \E c \in Chunks, lo \in Nat : Stages(own, c, lo)
  BY StagedRegion
<1>10. PICK c \in Chunks, lo \in Nat : Stages(own, c, lo)
  BY <1>9
<1>11. /\ lo + h.total <= ChunkWords
       /\ own = [stream |-> s, chunk |-> c, lo |-> lo, hi |-> lo + h.total]
       /\ staged' = {own} /\ pend' = pend /\ inflight' = inflight
       /\ \A q \in Memory!Live : ~Memory!Overlap(own, q)
       /\ host' = [host EXCEPT ![c] = Staged(h, lo, host[c])]
       /\ helper' = Patched(h, c, lo)
  BY <1>8, <1>10 DEF Stages
<1>12. Settled(h, m, params, saw) /\ AllKnown(h.constants, params, saw)
  BY <1>1, <1>8 DEF WordsInv, StageWords, Complete
<1>13. Sound(h) /\ h.total \in Nat
  BY <1>12 DEF Settled, Sound
<1>14. own.stream = s /\ own.chunk = c /\ own.lo = lo /\ own.hi = lo + h.total
  BY <1>11
<1>15. Mine(s, own)
  BY <1>11, <1>13, <1>14 DEF Mine
<1>16. \A t \in Streams : \A n \in DOMAIN queue[t] : \A q \in queue[t][n].region :
         ~Memory!Overlap(own, q)
  BY ONLY <1>7, <1>11, FlightsApart
<1>17. PICK old, new : /\ old = host[c] /\ new = [host EXCEPT ![c] = Staged(h, lo, host[c])]
  OBVIOUS
<1>18. DOMAIN old = 0 .. ChunkWords - 1 /\ new = host' /\ host'[c] = Staged(h, lo, old)
  BY <1>7, <1>11, <1>17 DEF Bytes
<1>19. Bytes(host)' /\ Bytes(dev)'
  <2>1. DOMAIN Staged(h, lo, old) = DOMAIN old
    BY DEF Staged
  <2>2. DOMAIN host' = Chunks
    BY <1>7, <1>11 DEF Bytes
  <2>3. ASSUME NEW d \in Chunks PROVE DOMAIN host'[d] = 0 .. ChunkWords - 1
    <3>1. CASE d = c
      BY <1>18, <2>1, <3>1
    <3>2. CASE d # c
      BY <1>7, <1>11, <3>2 DEF Bytes
    <3> QED BY <3>1, <3>2
  <2> QED BY <1>2, <1>7, <2>2, <2>3 DEF Bytes
<1>20. Regions'
  BY <1>1, <1>2, <1>7, <1>8, <1>11, <1>15, <1>16, <1>19, SameRegions
<1>21. QueueWords'
  <2>1. ASSUME NEW t \in Streams, NEW n \in DOMAIN queue[t]
        PROVE  EntryWords(t, queue[t][n], host', dev')
    <3>1. PICK w : w = queue[t][n]
      OBVIOUS
    <3>2. EntryWords(t, w, host, dev) /\ AllKnown(w.constants, w.params, w.seen) /\ Bounds(w.region)
      BY <1>7, <3>1, EntryOf
    <3>3. \A r \in w.region : Mine(t, r) /\ ~Memory!Overlap(own, r)
      BY <1>7, <1>16, <3>1 DEF Regions
    <3>4. MemKept(host, new, w.region)
      BY ONLY <1>7, <1>13, <1>14, <1>17, <3>3, c \in Chunks, lo \in Nat, ArgsAssumption, StagedKeeps
    <3>5. MemKept(dev, dev', w.region)
      BY <1>2 DEF MemKept
    <3>6. PICK a, b, d : a = host /\ b = dev /\ d = dev'
      OBVIOUS
    <3>7. EntryWords(t, w, new, d)
      <4>1. EntryWords(t, w, a, b) /\ MemKept(a, new, w.region) /\ MemKept(b, d, w.region)
        BY <3>2, <3>4, <3>5, <3>6
      <4> QED BY ONLY <3>2, <4>1, ArgsAssumption, EntryKept
    <3> QED BY <1>18, <3>1, <3>6, <3>7
  <2> QED BY <1>2, <2>1 DEF QueueWords, EntryWords
<1>22. LaunchWords'
  <2>1. PICK w : w = Work(staged, FALSE, FALSE)'
    OBVIOUS
  <2>2. PICK g : g = helper'
    OBVIOUS
  <2>3. PatchedArena(h, g, c, lo)
    BY <1>11, <1>13, <2>2, PatchWords DEF Sound
  <2>4. g.cuargs = h.cuargs /\ g.constants = h.constants /\ Steady(h.arena, g.arena)
    BY <2>3 DEF PatchedArena
  <2>5. Entry(w, params, saw, h.constants, g) /\ w.region = {own}
    BY <1>2, <1>8, <1>11, <2>1, <2>2, <2>4 DEF Work, Entry
  <2>6. HoldsLists(new, h, c, lo, own)
    BY <1>11, <1>14, <1>18 DEF HoldsLists
  <2>7. own \in w.region
    BY <2>5
  <2>8. ListsArrive(h, m, w, s, new)
    BY ONLY <1>8, <1>12, <1>13, <2>3, <2>5, <2>6, <2>7, lo \in Nat, m \in BOOLEAN, ArgsAssumption, ListsFound
  <2>9. Delivered(new, s, w)
    BY ONLY <1>8, <1>12, <2>4, <2>5, <2>8, m \in BOOLEAN, ArgsAssumption, AllArrive
  <2>10. Delivered(host', call'.stream, Work(staged, FALSE, FALSE)')
    BY <1>2, <1>8, <1>18, <2>1, <2>9
  <2> QED BY <2>10 DEF LaunchWords
<1> QED BY <1>3, <1>4, <1>5, <1>6, <1>20, <1>21, <1>22 DEF WordsInv

-----------------------------------------------------------------------------
(* A launch joins its stream's queue. *)

Queued(s, w, n) ==
  /\ n \in Nat /\ DOMAIN queue[s] = 1 .. n /\ DOMAIN queue'[s] = 1 .. n + 1
  /\ queue'[s][n + 1] = w /\ \A i \in 1 .. n : queue'[s][i] = queue[s][i]
  /\ \A t \in Streams \ {s} : queue'[t] = queue[t]

LEMMA QueueJoined ==
  ASSUME Launched, NEW s \in Streams, NEW w, queue' = [queue EXCEPT ![s] = Append(queue[s], w)]
  PROVE  \E n : Queued(s, w, n)
<1>1. PICK q, r : q = queue[s] /\ r = Append(q, w)
  OBVIOUS
<1>2. IsSeq(q)
  BY <1>1 DEF Launched, IsQueue
<1>3. Appended(q, w)
  BY <1>2, Added
<1>4. PICK n : n = Len(q)
  OBVIOUS
<1>5. n \in Nat /\ DOMAIN q = 1 .. n
  BY <1>2, <1>4, SeqDomain
<1>6. IsSeq(r) /\ Len(r) = n + 1 /\ r[n + 1] = w /\ \A i \in 1 .. n : r[i] = q[i]
  BY <1>1, <1>3, <1>4 DEF Appended
<1>7. DOMAIN r = 1 .. n + 1
  BY <1>6, SeqDomain
<1>8. queue' = [queue EXCEPT ![s] = r]
  BY <1>1
<1>9. queue'[s] = r /\ \A t \in Streams \ {s} : queue'[t] = queue[t]
  BY <1>8 DEF Launched
<1> QED BY <1>1, <1>5, <1>6, <1>7, <1>9 DEF Queued

Submitted(s) ==
  IF staged = {} THEN UNCHANGED << pend, inflight >>
  ELSE /\ pend' = [pend EXCEPT ![s] = pend[s] + 1]
       /\ \A r \in inflight : r \in inflight'
       /\ \A r \in staged : Flight(r, pend[s] + 1) \in inflight'

LEMMA JoinedOrder ==
  ASSUME Regions, NEW s \in Streams, NEW w, NEW n, Queued(s, w, n), w.region = staged,
         Submitted(s), NEW t \in Streams
  PROVE  \E g : InOrder(t, g)'
<1>1. PICK g : InOrder(t, g)
  BY DEF Regions
<1>2. PICK p \in Nat : p = pend[t]
  BY DEF Regions
<1>3. DOMAIN pend = Streams
  BY DEF Regions
<1>4. /\ DOMAIN g = DOMAIN queue[t]
      /\ \A k \in DOMAIN queue[t] : queue[t][k].region # {} =>
           g[k] \in 1 .. p /\ \A r \in queue[t][k].region : Flight(r, g[k]) \in inflight
      /\ \A i, k \in DOMAIN queue[t] :
           i < k /\ queue[t][i].region # {} /\ queue[t][k].region # {} => g[i] < g[k]
  BY <1>1, <1>2 DEF InOrder
<1>5. \A r \in inflight : r \in inflight'
  BY DEF Submitted
<1>6. CASE t # s
  <2>1. queue'[t] = queue[t] /\ pend'[t] = p
    BY <1>2, <1>3, <1>6 DEF Queued, Submitted
  <2>2. InOrder(t, g)'
    BY <1>4, <1>5, <2>1 DEF InOrder
  <2> QED BY <2>2
<1>7. CASE t = s
  <2>1. PICK f : f = [k \in 1 .. n + 1 |-> IF k = n + 1 THEN p + 1 ELSE g[k]]
    OBVIOUS
  <2>2. PICK q, v : q = queue[s] /\ v = queue'[s]
    OBVIOUS
  <2>3. /\ n \in Nat /\ DOMAIN q = 1 .. n /\ DOMAIN v = 1 .. n + 1
        /\ v[n + 1] = w /\ \A i \in 1 .. n : v[i] = q[i]
    BY <2>2 DEF Queued
  <2>4. /\ f[n + 1] = p + 1 /\ \A k \in 1 .. n : f[k] = g[k]
    BY <2>1, <2>3
  <2>5. staged # {} => /\ pend'[s] = p + 1
                       /\ \A r \in staged : Flight(r, p + 1) \in inflight'
    BY <1>2, <1>3, <1>7 DEF Submitted
  <2>6. staged = {} => pend'[s] = p
    BY <1>2, <1>7 DEF Submitted
  <2>7. DOMAIN f = DOMAIN v
    BY <2>1, <2>3
  <2>8. ASSUME NEW k \in DOMAIN v, v[k].region # {}
        PROVE  f[k] \in 1 .. pend'[s] /\ \A r \in v[k].region : Flight(r, f[k]) \in inflight'
    <3>1. CASE k = n + 1
      BY <2>3, <2>4, <2>5, <2>8, <3>1
    <3>2. CASE k # n + 1
      <4>1. k \in 1 .. n
        BY <2>3, <3>2
      <4>2. v[k] = q[k] /\ f[k] = g[k] /\ k \in DOMAIN q
        BY <2>3, <2>4, <4>1
      <4>3. g[k] \in 1 .. p /\ \A r \in q[k].region : Flight(r, g[k]) \in inflight
        BY <1>4, <1>7, <2>2, <2>8, <4>2
      <4>4. pend'[s] \in {p, p + 1}
        BY <2>5, <2>6
      <4> QED BY <1>5, <4>2, <4>3, <4>4
    <3> QED BY <3>1, <3>2
  <2>9. ASSUME NEW i \in DOMAIN v, NEW k \in DOMAIN v, i < k, v[i].region # {}, v[k].region # {}
        PROVE  f[i] < f[k]
    <3>1. i \in 1 .. n
      BY <2>3, <2>9
    <3>2. f[i] = g[i] /\ v[i] = q[i] /\ i \in DOMAIN q
      BY <2>3, <2>4, <3>1
    <3>3. CASE k = n + 1
      <4>1. g[i] \in 1 .. p
        BY <1>4, <1>7, <2>2, <2>9, <3>2
      <4> QED BY <2>4, <3>2, <3>3, <4>1
    <3>4. CASE k # n + 1
      <4>1. k \in 1 .. n
        BY <2>3, <3>4
      <4>2. f[k] = g[k] /\ v[k] = q[k] /\ k \in DOMAIN q
        BY <2>3, <2>4, <4>1
      <4> QED BY <1>4, <1>7, <2>2, <2>9, <3>2, <4>2
    <3> QED BY <3>3, <3>4
  <2>10. InOrder(s, f)'
    BY <2>2, <2>7, <2>8, <2>9 DEF InOrder
  <2> QED BY <1>7, <2>10
<1> QED BY <1>6, <1>7

LEMMA JoinedApart ==
  ASSUME Regions, NEW s \in Streams, NEW w, NEW n, Queued(s, w, n), w.region = staged,
         s = call.stream, NEW t \in Streams, NEW k \in DOMAIN queue'[t]
  PROVE  \/ /\ k \in DOMAIN queue[t] /\ queue'[t][k] = queue[t][k]
            /\ \A r \in staged, q \in queue[t][k].region : ~Memory!Overlap(r, q)
         \/ t = s /\ k = n + 1 /\ queue'[t][k].region = staged
<1>1. CASE t = s /\ k = n + 1
  BY <1>1 DEF Queued
<1>2. CASE ~(t = s /\ k = n + 1)
  <2>1. k \in DOMAIN queue[t] /\ queue'[t][k] = queue[t][k]
    BY <1>2 DEF Queued
  <2> QED BY <2>1 DEF Regions
<1> QED BY <1>1, <1>2

LEMMA JoinedRegions ==
  ASSUME Regions, NEW s \in Streams, NEW w, NEW n, Queued(s, w, n), w.region = staged,
         s = call.stream, Submitted(s), staged' = {}, host' = host, dev' = dev
  PROVE  Regions'
<1>1. Bytes(host)' /\ Bytes(dev)'
  BY DEF Regions, Bytes
<1>2. DOMAIN pend' = Streams /\ \A t \in Streams : pend'[t] \in Nat
  BY DEF Regions, Submitted
<1>3. \A t \in Streams : \E g : InOrder(t, g)'
  BY JoinedOrder
<1>4. ASSUME NEW t \in Streams, NEW k \in DOMAIN queue'[t], NEW r \in queue'[t][k].region
      PROVE  Mine(t, r)
  <2>1. CASE k \in DOMAIN queue[t] /\ queue'[t][k] = queue[t][k]
    BY <1>4, <2>1 DEF Regions
  <2>2. CASE t = s /\ k = n + 1 /\ queue'[t][k].region = staged
    BY <1>4, <2>2 DEF Regions
  <2> QED BY <2>1, <2>2, JoinedApart
<1>5. ASSUME NEW t \in Streams, NEW u \in Streams, NEW k \in DOMAIN queue'[t], NEW i \in DOMAIN queue'[u],
             << t, k >> # << u, i >>, NEW r \in queue'[t][k].region, NEW q \in queue'[u][i].region
      PROVE  ~Memory!Overlap(r, q)
  <2>1. CASE /\ k \in DOMAIN queue[t] /\ queue'[t][k] = queue[t][k]
             /\ \A x \in staged, y \in queue[t][k].region : ~Memory!Overlap(x, y)
    <3>1. CASE i \in DOMAIN queue[u] /\ queue'[u][i] = queue[u][i]
      BY <1>5, <2>1, <3>1 DEF Regions
    <3>2. CASE u = s /\ i = n + 1 /\ queue'[u][i].region = staged
      <4>1. ~Memory!Overlap(q, r)
        BY <1>5, <2>1, <3>2
      <4> QED BY <4>1 DEF Memory!Overlap
    <3> QED BY <3>1, <3>2, JoinedApart
  <2>2. CASE t = s /\ k = n + 1 /\ queue'[t][k].region = staged
    <3>1. CASE /\ i \in DOMAIN queue[u] /\ queue'[u][i] = queue[u][i]
               /\ \A x \in staged, y \in queue[u][i].region : ~Memory!Overlap(x, y)
      BY <1>5, <2>2, <3>1
    <3>2. CASE u = s /\ i = n + 1
      BY <1>5, <2>2, <3>2
    <3> QED BY <3>1, <3>2, JoinedApart
  <2> QED BY <2>1, <2>2, JoinedApart
<1> QED BY <1>1, <1>2, <1>3, <1>4, <1>5 DEF Regions

\* What a launch does, in the terms of the invariant.
LEMMA LaunchDoes ==
  ASSUME WordsInv, Launch
  PROVE  \E copies, kernel \in BOOLEAN :
           /\ staged # {} /\ kernel => copies
           /\ queue' = IF staged = {} /\ ~kernel THEN queue
                       ELSE [queue EXCEPT ![call.stream] =
                               Append(queue[call.stream], Work(staged, copies, kernel))]
           /\ Submitted(call.stream) /\ staged' = {}
           /\ IF call.stream = Worker /\ kernel THEN step' = "wait" /\ UNCHANGED << inCall, mapped >>
              ELSE Returned
<1>1. PICK s, mine : s = call.stream /\ mine = {r \in staged : r.stream = s}
  OBVIOUS
<1>2. mine = staged
  BY <1>1 DEF WordsInv, Regions, Mine
<1>3. PICK copies \in BOOLEAN, kernel \in BOOLEAN :
        /\ IF mine = {} THEN ~copies ELSE kernel => copies
        /\ queue' = IF mine = {} /\ ~kernel THEN queue
                    ELSE [queue EXCEPT ![s] = Append(queue[s], Work(mine, copies, kernel))]
        /\ IF mine = {} THEN UNCHANGED memory ELSE Memory!Submit(s)
        /\ IF s = Worker /\ kernel THEN step' = "wait" /\ UNCHANGED << inCall, mapped >>
           ELSE Returned
  BY <1>1 DEF Launch
<1>4. Submitted(s) /\ staged' = {}
  <2>1. CASE mine = {}
    BY <1>2, <1>3, <2>1 DEF memory, Submitted
  <2>2. CASE mine # {}
    <3>1. Memory!Submit(s)
      BY <1>3, <2>2
    <3>2. /\ pend' = [pend EXCEPT ![s] = pend[s] + 1]
          /\ staged' = {r \in staged : r.stream # s}
          /\ inflight' = inflight \cup
               {Flight(r, pend[s] + 1) : r \in {q \in staged : q.stream = s}}
      BY <3>1 DEF Memory!Submit, Flight
    <3>3. inflight' = inflight \cup {Flight(r, pend[s] + 1) : r \in mine}
      BY <1>1, <3>2
    <3>4. staged' = {}
      <4>1. \A r \in staged : r.stream = s
        BY <1>1, <1>2
      <4> QED BY <3>2, <4>1
    <3> QED BY <1>2, <2>2, <3>2, <3>3, <3>4 DEF Submitted
  <2> QED BY <2>1, <2>2
<1> QED BY <1>1, <1>2, <1>3, <1>4

LEMMA LaunchedWords ==
  ASSUME Typed, Complete, Launched, WordsInv, Launch
  PROVE  WordsInv'
<1>1. step = "launch" /\ UNCHANGED << helper, payload, host, dev >>
  BY DEF Launch
<1>2. PICK s : s = call.stream
  OBVIOUS
<1>3. s \in Streams
  BY <1>1, <1>2 DEF WordsInv, CallSane
<1>4. PICK copies \in BOOLEAN, kernel \in BOOLEAN :
           /\ staged # {} /\ kernel => copies
           /\ queue' = IF staged = {} /\ ~kernel THEN queue
                       ELSE [queue EXCEPT ![s] = Append(queue[s], Work(staged, copies, kernel))]
           /\ Submitted(s) /\ staged' = {}
           /\ IF s = Worker /\ kernel THEN step' = "wait" /\ UNCHANGED << inCall, mapped >>
              ELSE Returned
  BY <1>2, LaunchDoes
<1>5. step' \in {"wait", "idle"}
  BY <1>4 DEF Returned
<1>6. ReadWords' /\ StageWords' /\ LaunchWords'
  BY <1>5 DEF ReadWords, StageWords, LaunchWords
<1>7. PayloadWords'
  BY <1>1 DEF WordsInv, PayloadWords
<1>8. CallSane'
  <2>1. CASE step' = "wait" /\ UNCHANGED inCall
    <3>1. call' = call
      BY <2>1 DEF inCall
    <3> QED BY <1>2, <1>3, <2>1, <3>1 DEF WordsInv, CallSane
  <2>2. CASE Returned
    <3>1. step' = "idle" /\ call'.export = FALSE
      BY <2>2 DEF Returned, NoCall
    <3> QED BY <3>1 DEF CallSane
  <2> QED BY <1>4, <2>1, <2>2
<1>9. Regions /\ QueueWords /\ LaunchWords /\ Opened
  BY DEF WordsInv
<1>10. ASSUME s # Worker \/ ~kernel, NEW n \in DOMAIN queue[Worker], queue[Worker][n].kernel
       PROVE  FALSE
  BY <1>1, <1>9, <1>10 DEF Opened
<1>11. CASE staged = {} /\ ~kernel
  <2>1. queue' = queue /\ pend' = pend /\ inflight' = inflight
    BY <1>4, <1>11 DEF Submitted
  <2>2. Bytes(host)' /\ Bytes(dev)'
    BY <1>1, <1>9 DEF Regions, Bytes
  <2>3. Regions'
    BY <1>4, <1>5, <1>9, <2>1, <2>2, SameRegions
  <2>4. QueueWords'
    BY <1>1, <1>9, <2>1 DEF QueueWords
  <2>5. Opened'
    BY <1>5, <1>10, <1>11, <2>1 DEF Opened
  <2> QED BY <1>6, <1>7, <1>8, <2>3, <2>4, <2>5 DEF WordsInv
<1>12. CASE ~(staged = {} /\ ~kernel)
  <2>1. PICK w : w = Work(staged, copies, kernel)
    OBVIOUS
  <2>2. PICK v : v = Work(staged, FALSE, FALSE)
    OBVIOUS
  <2>3. SameEntry(v, w)
    BY <2>1, <2>2 DEF Work, SameEntry
  <2>4. /\ w.copied = FALSE /\ w.kernel = kernel /\ w.copies = copies /\ w.region = staged
        /\ w.seen = seen /\ v.region = staged
        /\ v.constants = helper.constants /\ v.params = call.params /\ v.seen = seen
    BY <2>1, <2>2 DEF Work
  <2>5. PICK n : Queued(s, w, n)
    <3>1. queue' = [queue EXCEPT ![s] = Append(queue[s], w)]
      BY <1>4, <1>12, <2>1
    <3> QED BY <1>3, <3>1, QueueJoined
  <2>6. Regions'
    BY <1>1, <1>2, <1>3, <1>4, <1>9, <2>4, <2>5, JoinedRegions
  <2>7. EntryWords(s, w, host, dev)
    <3>1. PICK mem : mem = host
      OBVIOUS
    <3>2. Delivered(mem, s, v)
      BY <1>1, <1>2, <1>9, <2>2, <3>1 DEF LaunchWords
    <3>3. AllKnown(v.constants, v.params, v.seen)
      BY <1>1, <2>4 DEF Complete
    <3>4. Bounds(v.region)
      BY <1>9, <2>4 DEF Regions, Mine, Bounds
    <3>5. MemKept(mem, mem, v.region)
      BY DEF MemKept
    <3>6. Delivered(mem, s, w)
      BY ONLY <2>3, <3>2, <3>3, <3>4, <3>5, ArgsAssumption, StillDelivered
    <3> QED BY <1>4, <2>4, <3>1, <3>6 DEF EntryWords
  <2>8. QueueWords'
    <3>1. ASSUME NEW t \in Streams, NEW k \in DOMAIN queue'[t]
          PROVE  EntryWords(t, queue'[t][k], host, dev)
      <4>1. CASE t = s /\ k = n + 1
        BY <2>5, <2>7, <4>1 DEF Queued
      <4>2. CASE ~(t = s /\ k = n + 1)
        <5>1. k \in DOMAIN queue[t] /\ queue'[t][k] = queue[t][k]
          BY <2>5, <4>2 DEF Queued
        <5> QED BY <1>9, <5>1 DEF QueueWords, EntryWords
      <4> QED BY <4>1, <4>2
    <3> QED BY <1>1, <3>1 DEF QueueWords, EntryWords
  <2>9. Opened'
    <3>1. ASSUME NEW k \in DOMAIN queue'[Worker], queue'[Worker][k].kernel
          PROVE  step' = "wait" /\ HasThem(queue[Worker][k].seen)'
      <4>1. CASE k \in DOMAIN queue[Worker] /\ queue'[Worker][k] = queue[Worker][k]
        <5>1. FALSE
          BY <1>1, <1>9, <3>1, <4>1 DEF Opened
        <5> QED BY <5>1
      <4>2. CASE s = Worker /\ k = n + 1
        <5>1. queue'[Worker][k] = w
          BY <2>5, <4>2 DEF Queued
        <5>2. kernel /\ step' = "wait" /\ mapped' = mapped
          BY <1>4, <2>4, <3>1, <4>2, <5>1
        <5>3. HasThem(seen)
          BY <1>1, <1>2, <1>9, <4>2 DEF Opened
        <5>4. HasThem(queue[Worker][k].seen)'
          BY <2>4, <5>1, <5>2, <5>3 DEF HasThem
        <5> QED BY <5>2, <5>4
      <4>3. \/ k \in DOMAIN queue[Worker] /\ queue'[Worker][k] = queue[Worker][k]
            \/ s = Worker /\ k = n + 1
        <5>1. CASE s = Worker
          <6>1. k \in 1 .. n + 1 /\ n \in Nat /\ DOMAIN queue[Worker] = 1 .. n
            BY <2>5, <3>1, <5>1 DEF Queued
          <6>2. CASE k # n + 1
            <7>1. k \in 1 .. n
              BY <6>1, <6>2
            <7> QED BY <2>5, <5>1, <6>1, <7>1 DEF Queued
          <6> QED BY <5>1, <6>2
        <5>2. CASE s # Worker
          <6>1. queue'[Worker] = queue[Worker]
            BY <2>5, <5>2, ArgsAssumption DEF Queued
          <6> QED BY <3>1, <6>1
        <5> QED BY <5>1, <5>2
      <4> QED BY <4>1, <4>2, <4>3
    <3>2. ~(step' \in {"stage", "launch"})
      BY <1>5
    <3> QED BY <3>1, <3>2 DEF Opened
  <2> QED BY <1>6, <1>7, <1>8, <2>6, <2>8, <2>9 DEF WordsInv
<1> QED BY <1>11, <1>12

-----------------------------------------------------------------------------
(* The device copies and finishes the head of a queue. *)

AllMine(s, regions) == \A r \in regions : Mine(s, r)
Clear(regions, others) == \A r \in regions, q \in others : ~Memory!Overlap(r, q)

LEMMA FilledBytes ==
  ASSUME NEW mem, Bytes(mem), NEW regions, NEW from
  PROVE  Bytes(Filled(mem, regions, from))
BY DEF Bytes, Filled

LEMMA FilledTakes ==
  ASSUME NEW mem, Bytes(mem), NEW s, NEW regions, AllMine(s, regions), NEW from,
         NEW new, new = Filled(mem, regions, from)
  PROVE  MemKept(from, new, regions)
<1>1. SUFFICES ASSUME NEW r \in regions, NEW y \in r.lo .. r.hi - 1
               PROVE  new[r.chunk][y] = from[r.chunk][y]
  BY DEF MemKept
<1>2. PICK low \in Nat, high \in Nat, c \in Chunks :
        low = r.lo /\ high = r.hi /\ high <= ChunkWords /\ c = r.chunk
  BY DEF AllMine, Mine
<1>3. ChunkWords \in Nat /\ y \in low .. high - 1
  BY <1>1, <1>2, ArgsAssumption
<1>4. y \in 0 .. ChunkWords - 1
  BY ONLY <1>2, <1>3
<1>5. y \in DOMAIN mem[c]
  BY <1>4 DEF Bytes
<1>6. new[c] = [x \in DOMAIN mem[c] |->
         IF \E q \in regions : q.chunk = c /\ x \in q.lo .. q.hi - 1 THEN from[c][x] ELSE mem[c][x]]
  BY DEF Filled
<1>7. new[c][y] = from[c][y]
  BY <1>1, <1>2, <1>5, <1>6
<1> QED BY <1>2, <1>7

LEMMA FilledKeeps ==
  ASSUME NEW mem, Bytes(mem), NEW s, NEW regions, AllMine(s, regions), NEW from,
         NEW t, NEW others, AllMine(t, others), Clear(regions, others),
         NEW new, new = Filled(mem, regions, from)
  PROVE  MemKept(mem, new, others)
<1>1. SUFFICES ASSUME NEW r \in others, NEW y \in r.lo .. r.hi - 1
               PROVE  new[r.chunk][y] = mem[r.chunk][y]
  BY DEF MemKept
<1>2. PICK low \in Nat, high \in Nat, c \in Chunks :
        low = r.lo /\ high = r.hi /\ high <= ChunkWords /\ c = r.chunk
  BY DEF AllMine, Mine
<1>3. ChunkWords \in Nat /\ y \in low .. high - 1
  BY <1>1, <1>2, ArgsAssumption
<1>4. y \in 0 .. ChunkWords - 1
  BY ONLY <1>2, <1>3
<1>5. y \in DOMAIN mem[c]
  BY <1>4 DEF Bytes
<1>6. new[c] = [x \in DOMAIN mem[c] |->
         IF \E q \in regions : q.chunk = c /\ x \in q.lo .. q.hi - 1 THEN from[c][x] ELSE mem[c][x]]
  BY DEF Filled
<1>7. ASSUME NEW q \in regions, q.chunk = c, y \in q.lo .. q.hi - 1 PROVE FALSE
  <2>1. PICK lo \in Nat, hi \in Nat : lo = q.lo /\ hi = q.hi
    BY DEF AllMine, Mine
  <2>2. ~(lo < high /\ low < hi)
    BY <1>2, <1>7, <2>1 DEF Clear, Memory!Overlap
  <2>3. y \in lo .. hi - 1
    BY <1>7, <2>1
  <2> QED BY ONLY <1>3, <2>2, <2>3, lo \in Nat, hi \in Nat, low \in Nat, high \in Nat
<1>8. new[c][y] = mem[c][y]
  BY <1>5, <1>6, <1>7
<1> QED BY <1>2, <1>8

LEMMA FirstOf ==
  ASSUME Launched, NEW s \in Streams, queue[s] # << >>
  PROVE  /\ 1 \in DOMAIN queue[s] /\ Head(queue[s]) = queue[s][1]
         /\ Len(queue[s]) \in Nat /\ DOMAIN queue[s] = 1 .. Len(queue[s])
<1>1. PICK q : q = queue[s]
  OBVIOUS
<1>2. IsSeq(q)
  BY <1>1 DEF Launched, IsQueue
<1>3. Len(q) \in Nat /\ DOMAIN q = 1 .. Len(q) /\ Len(q) # 0
  BY <1>1, <1>2, NotEmpty, SeqDomain
<1>4. 1 \in DOMAIN q
  BY <1>3
<1>5. Head(q) = q[1]
  BY <1>1, <1>2, HeadTailProperties DEF IsSeq
<1> QED BY <1>1, <1>3, <1>4, <1>5

\* Entries keep their regions.
LEMMA RegionsAlike ==
  ASSUME Regions, UNCHANGED << step, call, pend, staged, inflight >>, Bytes(host)', Bytes(dev)',
         \A t \in Streams : /\ DOMAIN queue'[t] = DOMAIN queue[t]
                            /\ \A n \in DOMAIN queue[t] : queue'[t][n].region = queue[t][n].region
  PROVE  Regions'
<1>1. \A t \in Streams : \A g : InOrder(t, g) => InOrder(t, g)'
  BY DEF InOrder
<1>2. \A t \in Streams : \E g : InOrder(t, g)'
  BY <1>1 DEF Regions
<1>3. DOMAIN pend' = Streams /\ \A t \in Streams : pend'[t] \in Nat
  BY DEF Regions
<1>4. \A t \in Streams : \A n \in DOMAIN queue'[t] : \A r \in queue'[t][n].region : Mine(t, r)
  BY DEF Regions
<1>5. \A t, u \in Streams : \A n \in DOMAIN queue'[t], k \in DOMAIN queue'[u] :
        << t, n >> # << u, k >> =>
          \A r \in queue'[t][n].region, q \in queue'[u][k].region : ~Memory!Overlap(r, q)
  BY DEF Regions
<1>6. \A r \in staged, t \in Streams : \A n \in DOMAIN queue'[t] : \A q \in queue'[t][n].region :
        ~Memory!Overlap(r, q)
  BY DEF Regions
<1>7. (step # "launch" => staged = {}) /\ \A r \in staged : Mine(call.stream, r)
  BY DEF Regions
<1> QED BY <1>2, <1>3, <1>4, <1>5, <1>6, <1>7 DEF Regions

LEMMA CopyDoes ==
  ASSUME Launched, NEW s \in Streams, Copy(s)
  PROVE  \E v : LET w == queue[s][1]
                IN /\ 1 \in DOMAIN queue[s] /\ w.copies /\ ~w.copied
                   /\ SameEntry(w, v) /\ v.copied = TRUE /\ v.copies = w.copies /\ v.kernel = w.kernel
                   /\ queue'[s][1] = v /\ DOMAIN queue'[s] = DOMAIN queue[s]
                   /\ \A i \in DOMAIN queue[s] \ {1} : queue'[s][i] = queue[s][i]
                   /\ \A t \in Streams \ {s} : queue'[t] = queue[t]
                   /\ dev' = Filled(dev, w.region, host)
<1>1. PICK q, w : q = queue[s] /\ w = q[1]
  OBVIOUS
<1>2. queue[s] # << >> /\ Head(queue[s]).copies /\ ~Head(queue[s]).copied
      /\ dev' = Filled(dev, Head(queue[s]).region, host)
  BY DEF Copy
<1>3. Head(queue[s]) = w /\ 1 \in DOMAIN q
  BY <1>1, <1>2, FirstOf
<1>4. IsEntry(w)
  BY <1>1, <1>3 DEF Launched, IsQueue
<1>5. PICK v : v = [w EXCEPT !.copied = TRUE]
  OBVIOUS
<1>6. SameEntry(w, v) /\ v.copied = TRUE /\ v.copies = w.copies /\ v.kernel = w.kernel
  BY ONLY <1>4, <1>5 DEF IsEntry, SameEntry
<1>7. PICK r : r = [q EXCEPT ![1] = v]
  OBVIOUS
<1>8. r[1] = v /\ DOMAIN r = DOMAIN q /\ \A i \in DOMAIN q \ {1} : r[i] = q[i]
  BY <1>3, <1>7
<1>9. queue' = [queue EXCEPT ![s] = r]
  <2>1. queue' = [queue EXCEPT ![s] = [q EXCEPT ![1] = [q[1] EXCEPT !.copied = TRUE]]]
    BY <1>1 DEF Copy
  <2> QED BY <1>1, <1>5, <1>7, <2>1
<1>10. queue'[s] = r /\ \A t \in Streams \ {s} : queue'[t] = queue[t]
  BY <1>9 DEF Launched
<1> QED BY <1>1, <1>2, <1>3, <1>6, <1>8, <1>10

LEMMA Untouched ==
  ASSUME WordsInv, UNCHANGED << step, inCall, helper, payload, mapped >>
  PROVE  /\ ReadWords' /\ StageWords' /\ PayloadWords' /\ CallSane'
         /\ call' = call /\ seen' = seen /\ helper' = helper
<1>1. call' = call /\ list' = list /\ at' = at /\ builder' = builder /\ seen' = seen
  BY DEF inCall
<1>2. ReadWords' /\ StageWords'
  BY <1>1 DEF WordsInv, ReadWords, StageWords
<1>3. PayloadWords' /\ CallSane'
  BY <1>1 DEF WordsInv, PayloadWords, CallSane
<1> QED BY <1>1, <1>2, <1>3

\* The regions of different entries, and those that are staged.
LEMMA EntriesClear ==
  ASSUME Regions, NEW s \in Streams, NEW n \in DOMAIN queue[s]
  PROVE  /\ AllMine(s, queue[s][n].region)
         /\ \A t \in Streams : \A k \in DOMAIN queue[t] : << t, k >> # << s, n >> =>
              Clear(queue[s][n].region, queue[t][k].region)
         /\ Clear(queue[s][n].region, staged) /\ AllMine(call.stream, staged)
<1>1. AllMine(s, queue[s][n].region) /\ AllMine(call.stream, staged)
  BY DEF Regions, AllMine
<1>2. ASSUME NEW t \in Streams, NEW k \in DOMAIN queue[t], << t, k >> # << s, n >>
      PROVE  Clear(queue[s][n].region, queue[t][k].region)
  BY <1>2 DEF Regions, Clear
<1>3. Clear(queue[s][n].region, staged)
  <2>1. \A r \in staged, q \in queue[s][n].region : ~Memory!Overlap(r, q)
    BY DEF Regions
  <2> QED BY <2>1 DEF Clear, Memory!Overlap
<1> QED BY <1>1, <1>2, <1>3

LEMMA CopiedWords ==
  ASSUME Launched, WordsInv, NEW s \in Streams, Copy(s)
  PROVE  WordsInv'
<1>1. UNCHANGED << step, inCall, helper, payload, mapped, host, memory >>
  BY DEF Copy
<1>2. /\ ReadWords' /\ StageWords' /\ PayloadWords' /\ CallSane'
      /\ call' = call /\ seen' = seen /\ helper' = helper /\ host' = host
      /\ staged' = staged /\ pend' = pend /\ inflight' = inflight
  BY <1>1, Untouched DEF memory
<1>3. PICK w : w = queue[s][1]
  OBVIOUS
<1>4. PICK v : /\ 1 \in DOMAIN queue[s] /\ w.copies /\ ~w.copied
               /\ SameEntry(w, v) /\ v.copied = TRUE /\ v.copies = w.copies /\ v.kernel = w.kernel
               /\ queue'[s][1] = v /\ DOMAIN queue'[s] = DOMAIN queue[s]
               /\ \A i \in DOMAIN queue[s] \ {1} : queue'[s][i] = queue[s][i]
               /\ \A t \in Streams \ {s} : queue'[t] = queue[t]
               /\ dev' = Filled(dev, w.region, host)
  BY <1>3, CopyDoes
<1>5. Regions /\ QueueWords /\ LaunchWords /\ Opened /\ Bytes(host) /\ Bytes(dev)
  BY DEF WordsInv, Regions
<1>6. Bytes(host)' /\ Bytes(dev)'
  <2>1. Bytes(dev')
    BY <1>4, <1>5, FilledBytes
  <2> QED BY <1>2, <1>5, <2>1 DEF Bytes
<1>7. ASSUME NEW t \in Streams
      PROVE  /\ DOMAIN queue'[t] = DOMAIN queue[t]
             /\ \A n \in DOMAIN queue[t] :
                  \/ queue'[t][n] = queue[t][n] /\ << t, n >> # << s, 1 >>
                  \/ t = s /\ n = 1 /\ queue'[t][n] = v /\ queue[t][n] = w
  BY <1>3, <1>4
<1>8. Regions'
  <2>1. \A t \in Streams : /\ DOMAIN queue'[t] = DOMAIN queue[t]
                           /\ \A n \in DOMAIN queue[t] : queue'[t][n].region = queue[t][n].region
    <3>1. v.region = w.region
      BY <1>4 DEF SameEntry
    <3> QED BY <1>7, <3>1
  <2> QED BY <1>1, <1>2, <1>5, <1>6, <2>1, RegionsAlike
<1>9. AllMine(s, w.region)
  BY <1>3, <1>4, <1>5, EntriesClear
<1>10. PICK a, b, d : a = host /\ b = dev /\ d = dev'
  OBVIOUS
<1>11. Bytes(b) /\ d = Filled(b, w.region, a)
  BY <1>4, <1>5, <1>10
<1>12. EntryWords(s, v, a, d)
  <2>1. MemKept(a, d, w.region)
    BY ONLY <1>9, <1>11, ArgsAssumption, FilledTakes
  <2>2. EntryWords(s, w, a, b) /\ AllKnown(w.constants, w.params, w.seen) /\ Bounds(w.region)
    BY <1>3, <1>4, <1>5, <1>10, EntryOf
  <2>3. Delivered(a, s, w)
    BY <1>4, <2>2 DEF EntryWords
  <2>4. Delivered(d, s, v)
    <3>1. SameEntry(w, v)
      BY <1>4
    <3> QED BY ONLY <2>1, <2>2, <2>3, <3>1, ArgsAssumption, StillDelivered
  <2> QED BY <1>4, <2>4 DEF EntryWords
<1>13. QueueWords'
  <2>1. ASSUME NEW t \in Streams, NEW n \in DOMAIN queue[t]
        PROVE  EntryWords(t, queue'[t][n], a, d)
    <3>1. CASE t = s /\ n = 1 /\ queue'[t][n] = v
      BY <1>12, <3>1
    <3>2. CASE queue'[t][n] = queue[t][n] /\ << t, n >> # << s, 1 >>
      <4>1. PICK u : u = queue[t][n]
        OBVIOUS
      <4>2. EntryWords(t, u, a, b) /\ AllKnown(u.constants, u.params, u.seen) /\ Bounds(u.region)
        BY <1>5, <1>10, <4>1, EntryOf
      <4>3. AllMine(t, u.region) /\ Clear(w.region, u.region)
        BY <1>3, <1>4, <1>5, <3>2, <4>1, EntriesClear
      <4>4. MemKept(b, d, u.region)
        BY ONLY <1>9, <1>11, <4>3, ArgsAssumption, FilledKeeps
      <4>5. MemKept(a, a, u.region)
        BY DEF MemKept
      <4>6. EntryWords(t, u, a, d)
        BY ONLY <4>2, <4>4, <4>5, ArgsAssumption, EntryKept
      <4> QED BY <3>2, <4>1, <4>6
    <3> QED BY <1>7, <3>1, <3>2
  <2> QED BY <1>2, <1>7, <1>10, <2>1 DEF QueueWords, EntryWords
<1>14. LaunchWords'
  <2>1. Work(staged, FALSE, FALSE)' = Work(staged, FALSE, FALSE)
    BY <1>2 DEF Work
  <2> QED BY <1>1, <1>2, <1>5, <2>1 DEF LaunchWords
<1>15. Opened'
  <2>1. mapped' = mapped /\ step' = step
    BY <1>1
  <2>2. ASSUME NEW n \in DOMAIN queue[Worker]
        PROVE  queue'[Worker][n].kernel = queue[Worker][n].kernel
               /\ queue'[Worker][n].seen = queue[Worker][n].seen
    BY <1>4, <1>7, ArgsAssumption DEF SameEntry
  <2>3. DOMAIN queue'[Worker] = DOMAIN queue[Worker]
    BY <1>7, ArgsAssumption
  <2> QED BY <1>2, <1>5, <2>1, <2>2, <2>3 DEF Opened, HasThem
<1> QED BY <1>2, <1>8, <1>13, <1>14, <1>15 DEF WordsInv

Shifted(s, m) ==
  /\ m \in Nat /\ DOMAIN queue[s] = 1 .. m + 1 /\ DOMAIN queue'[s] = 1 .. m
  /\ \A i \in 1 .. m : queue'[s][i] = queue[s][i + 1]
  /\ \A t \in Streams \ {s} : queue'[t] = queue[t]

\* The events of a stream after its first entry is over.
Over(s) ==
  IF queue[s][1].region = {} THEN UNCHANGED << pend, inflight >>
  ELSE /\ pend' = [pend EXCEPT ![s] = pend[s] - 1]
       /\ \A r \in inflight : r.stream # s => r \in inflight'
       /\ \A r, k : Flight(r, k) \in inflight /\ r.stream = s /\ k > 1 => Flight(r, k - 1) \in inflight'

LEMMA FinishDoes ==
  ASSUME Launched, NEW s \in Streams, Finish(s)
  PROVE  /\ 1 \in DOMAIN queue[s] /\ \E m : Shifted(s, m)
         /\ Over(s) /\ staged' = staged
         /\ host' = Filled(host, queue[s][1].region, Forgotten)
         /\ dev' = Filled(dev, queue[s][1].region, Forgotten)
<1>1. PICK q, r : q = queue[s] /\ r = Tail(q)
  OBVIOUS
<1>2. PICK w : w = queue[s][1]
  OBVIOUS
<1>3. queue[s] # << >>
  BY DEF Finish
<1>4. /\ 1 \in DOMAIN queue[s] /\ Head(queue[s]) = w
      /\ Len(queue[s]) \in Nat /\ DOMAIN queue[s] = 1 .. Len(queue[s])
  BY <1>2, <1>3, FirstOf
<1>5. PICK m \in Nat : Len(q) = m + 1
  <2>1. Len(q) >= 1 /\ Len(q) \in Nat
    BY <1>1, <1>4
  <2>2. Len(q) - 1 \in Nat
    BY <2>1
  <2> QED BY <2>1, <2>2
<1>6. IsSeq(q)
  BY <1>1 DEF Launched, IsQueue
<1>7. PICK S : S = {q[n] : n \in DOMAIN q} /\ q \in Seq(S)
  BY <1>6 DEF IsSeq
<1>8. r \in Seq(S) /\ Len(r) = m /\ \A i \in 1 .. m : r[i] = q[i + 1]
  BY <1>1, <1>3, <1>5, <1>7, HeadTailProperties
<1>9. DOMAIN r = 1 .. m
  BY <1>8, LenProperties
<1>10. queue' = [queue EXCEPT ![s] = r]
  BY <1>1 DEF Finish
<1>11. queue'[s] = r /\ \A t \in Streams \ {s} : queue'[t] = queue[t]
  BY <1>10 DEF Launched
<1>12. Shifted(s, m)
  BY <1>1, <1>4, <1>5, <1>8, <1>9, <1>11 DEF Shifted
<1>13. /\ host' = Filled(host, w.region, Forgotten) /\ dev' = Filled(dev, w.region, Forgotten)
       /\ IF w.region = {} THEN UNCHANGED memory ELSE Memory!Finish(s)
  BY <1>4 DEF Finish
<1>14. CASE w.region = {}
  <2>1. pend' = pend /\ inflight' = inflight /\ staged' = staged
    BY <1>13, <1>14 DEF memory
  <2>2. Over(s)
    BY <1>2, <1>14, <2>1 DEF Over
  <2> QED BY <1>2, <1>4, <1>12, <1>13, <2>1, <2>2
<1>15. CASE w.region # {}
  <2>1. /\ pend' = [pend EXCEPT ![s] = pend[s] - 1] /\ staged' = staged
        /\ inflight' = {r0 \in inflight : r0.stream # s} \cup
             {[r0 EXCEPT !.left = @ - 1] : r0 \in {q0 \in inflight : q0.stream = s /\ q0.left > 1}}
    BY <1>13, <1>15 DEF Memory!Finish
  <2>2. \A f \in inflight : f.stream # s => f \in inflight'
    BY <2>1
  <2>3. ASSUME NEW x, NEW k, Flight(x, k) \in inflight, x.stream = s, k > 1
        PROVE  Flight(x, k - 1) \in inflight'
    <3>1. PICK f : f = Flight(x, k)
      OBVIOUS
    <3>2. f.stream = s /\ f.left = k
      BY <2>3, <3>1 DEF Flight
    <3>3. [f EXCEPT !.left = @ - 1] \in inflight'
      BY <2>1, <2>3, <3>1, <3>2
    <3>4. [f EXCEPT !.left = @ - 1] = Flight(x, k - 1)
      BY ONLY <3>1 DEF Flight
    <3> QED BY <3>3, <3>4
  <2>4. Over(s)
    BY <1>2, <1>15, <2>1, <2>2, <2>3 DEF Over
  <2> QED BY <1>2, <1>4, <1>12, <1>13, <2>1, <2>4
<1> QED BY <1>14, <1>15

LEMMA ShiftedOrder ==
  ASSUME Regions, NEW s \in Streams, NEW m, Shifted(s, m), Over(s), NEW t \in Streams
  PROVE  (\E g : InOrder(t, g)') /\ DOMAIN pend' = Streams /\ pend'[t] \in Nat
<1>1. PICK g : InOrder(t, g)
  BY DEF Regions
<1>2. PICK p \in Nat : p = pend[t]
  BY DEF Regions
<1>3. DOMAIN pend = Streams
  BY DEF Regions
<1>4. /\ DOMAIN g = DOMAIN queue[t]
      /\ \A k \in DOMAIN queue[t] : queue[t][k].region # {} =>
           g[k] \in 1 .. p /\ \A r \in queue[t][k].region : Flight(r, g[k]) \in inflight
      /\ \A i, k \in DOMAIN queue[t] :
           i < k /\ queue[t][i].region # {} /\ queue[t][k].region # {} => g[i] < g[k]
  BY <1>1, <1>2 DEF InOrder
<1>5. \A k \in DOMAIN queue[t] : \A r \in queue[t][k].region : r.stream = t
  BY DEF Regions, Mine
<1>6. DOMAIN pend' = Streams
  BY <1>3 DEF Over
<1>7. CASE t # s
  <2>1. queue'[t] = queue[t] /\ pend'[t] = p
    BY <1>2, <1>3, <1>7 DEF Shifted, Over
  <2>2. ASSUME NEW k \in DOMAIN queue[t], NEW r \in queue[t][k].region, Flight(r, g[k]) \in inflight
        PROVE  Flight(r, g[k]) \in inflight'
    <3>1. Flight(r, g[k]).stream = t
      BY <1>5 DEF Flight
    <3> QED BY <1>7, <2>2, <3>1 DEF Over
  <2>3. InOrder(t, g)'
    BY <1>4, <2>1, <2>2 DEF InOrder
  <2> QED BY <1>6, <2>1, <2>3
<1>8. CASE t = s
  <2>1. PICK q, v : q = queue[s] /\ v = queue'[s]
    OBVIOUS
  <2>2. /\ m \in Nat /\ DOMAIN q = 1 .. m + 1 /\ DOMAIN v = 1 .. m
        /\ \A i \in 1 .. m : v[i] = q[i + 1]
    BY <2>1 DEF Shifted
  <2>3. \A i \in 1 .. m : i + 1 \in DOMAIN q
    BY <2>2
  <2>4. 1 \in DOMAIN q
    BY <2>2
  <2>5. CASE q[1].region = {}
    <3>1. pend' = pend /\ inflight' = inflight
      BY <2>1, <2>5 DEF Over
    <3>2. PICK f : f = [i \in 1 .. m |-> g[i + 1]]
      OBVIOUS
    <3>3. ASSUME NEW i \in 1 .. m, v[i].region # {}
          PROVE  f[i] \in 1 .. p /\ \A r \in v[i].region : Flight(r, f[i]) \in inflight'
      BY <1>4, <1>8, <2>1, <2>2, <2>3, <3>1, <3>2, <3>3
    <3>4. ASSUME NEW i \in 1 .. m, NEW k \in 1 .. m, i < k, v[i].region # {}, v[k].region # {}
          PROVE  f[i] < f[k]
      <4>1. i + 1 < k + 1
        BY <2>2, <3>4
      <4> QED BY <1>4, <1>8, <2>1, <2>2, <2>3, <3>2, <3>4, <4>1
    <3>5. InOrder(s, f)'
      BY <1>2, <1>8, <2>1, <2>2, <3>1, <3>2, <3>3, <3>4 DEF InOrder
    <3> QED BY <1>2, <1>6, <1>8, <3>1, <3>5
  <2>6. CASE q[1].region # {}
    <3>1. /\ pend'[s] = p - 1
          /\ \A r, k : Flight(r, k) \in inflight /\ r.stream = s /\ k > 1
                       => Flight(r, k - 1) \in inflight'
      BY <1>2, <1>3, <1>8, <2>1, <2>6 DEF Over
    <3>2. g[1] \in 1 .. p
      BY <1>4, <1>8, <2>1, <2>4, <2>6
    <3>3. PICK f : f = [i \in 1 .. m |-> g[i + 1] - 1]
      OBVIOUS
    <3>4. ASSUME NEW i \in 1 .. m, v[i].region # {}
          PROVE  /\ g[i + 1] \in 2 .. p
                 /\ \A r \in v[i].region : Flight(r, g[i + 1]) \in inflight /\ r.stream = s
      <4>1. i + 1 \in DOMAIN q /\ 1 < i + 1 /\ q[i + 1] = v[i]
        BY <2>2, <2>3
      <4>2. g[1] < g[i + 1] /\ g[i + 1] \in 1 .. p
        BY <1>4, <1>8, <2>1, <2>4, <2>6, <3>4, <4>1
      <4>3. g[i + 1] \in 2 .. p
        BY <3>2, <4>2
      <4> QED BY <1>4, <1>5, <1>8, <2>1, <3>4, <4>1, <4>3
    <3>5. ASSUME NEW i \in 1 .. m, v[i].region # {}
          PROVE  f[i] \in 1 .. p - 1 /\ \A r \in v[i].region : Flight(r, f[i]) \in inflight'
      <4>1. PICK k \in 2 .. p : k = g[i + 1]
        BY <3>4, <3>5
      <4>2. f[i] = k - 1 /\ k > 1
        BY <3>3, <4>1
      <4>3. f[i] \in 1 .. p - 1
        BY <4>1, <4>2
      <4> QED BY <3>1, <3>4, <3>5, <4>1, <4>2, <4>3
    <3>6. ASSUME NEW i \in 1 .. m, NEW k \in 1 .. m, i < k, v[i].region # {}, v[k].region # {}
          PROVE  f[i] < f[k]
      <4>1. i + 1 < k + 1
        BY <2>2, <3>6
      <4>2. g[i + 1] < g[k + 1]
        BY <1>4, <1>8, <2>1, <2>2, <2>3, <3>6, <4>1
      <4>3. g[i + 1] \in 2 .. p /\ g[k + 1] \in 2 .. p
        BY <3>4, <3>6
      <4> QED BY <3>3, <4>2, <4>3
    <3>7. InOrder(s, f)'
      BY <1>2, <1>8, <2>1, <2>2, <3>1, <3>3, <3>5, <3>6 DEF InOrder
    <3>8. p - 1 \in Nat
      BY <3>2
    <3> QED BY <1>6, <1>8, <3>1, <3>7, <3>8
  <2> QED BY <2>5, <2>6
<1> QED BY <1>7, <1>8

\* Where an entry that is not over was before.
Before(s, t, n) == IF t = s THEN n + 1 ELSE n

LEMMA WasThere ==
  ASSUME Regions, NEW s \in Streams, NEW m, Shifted(s, m), NEW t \in Streams, NEW n \in DOMAIN queue'[t]
  PROVE  /\ Before(s, t, n) \in DOMAIN queue[t] /\ queue'[t][n] = queue[t][Before(s, t, n)]
         /\ << t, Before(s, t, n) >> # << s, 1 >> /\ n \in DOMAIN queue'[t]
<1>1. CASE t = s
  <2>1. n \in 1 .. m /\ m \in Nat
    BY <1>1 DEF Shifted
  <2>2. n + 1 \in 1 .. m + 1 /\ n + 1 # 1
    BY <2>1
  <2> QED BY <1>1, <2>1, <2>2 DEF Shifted, Before
<1>2. CASE t # s
  BY <1>2 DEF Shifted, Before
<1> QED BY <1>1, <1>2

LEMMA ShiftedRegions ==
  ASSUME Regions, NEW s \in Streams, NEW m, Shifted(s, m), Over(s), UNCHANGED << step, call, staged >>,
         Bytes(host)', Bytes(dev)'
  PROVE  Regions'
<1>1. (\A t \in Streams : \E g : InOrder(t, g)') /\ DOMAIN pend' = Streams
      /\ \A t \in Streams : pend'[t] \in Nat
  BY ShiftedOrder
<1>2. ASSUME NEW t \in Streams, NEW n \in DOMAIN queue'[t], NEW r \in queue'[t][n].region
      PROVE  /\ Mine(t, r) /\ \A q \in staged : ~Memory!Overlap(q, r)
  <2>1. Before(s, t, n) \in DOMAIN queue[t] /\ queue'[t][n] = queue[t][Before(s, t, n)]
    BY WasThere
  <2> QED BY <1>2, <2>1 DEF Regions
<1>3. ASSUME NEW t \in Streams, NEW u \in Streams, NEW n \in DOMAIN queue'[t], NEW k \in DOMAIN queue'[u],
             << t, n >> # << u, k >>, NEW r \in queue'[t][n].region, NEW q \in queue'[u][k].region
      PROVE  ~Memory!Overlap(r, q)
  <2>1. PICK i, j : i = Before(s, t, n) /\ j = Before(s, u, k)
    OBVIOUS
  <2>2. /\ i \in DOMAIN queue[t] /\ queue'[t][n] = queue[t][i]
        /\ j \in DOMAIN queue[u] /\ queue'[u][k] = queue[u][j]
    BY <2>1, WasThere
  <2>3. << t, i >> # << u, j >>
    <3>1. CASE t # u
      BY <3>1
    <3>2. CASE t = u /\ t # s
      BY <1>3, <2>1, <3>2 DEF Before
    <3>3. CASE t = u /\ t = s
      <4>1. n \in Nat /\ k \in Nat /\ n # k
        BY <1>3, <3>3 DEF Shifted
      <4>2. n + 1 # k + 1
        BY <4>1
      <4> QED BY <2>1, <3>3, <4>2 DEF Before
    <3> QED BY <3>1, <3>2, <3>3
  <2> QED BY <1>3, <2>2, <2>3 DEF Regions
<1>4. (step # "launch" => staged = {}) /\ \A r \in staged : Mine(call.stream, r)
  BY DEF Regions
<1> QED BY <1>1, <1>2, <1>3, <1>4 DEF Regions

LEMMA FinishedWords ==
  ASSUME Complete, Launched, WordsInv, NEW s \in Streams, Finish(s)
  PROVE  WordsInv'
<1>1. UNCHANGED << step, inCall, helper, payload, mapped >>
  BY DEF Finish
<1>2. /\ ReadWords' /\ StageWords' /\ PayloadWords' /\ CallSane'
      /\ call' = call /\ seen' = seen /\ helper' = helper
  BY <1>1, Untouched
<1>3. PICK w : w = queue[s][1]
  OBVIOUS
<1>4. PICK m : Shifted(s, m)
  BY FinishDoes
<1>5. /\ 1 \in DOMAIN queue[s] /\ Over(s) /\ staged' = staged
      /\ host' = Filled(host, w.region, Forgotten) /\ dev' = Filled(dev, w.region, Forgotten)
  BY <1>3, FinishDoes
<1>6. Regions /\ QueueWords /\ LaunchWords /\ Opened /\ Bytes(host) /\ Bytes(dev)
  BY DEF WordsInv, Regions
<1>7. Bytes(host)' /\ Bytes(dev)'
  <2>1. Bytes(host') /\ Bytes(dev')
    BY <1>5, <1>6, FilledBytes
  <2> QED BY <2>1 DEF Bytes
<1>8. Regions'
  BY <1>1, <1>2, <1>4, <1>5, <1>6, <1>7, ShiftedRegions
<1>9. AllMine(s, w.region)
  BY <1>3, <1>5, <1>6, EntriesClear
<1>10. PICK a, b, c, d, over : a = host /\ b = dev /\ c = host' /\ d = dev' /\ over = Forgotten
  OBVIOUS
<1>11. Bytes(a) /\ Bytes(b) /\ c = Filled(a, w.region, over) /\ d = Filled(b, w.region, over)
  BY <1>5, <1>6, <1>10
<1>12. ASSUME NEW t, NEW regions, AllMine(t, regions), Clear(w.region, regions)
       PROVE  MemKept(a, c, regions) /\ MemKept(b, d, regions) /\ Bounds(regions)
  <2>1. MemKept(a, c, regions)
    BY ONLY <1>9, <1>11, <1>12, ArgsAssumption, FilledKeeps
  <2>2. MemKept(b, d, regions)
    BY ONLY <1>9, <1>11, <1>12, ArgsAssumption, FilledKeeps
  <2> QED BY <1>12, <2>1, <2>2 DEF AllMine, Mine, Bounds
<1>13. QueueWords'
  <2>1. ASSUME NEW t \in Streams, NEW n \in DOMAIN queue'[t]
        PROVE  EntryWords(t, queue'[t][n], c, d)
    <3>1. PICK k : k = Before(s, t, n)
      OBVIOUS
    <3>2. k \in DOMAIN queue[t] /\ queue'[t][n] = queue[t][k] /\ << t, k >> # << s, 1 >>
      BY <1>4, <1>6, <3>1, WasThere
    <3>3. PICK u : u = queue[t][k]
      OBVIOUS
    <3>4. EntryWords(t, u, a, b) /\ AllKnown(u.constants, u.params, u.seen) /\ Bounds(u.region)
      BY <1>6, <1>10, <3>2, <3>3, EntryOf
    <3>5. AllMine(t, u.region) /\ Clear(w.region, u.region)
      BY <1>3, <1>5, <1>6, <3>2, <3>3, EntriesClear
    <3>6. MemKept(a, c, u.region) /\ MemKept(b, d, u.region)
      BY <1>12, <3>5
    <3>7. EntryWords(t, u, c, d)
      BY ONLY <3>4, <3>6, ArgsAssumption, EntryKept
    <3> QED BY <3>2, <3>3, <3>7
  <2> QED BY <1>10, <2>1 DEF QueueWords, EntryWords
<1>14. LaunchWords'
  <2>1. SUFFICES ASSUME step = "launch"
                 PROVE  Delivered(host', call'.stream, Work(staged, FALSE, FALSE)')
    BY <1>1 DEF LaunchWords
  <2>2. PICK u, x : u = Work(staged, FALSE, FALSE) /\ x = call.stream
    OBVIOUS
  <2>3. Work(staged, FALSE, FALSE)' = u
    BY <1>2, <1>5, <2>2 DEF Work
  <2>4. u.region = staged /\ AllKnown(u.constants, u.params, u.seen)
    BY <2>1, <2>2 DEF Complete, Work
  <2>5. AllMine(x, u.region) /\ Clear(w.region, u.region)
    BY <1>3, <1>5, <1>6, <2>2, <2>4, EntriesClear
  <2>6. MemKept(a, c, u.region) /\ Bounds(u.region)
    BY <1>12, <2>5
  <2>7. Delivered(a, x, u) /\ SameEntry(u, u)
    BY <1>6, <1>10, <2>1, <2>2 DEF LaunchWords, SameEntry
  <2>8. Delivered(c, x, u)
    BY ONLY <2>4, <2>6, <2>7, ArgsAssumption, StillDelivered
  <2> QED BY <1>2, <1>10, <2>2, <2>3, <2>8
<1>15. Opened'
  <2>1. mapped' = mapped /\ step' = step
    BY <1>1
  <2>2. ASSUME NEW n \in DOMAIN queue'[Worker]
        PROVE  \E k \in DOMAIN queue[Worker] : queue'[Worker][n] = queue[Worker][k]
    BY <1>4, <1>6, WasThere, ArgsAssumption
  <2> QED BY <1>2, <1>6, <2>1, <2>2 DEF Opened, HasThem
<1> QED BY <1>2, <1>8, <1>13, <1>14, <1>15 DEF WordsInv

-----------------------------------------------------------------------------
(* The end of a call, and the benchmark. *)

LEMMA RestingWords ==
  ASSUME WordsInv, Returned, step # "launch", UNCHANGED onDevice, PayloadWords',
         \A n \in DOMAIN queue[Worker] : ~queue[Worker][n].kernel
  PROVE  WordsInv'
<1>1. /\ host' = host /\ dev' = dev /\ queue' = queue
      /\ pend' = pend /\ staged' = staged /\ inflight' = inflight
  BY DEF onDevice, memory
<1>2. step' = "idle" /\ call'.export = FALSE
  BY DEF Returned, NoCall
<1>3. ReadWords' /\ StageWords' /\ LaunchWords' /\ CallSane'
  BY <1>2 DEF ReadWords, StageWords, LaunchWords, CallSane
<1>4. Opened'
  BY <1>1, <1>2 DEF Opened
<1>5. QueueWords'
  BY <1>1 DEF WordsInv, QueueWords
<1>6. Regions /\ staged' = {}
  BY <1>1 DEF WordsInv, Regions
<1>7. Bytes(host)' /\ Bytes(dev)'
  BY <1>1, <1>6 DEF Regions, Bytes
<1>8. Regions'
  BY <1>1, <1>6, <1>7, SameRegions
<1> QED BY <1>3, <1>4, <1>5, <1>8 DEF WordsInv

LEMMA ExportedWords ==
  ASSUME WordsInv, Export
  PROVE  WordsInv'
<1>1. step = "stage" /\ call.export /\ Returned /\ UNCHANGED onDevice
  BY DEF Export
<1>2. PICK p : p = [helper |-> helper, patches |-> Patches(helper), handles |-> Handles(helper),
                    params |-> call.params, seen |-> seen]
  OBVIOUS
<1>3. payload' = << p >>
  BY <1>2 DEF Export
<1>4. call.stream # Worker
  BY <1>1 DEF WordsInv, CallSane
<1>5. Settled(helper, FALSE, call.params, seen)
  BY <1>1, <1>4 DEF WordsInv, StageWords
<1>6. Settled(p.helper, FALSE, p.params, p.seen)
      /\ p.patches = Patches(p.helper) /\ p.handles = Handles(p.helper)
  BY <1>2, <1>5
<1>7. payload'[1] = p
  BY <1>3
<1>8. PayloadWords'
  BY <1>6, <1>7 DEF PayloadWords
<1>9. \A n \in DOMAIN queue[Worker] : ~queue[Worker][n].kernel
  BY <1>1 DEF WordsInv, Opened
<1> QED BY <1>1, <1>8, <1>9, RestingWords

LEMMA SynchronizedWords ==
  ASSUME WordsInv, Synchronize
  PROVE  WordsInv'
<1>1. step = "wait" /\ queue[Worker] = << >> /\ Returned /\ UNCHANGED << payload, onDevice >>
  BY DEF Synchronize
<1>2. PayloadWords'
  BY <1>1 DEF WordsInv, PayloadWords
<1>3. \A n \in DOMAIN queue[Worker] : ~queue[Worker][n].kernel
  BY <1>1
<1> QED BY <1>1, <1>2, <1>3, RestingWords

\* A set that a sequence lists can be listed with as many places as elements.
LEMMA Enumeration ==
  ASSUME NEW S, NEW n \in Nat, NEW f \in [1 .. n -> S], \A a \in S : \E j \in 1 .. n : f[j] = a
  PROVE  \E g \in [1 .. Cardinality(S) -> S] : S = {g[j] : j \in DOMAIN g}
<1>1. f \in Surjection(1 .. n, S)
  BY DEF Surjection
<1>2. IsFiniteSet(S)
  BY <1>1, FS_NatSurjection DEF ExistsSurjection
<1>3. PICK g : g \in Bijection(1 .. Cardinality(S), S)
  BY <1>2, FS_CardinalityType DEF ExistsBijection
<1>4. g \in [1 .. Cardinality(S) -> S] /\ \A t \in S : \E s \in 1 .. Cardinality(S) : g[s] = t
  BY <1>3 DEF Bijection, Surjection
<1>5. DOMAIN g = 1 .. Cardinality(S)
  BY <1>4
<1>6. ASSUME NEW a PROVE a \in S <=> a \in {g[j] : j \in DOMAIN g}
  <2>1. ASSUME a \in S PROVE a \in {g[j] : j \in DOMAIN g}
    BY <1>4, <1>5, <2>1
  <2>2. ASSUME a \in {g[j] : j \in DOMAIN g} PROVE a \in S
    BY <1>4, <1>5, <2>2
  <2> QED BY <2>1, <2>2
<1>7. S = {g[j] : j \in DOMAIN g}
  BY <1>6
<1> QED BY <1>4, <1>7

\* The handles are the allocations, each of which has its index.
LEMMA HandlesOf ==
  ASSUME NEW h, IsSeq(h.ptrs)
  PROVE  /\ Allocations(h) = {Handles(h)[n] : n \in DOMAIN Handles(h)}
         /\ \A a \in Allocations(h) : Handles(h)[Index(Handles(h), a)] = a
<1>0. PICK A : A = Allocations(h)
  OBVIOUS
<1>1. PICK n \in Nat : A = Allocations(h) /\ DOMAIN h.ptrs = 1 .. n
  BY <1>0, SeqDomain
<1>2. PICK f : f = [j \in 1 .. n |-> h.arena[h.ptrs[j]][2]]
  OBVIOUS
<1>3. f \in [1 .. n -> A] /\ \A a \in A : \E j \in 1 .. n : f[j] = a
  BY <1>1, <1>2 DEF Allocations
<1>4. PICK b \in [1 .. Cardinality(A) -> A] : A = {b[j] : j \in DOMAIN b}
  BY <1>3, Enumeration
<1>5. PICK hs : hs = Handles(h)
  OBVIOUS
<1>6. hs \in [1 .. Cardinality(A) -> A] /\ A = {hs[j] : j \in DOMAIN hs}
  BY <1>1, <1>4, <1>5 DEF Handles
<1>7. ASSUME NEW a \in A PROVE hs[Index(hs, a)] = a
  BY <1>6 DEF Index
<1> QED BY <1>1, <1>5, <1>6, <1>7

\* h with the worker's addresses.
Imported(h, g) ==
  /\ Whole(g) /\ g.cuargs = h.cuargs /\ g.ptrs = h.ptrs /\ g.lists = h.lists
  /\ g.total = h.total /\ g.constants = h.constants
  /\ DOMAIN g.arena = DOMAIN h.arena /\ g.arena = [x \in DOMAIN g.arena |-> g.arena[x]]
  /\ \A x \in DOMAIN h.arena : g.arena[x] = Img(TRUE, h.arena[x])

LEMMA ImportedLies ==
  ASSUME NEW a, NEW b, DOMAIN b = DOMAIN a, \A x \in DOMAIN a : b[x] = Img(TRUE, a[x]),
         NEW p, NEW o, Lies(a, FALSE, p, o)
  PROVE  Lies(b, TRUE, p, o)
<1>1. ASSUME NEW j \in 1 .. 1 + 2 * Rank(o)
      PROVE  p + j - 1 \in DOMAIN b /\ b[p + j - 1] = Img(TRUE, Repr(o)[j])
  <2>1. PICK x, w : x = p + j - 1 /\ w = Repr(o)[j]
    OBVIOUS
  <2>2. x \in DOMAIN a /\ a[x] = Img(FALSE, w)
    BY <2>1 DEF Lies
  <2>3. a[x] = w
    BY <2>2 DEF Img
  <2>4. b[x] = Img(TRUE, w)
    BY <2>2, <2>3
  <2> QED BY <2>1, <2>2, <2>4
<1> QED BY <1>1 DEF Lies

LEMMA ImportedItems ==
  ASSUME NEW a, NEW b, DOMAIN b = DOMAIN a, \A x \in DOMAIN a : b[x] = Img(TRUE, a[x]),
         NEW z, NEW items, ItemsAt(a, FALSE, z, items)
  PROVE  ItemsAt(b, TRUE, z, items)
<1>1. \A w : w[1] # "ptr" => Img(TRUE, w) = w
  BY DEF Img
<1>2. z.base + 1 \in DOMAIN b /\ b[z.base + 1] = << "int", z.len >>
  <2>1. PICK w, y : w = << "int", z.len >> /\ y = z.base + 1
    OBVIOUS
  <2>2. y \in DOMAIN a /\ a[y] = w /\ w[1] # "ptr"
    BY <2>1 DEF ItemsAt
  <2> QED BY <1>1, <2>1, <2>2
<1>3. ASSUME NEW i \in DOMAIN items
      PROVE  /\ z.items + i - 1 \in DOMAIN b /\ b[z.items + i - 1][1] = "item"
             /\ z.size = 1 + 2 * Rank(items[i])
             /\ Lies(b, TRUE, b[z.items + i - 1][2], items[i])
  <2>1. PICK y : y = z.items + i - 1
    OBVIOUS
  <2>2. /\ y \in DOMAIN a /\ a[y][1] = "item" /\ z.size = 1 + 2 * Rank(items[i])
        /\ Lies(a, FALSE, a[y][2], items[i])
    BY <2>1 DEF ItemsAt
  <2>3. b[y] = a[y]
    <3>1. Img(TRUE, a[y]) = a[y]
      BY <1>1, <2>2
    <3> QED BY <2>2, <3>1
  <2>4. PICK q, o : q = a[y][2] /\ o = items[i]
    OBVIOUS
  <2>5. Lies(b, TRUE, q, o)
    BY <2>2, <2>4, ImportedLies
  <2> QED BY <2>1, <2>2, <2>3, <2>4, <2>5
<1> QED BY <1>2, <1>3 DEF ItemsAt

LEMMA ImportedLaid ==
  ASSUME NEW h, NEW g, Imported(h, g), NEW kind, NEW items, NEW p, Laid(h, FALSE, kind, items, p)
  PROVE  Laid(g, TRUE, kind, items, p)
<1>1. PICK a, b : a = h.arena /\ b = g.arena
  OBVIOUS
<1>2. DOMAIN b = DOMAIN a /\ \A x \in DOMAIN a : b[x] = Img(TRUE, a[x])
  BY <1>1 DEF Imported
<1>3. CASE kind = "list"
  <2>1. PICK l \in DOMAIN h.lists :
          ListAt(h, p, l) /\ h.lists[l].len = Len(items) /\ ItemsAt(a, FALSE, h.lists[l], items)
    BY <1>1, <1>3 DEF Laid
  <2>2. PICK z : z = h.lists[l]
    OBVIOUS
  <2>3. ItemsAt(b, TRUE, z, items)
    BY <1>2, <2>1, <2>2, ImportedItems
  <2>4. g.lists = h.lists /\ ListAt(g, p, l)
    BY <2>1 DEF Imported, ListAt
  <2> QED BY <1>1, <1>3, <2>1, <2>2, <2>3, <2>4 DEF Laid
<1>4. CASE kind # "list"
  <2>1. /\ Len(items) = 1
        /\ \A j \in 1 .. 1 + 2 * Rank(items[1]) :
             /\ p + j - 1 \in DOMAIN h.cuargs /\ h.cuargs[p + j - 1] \in DOMAIN a
             /\ a[h.cuargs[p + j - 1]] = Img(FALSE, Repr(items[1])[j])
    BY <1>1, <1>4 DEF Laid
  <2>2. ASSUME NEW j \in 1 .. 1 + 2 * Rank(items[1])
        PROVE  /\ p + j - 1 \in DOMAIN g.cuargs /\ g.cuargs[p + j - 1] \in DOMAIN b
               /\ b[g.cuargs[p + j - 1]] = Img(TRUE, Repr(items[1])[j])
    <3>1. PICK w, y : w = Repr(items[1])[j] /\ y = h.cuargs[p + j - 1]
      OBVIOUS
    <3>2. p + j - 1 \in DOMAIN h.cuargs /\ y \in DOMAIN a /\ a[y] = Img(FALSE, w)
      BY <2>1, <3>1
    <3>3. a[y] = w
      BY <3>2 DEF Img
    <3>4. b[y] = Img(TRUE, w) /\ y \in DOMAIN b
      BY <1>2, <3>2, <3>3
    <3> QED BY <3>1, <3>2, <3>4 DEF Imported
  <2> QED BY <1>1, <1>4, <2>1, <2>2 DEF Laid
<1> QED BY <1>3, <1>4

LEMMA ImportedSound ==
  ASSUME NEW h, NEW g, Imported(h, g), Sound(h)
  PROVE  Sound(g)
<1>1. PICK a, b : a = h.arena /\ b = g.arena
  OBVIOUS
<1>2. DOMAIN b = DOMAIN a /\ \A x \in DOMAIN a : b[x] = Img(TRUE, a[x])
  BY <1>1 DEF Imported
<1>3. IsSeq(b)
  <2>1. PICK n \in Nat : DOMAIN b = 1 .. n
    BY <1>1, <1>2, SeqDomain DEF Sound
  <2>2. b = [x \in DOMAIN b |-> b[x]]
    BY <1>1 DEF Imported
  <2> QED BY <2>1, <2>2, FunctionIsSeq
<1>4. ASSUME NEW l \in DOMAIN h.lists
      PROVE  HasPart(g, l) /\ Offset(g, h.lists[l]) = Offset(h, h.lists[l])
  <2>1. PICK x : x = h.lists[l]
    OBVIOUS
  <2>2. /\ x.base \in Nat /\ x.items \in Nat /\ x.len \in Nat \ {0} /\ x.size \in Nat \ {0}
        /\ x.base \in DOMAIN a /\ a[x.base][1] = "size"
        /\ Offset(h, x) \in Nat /\ Offset(h, x) + x.len * x.size <= h.total
    BY <1>1, <2>1 DEF Sound, Apart, HasPart
  <2>3. b[x.base] = a[x.base]
    BY <1>2, <2>2 DEF Img
  <2>4. Offset(g, x) = Offset(h, x)
    BY <1>1, <2>3 DEF Offset
  <2>5. x = g.lists[l] /\ g.total = h.total
    BY <2>1 DEF Imported
  <2> QED BY <1>1, <1>2, <2>1, <2>2, <2>3, <2>4, <2>5 DEF HasPart
<1>5. g.lists = h.lists
  BY DEF Imported
<1>6. Apart(g)
  <2>1. \A l \in DOMAIN g.lists : HasPart(g, l)
    BY <1>4, <1>5
  <2>2. ASSUME NEW l \in DOMAIN h.lists, NEW k \in DOMAIN h.lists, l < k
        PROVE  Offset(g, h.lists[l]) + h.lists[l].len * h.lists[l].size <= Offset(g, h.lists[k])
    BY <1>4, <2>2 DEF Sound, Apart
  <2> QED BY <1>5, <2>1, <2>2 DEF Apart
<1> QED BY <1>1, <1>3, <1>5, <1>6 DEF Sound, Imported

LEMMA ImportedSettled ==
  ASSUME NEW h, NEW g, Imported(h, g), NEW params, NEW saw, Settled(h, FALSE, params, saw)
  PROVE  Settled(g, TRUE, params, saw)
<1>1. PICK f \in Layings(Len(params), params, h.constants) :
        /\ Len(h.cuargs) = f[Len(params) + 1] - 1 + 0
        /\ \A k \in 1 .. Len(params) : Laid(h, FALSE, params[k].kind, saw[k], f[k])
  BY DEF Settled, Spread
<1>2. g.cuargs = h.cuargs /\ g.constants = h.constants
  BY DEF Imported
<1>3. \A k \in 1 .. Len(params) : Laid(g, TRUE, params[k].kind, saw[k], f[k])
  BY <1>1, ImportedLaid
<1>4. Spread(Len(params), 0, g, TRUE, params, saw)
  BY <1>1, <1>2, <1>3 DEF Spread
<1>5. Sound(g)
  BY ImportedSound DEF Settled
<1> QED BY <1>4, <1>5 DEF Settled

\* Putting the patches in.
PointersPut(w, ps, hs, js) ==
  /\ js = {} => w = Img(TRUE, w)
  /\ \A j \in js : << "map", hs[ps[j].handle], ps[j].offset >> = Img(TRUE, w)

LEMMA PatchedPointers ==
  ASSUME NEW h, Sound(h), Listed(h), NEW x \in DOMAIN h.arena,
         NEW js, js = {j \in DOMAIN Patches(h) : Patches(h)[j].at = x}
  PROVE  PointersPut(h.arena[x], Patches(h), Handles(h), js)
<1>0. PICK ps, hs : ps = Patches(h) /\ hs = Handles(h)
  OBVIOUS
<1>1. PICK a : a = h.arena
  OBVIOUS
<1>2. DOMAIN ps = DOMAIN h.ptrs
      /\ \A j \in DOMAIN ps : /\ ps[j].at = h.ptrs[j] /\ ps[j].offset = a[h.ptrs[j]][3]
                              /\ ps[j].handle = Index(hs, a[h.ptrs[j]][2])
  BY <1>0, <1>1 DEF Patches
<1>3. x \in Ptrs(a) <=> js # {}
  BY <1>0, <1>1, <1>2 DEF Listed, Elems
<1>4. CASE js = {}
  <2>1. a[x][1] # "ptr"
    BY <1>1, <1>3, <1>4 DEF Ptrs
  <2> QED BY <1>1, <1>4, <2>1 DEF Img, PointersPut
<1>5. ASSUME NEW j \in js
      PROVE  << "map", hs[ps[j].handle], ps[j].offset >> = Img(TRUE, h.arena[x])
  <2>1. a[x][1] = "ptr"
    BY <1>3 DEF Ptrs
  <2>2. PICK v : v = a[x][2]
    OBVIOUS
  <2>3. j \in DOMAIN h.ptrs /\ h.ptrs[j] = x
    BY <1>0, <1>2
  <2>4. ps[j].handle = Index(hs, v) /\ ps[j].offset = a[x][3]
    BY <1>2, <2>2, <2>3
  <2>5. v \in Allocations(h)
    BY <1>1, <2>2, <2>3 DEF Allocations
  <2>6. hs[Index(hs, v)] = v
    BY <1>0, <2>5, HandlesOf DEF Sound
  <2> QED BY <1>1, <2>1, <2>2, <2>4, <2>6 DEF Img
<1> QED BY <1>0, <1>4, <1>5 DEF PointersPut

\* Every array that was read is in one of the allocations.
LEMMA AllocationOf ==
  ASSUME NEW h, Listed(h), NEW p, NEW o \in Arrays, Lies(h.arena, FALSE, p, o)
  PROVE  Base[o][1] \in Allocations(h)
<1>1. Rank(o) \in Nat
  BY RankOf
<1>2. 1 \in 1 .. 1 + 2 * Rank(o) /\ p \in Nat /\ p + 1 - 1 = p
  BY <1>1 DEF Lies
<1>3. PICK w : w = << "ptr", Base[o][1], Base[o][2] >>
  OBVIOUS
<1>4. Repr(o)[1] = w
  BY <1>3, ReprWords
<1>5. p \in DOMAIN h.arena /\ h.arena[p] = Img(FALSE, w)
  BY <1>2, <1>4 DEF Lies
<1>6. h.arena[p] = w
  BY <1>5 DEF Img
<1>7. p \in Elems(h.ptrs)
  BY <1>3, <1>5, <1>6 DEF Listed, Ptrs
<1>8. PICK j \in DOMAIN h.ptrs : h.ptrs[j] = p
  BY <1>7 DEF Elems
<1> QED BY <1>3, <1>6, <1>8 DEF Allocations

LEMMA AllocationsOf ==
  ASSUME NEW h, NEW params, NEW saw, Settled(h, FALSE, params, saw), AllKnown(h.constants, params, saw),
         NEW k \in DOMAIN saw, NEW i \in DOMAIN saw[k]
  PROVE  Base[saw[k][i]][1] \in Allocations(h)
<1>1. saw \in Seq(Seq(Arrays)) /\ Len(saw) = Len(params)
  BY DEF AllKnown, Known
<1>2. k \in 1 .. Len(params) /\ saw[k] \in Seq(Arrays)
  BY <1>1, LenProperties, ElementOfSeq
<1>3. PICK items, kind : items = saw[k] /\ kind = params[k].kind
  OBVIOUS
<1>4. items \in Seq(Arrays) /\ i \in DOMAIN items
  BY <1>2, <1>3
<1>5. PICK o \in Arrays : o = items[i]
  BY <1>4, ElementOfSeq, LenProperties
<1>6. PICK p : Laid(h, FALSE, kind, items, p)
  BY <1>2, <1>3 DEF Settled, Spread
<1>7. Listed(h)
  BY DEF Settled
<1>8. CASE kind = "list"
  <2>1. PICK l : ItemsAt(h.arena, FALSE, h.lists[l], items)
    BY <1>6, <1>8 DEF Laid
  <2>2. PICK q : Lies(h.arena, FALSE, q, o)
    BY <1>4, <1>5, <2>1 DEF ItemsAt
  <2> QED BY <1>3, <1>5, <1>7, <2>2, AllocationOf
<1>9. CASE kind # "list"
  <2>1. i = 1
    BY <1>4, <1>6, <1>9, LenProperties DEF Laid
  <2>2. 1 \in 1 .. 1 + 2 * Rank(o) /\ Repr(o)[1] = << "ptr", Base[o][1], Base[o][2] >>
    BY RankOf, ReprWords
  <2>3. PICK q : q = h.cuargs[p + 1 - 1]
    OBVIOUS
  <2>4. q \in DOMAIN h.arena /\ h.arena[q] = Img(FALSE, Repr(o)[1])
    BY <1>5, <1>6, <1>9, <2>1, <2>2, <2>3 DEF Laid
  <2>5. h.arena[q] = << "ptr", Base[o][1], Base[o][2] >>
    BY <2>2, <2>4 DEF Img
  <2>6. q \in Elems(h.ptrs)
    BY <1>7, <2>4, <2>5 DEF Listed, Ptrs
  <2>7. PICK j \in DOMAIN h.ptrs : h.ptrs[j] = q
    BY <2>6 DEF Elems
  <2>8. Base[o][1] \in Allocations(h)
    BY <2>5, <2>7 DEF Allocations
  <2> QED BY <1>3, <1>5, <2>8
<1> QED BY <1>8, <1>9

LEMMA ImportDoes ==
  ASSUME Typed, Carried, WordsInv, Import
  PROVE  LET p == payload[1]
         IN /\ Settled(p.helper, FALSE, p.params, p.seen)
            /\ AllKnown(p.helper.constants, p.params, p.seen)
            /\ Imported(p.helper, helper') /\ mapped' = Allocations(p.helper)
<1>1. PICK p : p = payload[1]
  OBVIOUS
<1>2. PICK h, ps, hs : h = p.helper /\ ps = p.patches /\ hs = p.handles
  OBVIOUS
<1>3. payload # << >>
  BY DEF Import
<1>4. /\ Settled(h, FALSE, p.params, p.seen) /\ ps = Patches(h) /\ hs = Handles(h)
      /\ AllKnown(h.constants, p.params, p.seen)
  BY <1>1, <1>2, <1>3 DEF WordsInv, PayloadWords, Carried
<1>5. Sound(h) /\ Listed(h) /\ Whole(h)
  BY <1>4 DEF Settled, Sound
<1>6. PICK a, room : a = h.arena /\ room = helper.room
  OBVIOUS
<1>7. PICK b : b = [x \in DOMAIN payload[1].helper.arena |->
          IF {j \in DOMAIN payload[1].patches : payload[1].patches[j].at = x} = {}
          THEN payload[1].helper.arena[x]
          ELSE << "map",
                  payload[1].handles[payload[1].patches[CHOOSE j \in
                    {j \in DOMAIN payload[1].patches : payload[1].patches[j].at = x} : TRUE].handle],
                  payload[1].patches[CHOOSE j \in
                    {j \in DOMAIN payload[1].patches : payload[1].patches[j].at = x} : TRUE].offset >>]
  OBVIOUS
<1>8. helper' = [h EXCEPT !.room = room, !.arena = b]
  <2>1. helper' = [payload[1].helper EXCEPT !.room = helper.room, !.arena = 
          [x \in DOMAIN payload[1].helper.arena |->
          IF {j \in DOMAIN payload[1].patches : payload[1].patches[j].at = x} = {}
          THEN payload[1].helper.arena[x]
          ELSE << "map",
                  payload[1].handles[payload[1].patches[CHOOSE j \in
                    {j \in DOMAIN payload[1].patches : payload[1].patches[j].at = x} : TRUE].handle],
                  payload[1].patches[CHOOSE j \in
                    {j \in DOMAIN payload[1].patches : payload[1].patches[j].at = x} : TRUE].offset >>]]
    BY DEF Import
  <2>2. helper' = [payload[1].helper EXCEPT !.room = helper.room, !.arena = b]
    BY ONLY <1>7, <2>1
  <2>3. payload[1].helper = h
    BY <1>1, <1>2
  <2> QED BY ONLY <1>6, <2>2, <2>3
<1>9. PICK g : g = helper'
  OBVIOUS
<1>10. /\ DOMAIN g = DOMAIN h /\ g.room = room /\ g.arena = b /\ g.cuargs = h.cuargs
       /\ g.ptrs = h.ptrs /\ g.lists = h.lists /\ g.total = h.total /\ g.constants = h.constants
  BY ONLY <1>5, <1>8, <1>9 DEF Whole
<1>11. Whole(g)
  BY <1>5, <1>6, <1>10 DEF Whole, Typed
<1>12. DOMAIN b = DOMAIN a /\ b = [x \in DOMAIN b |-> b[x]]
  <2> DEFINE image(x) ==
        IF {j \in DOMAIN payload[1].patches : payload[1].patches[j].at = x} = {}
          THEN payload[1].helper.arena[x]
          ELSE << "map",
                  payload[1].handles[payload[1].patches[CHOOSE j \in
                    {j \in DOMAIN payload[1].patches : payload[1].patches[j].at = x} : TRUE].handle],
                  payload[1].patches[CHOOSE j \in
                    {j \in DOMAIN payload[1].patches : payload[1].patches[j].at = x} : TRUE].offset >>
  <2>0. b = [x \in DOMAIN payload[1].helper.arena |-> image(x)]
    BY <1>7, Zenon
  <2> HIDE DEF image
  <2>1. DOMAIN b = DOMAIN payload[1].helper.arena /\ b = [x \in DOMAIN b |-> b[x]]
    BY ONLY <2>0
  <2>2. payload[1].helper.arena = a
    BY ONLY <1>1, <1>2, <1>6
  <2> QED BY ONLY <2>1, <2>2
<1>13. ASSUME NEW x \in DOMAIN a PROVE b[x] = Img(TRUE, a[x])
  <2>1. PICK js : js = {j \in DOMAIN ps : ps[j].at = x}
    OBVIOUS
  <2>2. b[x] = IF js = {} THEN a[x]
               ELSE << "map", hs[ps[CHOOSE j \in js : TRUE].handle], ps[CHOOSE j \in js : TRUE].offset >>
    <3>1. js = {j \in DOMAIN payload[1].patches : payload[1].patches[j].at = x}
      BY <1>1, <1>2, <2>1
    <3>2. x \in DOMAIN payload[1].helper.arena
      BY <1>1, <1>2, <1>6
    <3>3. b[x] = IF js = {} THEN payload[1].helper.arena[x]
                 ELSE << "map", payload[1].handles[payload[1].patches[CHOOSE j \in js : TRUE].handle],
                         payload[1].patches[CHOOSE j \in js : TRUE].offset >>
      <4>1. b[x] = IF {j \in DOMAIN payload[1].patches : payload[1].patches[j].at = x} = {}
                   THEN payload[1].helper.arena[x]
                   ELSE << "map",
                           payload[1].handles[payload[1].patches[CHOOSE j \in
                             {j \in DOMAIN payload[1].patches : payload[1].patches[j].at = x} : TRUE].handle],
                           payload[1].patches[CHOOSE j \in
                             {j \in DOMAIN payload[1].patches : payload[1].patches[j].at = x} : TRUE].offset >>
        BY ONLY <1>7, <3>2
      <4> QED BY ONLY <3>1, <4>1, Zenon
    <3> QED BY <1>1, <1>2, <1>6, <3>3
  <2>3. PointersPut(h.arena[x], Patches(h), Handles(h), js)
    BY <1>4, <1>5, <1>6, <2>1, PatchedPointers
  <2>4. /\ js = {} => a[x] = Img(TRUE, a[x])
        /\ \A j \in js : << "map", hs[ps[j].handle], ps[j].offset >> = Img(TRUE, a[x])
    BY <1>4, <1>6, <2>3 DEF PointersPut
  <2>5. js # {} => (CHOOSE j \in js : TRUE) \in js
    OBVIOUS
  <2> QED BY <2>2, <2>4, <2>5
<1>14. Imported(h, g)
  BY <1>6, <1>10, <1>11, <1>12, <1>13 DEF Imported
<1>15. mapped' = Allocations(h)
  <2>1. mapped' = {hs[n] : n \in DOMAIN hs}
    BY <1>1, <1>2 DEF Import
  <2>2. Allocations(h) = {Handles(h)[n] : n \in DOMAIN Handles(h)}
    BY <1>5, HandlesOf DEF Sound
  <2> QED BY <1>4, <2>1, <2>2
<1> QED BY <1>1, <1>2, <1>4, <1>9, <1>14, <1>15

LEMMA ImportedWords ==
  ASSUME Typed, Carried, WordsInv, Import
  PROVE  WordsInv'
<1>1. PICK p : p = payload[1]
  OBVIOUS
<1>2. PICK h, g : h = p.helper /\ g = helper'
  OBVIOUS
<1>3. /\ step = "idle" /\ step' = "stage" /\ queue[Worker] = << >> /\ payload' = << >>
      /\ UNCHANGED onDevice
  BY DEF Import
<1>4. call'.params = p.params /\ call'.stream = Worker /\ call'.export = FALSE /\ seen' = p.seen
  BY <1>1 DEF Import
<1>5. /\ Settled(h, FALSE, p.params, p.seen) /\ AllKnown(h.constants, p.params, p.seen)
      /\ Imported(h, g) /\ mapped' = Allocations(h)
  BY <1>1, <1>2, ImportDoes
<1>6. /\ host' = host /\ dev' = dev /\ queue' = queue
      /\ pend' = pend /\ staged' = staged /\ inflight' = inflight
  BY <1>3 DEF onDevice, memory
<1>7. ReadWords' /\ LaunchWords' /\ PayloadWords'
  BY <1>3 DEF ReadWords, LaunchWords, PayloadWords
<1>8. CallSane'
  BY <1>3, <1>4, ArgsAssumption DEF CallSane
<1>9. StageWords'
  <2>1. Settled(g, TRUE, p.params, p.seen)
    BY <1>5, ImportedSettled
  <2>2. (call.stream = Worker)' = TRUE
    BY <1>4
  <2> QED BY <1>2, <1>4, <2>1, <2>2 DEF StageWords
<1>10. Opened'
  <2>1. ASSUME NEW k \in DOMAIN p.seen, NEW i \in DOMAIN p.seen[k]
        PROVE  Base[p.seen[k][i]][1] \in mapped'
    <3>1. PICK params, saw : params = p.params /\ saw = p.seen
      OBVIOUS
    <3>2. /\ k \in DOMAIN saw /\ i \in DOMAIN saw[k]
          /\ Settled(h, FALSE, params, saw) /\ AllKnown(h.constants, params, saw)
      BY <1>5, <2>1, <3>1
    <3>3. Base[saw[k][i]][1] \in Allocations(h)
      BY ONLY <3>2, ArgsAssumption, AllocationsOf
    <3> QED BY <1>5, <3>1, <3>3
  <2>2. HasThem(seen)'
    BY <1>4, <2>1 DEF HasThem
  <2>3. DOMAIN queue'[Worker] = {}
    BY <1>3, <1>6
  <2> QED BY <2>2, <2>3 DEF Opened
<1>11. QueueWords'
  BY <1>6 DEF WordsInv, QueueWords
<1>12. Regions'
  <2>1. Regions /\ staged' = {}
    BY <1>3, <1>6 DEF WordsInv, Regions
  <2>2. Bytes(host)' /\ Bytes(dev)'
    BY <1>6, <2>1 DEF Regions, Bytes
  <2> QED BY <1>6, <2>1, <2>2, SameRegions
<1> QED BY <1>7, <1>8, <1>9, <1>10, <1>11, <1>12 DEF WordsInv

-----------------------------------------------------------------------------
(* All steps. *)

LEMMA InitWords == Init => WordsInv
<1> SUFFICES ASSUME Init PROVE WordsInv
  OBVIOUS
<1>1. step = "idle" /\ payload = << >> /\ call.export = FALSE
  BY DEF Init, NoCall
<1>2. ReadWords /\ StageWords /\ PayloadWords /\ CallSane /\ LaunchWords
  BY <1>1 DEF ReadWords, StageWords, PayloadWords, CallSane, LaunchWords
<1>3. \A s \in Streams : queue[s] = << >>
  BY DEF Init
<1>4. \A s \in Streams : DOMAIN queue[s] = {}
  BY <1>3
<1>5. Opened /\ QueueWords
  BY <1>1, <1>4, ArgsAssumption DEF Opened, QueueWords
<1>6. staged = {} /\ DOMAIN pend = Streams /\ \A s \in Streams : pend[s] \in Nat
  BY DEF Init, Memory!Init
<1>7. Bytes(host) /\ Bytes(dev)
  BY DEF Init, Bytes
<1>8. \A s \in Streams : \E g : InOrder(s, g)
  <2>1. ASSUME NEW s \in Streams PROVE InOrder(s, << >>)
    BY <1>3, <1>4, <2>1 DEF InOrder
  <2> QED BY <2>1
<1>9. Regions
  BY <1>4, <1>6, <1>7, <1>8 DEF Regions
<1> QED BY <1>2, <1>5, <1>9 DEF WordsInv

LEMMA StutterWords ==
  ASSUME WordsInv, UNCHANGED vars
  PROVE  WordsInv'
<1>1. /\ UNCHANGED << step, inCall, helper, payload, mapped >>
      /\ host' = host /\ dev' = dev /\ queue' = queue
      /\ pend' = pend /\ staged' = staged /\ inflight' = inflight
  BY DEF vars, onDevice, memory
<1>2. /\ ReadWords' /\ StageWords' /\ PayloadWords' /\ CallSane'
      /\ call' = call /\ seen' = seen /\ helper' = helper
  BY <1>1, Untouched
<1>3. LaunchWords'
  <2>1. Work(staged, FALSE, FALSE)' = Work(staged, FALSE, FALSE)
    BY <1>1, <1>2 DEF Work
  <2> QED BY <1>1, <1>2, <2>1 DEF WordsInv, LaunchWords
<1>4. QueueWords' /\ Opened'
  BY <1>1, <1>2 DEF WordsInv, QueueWords, Opened, HasThem
<1>5. Regions'
  <2>1. Regions
    BY DEF WordsInv
  <2>2. Bytes(host)' /\ Bytes(dev)'
    BY <1>1, <2>1 DEF Regions, Bytes
  <2>3. \A s \in Streams : /\ DOMAIN queue'[s] = DOMAIN queue[s]
                           /\ \A n \in DOMAIN queue[s] : queue'[s][n].region = queue[s][n].region
    BY <1>1
  <2> QED BY <1>1, <1>2, <2>1, <2>2, <2>3, RegionsAlike
<1> QED BY <1>2, <1>3, <1>4, <1>5 DEF WordsInv

LEMMA StepWords == ArgsInv /\ WordsInv /\ [Next]_vars => WordsInv'
<1> SUFFICES ASSUME ArgsInv, WordsInv, [Next]_vars PROVE WordsInv'
  OBVIOUS
<1>1. Typed /\ AtRest /\ Read /\ Complete /\ Carried /\ Launched
  BY DEF ArgsInv
<1>2. CASE Call
  BY <1>1, <1>2, CallWords
<1>3. CASE extract_array \/ FirstItem \/ NextItem \/ PastTheEnd
  BY <1>1, <1>3, ReadingWords
<1>4. CASE Raise
  BY <1>4, RaiseWords
<1>5. CASE stage_list_args_on_stream
  BY <1>1, <1>5, StagingWords
<1>6. CASE NothingToStage
  BY <1>1, <1>6, NothingWords
<1>7. CASE Launch
  BY <1>1, <1>7, LaunchedWords
<1>8. CASE Export
  BY <1>8, ExportedWords
<1>9. CASE Import
  BY <1>1, <1>9, ImportedWords
<1>10. CASE Synchronize
  BY <1>10, SynchronizedWords
<1>11. ASSUME NEW s \in Streams, Copy(s) PROVE WordsInv'
  BY <1>1, <1>11, CopiedWords
<1>12. ASSUME NEW s \in Streams, Finish(s) PROVE WordsInv'
  BY <1>1, <1>12, FinishedWords
<1>13. CASE UNCHANGED vars
  BY <1>13, StutterWords
<1> QED
  BY <1>2, <1>3, <1>4, <1>5, <1>6, <1>7, <1>8, <1>9, <1>10, <1>11, <1>12, <1>13 DEF Next, Stopped

-----------------------------------------------------------------------------
(* What was delivered is found. *)

\* A set of numbers has a least one.
LEMMA LeastNumber ==
  ASSUME NEW T \in SUBSET Nat, T # {}
  PROVE  \E m \in T : \A k \in T : m <= k
<1>1. PICK m \in T : \A k \in T : << k, m >> \notin OpToRel(<, Nat)
  BY NatLessThanWellFounded, WFMin
<1>2. \A k \in T : ~(k < m)
  BY <1>1 DEF OpToRel
<1> QED BY <1>2

LEMMA FirstsAre ==
  ASSUME NEW w, NEW n \in Nat, DOMAIN w.params = 1 .. n,
         NEW f \in Layings(n, w.params, w.constants), NEW k \in 1 .. n
  PROVE  Firsts(w)[k] = f[k]
<1>1. /\ f[1] = 1 /\ \A i \in 1 .. n : f[i + 1] = f[i] + Width(w, i)
  BY DEF Layings, WordsOf, Width, IsList, Size
<1>2. PICK D : D = DOMAIN w.params
  OBVIOUS
<1>3. PICK g : g = [i \in D |-> f[i]]
  OBVIOUS
<1>4. ASSUME NEW i \in D
      PROVE  f[i] = IF i = 1 THEN 1 ELSE g[i - 1] + Width(w, i - 1)
  <2>1. CASE i = 1
    BY <1>1, <2>1
  <2>2. CASE i # 1
    <3>1. PICK j \in 1 .. n : j = i - 1 /\ j + 1 = i
      <4>1. i - 1 \in 1 .. n /\ i - 1 + 1 = i
        BY <1>2, <2>2
      <4> QED BY <4>1
    <3>2. j \in D
      BY <1>2
    <3> QED BY <1>1, <1>3, <2>2, <3>1, <3>2
  <2> QED BY <2>1, <2>2
<1>5. g = [i \in D |-> IF i = 1 THEN 1 ELSE g[i - 1] + Width(w, i - 1)]
  BY <1>3, <1>4
<1>6. PICK h : h = Firsts(w)
  OBVIOUS
<1>7. h = [i \in D |-> IF i = 1 THEN 1 ELSE h[i - 1] + Width(w, i - 1)]
  BY <1>2, <1>5, <1>6 DEF Firsts
<1>8. ASSUME NEW T, T = {i \in 1 .. n : h[i] # f[i]}, T # {} PROVE FALSE
  <2>1. PICK m \in T : \A i \in T : m <= i
    <3>1. T \in SUBSET Nat
      BY <1>8
    <3> QED BY <1>8, <3>1, LeastNumber
  <2>2. m \in 1 .. n /\ h[m] # f[m]
    BY <1>8
  <2>3. CASE m = 1
    BY <1>1, <1>2, <1>7, <2>2, <2>3
  <2>4. CASE m # 1
    <3>1. PICK j \in 1 .. n : j = m - 1 /\ j + 1 = m /\ ~(m <= j)
      <4>1. m - 1 \in 1 .. n /\ m - 1 + 1 = m /\ ~(m <= m - 1)
        BY <2>2, <2>4
      <4> QED BY <4>1
    <3>2. h[j] = f[j]
      BY <1>8, <2>1, <3>1
    <3>3. h[m] = h[j] + Width(w, j)
      BY <1>2, <1>7, <2>2, <2>4, <3>1
    <3>4. f[m] = f[j] + Width(w, j)
      BY <1>1, <3>1
    <3> QED BY <2>2, <3>2, <3>3, <3>4
  <2> QED BY <2>3, <2>4
<1>9. {i \in 1 .. n : h[i] # f[i]} = {}
  BY <1>8
<1> QED BY <1>6, <1>9

\* An array as its process sees it, word by word.
LEMMA LocalWords ==
  ASSUME NEW o \in Arrays, NEW s
  PROVE  Local(s, o) = [j \in 1 .. 1 + 2 * Rank(o) |-> Img(s = Worker, Repr(o)[j])]
<1>0. PICK q : q = Repr(o)
  OBVIOUS
<1>1. PICK n \in Nat : q = Repr(o) /\ n = 2 * Rank(o)
  BY <1>0, RankOf
<1>2. /\ IsSeq(q) /\ Len(q) = 1 + n /\ q[1] = << "ptr", Base[o][1], Base[o][2] >>
      /\ \A j \in 2 .. 1 + n : q[j][1] = "int"
  BY <1>1, ReprTells, ReprWords
<1>3. PICK v : v = [j \in 1 .. 1 + n |-> Img(s = Worker, q[j])]
  OBVIOUS
<1>4. DOMAIN q = 1 .. 1 + n /\ q = [j \in 1 .. 1 + n |-> q[j]]
  <2>1. PICK S : q \in Seq(S)
    BY <1>2 DEF IsSeq
  <2>2. q = [j \in 1 .. Len(q) |-> q[j]]
    BY <2>1, SeqDef
  <2> QED BY <1>2, <2>2
<1>5. CASE s # Worker
  <2>1. \A j \in 1 .. 1 + n : Img(s = Worker, q[j]) = q[j]
    BY <1>5 DEF Img
  <2>2. v = q
    BY <1>3, <1>4, <2>1
  <2> QED BY <1>1, <1>3, <1>5, <2>2 DEF Local
<1>6. CASE s = Worker
  <2>1. PICK a, t : a = << << "map", Base[o][1], Base[o][2] >> >> /\ t = Tail(q)
    OBVIOUS
  <2>2. IsSeq(t) /\ Len(t) = n /\ \A j \in 1 .. n : t[j] = q[j + 1]
    <3>1. PICK S : q \in Seq(S)
      BY <1>2 DEF IsSeq
    <3>2. q # << >>
      BY <1>2, EmptySeq
    <3>3. t \in Seq(S) /\ Len(t) = Len(q) - 1 /\ \A j \in 1 .. Len(q) - 1 : t[j] = q[j + 1]
      BY <2>1, <3>1, <3>2, HeadTailProperties
    <3>4. Len(q) - 1 = n
      BY <1>2
    <3> QED BY <3>3, <3>4, Elements
  <2>3. IsSeq(a) /\ Len(a) = 1 /\ a[1] = << "map", Base[o][1], Base[o][2] >>
    <3>1. DOMAIN a = 1 .. 1 /\ a = [i \in DOMAIN a |-> a[i]]
      BY <2>1
    <3> QED BY <2>1, <3>1, FunctionIsSeq
  <2>4. PICK c : c = a \o t
    OBVIOUS
  <2>5. Joined(a, t)
    BY <2>2, <2>3, Join
  <2>6. IsSeq(c) /\ Len(c) = 1 + n /\ c[1] = a[1] /\ \A j \in 1 .. n : c[1 + j] = t[j]
    BY <2>2, <2>3, <2>4, <2>5 DEF Joined
  <2>7. ASSUME NEW j \in 1 .. 1 + n PROVE c[j] = Img(TRUE, q[j])
    <3>1. CASE j = 1
      <4>1. PICK w : w = << "ptr", Base[o][1], Base[o][2] >>
        OBVIOUS
      <4>2. q[j] = w
        BY <1>2, <3>1, <4>1
      <4>3. Img(TRUE, w) = << "map", Base[o][1], Base[o][2] >>
        BY <4>1 DEF Img
      <4> QED BY <2>3, <2>6, <3>1, <4>2, <4>3
    <3>2. CASE j # 1
      <4>1. PICK i \in 1 .. n : j = i + 1 /\ j = 1 + i /\ j \in 2 .. 1 + n
        <5>1. j - 1 \in 1 .. n /\ j = j - 1 + 1 /\ j = 1 + (j - 1) /\ j \in 2 .. 1 + n
          BY <3>2
        <5> QED BY <5>1
      <4>2. c[j] = q[j]
        BY <2>2, <2>6, <4>1
      <4>3. q[j][1] = "int"
        BY <1>2, <4>1
      <4> QED BY <4>2, <4>3 DEF Img
    <3> QED BY <3>1, <3>2
  <2>8. c = [j \in 1 .. 1 + n |-> c[j]]
    <3>1. PICK S : c \in Seq(S)
      BY <2>6 DEF IsSeq
    <3>2. c = [j \in 1 .. Len(c) |-> c[j]]
      BY <3>1, SeqDef
    <3> QED BY <2>6, <3>2
  <2>9. v = c
    BY <1>3, <1>6, <2>7, <2>8
  <2> QED BY <1>1, <1>3, <1>6, <2>1, <2>4, <2>9 DEF Local
<1> QED BY <1>5, <1>6

LEMMA DeliveredFound ==
  ASSUME NEW w, AllKnown(w.constants, w.params, w.seen), NEW mem, NEW s, Delivered(mem, s, w),
         NEW k \in DOMAIN w.params
  PROVE  Found(mem, w, k) = [i \in DOMAIN w.seen[k] |-> Local(s, w.seen[k][i])]
<1>1. PICK n \in Nat : n = Len(w.params) /\ DOMAIN w.params = 1 .. n
  BY ParamOf DEF AllKnown, Known
<1>2. PICK f \in Layings(n, w.params, w.constants) : \A i \in 1 .. n : Arrives(mem, s, w, i, f[i])
  BY <1>1 DEF Delivered
<1>3. PICK p, items : p = f[k] /\ items = w.seen[k]
  OBVIOUS
<1>4. k \in 1 .. n /\ Arrives(mem, s, w, k, p) /\ Firsts(w)[k] = p
  BY <1>1, <1>2, <1>3, FirstsAre
<1>5. items \in Seq(Arrays)
  <2>1. w.seen \in Seq(Seq(Arrays)) /\ Len(w.seen) = n
    BY <1>1 DEF AllKnown, Known
  <2> QED BY <1>3, <1>4, <2>1, ElementOfSeq
<1>6. PICK len \in Nat : len = Len(items) /\ DOMAIN items = 1 .. len
  BY <1>5, LenProperties
<1>7. PICK size : size = Size(w, k)
  OBVIOUS
<1>8. ASSUME NEW i \in 1 .. len
      PROVE  Local(s, items[i]) = [j \in 1 .. size |-> Img(s = Worker, Repr(items[i])[j])]
  <2>1. PICK o \in Arrays : o = items[i]
    BY <1>5, <1>6, ElementOfSeq
  <2>2. Size(w, k) = 1 + 2 * Rank(w.seen[k][1]) /\ Rank(w.seen[k][i]) = Rank(w.seen[k][1])
    <3>1. k \in 1 .. Len(w.params)
      BY <1>1, <1>4
    <3>2. Len(w.seen[k]) >= 1 /\ i \in DOMAIN w.seen[k]
      BY <1>3, <1>6
    <3> QED BY ONLY <3>1, <3>2, AllKnown(w.constants, w.params, w.seen), ArgsAssumption, SizeOf
  <2>3. size = 1 + 2 * Rank(o)
    BY <1>3, <1>7, <2>1, <2>2
  <2>4. Local(s, o) = [j \in 1 .. 1 + 2 * Rank(o) |-> Img(s = Worker, Repr(o)[j])]
    BY LocalWords
  <2> QED BY <2>1, <2>3, <2>4
<1>9. CASE ~IsList(w, k)
  <2>1. /\ len = 1
        /\ \A j \in 1 .. size : w.words[p + j - 1] = Img(s = Worker, Repr(items[1])[j])
    BY <1>3, <1>4, <1>6, <1>7, <1>9 DEF Arrives, IsList
  <2>2. Found(mem, w, k) = << [j \in 1 .. size |-> w.words[p + j - 1]] >>
    BY <1>4, <1>7, <1>9 DEF Found
  <2>3. [j \in 1 .. size |-> w.words[p + j - 1]] = Local(s, items[1])
    <3>1. 1 \in 1 .. len
      BY <2>1
    <3>2. Local(s, items[1]) = [j \in 1 .. size |-> Img(s = Worker, Repr(items[1])[j])]
      BY <1>8, <3>1
    <3>3. PICK x : x = items[1]
      OBVIOUS
    <3>4. \A j \in 1 .. size : w.words[p + j - 1] = Img(s = Worker, Repr(x)[j])
      BY <2>1, <3>3
    <3>5. [j \in 1 .. size |-> w.words[p + j - 1]] = [j \in 1 .. size |-> Img(s = Worker, Repr(x)[j])]
      BY <3>4
    <3> QED BY <3>2, <3>3, <3>5
  <2>4. PICK v : v = Local(s, items[1])
    OBVIOUS
  <2>5. << v >> = [i \in 1 .. 1 |-> v]
    OBVIOUS
  <2>6. [i \in 1 .. 1 |-> v] = [i \in DOMAIN items |-> Local(s, items[i])]
    BY <1>6, <2>1, <2>4
  <2> QED BY <1>3, <2>2, <2>3, <2>4, <2>5, <2>6
<1>10. CASE IsList(w, k)
  <2>1. PICK r \in w.region, a \in Nat :
          /\ w.words[p] = << "addr", r.chunk, a >> /\ w.words[p + 1] = << "int", len >>
          /\ \A i \in 1 .. len, j \in 1 .. size :
               mem[r.chunk][a + (i - 1) * size + j - 1] = Img(s = Worker, Repr(items[i])[j])
    BY <1>3, <1>4, <1>6, <1>7, <1>10 DEF Arrives, IsList
  <2>2. /\ w.words[p][1] = "addr" /\ w.words[p][2] = r.chunk /\ w.words[p][3] = a
        /\ w.words[p + 1][2] = len
    BY <2>1
  <2>3. PICK c : c = mem[r.chunk]
    OBVIOUS
  <2>4. Found(mem, w, k) = [i \in 1 .. len |-> [j \in 1 .. size |-> c[a + (i - 1) * size + j - 1]]]
    BY <1>4, <1>7, <1>10, <2>2, <2>3 DEF Found
  <2>5. ASSUME NEW i \in 1 .. len
        PROVE  [j \in 1 .. size |-> c[a + (i - 1) * size + j - 1]] = Local(s, items[i])
    <3>1. \A j \in 1 .. size : c[a + (i - 1) * size + j - 1] = Img(s = Worker, Repr(items[i])[j])
      BY <2>1, <2>3
    <3> QED BY <1>8, <3>1
  <2>6. Found(mem, w, k) = [i \in 1 .. len |-> Local(s, items[i])]
    BY <2>4, <2>5
  <2> QED BY <1>3, <1>6, <2>6
<1> QED BY <1>9, <1>10

LEMMA WordsArrive ==
  ASSUME Launched, WordsInv
  PROVE  KernelsFindTheirArguments
<1>1. SUFFICES ASSUME NEW s \in Streams, Running(s), NEW w, w = Head(queue[s]), NEW k \in DOMAIN w.params
               PROVE  /\ Found(dev, w, k) = [i \in DOMAIN w.seen[k] |-> Local(s, w.seen[k][i])]
                      /\ s = Worker => \A i \in DOMAIN w.seen[k] : Base[w.seen[k][i]][1] \in mapped
  BY DEF KernelsFindTheirArguments
<1>2. w.kernel /\ w.copied = w.copies /\ w = queue[s][1] /\ 1 \in DOMAIN queue[s]
  BY <1>1, FirstOf DEF Running
<1>3. /\ AllKnown(w.constants, w.params, w.seen) /\ EntryWords(s, w, host, dev) /\ Bounds(w.region)
  BY <1>2, EntryOf DEF WordsInv
<1>4. Delivered(dev, s, w)
  <2>1. CASE w.copied
    BY <1>3, <2>1 DEF EntryWords
  <2>2. CASE ~w.copied
    <3>1. w.region = {}
      BY <1>2, <1>3, <2>2 DEF EntryWords
    <3>2. PICK a, b : a = host /\ b = dev
      OBVIOUS
    <3>3. Delivered(a, s, w) /\ MemKept(a, b, w.region) /\ SameEntry(w, w)
      BY <1>3, <2>2, <3>1, <3>2 DEF EntryWords, MemKept, SameEntry
    <3>4. Delivered(b, s, w)
      BY ONLY <1>3, <3>3, ArgsAssumption, StillDelivered
    <3> QED BY <3>2, <3>4
  <2> QED BY <2>1, <2>2
<1>5. Found(dev, w, k) = [i \in DOMAIN w.seen[k] |-> Local(s, w.seen[k][i])]
  BY <1>3, <1>4, DeliveredFound
<1>6. ASSUME s = Worker, NEW i \in DOMAIN w.seen[k] PROVE Base[w.seen[k][i]][1] \in mapped
  <2>1. HasThem(w.seen)
    BY <1>2, <1>6 DEF WordsInv, Opened
  <2>2. k \in DOMAIN w.seen
    <3>1. /\ w.seen \in Seq(Seq(Arrays)) /\ Len(w.seen) = Len(w.params)
          /\ DOMAIN w.params = 1 .. Len(w.params)
      BY <1>3, ParamOf DEF AllKnown, Known
    <3> QED BY <3>1, LenProperties
  <2> QED BY <1>6, <2>1, <2>2 DEF HasThem
<1> QED BY <1>5, <1>6

(* Whatever is launched on which stream in between, whatever call fails,   *)
(* whatever region the allocator grants among those that are free: a       *)
(* kernel that runs finds the arrays that were read for it, at the         *)
(* addresses of its own process, which still has them open                 *)
(* (prepare_launch, stage_list_args_on_stream, launch_kernel, ipc_util.h). *)
THEOREM ArgumentsArrive == Spec => []KernelsFindTheirArguments
<1>1. Spec => [](ArgsInv /\ WordsInv)
  <2>1. Init => ArgsInv /\ WordsInv
    BY InitArgs, InitWords
  <2>2. ArgsInv /\ WordsInv /\ [Next]_vars => (ArgsInv /\ WordsInv)'
    BY NextArgs, StepWords
  <2> QED BY <2>1, <2>2, PTL DEF Spec
<1>2. ArgsInv /\ WordsInv => KernelsFindTheirArguments
  BY WordsArrive DEF ArgsInv
<1> QED BY <1>1, <1>2, PTL
=============================================================================
