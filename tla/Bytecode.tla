------------------------------ MODULE Bytecode ------------------------------
(***************************************************************************)
(* The compiler's last step: a program becomes the bytecode that is handed *)
(* to the target compiler (src/cuda/tile/_ir2bytecode.py, _bytecode/ and   *)
(* the generate_bytecode methods of the operations).  In it a variable has *)
(* no name: an operand is the number of a value, and values are numbered   *)
(* by where they are defined.  The state c of a CodeBuilder, with that of  *)
(* the BytecodeContext around it:                                          *)
(*    buf       what has been written, in words        num_ops   of the    *)
(*              current block      next_value_id    cur_debug_attr         *)
(*    debug     the attribute of every operation, the function's first     *)
(*    consts    the constant table      value_map  variable -> value id    *)
(*    abstract  the variables with an abstract location                    *)
(*    err       "" or "internal"                                           *)
(* Left out are the words on which nothing depends here: types, flags,     *)
(* rounding modes, hints, and the operands that say where a store goes.    *)
(* Integers and floats share their opcodes, as they share a ring in        *)
(* TileIR.  The last part is the other side: what the target compiler      *)
(* makes of the words.                                                     *)
(***************************************************************************)
EXTENDS TileIR

LOCAL INSTANCE SequencesExt

NoValue == -1
NoCode == [buf |-> << >>, consts |-> << >>, debug |-> << >>, num_params |-> 0]

-----------------------------------------------------------------------------
(* CodeBuilder *)

new_op(c, words, num_results) ==
  [c EXCEPT !.buf = @ \o words, !.debug = Append(@, c.cur_debug_attr),
            !.num_ops = @ + 1, !.next_value_id = @ + num_results]

\* Mutant: an operation with blocks has no location.
new_op_with_nested_blocks_NoAttr(c, words, num_blocks) ==
  [c EXCEPT !.buf = @ \o Append(words, num_blocks), !.num_ops = @ + 1]
new_op_with_nested_blocks(c, words, num_blocks) == new_op(c, Append(words, num_blocks), 0)

(* A table gives what it has not seen the next number.                     *)
dense_constant(c, x) == [c EXCEPT !.consts = IF x \in ToSet(@) THEN @ ELSE Append(@, x)]
ConstantId(c, x) == (CHOOSE i \in DOMAIN c.consts : c.consts[i] = x) - 1

-----------------------------------------------------------------------------
(* Encodings: x, y, z are value ids, xs sequences of them. *)

ComparisonPredicate == << "eq", "ne", "lt", "le", "gt", "ge" >>

encode_ConstantOp(c, val) ==
  LET d == dense_constant(c, val) IN new_op(d, << 16, ConstantId(d, val) >>, 1)
encode_AddIOp(c, x, y) == new_op(c, << 3, x, y >>, 1)
encode_SubIOp(c, x, y) == new_op(c, << 104, x, y >>, 1)
encode_MulIOp(c, x, y) == new_op(c, << 78, x, y >>, 1)
encode_MinIOp(c, x, y) == new_op(c, << 72, x, y >>, 1)
encode_MaxIOp(c, x, y) == new_op(c, << 70, x, y >>, 1)
encode_CmpIOp(c, x, y, predicate) ==
  new_op(c, << 15, (CHOOSE i \in 1 .. 6 : ComparisonPredicate[i] = predicate) - 1, x, y >>, 1)
encode_NegFOp(c, x) == new_op(c, << 79, x >>, 1)
encode_FmaOp(c, x, y, z) == new_op(c, << 40, x, y, z >>, 1)
encode_ExtIOp(c, x) == new_op(c, << 37, x >>, 1)
encode_IToFOp(c, x) == new_op(c, << 59, x >>, 1)
encode_AssumeOp(c, x, divisor) == new_op(c, << 6, divisor, x >>, 1)
encode_MakePartitionViewOp(c) == new_op(c, << 66 >>, 1)
encode_StoreViewTkoOp(c, tile, view) == new_op(c, << 102, tile, view >>, 1)
encode_StorePtrTkoOp(c, value) == new_op(c, << 101, value >>, 1)
encode_ContinueOp(c, xs) == new_op(c, << 17, 0, Len(xs) >> \o xs, 0)
encode_BreakOp(c, xs) == new_op(c, << 10, 0, Len(xs) >> \o xs, 0)
encode_YieldOp(c, xs) == new_op(c, << 109, 0, Len(xs) >> \o xs, 0)
encode_ReturnOp(c, xs) == new_op(c, << 92, 0, Len(xs) >> \o xs, 0)
encode_IfOp(c, num_results, cond) == new_op_with_nested_blocks(c, << 50, num_results, cond >>, 2)
encode_LoopOp(c, num_results, xs) ==
  new_op_with_nested_blocks(c, << 65, num_results, Len(xs) >> \o xs, 1)
encode_ForOp(c, num_results, rng, xs) ==
  new_op_with_nested_blocks(c, << 41, num_results, 3 + Len(xs) >> \o rng \o xs, 1)

-----------------------------------------------------------------------------
(* Values, and the blocks around them. *)

(* BytecodeContext: vars get the values from id on.                        *)
set_values(c, vars, id) ==
  IF \E v \in ToSet(vars) : c.value_map[v] # NoValue THEN [c EXCEPT !.err = "internal"]
  ELSE [c EXCEPT !.value_map = Bind(@, vars, [i \in DOMAIN vars |-> id + i - 1])]
Newest(c, vars) == set_values(c, vars, c.next_value_id - Len(vars))

(* new_block: the numbers of a block's values are free again after it.     *)
\* Mutant: they are not.
Restored_Not(c, d) == d.next_value_id
Restored(c, d) == c.next_value_id

begin_block(c, params) ==
  Newest([c EXCEPT !.buf = << >>, !.num_ops = 0, !.next_value_id = @ + Len(params)], params)
end_block(c, d, params) ==
  [d EXCEPT !.buf = c.buf \o << 1, Len(params), d.num_ops >> \o d.buf,
            !.num_ops = c.num_ops, !.next_value_id = Restored(c, d)]

done(c, op, num_results) ==
  IF Len(op.res) # num_results THEN [c EXCEPT !.err = "internal"]
  ELSE Newest([c EXCEPT !.next_value_id = @ + num_results], op.res)

-----------------------------------------------------------------------------
(* generate_bytecode *)

binary_arithmetic(c, fn, x, y) ==
  CASE fn = "add" -> encode_AddIOp(c, x, y) [] fn = "sub" -> encode_SubIOp(c, x, y)
    [] fn = "mul" -> encode_MulIOp(c, x, y) [] fn = "min" -> encode_MinIOp(c, x, y)
    [] fn = "max" -> encode_MaxIOp(c, x, y)

convert_dtype(c, x, to) ==
  CASE to = "bool" ->                                                  \* x # 0
         LET d == encode_ConstantOp(c, 0) IN encode_CmpIOp(d, x, d.next_value_id - 1, "ne")
    [] to = "flt" -> encode_IToFOp(c, x)
    [] OTHER -> encode_ExtIOp(c, x)

(* An operation without blocks that computes a value from the values x.    *)
Computed(c, op, x) ==
  CASE op.k = "const" -> encode_ConstantOp(c, op.val)
    [] op.k = "dummy" -> encode_ConstantOp(c, 0)
    [] op.k = "arith" -> binary_arithmetic(c, op.fn, x[1], x[2])
    [] op.k = "cmp" -> encode_CmpIOp(c, x[1], x[2], op.fn)
    [] op.k = "neg" -> encode_NegFOp(c, x[1])
    [] op.k = "fma" -> encode_FmaOp(c, x[1], x[2], x[3])
    [] op.k = "astype" -> convert_dtype(c, x[1], op.ty)
    [] op.k = "assume" -> encode_AssumeOp(c, x[1], op.val)
    [] op.k = "view" -> encode_MakePartitionViewOp(c)

(* One that computes none: a jump, a store (whose token has no reader).    *)
Effect(c, op, x) ==
  CASE op.k = "continue" -> encode_ContinueOp(c, x) [] op.k = "break" -> encode_BreakOp(c, x)
    [] op.k = "yield" -> encode_YieldOp(c, x)       [] op.k = "return" -> encode_ReturnOp(c, << >>)
    [] op.k = "store" -> encode_StoreViewTkoOp(c, x[2], x[1])
    [] op.k = "scatter" -> encode_StorePtrTkoOp(c, x[1])

(* The operations that are located where their variable is; the others are *)
(* where the call they come from is, which hir2ir retargets.  The function *)
(* of a location has to be the kernel or a copy of a helper.               *)
Concrete(op, abstract) == ~(op.k \in {"assume", "dummy"} /\ op.id \in abstract)

RECURSIVE generate_bytecode(_, _)
generate_bytecode_for_block(c, ops) ==
  FoldOver(LAMBDA d, op :
    IF d.err # "" THEN d
    ELSE IF ~Concrete(op, d.abstract) \/ \E v \in Reads(op) : d.value_map[v] = NoValue THEN [d EXCEPT !.err = "internal"]
    ELSE [generate_bytecode([d EXCEPT !.cur_debug_attr = op.id], op)
          EXCEPT !.cur_debug_attr = d.cur_debug_attr], c, ops)

generate_bytecode(c, op) ==
  LET x == [i \in DOMAIN op.ins |-> c.value_map[op.ins[i]]]
      rng == [i \in DOMAIN op.rng |-> c.value_map[op.rng[i]]]
      n == IF op.k = "loop" THEN Len(BodyVars(op)) ELSE Len(op.res)
      begun == CASE op.k = "if" -> encode_IfOp(c, n, x[1])
                 [] IsFor(op) -> encode_ForOp(c, n, rng, x)
                 [] OTHER -> encode_LoopOp(c, n, x)
      InBlock(d, body) ==
        With(generate_bytecode_for_block(begin_block(d, op.par), body),
             LAMBDA e : end_block(d, e, op.par))
  IN CASE op.k \in {"if", "loop"} ->
            With(FoldOver(InBlock, begun, op.blocks), LAMBDA d : done(d, op, n))
       [] op.k = "assign" -> set_values(c, op.res, x[1])
       [] op.k \in Jumps \cup Stores -> Effect(c, op, x)
       [] OTHER -> Newest(Computed(c, op, x), op.res)

(* A kernel: the first values are its parameters, which are the program's  *)
(* first variables.                                                        *)
generate_bytecode_for_kernel(ir, num_params) ==
  With(generate_bytecode_for_block(
         [buf |-> << >>, num_ops |-> 0, next_value_id |-> num_params, cur_debug_attr |-> 0,
          debug |-> << 0 >>, consts |-> << >>, err |-> "", abstract |-> ir.abstract,
          value_map |-> [v \in 1 .. ir.n |-> IF v <= num_params THEN v - 1 ELSE NoValue]],
         ir.ops), LAMBDA c :
    [err |-> c.err, code |-> [buf |-> c.buf, consts |-> c.consts, debug |-> c.debug,
                              num_params |-> num_params]])

-----------------------------------------------------------------------------
(* Reading it: a program of TileIR, in which the values are numbered one   *)
(* after the other, whatever their number is in the code.  The reader's    *)
(* state r: p is the next word, d the next location, vals the variables of *)
(* the values so far, n how many variables there are, ops the operations   *)
(* of the block, par and blocks those of the operation being read, and ok  *)
(* is FALSE once a word makes no sense.                                    *)

Opcode ==
  [add |-> 3, assume |-> 6, break |-> 10, cmp |-> 15, const |-> 16, continue |-> 17,
   extend |-> 37, fma |-> 40, for |-> 41, if |-> 50, to_float |-> 59, loop |-> 65,
   view |-> 66, max |-> 70, min |-> 72, mul |-> 78, neg |-> 79, return |-> 92,
   scatter |-> 101, store |-> 102, sub |-> 104, yield |-> 109]

At(seq, i) == IF i \in DOMAIN seq THEN seq[i] ELSE 0
Words(code, from, num) == [i \in 1 .. num |-> At(code.buf, from + i - 1)]
Values(r, ids) == [i \in DOMAIN ids |-> At(r.vals, ids[i] + 1)]
Numbered(r, num) == [r EXCEPT !.vals = @ \o [i \in 1 .. num |-> r.n + i], !.n = @ + num]
Named(opcode) ==
  IF \E f \in DOMAIN Opcode : Opcode[f] = opcode
  THEN CHOOSE f \in DOMAIN Opcode : Opcode[f] = opcode ELSE "unknown"

(* The words of the operation at p before its blocks: its class, how many  *)
(* of them there are, its operands, and how many blocks and values it has. *)
Header(code, p) ==
  LET f == Named(At(code.buf, p))
      Op(k, fn, val, len, ids, res) ==
        [k |-> k, fn |-> fn, val |-> val, len |-> len, ids |-> ids, rng |-> << >>,
         blocks |-> 0, res |-> res]
      w(i) == At(code.buf, p + i)
  IN CASE f = "const" -> Op("const", "", At(code.consts, w(1) + 1), 2, << >>, 1)
       [] f = "cmp" -> Op("cmp", ComparisonPredicate[(w(1) % 6) + 1], 0, 4, Words(code, p + 2, 2), 1)
       [] f = "assume" -> Op("assume", "", w(1), 3, << w(2) >>, 1)
       [] f = "fma" -> Op("fma", "", 0, 4, Words(code, p + 1, 3), 1)
       [] f \in {"neg", "extend", "to_float"} ->
            Op(IF f = "neg" THEN f ELSE "astype", "", 0, 2, << w(1) >>, 1)
       [] f = "view" -> Op("view", "", 0, 1, << >>, 1)
       [] f = "store" -> Op("store", "", 0, 3, << w(2), w(1) >>, 1)     \* a token
       [] f = "scatter" -> Op("scatter", "", 0, 2, << w(1) >>, 1)
       [] f \in Jumps -> Op(f, "", 0, 3 + w(2), Words(code, p + 3, w(2)), 0)
       [] f = "if" -> [Op("if", "", 0, 4, << w(2) >>, w(1)) EXCEPT !.blocks = 2]
       [] f = "loop" -> [Op("loop", "", 0, 4 + w(2), Words(code, p + 3, w(2)), w(1)) EXCEPT !.blocks = 1]
       [] f = "for" -> [Op("loop", "", 0, 4 + w(2), Words(code, p + 6, w(2) - 3), w(1))
                        EXCEPT !.rng = Words(code, p + 3, 3), !.blocks = 1]
       [] f = "unknown" -> Op("unknown", "", 0, 1, << >>, 0)
       [] OTHER -> Op("arith", f, 0, 3, Words(code, p + 1, 2), 1)

RECURSIVE ReadOp(_, _)
ReadBlock(code, r) ==
  LET num == At(code.buf, r.p + 1)
      in == [Numbered(r, num) EXCEPT !.p = @ + 3, !.ops = << >>]
      out == FoldOver(LAMBDA s, i : ReadOp(code, s), in, [i \in 1 .. At(code.buf, r.p + 2) |-> i])
  IN [out EXCEPT !.vals = r.vals, !.ops = r.ops, !.blocks = Append(r.blocks, out.ops),
                 !.par = [i \in 1 .. num |-> r.n + i], !.ok = @ /\ At(code.buf, r.p) = 1]

ReadOp(code, r) ==
  LET h == Header(code, r.p)
      in == [r EXCEPT !.p = @ + h.len, !.d = @ + 1, !.par = << >>, !.blocks = << >>]
      out == FoldOver(LAMBDA s, i : ReadBlock(code, s), in, [i \in 1 .. h.blocks |-> i])
      res == IF h.k \in Stores THEN << >> ELSE [i \in 1 .. h.res |-> out.n + i]
      op == [Leaf(At(code.debug, r.d), h.k, h.fn, res, Values(r, h.ids), h.val)
             EXCEPT !.rng = Values(r, h.rng), !.par = out.par, !.blocks = out.blocks]
  IN IF ~r.ok THEN r
     ELSE [Numbered(out, h.res) EXCEPT
             !.ops = Append(@, op), !.par = r.par, !.blocks = r.blocks,
             !.ok = @ /\ h.k # "unknown" /\ 0 \notin Reads(op) /\ r.d \in DOMAIN code.debug]

RECURSIVE ReadAll(_, _)
ReadAll(code, r) ==
  IF r.p > Len(code.buf) \/ ~r.ok THEN r ELSE With(ReadOp(code, r), LAMBDA s : ReadAll(code, s))
Read(code) ==
  LET params == [i \in 1 .. code.num_params |-> i]
  IN With(ReadAll(code, [p |-> 1, d |-> 2, vals |-> params, n |-> code.num_params, ops |-> << >>,
                         par |-> << >>, blocks |-> << >>, ok |-> TRUE]), LAMBDA r :
       [ops |-> r.ops, n |-> r.n, ok |-> r.ok /\ r.d = Len(code.debug) + 1])
=============================================================================
