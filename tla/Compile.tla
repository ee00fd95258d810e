------------------------------ MODULE Compile ------------------------------
(***************************************************************************)
(* The compiler's pipeline (src/cuda/tile/_compile.py): a kernel goes      *)
(* through the two halves of the front end and then through the passes of  *)
(* _transform_ir, one step each, the data-flow analysis one step per walk. *)
(* Programs is a sequence of kernels, all with the parameters Params, and  *)
(* Inputs a set of arguments they are run with.                            *)
(***************************************************************************)
EXTENDS HirToIr, Passes, Bytecode

CONSTANTS Programs, Params, Inputs

LOCAL INSTANCE SequencesExt

VARIABLES kernel,    \* which of Programs is compiled
          stage,     \* what is done next, from "source" and "hir" to "done" (with the
                     \* passes) and "emitted"; or "failed"
          hir,       \* the front end's first result
          ir,        \* the program as it is now (Passes), with the types of its variables
          divby,     \* the data-flow predicates
          error,     \* "", "rejected" (an error of the program), "internal"
          code       \* the bytecode
vars == << kernel, stage, hir, ir, divby, error, code >>

NoIr == [ops |-> << >>, n |-> 0, ty |-> << >>, abstract |-> {}]
NoHir == [body |-> << >>, n |-> 0, err |-> ""]

Init ==
  /\ kernel \in DOMAIN Programs /\ stage = "source"
  /\ hir = NoHir /\ ir = NoIr /\ divby = << >> /\ error = "" /\ code = NoCode

GiveUp(why) ==
  /\ stage' = "failed" /\ error' = why
  /\ hir' = NoHir /\ ir' = NoIr /\ divby' = << >> /\ UNCHANGED << kernel, code >>

GetFunctionHir ==
  /\ stage = "source"
  /\ LET h == Hir(Programs[kernel])
     IN IF h.err # "" THEN GiveUp(h.err)
        ELSE hir' = h /\ stage' = "hir" /\ UNCHANGED << kernel, ir, divby, error, code >>

HirToIr ==
  /\ stage = "hir"
  /\ LET r == Ir(hir, Params)
     IN IF r.err # "" THEN GiveUp(r.err)
        ELSE /\ ir' = [ops |-> r.ops, n |-> r.n, ty |-> r.ty, abstract |-> r.abstract] /\ hir' = NoHir
             /\ stage' = "assign" /\ UNCHANGED << kernel, divby, error, code >>

(* A pass that cannot fail.  (Nothing asks for the types after it.)        *)
Pass(from, to, F(_)) ==
  /\ stage = from /\ stage' = to
  /\ ir' = LET x == F(ir) IN [ops |-> x.ops, n |-> x.n, ty |-> << >>, abstract |-> x.abstract]
  /\ UNCHANGED << kernel, hir, error, code >>

EliminateAssignOps == Pass("assign", "dce", eliminate_assign_ops) /\ UNCHANGED divby

FirstDeadCodeElimination ==
  /\ Pass("dce", "dataflow", dead_code_elimination_pass)
  /\ divby' = [v \in 1 .. ir'.n |-> IF v <= Len(Params) THEN 1 ELSE 0]

(* One walk of the analysis; the last one finds nothing new.               *)
DataflowAnalysis ==
  /\ stage = "dataflow"
  /\ divby' = Analyze(ir.ops, divby, << >>, << >>)
  /\ stage' = IF divby' = divby THEN "divby" ELSE "dataflow"
  /\ UNCHANGED << kernel, hir, ir, error, code >>

AddDivBy ==
  /\ Pass("divby", "rewrite", LAMBDA x : add_divby_pass(x, divby))
  /\ divby' = << >>

RewritePatterns == Pass("rewrite", "hoist", rewrite_patterns) /\ UNCHANGED divby

HoistLoopInvariants == Pass("hoist", "unhoist", hoist_loop_invariants) /\ UNCHANGED divby

(* Only bytecode before version 13.3 wants a view next to its use.         *)
UnhoistPartitionViews == Pass("unhoist", "split", unhoist_partition_views) /\ UNCHANGED divby
KeepPartitionViews == Pass("unhoist", "split", LAMBDA x : x) /\ UNCHANGED divby

SplitLoops ==
  /\ stage = "split"
  /\ LET s == split_loops(ir)
     IN IF s.err # "" THEN GiveUp(s.err)
        ELSE Pass("split", "dce2", LAMBDA x : s) /\ UNCHANGED divby

\* Mutant: nothing cleans up after the split.
SecondDeadCodeElimination_Skipped ==
  Pass("dce2", "done", LAMBDA x : x) /\ UNCHANGED divby
SecondDeadCodeElimination == Pass("dce2", "done", dead_code_elimination_pass) /\ UNCHANGED divby

GenerateBytecode ==
  /\ stage = "done"
  /\ LET r == generate_bytecode_for_kernel(ir, Len(Params))
     IN IF r.err # "" THEN GiveUp(r.err)
        ELSE code' = r.code /\ stage' = "emitted" /\ UNCHANGED << kernel, hir, ir, divby, error >>

Stopped == stage \in {"emitted", "failed"} /\ UNCHANGED vars

Next == \/ GetFunctionHir \/ HirToIr \/ EliminateAssignOps \/ FirstDeadCodeElimination
        \/ DataflowAnalysis \/ AddDivBy \/ RewritePatterns \/ HoistLoopInvariants
        \/ UnhoistPartitionViews \/ KeepPartitionViews \/ SplitLoops
        \/ SecondDeadCodeElimination \/ GenerateBytecode \/ Stopped

Spec == Init /\ [][Next]_vars

-----------------------------------------------------------------------------
Translated == stage \notin {"source", "hir", "emitted", "failed"}

(* After every pass the program stores what the Python function stores, in *)
(* the same order, whatever it is called with, as long as the function     *)
(* itself comes to an end: no value is read before it is computed, no      *)
(* dummy is stored or branched on, no assumption handed to the target      *)
(* compiler is false.                                                      *)
KeepsMeaning ==
  Translated =>
    \A args \in Inputs :
      LET m == Meaning(Programs[kernel], Params, args)
      IN m.end \in {"next", "return"} =>
           LET r == Run(ir, args) IN r.end = "return" /\ r.tr = m.tr

(* After every pass the program is one bytecode can be generated for: each *)
(* variable is defined once, before its uses and in a block around them,   *)
(* blocks end in jumps, and jumps carry what they have to.                 *)
WellFormed ==
  Translated => Closed(ir.ops, 1 .. Len(Params), << >>, << >>, ir.ty) /\ DefinedOnce(ir.ops)

(* The bytecode, in which operands are numbers that come from where values *)
(* are defined and are used again after a nested block, stores what the    *)
(* Python function stores when it is read back and run.                    *)
CodeKeepsMeaning ==
  stage = "emitted" =>
    LET read == Read(code)
    IN /\ read.ok
       /\ \A args \in Inputs :
            LET m == Meaning(Programs[kernel], Params, args)
            IN m.end \in {"next", "return"} =>
                 LET r == Run(read, args) IN r.end = "return" /\ r.tr = m.tr

(* The locations, a list of their own beside the words, stay in step with  *)
(* the operations: each has that of an operation of the program of which   *)
(* it is the code, or a part.                                              *)
CodeNamesItsSource ==
  stage = "emitted" =>
    LET written == Flat(ir.ops)
        read == Flat(Read(code).ops)
        Source(op) == {k \in {written[i].k : i \in {j \in DOMAIN written : written[j].id = op.id}} :
                         \/ k = op.k
                         \/ k = "dummy" /\ op.k = "const"
                         \/ k = "astype" /\ op.k \in {"const", "cmp"}}
    IN \A i \in DOMAIN read : Source(read[i]) # {}

(* Nothing the compiler is given makes one of its assertions or look-ups   *)
(* fail: a program is compiled, or refused with an error of its own.       *)
NoInternalError ==
  error \in {"", "rejected"} /\ ((error = "rejected") <=> (stage = "failed"))

(* The elimination of dead code leaves none: run once more, at the end, it *)
(* would not find an operation, a carried value or a result to remove.     *)
Size(ops) ==
  FoldOver(LAMBDA s, op : s + 1 + Len(op.res) + Len(op.ins) + Len(op.par), 0, Flat(ops))
NothingDeadIsLeft ==
  stage \in {"dataflow", "done"} => Size(dead_code_elimination_pass(ir).ops) = Size(ir.ops)

(* After code motion no loop body computes anew what does not depend on    *)
(* the loop: an operation without effect and nested blocks that stands     *)
(* directly in a loop reads something that loop defines.                   *)
InvariantsAreHoisted ==
  stage = "unhoist" =>
    LET flat == Flat(ir.ops)
    IN \A i \in DOMAIN flat : flat[i].k = "loop" =>
         LET body == flat[i].blocks[1]
             Before(j) == ToSet(flat[i].par) \cup UNION {ToSet(body[h].res) : h \in 1 .. j - 1}
         IN \A j \in DOMAIN body :
              \/ body[j].k \in Stores \cup Jumps \cup {"loop", "if"}
              \/ ToSet(body[j].ins) \cap Before(j) # {}
=============================================================================
