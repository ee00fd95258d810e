------------------------------ MODULE TokenOrder ------------------------------
(***************************************************************************)
(* The pass that orders memory operations by tokens,                       *)
(* cuda/tile/_passes/token_order.py.  The compiler of tiles keeps an order *)
(* between two operations only when a token leads from one to the other.   *)
(* The pass gives every operation an input token, and carries tokens       *)
(* through loops and branches.                                             *)
(*                                                                         *)
(* A behaviour is one execution of a kernel by a block, with the tokens    *)
(* that the pass has put in: a token is the set of operations that are     *)
(* done when it is there.  Every kernel is covered, because each step      *)
(* chooses the next operation; what a loop or a branch contains            *)
(* (block_memory_effects) is chosen when it begins.                        *)
(***************************************************************************)
EXTENDS Integers, Sequences, FiniteSets

CONSTANTS Groups,      \* alias groups: the bits of an alias set
          Summaries,   \* the memory effects of blocks
          MaxEvents,   \* bound: operations that are executed
          MaxDepth     \* bound: nested loops and branches

AliasSets == (SUBSET Groups) \ {{}}
Universe == Groups                          \* ALIAS_UNIVERSE
Overlap(A, B) == A \cap B # {}

LoadOrders == SUBSET {"acquire"}            \* {} is weak or relaxed
StoreOrders == SUBSET {"acquire", "release"}   \* "acquire": atomics only

\* MemoryEffects: the alias sets with an effect, those with STORE
Effects == [touched : SUBSET AliasSets, stored : SUBSET AliasSets,
            acquire : BOOLEAN]

ASSUME TokenAssumption ==
  /\ Groups # {}
  /\ Summaries \subseteq {s \in Effects : s.stored \subseteq s.touched}
  /\ MaxEvents \in Nat /\ MaxDepth \in Nat

VARIABLES
  events,   \* the operations, in the order of the program
  after,    \* after[i]: what the input token of the i-th waits for
  token,    \* token_map
  frames    \* the loops and branches that the execution is in

vars == <<events, after, token, frames>>

\* token_map: by alias set, LAST_OP and LAST_STORE, and ACQUIRE_TOKEN_KEY
TokenMap == [op : [AliasSets -> SUBSET Nat], store : [AliasSets -> SUBSET Nat],
             acquire : SUBSET Nat]

Root == [op |-> [A \in AliasSets |-> {}], store |-> [A \in AliasSets |-> {}],
         acquire |-> {}]                    \* MakeToken

Init ==
  /\ events = <<>>
  /\ after = <<>>
  /\ token = Root
  /\ frames = <<>>

-----------------------------------------------------------------------------
(* _collect_join_tokens *)

\* Mutant: a release waits for the stores only.
Released_Stores(order) ==
  IF "release" \in order THEN UNION {token.store[B] : B \in AliasSets} ELSE {}

Aliased(last, A) == UNION {last[B] : B \in {C \in AliasSets : Overlap(A, C)}}
Released(order) ==
  IF "release" \in order THEN UNION {token.op[B] : B \in AliasSets} ELSE {}

Input(last, A, order) == Aliased(last, A) \cup token.acquire \cup Released(order)

-----------------------------------------------------------------------------
(* Blocks and what they contain *)

Top == frames[Len(frames)]
Within == frames # <<>>

\* the stores of the loop that are not ordered among its iterations
ParallelSets(f) == {A \in AliasSets : f.parallel[A] # "no"}
NoParallel == [A \in AliasSets |-> "no"]

\* an operation that the block's summary speaks of
Contained(A, writes, order) ==
  Within => /\ A \in Top.touched
            /\ writes => A \in Top.stored
            /\ "acquire" \in order => Top.acquire
            /\ A \notin ParallelSets(Top)

\* a block in the block
Nested(s) ==
  Within => /\ s.touched \subseteq Top.touched
            /\ s.stored \subseteq Top.stored
            /\ s.acquire => Top.acquire
            /\ s.touched \cap ParallelSets(Top) = {}

Event(A, kind, order) ==
  [alias |-> A, kind |-> kind, order |-> order, parallel |-> FALSE, since |-> 0]

Id == Len(events) + 1

Run(event, input) ==
  /\ Len(events) < MaxEvents
  /\ events' = Append(events, event)
  /\ after' = Append(after, input)
  /\ UNCHANGED frames

-----------------------------------------------------------------------------
(* Memory operations *)

\* TileLoad, LoadPointer
Load(A, order) ==
  /\ Contained(A, FALSE, order)
  /\ LET input == Input(token.store, A, order)
     IN /\ Run(Event(A, "load", order), input)
        /\ token' = [token EXCEPT !.op[A] = @ \cup input \cup {Id},
                       !.acquire = IF "acquire" \in order
                                   THEN input \cup {Id} ELSE @]

LastOp(A, result) == result

\* TileStore, StorePointer and the atomic operations
Write(A, order) ==
  /\ Contained(A, TRUE, order)
  /\ LET input == Input(token.op, A, order)
     IN /\ Run(Event(A, "write", order), input)
        /\ token' = [token EXCEPT !.op[A] = LastOp(A, input \cup {Id}),
                       !.store[A] = input \cup {Id},
                       !.acquire = IF "acquire" \in order
                                   THEN input \cup {Id} ELSE @]

\* TilePrintf
Printf ==
  /\ Contained(Universe, TRUE, {})
  /\ LET input == Input(token.op, Universe, {})
     IN /\ Run(Event(Universe, "print", {}), input)
        /\ token' = [token EXCEPT !.op[Universe] = input \cup {Id},
                       !.store[Universe] = input \cup {Id}]

\* _try_loop_parallel_store: the one TileStore on A in the loop
ParallelStore(A) ==
  /\ Within /\ A \in ParallelSets(Top) \ Top.done
  /\ LET order == IF Top.parallel[A] = "release" THEN {"release"} ELSE {}
         input == Top.saved.op[A] \cup token.acquire
         result == token.op[A] \cup input \cup {Id}
     IN /\ Len(events) < MaxEvents
        /\ events' = Append(events,
             [alias |-> A, kind |-> "write", order |-> order, parallel |-> TRUE,
              since |-> Top.since])
        /\ after' = Append(after, input)
        /\ token' = [token EXCEPT !.op[A] = result, !.store[A] = result]
  /\ frames' = [frames EXCEPT ![Len(frames)].done = @ \cup {A}]

-----------------------------------------------------------------------------
(* Control flow *)

\* Mutants: a loop or branch loses the stores, or the acquires.
CarriesStore_Never(f, A) == FALSE
CarriesAcquire_Never(f) == FALSE

CarriesStore(f, A) == A \in f.stored
CarriesAcquire(f) == f.acquire

\* result_token_map with the tokens that _get_cf_exit_tokens hands over
Merged(f) ==
  [op |-> [A \in AliasSets |->
             IF A \in f.touched THEN token.op[A] ELSE f.saved.op[A]],
   store |-> [A \in AliasSets |->
                IF CarriesStore(f, A) THEN token.store[A] ELSE f.saved.store[A]],
   acquire |-> IF CarriesAcquire(f) THEN token.acquire ELSE f.saved.acquire]

Frame(kind, s, parallel) ==
  [kind |-> kind, touched |-> s.touched, stored |-> s.stored,
   acquire |-> s.acquire, parallel |-> parallel, done |-> {},
   saved |-> token, since |-> Len(events)]

Single(A) == A # Universe /\ Cardinality(A) = 1

\* _get_parallel_stores: for loops whose alias sets are single bits
Parallels(s) ==
  {p \in [AliasSets -> {"no", "weak", "release"}] :
     /\ \A A \in AliasSets : p[A] # "no" => A \in s.stored
     /\ p # NoParallel => \A A \in s.touched : Single(A)}

Enter(kind, s, parallel) ==
  /\ Len(frames) < MaxDepth
  /\ Nested(s)
  /\ frames' = Append(frames, Frame(kind, s, parallel))
  /\ UNCHANGED <<events, after, token>>

EnterLoop(s) == \E p \in Parallels(s) : Enter("loop", s, p)
EnterIf(s) == Enter("if", s, NoParallel)

EndBranch ==
  /\ Within /\ Top.kind = "if"
  /\ token' = Merged(Top)
  /\ frames' = SubSeq(frames, 1, Len(frames) - 1)
  /\ UNCHANGED <<events, after>>

\* the innermost loop, whose branches the execution leaves
Innermost(i) ==
  /\ frames[i].kind = "loop"
  /\ \A j \in DOMAIN frames : j > i => frames[j].kind = "if"

\* Continue, also the one at the end of the body
Continue ==
  \E i \in DOMAIN frames :
    /\ Innermost(i)
    /\ token' = Merged(frames[i])
    /\ frames' = [SubSeq(frames, 1, i) EXCEPT ![i].done = {}]
    /\ UNCHANGED <<events, after>>

\* Break, and the end of a for loop
Break ==
  \E i \in DOMAIN frames :
    /\ Innermost(i)
    /\ token' = Merged(frames[i])
    /\ frames' = SubSeq(frames, 1, i - 1)
    /\ UNCHANGED <<events, after>>

-----------------------------------------------------------------------------
Operate(A) ==
  \/ \E order \in LoadOrders : Load(A, order)
  \/ \E order \in StoreOrders : Write(A, order)
  \/ ParallelStore(A)

Next ==
  \/ \E A \in AliasSets : Operate(A)
  \/ Printf
  \/ \E s \in Summaries : EnterLoop(s) \/ EnterIf(s)
  \/ EndBranch \/ Continue \/ Break

Spec == Init /\ [][Next]_vars

-----------------------------------------------------------------------------
(* Properties *)

Events == [alias : AliasSets, kind : {"load", "write", "print"},
           order : StoreOrders, parallel : BOOLEAN, since : Nat]
Frames == [kind : {"loop", "if"}, touched : SUBSET AliasSets,
           stored : SUBSET AliasSets, acquire : BOOLEAN,
           parallel : [AliasSets -> {"no", "weak", "release"}],
           done : SUBSET AliasSets, saved : TokenMap, since : Nat]

\* A token waits for earlier operations only, and what a load has to wait for
\* a store has to wait for as well.
TypeOK ==
  /\ events \in Seq(Events)
  /\ after \in Seq(SUBSET Nat) /\ Len(after) = Len(events)
  /\ token \in TokenMap
  /\ frames \in Seq(Frames)
  /\ \A j \in DOMAIN after : after[j] \subseteq 1..(j - 1)
  /\ \A A \in AliasSets : token.store[A] \subseteq token.op[A]

\* two iterations of a loop store to different tiles
OtherTiles(d, e) == d.parallel /\ e.parallel /\ d.since = e.since

Conflict(d, e) ==
  \/ d.kind = "print" /\ e.kind = "print"
  \/ /\ d.kind # "print" /\ e.kind # "print"
     /\ "write" \in {d.kind, e.kind}
     /\ Overlap(d.alias, e.alias)
     /\ ~OtherTiles(d, e)

Pairs == {p \in (1..Len(events)) \X (1..Len(events)) : p[1] < p[2]}

\* Operations on the same data, one of them a store, stay in the order of the
\* program; and prints do.  (Of parallel stores only what the pass promises.)
ProgramOrder ==
  \A p \in Pairs :
    LET d == events[p[1]]
        e == events[p[2]]
    IN Conflict(d, e) /\ (e.parallel => d.alias = e.alias)
         => p[1] \in after[p[2]]

\* Nothing overtakes an acquire, in a loop or branch and after it.
AcquireOrder ==
  \A p \in Pairs : "acquire" \in events[p[1]].order => p[1] \in after[p[2]]

\* What comes before a release is done when it happens; a parallel store that
\* releases is not looked at.
ReleaseOrder ==
  \A p \in Pairs :
    "release" \in events[p[2]].order /\ ~events[p[2]].parallel
      => p[1] \in after[p[2]]

\* Two parameters that share an alias group may be the same memory.
AliasOrder ==
  \A p \in Pairs : Conflict(events[p[1]], events[p[2]]) => p[1] \in after[p[2]]

\* Prior reads and writes of a block are not reordered after a release.
ReleaseDocumented ==
  \A p \in Pairs : "release" \in events[p[2]].order => p[1] \in after[p[2]]

\* A parallel store waits for what any other store would wait for.
ParallelStoresWait == AliasOrder /\ ReleaseDocumented
=============================================================================
