------------------------------ MODULE LaunchPath ------------------------------
(***************************************************************************)
(* The launch path of cext/tile_kernel.cpp: prepare_launch with its caches *)
(* of argument profiles and compiled kernels, and its three callers,       *)
(* launch, _benchmark and _export_ipc_benchmark_payload, for one kernel    *)
(* (TileDispatcher).  launch and _benchmark differ only in how the kernel  *)
(* is put on the stream and are the same request here; an export compiles  *)
(* again to capture the image, stages nothing and enqueues nothing.        *)
(*                                                                         *)
(* Every call runs under the GIL, or under g_launch_mutex in a free-       *)
(* threaded build (a critical section, which is left while the thread      *)
(* waits).  `lock' is its holder.  Wherever the C++ code calls into Python *)
(* the lock may change hands: while the type of an argument is classified, *)
(* while an array is read through a protocol written in Python, and while  *)
(* the signature is built and the kernel compiled.                         *)
(*                                                                         *)
(* find and insert of HashMap return pointers to items; an insertion that  *)
(* rehashes moves every item.  A pointer is modelled by the number of      *)
(* rehashes its table had seen when the pointer was taken.                 *)
(***************************************************************************)
EXTENDS Integers, Sequences, FiniteSets

CONSTANTS Threads, NoThread,
          ArgTypes,        \* tuples of Python types of the arguments
          ParamKinds,      \* what they are classified as
          KindsOf,         \* [ArgTypes -> ParamKinds]: classify_arg
          PythonTypes,     \* ArgTypes that are read by running Python code
          Constants,       \* values of the constants the kernel depends on
          Streams, Contexts,
          ContextOf,       \* [Streams -> Contexts]: cuStreamGetCtx
          Home,            \* [Threads -> Contexts]: current in each thread
          Requests,        \* calls the threads make
          Helpers,         \* LaunchHelper objects
          NoHelper, NoKernel, NoRequest, NoItem,
          InitialBuckets   \* kInitialBuckets

Request == [types : ArgTypes, consts : Constants, stream : Streams,
            lists : BOOLEAN,    \* some argument is a list of arrays
            export : BOOLEAN]   \* _export_ipc_benchmark_payload

\* a TileKernel: what it was compiled for; the id tells copies apart
Kernel == [kinds : ParamKinds, consts : Constants, id : {1, 2}]

Item == [gen : Nat, consts : Constants]

ASSUME LaunchAssumption ==
  /\ NoThread \notin Threads
  /\ IsFiniteSet(Threads)
  /\ IsFiniteSet(ArgTypes) /\ IsFiniteSet(Constants)
  /\ KindsOf \in [ArgTypes -> ParamKinds]
  /\ PythonTypes \subseteq ArgTypes
  /\ ContextOf \in [Streams -> Contexts]
  /\ Home \in [Threads -> Contexts]
  /\ Requests \subseteq Request
  /\ NoHelper \notin Helpers
  /\ NoKernel \notin Kernel
  /\ NoRequest \notin Request
  /\ NoItem \notin Item
  /\ IsFiniteSet(Helpers) /\ Cardinality(Threads) <= Cardinality(Helpers)
  /\ InitialBuckets \in Nat

VARIABLES
  lock,         \* holder of the GIL or of g_launch_mutex
  pc, req,      \* where each thread is, and the call it makes
  helper,       \* the LaunchHelper of each thread
  freeHelpers,  \* g_helper_freelist
  data,         \* data[h]: the call whose arguments were extracted into h
  profiles,     \* arg_profiles: the types that have a profile
  profileGen,   \* rehashes of arg_profiles
  profileItem,  \* profile_item: the generation it points into
  kernels,      \* kernels_by_constants of each family
  kernelGen,    \* rehashes of each of them
  kernelItem,   \* kernel_item: the generation and the key it points at
  prepared,     \* the kernel in the PreparedLaunch of each thread
  ctx,          \* ctx[t]: the contexts pushed on top of Home[t]
  tx            \* tx[s]: the thread with an open transaction on stream s

tables == <<profiles, profileGen, kernels, kernelGen>>
device == <<ctx, tx>>
vars == <<lock, pc, req, helper, freeHelpers, data, profileItem, kernelItem,
          prepared, tables, device>>

-----------------------------------------------------------------------------
(* HashMap: a table of n items is rehashed before an insertion when it is   *)
(* half full.                                                               *)

Full(n, gen) == n >= (InitialBuckets * 2^gen) \div 2

Grow(n, gen) == IF Full(n, gen) THEN gen + 1 ELSE gen

NumKernels(f) == Cardinality({c \in Constants : kernels[f][c] # NoKernel})

ItemOf(f, c) == [gen |-> kernelGen[f], consts |-> c]

-----------------------------------------------------------------------------
Kinds(t) == KindsOf[req[t].types]

RunsPython(r) == r.types \in PythonTypes

Turn(t) == lock \in {t, NoThread}

\* Mutant: a helper is taken from the list without being unlinked.
Unused_Shared == Helpers

\* a helper from the free list, or a new one when the list is empty
Unused == IF freeHelpers # {} THEN freeHelpers
          ELSE {h \in Helpers : \A t \in Threads : helper[t] # h}

Stage(t, at) == pc' = [pc EXCEPT ![t] = at]

\* Mutants of the destructors: a pushed context stays, or a transaction.
Popped_Not(t) == ctx
Closed_Not(t) == tx

Popped(t) == [ctx EXCEPT ![t] = <<>>]
Closed(t) == [s \in Streams |-> IF tx[s] = t THEN NoThread ELSE tx[s]]

\* the destructors of PreparedLaunch, ContextGuard and the transaction
Unwind(t) ==
  /\ Stage(t, "idle")
  /\ lock' = NoThread
  /\ helper' = [helper EXCEPT ![t] = NoHelper]
  /\ freeHelpers' = freeHelpers \cup {helper[t]}
  /\ req' = [req EXCEPT ![t] = NoRequest]
  /\ prepared' = [prepared EXCEPT ![t] = NoKernel]
  /\ profileItem' = [profileItem EXCEPT ![t] = 0]
  /\ kernelItem' = [kernelItem EXCEPT ![t] = NoItem]
  /\ ctx' = Popped(t)
  /\ tx' = Closed(t)

\* memory that was freed is read: anything may happen
Undefined(t) ==
  /\ Stage(t, "undefined")
  /\ UNCHANGED <<lock, req, helper, freeHelpers, data, profileItem,
                 kernelItem, prepared, tables, device>>

Init ==
  /\ lock = NoThread
  /\ pc = [t \in Threads |-> "idle"]
  /\ req = [t \in Threads |-> NoRequest]
  /\ helper = [t \in Threads |-> NoHelper]
  /\ freeHelpers = {}
  /\ data = [h \in Helpers |-> NoRequest]
  /\ profiles = {}
  /\ profileGen = 0
  /\ profileItem = [t \in Threads |-> 0]
  /\ kernels = [f \in ParamKinds |-> [c \in Constants |-> NoKernel]]
  /\ kernelGen = [f \in ParamKinds |-> 0]
  /\ kernelItem = [t \in Threads |-> NoItem]
  /\ prepared = [t \in Threads |-> NoKernel]
  /\ ctx = [t \in Threads |-> <<>>]
  /\ tx = [s \in Streams |-> NoThread]

-----------------------------------------------------------------------------
(* prepare_launch *)

\* launch_helper_get, flatten_pyargs, and the lookup of the profile
Enter(t, r) ==
  /\ pc[t] = "idle"
  /\ lock = NoThread
  /\ \E h \in Unused :
        /\ helper' = [helper EXCEPT ![t] = h]
        /\ freeHelpers' = freeHelpers \ {h}
  /\ req' = [req EXCEPT ![t] = r]
  /\ lock' = IF RunsPython(r) THEN NoThread ELSE t
  /\ IF r.types \in profiles
     THEN Stage(t, "extract")
          /\ profileItem' = [profileItem EXCEPT ![t] = profileGen]
     ELSE Stage(t, "classify") /\ UNCHANGED profileItem
  /\ UNCHANGED <<data, kernelItem, prepared, tables, device>>

\* the slower path: the types are classified, the family is found or made and
\* the profile is inserted, unless another thread has done so meanwhile
Classify(t) ==
  /\ pc[t] = "classify"
  /\ Turn(t)
  /\ LET r == req[t] IN
     /\ profiles' = profiles \cup {r.types}
     /\ profileGen' = IF r.types \in profiles THEN profileGen
                      ELSE Grow(Cardinality(profiles), profileGen)
     /\ lock' = IF RunsPython(r) THEN NoThread ELSE t
  /\ profileItem' = [profileItem EXCEPT ![t] = profileGen']
  /\ Stage(t, "extract")
  /\ UNCHANGED <<req, helper, freeHelpers, data, kernels, kernelGen,
                 kernelItem, prepared, device>>

\* extract_cuda_args, which reads arg_kinds in the profile after each argument,
\* and the lookup of the kernel
Extract(t) ==
  /\ pc[t] = "extract"
  /\ Turn(t)
  /\ IF profileItem[t] # profileGen
     THEN Undefined(t)
     ELSE LET r == req[t]
              found == kernels[Kinds(t)][r.consts] # NoKernel
              compile == ~found \/ r.export
          IN /\ data' = [data EXCEPT ![helper[t]] = r]
             /\ kernelItem' = [kernelItem EXCEPT
                   ![t] = IF found THEN ItemOf(Kinds(t), r.consts) ELSE NoItem]
             /\ Stage(t, IF compile THEN "compile" ELSE "switch")
             /\ lock' = IF compile THEN NoThread ELSE t
             /\ UNCHANGED <<req, helper, freeHelpers, profileItem, prepared,
                            tables, device>>

\* Mutant: a kernel that is compiled twice replaces the first.
Kept_Last(f, c, k) == k

\* HashMap::insert returns the item that is there
Kept(f, c, k) == IF kernels[f][c] = NoKernel THEN k ELSE kernels[f][c]

\* Mutant: the item's place is found before the table is made larger.
Inserted_Early(gens, f, c) == ItemOf(f, c)

\* the item HashMap::insert returns is in the table as it is afterwards
Inserted(gens, f, c) == [gen |-> gens[f], consts |-> c]

\* Mutant: a call that compiled what it had found looks it up again.
AfterCompiled_Again(t) ==
  IF kernelItem[t] # NoItem THEN "extract" ELSE "switch"

AfterCompiled(t) == "switch"

\* Python built the signature from the helper's constants and compiled it; the
\* kernel is loaded, and put in the map unless it was found there before.  A
\* kernel that is not kept is unloaded.  (kernel_map was taken before Python ran,
\* but a family never moves.)
Compiled(t) ==
  /\ pc[t] = "compile"
  /\ Turn(t)
  /\ LET f == Kinds(t)
         c == data[helper[t]].consts
         old == kernels[f][c]
         k == [kinds |-> f, consts |-> c,
               id |-> IF old = NoKernel THEN 1 ELSE 3 - old.id]
     IN /\ IF kernelItem[t] = NoItem
           THEN /\ kernels' = [kernels EXCEPT ![f][c] = Kept(f, c, k)]
                /\ kernelGen' = [kernelGen EXCEPT ![f] =
                     IF old = NoKernel THEN Grow(NumKernels(f), @) ELSE @]
                /\ kernelItem' = [kernelItem EXCEPT ![t] = Inserted(kernelGen', f, c)]
           ELSE UNCHANGED <<kernels, kernelGen, kernelItem>>
        /\ Stage(t, AfterCompiled(t))
        /\ lock' = t
        /\ UNCHANGED <<req, helper, freeHelpers, data, profiles,
                       profileGen, profileItem, prepared, device>>

\* maybe_switch_context
Switched(t) ==
  LET target == ContextOf[req[t].stream]
      current == IF ctx[t] = <<>> THEN Home[t] ELSE ctx[t][Len(ctx[t])]
  IN ctx' = IF current = target THEN ctx
            ELSE [ctx EXCEPT ![t] = Append(@, target)]

Switch(t) ==
  /\ pc[t] = "switch"
  /\ Switched(t)
  /\ Stage(t, "stage")
  /\ UNCHANGED <<lock, req, helper, freeHelpers, data, profileItem,
                 kernelItem, prepared, tables, tx>>

\* stage_list_args_on_stream: CHECK(!sb->open_transaction) aborts
StageLists(t) ==
  /\ pc[t] = "stage"
  /\ LET s == req[t].stream
         open == req[t].lists /\ ~req[t].export
     IN IF open /\ tx[s] # NoThread
        THEN Undefined(t)
        ELSE /\ tx' = IF open THEN [tx EXCEPT ![s] = t] ELSE tx
             /\ Stage(t, "evaluate")
             /\ UNCHANGED <<lock, req, helper, freeHelpers, data,
                            profileItem, kernelItem, prepared, tables, ctx>>

\* hoisted_tensor_map_encode and host_program_eval read the item of the
\* kernel; prepare_launch returns and its ContextGuard pops the context
Evaluate(t) ==
  /\ pc[t] = "evaluate"
  /\ IF kernelItem[t].gen # kernelGen[Kinds(t)]
     THEN Undefined(t)
     ELSE /\ prepared' = [prepared EXCEPT
                             ![t] = kernels[Kinds(t)][kernelItem[t].consts]]
          /\ ctx' = Popped(t)
          /\ Stage(t, "submit")
          /\ UNCHANGED <<lock, req, helper, freeHelpers, data, profileItem,
                         kernelItem, tables, tx>>

-----------------------------------------------------------------------------
(* launch, benchmark and the export *)

\* the context is switched again and the kernel enqueued, or the payload made
SwitchAgain(t) ==
  /\ pc[t] = "submit"
  /\ Switched(t)
  /\ Stage(t, "enqueue")
  /\ UNCHANGED <<lock, req, helper, freeHelpers, data, profileItem,
                 kernelItem, prepared, tables, tx>>

Enqueue(t) ==
  /\ pc[t] = "enqueue"
  /\ Unwind(t)
  /\ UNCHANGED <<data, tables>>

\* Any step that returns ErrorRaised; what was inserted stays.
Fail(t) ==
  /\ pc[t] \in {"classify", "extract", "compile", "switch", "stage",
                "evaluate", "submit", "enqueue"}
  /\ Turn(t)
  /\ Unwind(t)
  /\ UNCHANGED <<data, tables>>

-----------------------------------------------------------------------------
Work(t) == \/ Classify(t) \/ Extract(t) \/ Compiled(t)
           \/ Switch(t) \/ StageLists(t) \/ Evaluate(t)
           \/ SwitchAgain(t) \/ Enqueue(t)

Next == \E t \in Threads :
          \/ \E r \in Requests : Enter(t, r)
          \/ Work(t)
          \/ Fail(t)

Spec == Init /\ [][Next]_vars

\* A thread that waits for the lock gets it in the end (the GIL is handed
\* over on request), and calls into Python and the driver return.  No call
\* has to fail.
FairSpec == Spec /\ \A t \in Threads : SF_vars(Work(t))

-----------------------------------------------------------------------------
(* Properties *)

Stages == {"idle", "classify", "extract", "compile", "switch", "stage",
           "evaluate", "submit", "enqueue", "undefined"}

TypeOK ==
  /\ lock \in Threads \cup {NoThread}
  /\ pc \in [Threads -> Stages]
  /\ req \in [Threads -> Requests \cup {NoRequest}]
  /\ helper \in [Threads -> Helpers \cup {NoHelper}]
  /\ freeHelpers \subseteq Helpers
  /\ data \in [Helpers -> Requests \cup {NoRequest}]
  /\ profiles \subseteq ArgTypes
  /\ profileGen \in Nat
  /\ profileItem \in [Threads -> Nat]
  /\ kernels \in [ParamKinds -> [Constants -> Kernel \cup {NoKernel}]]
  /\ kernelGen \in [ParamKinds -> Nat]
  /\ kernelItem \in [Threads -> Item \cup {NoItem}]
  /\ prepared \in [Threads -> Kernel \cup {NoKernel}]
  /\ ctx \in [Threads -> {<<>>} \cup {<<x>> : x \in Contexts}]
  /\ tx \in [Streams -> Threads \cup {NoThread}]

\* A call enqueues the kernel compiled for its own arguments, with its own
\* arguments in the helper, whatever other threads launched, compiled or
\* failed to compile in between.
LaunchesOwnKernel ==
  \A t \in Threads : pc[t] \in {"submit", "enqueue"} =>
    /\ prepared[t] # NoKernel
    /\ prepared[t].kinds = Kinds(t)
    /\ prepared[t].consts = req[t].consts
    /\ data[helper[t]] = req[t]

\* No item of a table is read after a rehash moved it, and no transaction is
\* opened on a stream that has one.
NeverUndefined == \A t \in Threads : pc[t] # "undefined"

\* Between two calls, failed ones included, a thread has its own context back.
ContextRestored ==
  \A t \in Threads : pc[t] \in {"idle", "classify", "extract", "compile"} =>
    ctx[t] = <<>>

\* A transaction is open only while its thread holds the lock, so no other
\* launch, on the same stream or not, can see it open.
TransactionUnderLock ==
  \A s \in Streams : tx[s] # NoThread => lock = tx[s]

\* A kernel that has been cached is never unloaded or replaced: launches that
\* are still on a stream may be running it.
CachedKernelStays ==
  [][\A f \in ParamKinds, c \in Constants :
        kernels[f][c] # NoKernel => kernels'[f][c] = kernels[f][c]]_vars

\* Every call returns, whatever the other threads do.
EveryCallReturns ==
  \A t \in Threads : pc[t] # "idle" ~> pc[t] = "idle"
=============================================================================
