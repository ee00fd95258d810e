--------------------------- MODULE LaunchPathProofs ---------------------------
(***************************************************************************)
(* The launch path for every number of threads, argument types, constants  *)
(* and streams.  IndInv is inductive and carries the safety properties;    *)
(* that no moved item is read follows when no argument is read by Python   *)
(* code and nothing is exported (Native).                                  *)
(***************************************************************************)
EXTENDS LaunchPath, TLAPS

\* where the kernel of the call is bound, and where the thread holds the lock
Bound == {"compile", "switch", "stage", "evaluate", "submit", "enqueue"}
Launching == {"switch", "stage", "evaluate", "submit", "enqueue"}

LockHeld == \A t \in Threads : pc[t] \in Launching => lock = t

\* A call has a helper and a request of its own.
OwnHelper ==
  \A t \in Threads :
    IF pc[t] = "idle" THEN helper[t] = NoHelper
    ELSE /\ helper[t] \in Helpers \ freeHelpers
         /\ req[t] \in Requests
         /\ \A u \in Threads \ {t} : helper[u] # helper[t]

OwnData == \A t \in Threads : pc[t] \in Bound => data[helper[t]] = req[t]

KernelsMatch ==
  \A f \in ParamKinds, c \in Constants :
    kernels[f][c] # NoKernel =>
      kernels[f][c].kinds = f /\ kernels[f][c].consts = c

\* An item that a call points at is the one of its constants, and filled.
ItemsMatch ==
  \A t \in Threads :
    /\ pc[t] \in {"switch", "stage", "evaluate"} => kernelItem[t] # NoItem
    /\ /\ pc[t] \in {"compile", "switch", "stage", "evaluate"}
       /\ kernelItem[t] # NoItem
       => /\ kernelItem[t].consts = req[t].consts
          /\ kernels[Kinds(t)][req[t].consts] # NoKernel

OpenTransactions ==
  \A s \in Streams : tx[s] # NoThread =>
    /\ lock = tx[s]
    /\ pc[tx[s]] \in {"evaluate", "submit", "enqueue", "undefined"}

OneContext ==
  \A t \in Threads :
    pc[t] \notin {"stage", "evaluate", "enqueue", "undefined"} => ctx[t] = <<>>

IndInv == /\ TypeOK /\ LockHeld /\ OwnHelper /\ OwnData
          /\ KernelsMatch /\ ItemsMatch /\ LaunchesOwnKernel
          /\ OpenTransactions /\ OneContext

-----------------------------------------------------------------------------
(* Lemmas about the operators *)

\* The fields of a request have the declared types.
LEMMA RequestFields ==
  ASSUME NEW r \in Requests
  PROVE  /\ r.types \in ArgTypes /\ r.consts \in Constants
         /\ r.stream \in Streams /\ r.lists \in BOOLEAN /\ r.export \in BOOLEAN
         /\ KindsOf[r.types] \in ParamKinds
         /\ ContextOf[r.stream] \in Contexts
         /\ r # NoRequest
BY LaunchAssumption DEF Request

\* A rehash adds one to the generation of a table.
LEMMA GrowType ==
  ASSUME NEW n, NEW gen \in Nat PROVE Grow(n, gen) \in Nat
BY DEF Grow

\* The mark for no thread is not a thread.
LEMMA NoThreadApart == \A t \in Threads : t # NoThread
BY LaunchAssumption

\* Switching from the home context pushes at most one context.
LEMMA SwitchedType ==
  ASSUME IndInv, NEW t \in Threads, pc[t] \in {"switch", "submit"}, Switched(t)
  PROVE  /\ ctx' \in [Threads -> {<<>>} \cup {<<x>> : x \in Contexts}]
         /\ \A u \in Threads \ {t} : ctx'[u] = ctx[u]
<1>1. /\ ctx[t] = <<>>
      /\ ctx \in [Threads -> {<<>>} \cup {<<x>> : x \in Contexts}]
      /\ req[t] \in Requests
  BY DEF IndInv, OneContext, TypeOK, OwnHelper
<1>2. ContextOf[req[t].stream] \in Contexts
  BY <1>1, RequestFields
<1>3. Append(<<>>, ContextOf[req[t].stream]) = <<ContextOf[req[t].stream]>>
  OBVIOUS
<1>4. ctx' = ctx \/ ctx' = [ctx EXCEPT ![t] = <<ContextOf[req[t].stream]>>]
  BY <1>1, <1>3 DEF Switched
<1> QED BY <1>1, <1>2, <1>4

-----------------------------------------------------------------------------
(* Each action preserves IndInv *)

\* The invariant holds before the first launch.
LEMMA InitIndInv == Init => IndInv
<1> SUFFICES ASSUME Init PROVE IndInv
  OBVIOUS
<1> USE DEF Init
<1>1. TypeOK  BY DEF TypeOK, Stages
<1>2. LockHeld /\ OwnHelper /\ OwnData  BY DEF LockHeld, OwnHelper, OwnData, Launching, Bound
<1>3. KernelsMatch /\ ItemsMatch  BY DEF KernelsMatch, ItemsMatch
<1>4. LaunchesOwnKernel /\ OpenTransactions /\ OneContext
  BY DEF LaunchesOwnKernel, OpenTransactions, OneContext
<1> QED BY <1>1, <1>2, <1>3, <1>4 DEF IndInv

\* Reading freed memory leaves everything else where it was.
LEMMA UndefinedIndInv ==
  ASSUME IndInv, NEW t \in Threads, pc[t] # "idle", Undefined(t)
  PROVE  IndInv'
<1> USE DEF IndInv, Undefined, Stage, tables, device
<1>1. TypeOK'  BY DEF TypeOK, Stages
<1>2. LockHeld' /\ OwnHelper' /\ OwnData'
  BY DEF TypeOK, LockHeld, OwnHelper, OwnData, Launching, Bound
<1>3. KernelsMatch'  BY DEF KernelsMatch
<1>4. ItemsMatch'  BY DEF TypeOK, ItemsMatch, Kinds
<1>5. LaunchesOwnKernel'  BY DEF TypeOK, LaunchesOwnKernel, Kinds
<1>6. OpenTransactions'  BY DEF TypeOK, OpenTransactions
<1>7. OneContext'  BY DEF TypeOK, OneContext
<1> QED BY <1>1, <1>2, <1>3, <1>4, <1>5, <1>6, <1>7

\* The end of a call, whether it failed or not.
LEMMA UnwindIndInv ==
  ASSUME IndInv, NEW t \in Threads, pc[t] # "idle", Turn(t), Unwind(t),
         UNCHANGED <<data, tables>>
  PROVE  IndInv'
<1> USE DEF IndInv, Unwind, Stage, tables
<1>0. helper[t] \in Helpers  BY DEF OwnHelper
<1>1. TypeOK'
  <2>1. ctx' \in [Threads -> {<<>>} \cup {<<x>> : x \in Contexts}]
    BY DEF TypeOK, Popped
  <2>2. tx' \in [Streams -> Threads \cup {NoThread}]
    BY DEF TypeOK, Closed
  <2> QED BY <1>0, <2>1, <2>2 DEF TypeOK, Stages
<1>2. LockHeld'
  BY NoThreadApart DEF TypeOK, LockHeld, Launching, Turn
<1>3. OwnHelper'
  BY LaunchAssumption DEF TypeOK, OwnHelper
<1>4. OwnData'  BY DEF TypeOK, OwnData, Bound
<1>5. KernelsMatch'  BY DEF KernelsMatch
<1>6. ItemsMatch'  BY DEF TypeOK, ItemsMatch, Kinds
<1>7. LaunchesOwnKernel'  BY DEF TypeOK, LaunchesOwnKernel, Kinds
<1>8. OpenTransactions'
  BY NoThreadApart DEF TypeOK, OpenTransactions, Closed, Turn
<1>9. OneContext'  BY DEF TypeOK, OneContext, Popped
<1> QED BY <1>1, <1>2, <1>3, <1>4, <1>5, <1>6, <1>7, <1>8, <1>9

\* A launch that begins keeps the invariant.
LEMMA EnterIndInv ==
  ASSUME IndInv, NEW t \in Threads, NEW r \in Requests, Enter(t, r)
  PROVE  IndInv'
<1> USE DEF IndInv, Enter, Stage, tables, device
<1>0. PICK h \in Unused : /\ helper' = [helper EXCEPT ![t] = h]
                          /\ freeHelpers' = freeHelpers \ {h}
  OBVIOUS
<1>h. h \in Helpers /\ \A u \in Threads \ {t} : helper[u] # h
  BY <1>0, LaunchAssumption DEF Unused, OwnHelper, TypeOK
<1>p. /\ pc' \in [Threads -> Stages]
      /\ pc'[t] \in {"classify", "extract"}
      /\ \A u \in Threads \ {t} : pc'[u] = pc[u]
  BY DEF TypeOK, Stages
<1>1. TypeOK'
  <2>1. lock' \in Threads \cup {NoThread}  OBVIOUS
  <2>2. profileItem' \in [Threads -> Nat]  BY DEF TypeOK
  <2> QED BY <1>0, <1>h, <1>p, <2>1, <2>2 DEF TypeOK
<1>l. \A u \in Threads : pc[u] \notin Launching
  BY NoThreadApart DEF LockHeld
<1>2. LockHeld'  BY <1>p, <1>l DEF LockHeld, Launching
<1>3. OwnHelper'
  BY <1>0, <1>h, <1>p, LaunchAssumption DEF TypeOK, OwnHelper
<1>4. OwnData'  BY <1>0, <1>p DEF TypeOK, OwnData, Bound
<1>5. KernelsMatch'  BY DEF KernelsMatch
<1>6. ItemsMatch'  BY <1>p DEF TypeOK, ItemsMatch, Kinds
<1>7. LaunchesOwnKernel'
  BY <1>0, <1>p DEF TypeOK, LaunchesOwnKernel, Kinds
<1>8. OpenTransactions'
  BY NoThreadApart DEF TypeOK, OpenTransactions
<1>9. OneContext'  BY <1>p DEF TypeOK, OneContext
<1> QED BY <1>1, <1>2, <1>3, <1>4, <1>5, <1>6, <1>7, <1>8, <1>9

\* So does looking at the arguments.
LEMMA ClassifyIndInv ==
  ASSUME IndInv, NEW t \in Threads, Classify(t)
  PROVE  IndInv'
<1> USE DEF IndInv, Classify, Stage, device
<1>r. req[t] \in Requests  BY DEF OwnHelper
<1>1. TypeOK'
  <2>1. profileGen' \in Nat  BY GrowType DEF TypeOK
  <2>2. profiles' \subseteq ArgTypes  BY <1>r, RequestFields DEF TypeOK
  <2>3. lock' \in Threads \cup {NoThread}  OBVIOUS
  <2>4. profileItem' \in [Threads -> Nat]  BY <2>1 DEF TypeOK
  <2>5. pc' \in [Threads -> Stages]  BY DEF TypeOK, Stages
  <2> QED BY <2>1, <2>2, <2>3, <2>4, <2>5 DEF TypeOK
<1>2. LockHeld'
  BY NoThreadApart DEF TypeOK, LockHeld, Launching, Turn
<1>3. OwnHelper'  BY DEF TypeOK, OwnHelper
<1>4. OwnData'  BY DEF TypeOK, OwnData, Bound
<1>5. KernelsMatch'  BY DEF KernelsMatch
<1>6. ItemsMatch'  BY DEF TypeOK, ItemsMatch, Kinds
<1>7. LaunchesOwnKernel'  BY DEF TypeOK, LaunchesOwnKernel, Kinds
<1>8. OpenTransactions'
  BY NoThreadApart DEF TypeOK, OpenTransactions, Turn
<1>9. OneContext'  BY DEF TypeOK, OneContext
<1> QED BY <1>1, <1>2, <1>3, <1>4, <1>5, <1>6, <1>7, <1>8, <1>9

\* So does reading them.
LEMMA ExtractIndInv ==
  ASSUME IndInv, NEW t \in Threads, Extract(t)
  PROVE  IndInv'
<1>1. CASE profileItem[t] # profileGen
  BY <1>1, UndefinedIndInv DEF Extract
<1>2. CASE profileItem[t] = profileGen
  <2> USE DEF IndInv, Stage, tables, device
  <2> DEFINE r == req[t]
             found == kernels[Kinds(t)][r.consts] # NoKernel
             compile == ~found \/ r.export
  <2>a. /\ pc[t] = "extract" /\ Turn(t)
        /\ data' = [data EXCEPT ![helper[t]] = r]
        /\ kernelItem' = [kernelItem EXCEPT
              ![t] = IF found THEN ItemOf(Kinds(t), r.consts) ELSE NoItem]
        /\ pc' = [pc EXCEPT ![t] = IF compile THEN "compile" ELSE "switch"]
        /\ lock' = IF compile THEN NoThread ELSE t
        /\ UNCHANGED <<req, helper, freeHelpers, profileItem, prepared,
                       tables, device>>
    BY <1>2 DEF Extract
  <2>r. /\ r \in Requests /\ helper[t] \in Helpers
        /\ \A u \in Threads \ {t} : helper[u] # helper[t]
    BY <2>a DEF OwnHelper
  <2>i. ItemOf(Kinds(t), r.consts) \in Item
    BY <2>r, RequestFields DEF ItemOf, Item, Kinds, TypeOK
  <2>p. /\ pc'[t] = IF compile THEN "compile" ELSE "switch"
        /\ \A u \in Threads \ {t} : pc'[u] = pc[u]
    BY <2>a DEF TypeOK
  <2>k. /\ kernelItem'[t] = IF found THEN ItemOf(Kinds(t), r.consts) ELSE NoItem
        /\ \A u \in Threads \ {t} : kernelItem'[u] = kernelItem[u]
    BY <2>a DEF TypeOK
  <2>1. TypeOK'
    <3>1. kernelItem' \in [Threads -> Item \cup {NoItem}]
      BY <2>a, <2>i DEF TypeOK
    <3>2. data' \in [Helpers -> Requests \cup {NoRequest}]
      BY <2>a, <2>r DEF TypeOK
    <3>3. pc' \in [Threads -> Stages]
      BY <2>a DEF TypeOK, Stages
    <3> HIDE DEF compile
    <3>4. lock' \in Threads \cup {NoThread}
      BY <2>a
    <3> QED BY <2>a, <3>1, <3>2, <3>3, <3>4 DEF TypeOK
  <2> HIDE DEF compile
  <2>2. LockHeld'
    BY <2>a, <2>p, NoThreadApart DEF LockHeld, Launching, Turn
  <2>3. OwnHelper'  BY <2>a, <2>p DEF OwnHelper
  <2>4. OwnData'
    <3> SUFFICES ASSUME NEW u \in Threads, pc'[u] \in Bound
                 PROVE  data'[helper[u]] = req[u]
      BY <2>a DEF OwnData
    <3>1. CASE u = t
      BY <3>1, <2>a, <2>r DEF TypeOK
    <3>2. CASE u # t
      <4>1. pc[u] \in Bound  BY <3>2, <2>p
      <4>2. data[helper[u]] = req[u] /\ helper[u] # helper[t]
        BY <4>1, <3>2, <2>r DEF OwnData
      <4>3. helper[u] \in Helpers
        BY <4>1 DEF OwnHelper, Bound
      <4> QED BY <4>2, <4>3, <2>a DEF TypeOK
    <3> QED BY <3>1, <3>2
  <2>5. KernelsMatch'  BY <2>a DEF KernelsMatch
  <2>6. ItemsMatch'
    <3> SUFFICES ASSUME NEW u \in Threads
                 PROVE
      /\ pc'[u] \in {"switch", "stage", "evaluate"} => kernelItem'[u] # NoItem
      /\ /\ pc'[u] \in {"compile", "switch", "stage", "evaluate"}
         /\ kernelItem'[u] # NoItem
         => /\ kernelItem'[u].consts = req[u].consts
            /\ kernels[Kinds(u)][req[u].consts] # NoKernel
      BY <2>a DEF ItemsMatch, Kinds
    <3>1. CASE u = t
      BY <3>1, <2>p, <2>k, <2>i, LaunchAssumption DEF compile, ItemOf
    <3>2. CASE u # t
      BY <3>2, <2>p, <2>k DEF ItemsMatch
    <3> QED BY <3>1, <3>2
  <2>7. LaunchesOwnKernel'
    <3> SUFFICES ASSUME NEW u \in Threads, pc'[u] \in {"submit", "enqueue"}
                 PROVE  /\ prepared[u] # NoKernel
                        /\ prepared[u].kinds = Kinds(u)
                        /\ prepared[u].consts = req[u].consts
                        /\ data'[helper[u]] = req[u]
      BY <2>a DEF LaunchesOwnKernel, Kinds
    <3>1. u # t /\ pc[u] \in {"submit", "enqueue"}
      BY <2>p
    <3>2. data'[helper[u]] = req[u]
      BY <3>1, <2>4, <2>p, <2>a DEF OwnData, Bound
    <3> QED BY <3>1, <3>2 DEF LaunchesOwnKernel
  <2>8. OpenTransactions'
    BY <2>a, <2>p, NoThreadApart DEF TypeOK, OpenTransactions, Turn
  <2>9. OneContext'  BY <2>a, <2>p DEF OneContext
  <2> QED BY <2>1, <2>2, <2>3, <2>4, <2>5, <2>6, <2>7, <2>8, <2>9
<1> QED BY <1>1, <1>2

\* The number of a second kernel tells it from the first.
LEMMA OtherKernel ==
  ASSUME NEW f \in ParamKinds, NEW c \in Constants, NEW old \in Kernel \cup {NoKernel}
  PROVE  [kinds |-> f, consts |-> c,
          id |-> IF old = NoKernel THEN 1 ELSE 3 - old.id] \in Kernel
<1>1. CASE old = NoKernel
  BY <1>1 DEF Kernel
<1>2. CASE old # NoKernel
  <2>1. old \in Kernel
    BY <1>2
  <2>2. old.id \in {1, 2}
    BY <2>1 DEF Kernel
  <2>3. 3 - old.id \in {1, 2}
    BY <2>2
  <2> QED BY <1>2, <2>3 DEF Kernel
<1> QED BY <1>1, <1>2

\* So does the end of a compilation, done or failed.
LEMMA CompiledIndInv ==
  ASSUME IndInv, NEW t \in Threads, Compiled(t)
  PROVE  IndInv'
<1> USE DEF IndInv, Stage
<1> DEFINE f == Kinds(t)
           c == req[t].consts
           old == kernels[f][c]
           k == [kinds |-> f, consts |-> c,
                 id |-> IF old = NoKernel THEN 1 ELSE 3 - old.id]
<1>r. /\ req[t] \in Requests /\ helper[t] \in Helpers
      /\ data[helper[t]] = req[t]
      /\ pc[t] = "compile" /\ Turn(t)
  BY DEF OwnHelper, OwnData, Compiled, Bound
<1>f. f \in ParamKinds /\ c \in Constants
  BY <1>r, RequestFields DEF Kinds
<1>a. /\ pc' = [pc EXCEPT ![t] = "switch"]
      /\ lock' = t
      /\ UNCHANGED <<req, helper, freeHelpers, data, profiles,
                     profileGen, profileItem, prepared, ctx, tx>>
  BY <1>r DEF Compiled, Inserted, AfterCompiled, device
<1>k. IF kernelItem[t] = NoItem
      THEN /\ kernels' = [kernels EXCEPT ![f][c] = Kept(f, c, k)]
           /\ kernelGen' = [kernelGen EXCEPT ![f] =
                IF old = NoKernel THEN Grow(NumKernels(f), @) ELSE @]
           /\ kernelItem' = [kernelItem EXCEPT ![t] =
                [gen |-> kernelGen'[f], consts |-> c]]
      ELSE UNCHANGED <<kernels, kernelGen, kernelItem>>
  BY <1>r DEF Compiled, Inserted
<1>t. kernels \in [ParamKinds -> [Constants -> Kernel \cup {NoKernel}]]
  BY DEF TypeOK
<1> HIDE DEF f, c
<1>o. old \in Kernel \cup {NoKernel} /\ k \in Kernel
  <2>1. old \in Kernel \cup {NoKernel}  BY <1>t, <1>f
  <2> QED BY <2>1, <1>f, OtherKernel
<1> HIDE DEF k
<1>j. k.kinds = f /\ k.consts = c
  BY DEF k
<1>kept. /\ Kept(f, c, k) \in Kernel
         /\ Kept(f, c, k) # NoKernel
         /\ Kept(f, c, k).kinds = f /\ Kept(f, c, k).consts = c
         /\ old # NoKernel => Kept(f, c, k) = old
  BY <1>o, <1>j, <1>f, LaunchAssumption DEF Kept, KernelsMatch
\* the map afterwards, whatever branch was taken
<1>m. /\ kernels' \in [ParamKinds -> [Constants -> Kernel \cup {NoKernel}]]
      /\ \A g \in ParamKinds, d \in Constants :
           /\ kernels[g][d] # NoKernel => kernels'[g][d] = kernels[g][d]
           /\ <<g, d>> # <<f, c>> => kernels'[g][d] = kernels[g][d]
      /\ kernelItem[t] = NoItem => kernels'[f][c] = Kept(f, c, k)
  <2>1. CASE kernelItem[t] = NoItem
    <3>1. kernels' = [kernels EXCEPT ![f][c] = Kept(f, c, k)]
      BY <2>1, <1>k
    <3>2. /\ kernels'[f][c] = Kept(f, c, k)
          /\ \A g \in ParamKinds, d \in Constants :
               <<g, d>> # <<f, c>> => kernels'[g][d] = kernels[g][d]
      BY <3>1, <1>t, <1>f
    <3>3. kernels' \in [ParamKinds -> [Constants -> Kernel \cup {NoKernel}]]
      BY <3>1, <1>t, <1>f, <1>kept
    <3> QED BY <3>2, <3>3, <1>kept
  <2>2. CASE kernelItem[t] # NoItem
    BY <2>2, <1>k, <1>t
  <2> QED BY <2>1, <2>2
<1>g. kernelGen' \in [ParamKinds -> Nat]
  <2>1. CASE kernelItem[t] = NoItem
    <3>1. kernelGen[f] \in Nat  BY <1>f DEF TypeOK
    <3>2. Grow(NumKernels(f), kernelGen[f]) \in Nat  BY <3>1, GrowType
    <3> QED BY <2>1, <1>k, <3>1, <3>2 DEF TypeOK
  <2>2. CASE kernelItem[t] # NoItem
    BY <2>2, <1>k DEF TypeOK
  <2> QED BY <2>1, <2>2
\* the item afterwards
<1>i. /\ kernelItem' \in [Threads -> Item \cup {NoItem}]
      /\ kernelItem'[t] # NoItem /\ kernelItem'[t].consts = c
      /\ kernels'[f][c] # NoKernel
      /\ \A u \in Threads \ {t} : kernelItem'[u] = kernelItem[u]
  <2>1. CASE kernelItem[t] = NoItem
    <3> DEFINE item == [gen |-> kernelGen'[f], consts |-> c]
    <3>1. item \in Item  BY <1>g, <1>f DEF Item
    <3>2. kernelItem' = [kernelItem EXCEPT ![t] = item]  BY <2>1, <1>k
    <3>3. item # NoItem  BY <3>1, LaunchAssumption
    <3>4. item.consts = c  OBVIOUS
    <3>5. kernels'[f][c] # NoKernel  BY <2>1, <1>m, <1>kept
    <3> HIDE DEF item
    <3> QED BY <3>1, <3>2, <3>3, <3>4, <3>5 DEF TypeOK
  <2>2. CASE kernelItem[t] # NoItem
    <3>1. kernelItem[t].consts = c /\ kernels[f][c] # NoKernel
      BY <2>2, <1>r DEF ItemsMatch, f, c
    <3> QED BY <2>2, <3>1, <1>k, <1>m DEF TypeOK
  <2> QED BY <2>1, <2>2
<1>1. TypeOK'
  <2>1. pc' \in [Threads -> Stages]  BY <1>a DEF TypeOK, Stages
  <2> QED BY <2>1, <1>a, <1>m, <1>g, <1>i DEF TypeOK
<1>2. LockHeld'
  BY <1>a, <1>r, NoThreadApart DEF TypeOK, LockHeld, Launching, Turn
<1>3. OwnHelper'  BY <1>a, <1>r DEF TypeOK, OwnHelper
<1>4. OwnData'  BY <1>a, <1>r DEF TypeOK, OwnData, Bound
<1>5. KernelsMatch'
  <2> SUFFICES ASSUME NEW g \in ParamKinds, NEW d \in Constants,
                      kernels'[g][d] # NoKernel
               PROVE  kernels'[g][d].kinds = g /\ kernels'[g][d].consts = d
    BY DEF KernelsMatch
  <2>1. CASE kernels'[g][d] = kernels[g][d]
    BY <2>1 DEF KernelsMatch
  <2>2. CASE kernels'[g][d] # kernels[g][d]
    <3>1. g = f /\ d = c  BY <2>2, <1>m
    <3>2. kernelItem[t] = NoItem  BY <2>2, <1>k
    <3> QED BY <3>1, <3>2, <1>m, <1>kept
  <2> QED BY <2>1, <2>2
<1>6. ItemsMatch'
  <2> SUFFICES ASSUME NEW u \in Threads
               PROVE
      /\ pc'[u] \in {"switch", "stage", "evaluate"} => kernelItem'[u] # NoItem
      /\ /\ pc'[u] \in {"compile", "switch", "stage", "evaluate"}
         /\ kernelItem'[u] # NoItem
         => /\ kernelItem'[u].consts = req[u].consts
            /\ kernels'[Kinds(u)][req[u].consts] # NoKernel
    BY <1>a DEF ItemsMatch, Kinds
  <2>1. CASE u = t
    BY <2>1, <1>i DEF f, c
  <2>2. CASE u # t
    <3>1. pc'[u] = pc[u] /\ kernelItem'[u] = kernelItem[u]
      BY <2>2, <1>a, <1>i DEF TypeOK
    <3>2. ASSUME pc[u] # "idle"
          PROVE  Kinds(u) \in ParamKinds /\ req[u].consts \in Constants
      BY <3>2, RequestFields DEF OwnHelper, Kinds
    <3> QED BY <3>1, <3>2, <1>m DEF ItemsMatch
  <2> QED BY <2>1, <2>2
<1>7. LaunchesOwnKernel'
  BY <1>a DEF TypeOK, LaunchesOwnKernel, Kinds
<1>8. OpenTransactions'
  BY <1>a, <1>r, NoThreadApart DEF TypeOK, OpenTransactions, Turn
<1>9. OneContext'  BY <1>a, <1>r DEF TypeOK, OneContext
<1> QED BY <1>1, <1>2, <1>3, <1>4, <1>5, <1>6, <1>7, <1>8, <1>9

\* A thread that pushes a context, before staging or before enqueuing.
LEMMA SwitchIndInv ==
  ASSUME IndInv, NEW t \in Threads, Switch(t) \/ SwitchAgain(t)
  PROVE  IndInv'
<1>c. /\ ctx' \in [Threads -> {<<>>} \cup {<<x>> : x \in Contexts}]
      /\ \A u \in Threads \ {t} : ctx'[u] = ctx[u]
  BY SwitchedType DEF Switch, SwitchAgain
<1> USE DEF IndInv, Stage, tables
<1>a. /\ \/ pc[t] = "switch" /\ pc' = [pc EXCEPT ![t] = "stage"]
         \/ pc[t] = "submit" /\ pc' = [pc EXCEPT ![t] = "enqueue"]
      /\ UNCHANGED <<lock, req, helper, freeHelpers, data, profileItem,
                     kernelItem, prepared, tables, tx>>
  BY DEF Switch, SwitchAgain
<1>1. TypeOK'  BY <1>a, <1>c DEF TypeOK, Stages
<1>2. LockHeld'  BY <1>a DEF TypeOK, LockHeld, Launching
<1>3. OwnHelper'  BY <1>a DEF TypeOK, OwnHelper
<1>4. OwnData'  BY <1>a DEF TypeOK, OwnData, Bound
<1>5. KernelsMatch'  BY <1>a DEF KernelsMatch
<1>6. ItemsMatch'  BY <1>a DEF TypeOK, ItemsMatch, Kinds
<1>7. LaunchesOwnKernel'  BY <1>a DEF TypeOK, LaunchesOwnKernel, Kinds
<1>8. OpenTransactions'  BY <1>a DEF TypeOK, OpenTransactions
<1>9. OneContext'  BY <1>a, <1>c DEF TypeOK, OneContext
<1> QED BY <1>1, <1>2, <1>3, <1>4, <1>5, <1>6, <1>7, <1>8, <1>9

\* So does copying the lists to staging memory.
LEMMA StageListsIndInv ==
  ASSUME IndInv, NEW t \in Threads, StageLists(t)
  PROVE  IndInv'
<1> DEFINE s == req[t].stream
           open == req[t].lists /\ ~req[t].export
<1>1. CASE open /\ tx[s] # NoThread
  BY <1>1, UndefinedIndInv DEF StageLists
<1>2. CASE ~(open /\ tx[s] # NoThread)
  <2> USE DEF IndInv, Stage, tables
  <2>a. /\ pc[t] = "stage"
        /\ tx' = IF open THEN [tx EXCEPT ![s] = t] ELSE tx
        /\ pc' = [pc EXCEPT ![t] = "evaluate"]
        /\ UNCHANGED <<lock, req, helper, freeHelpers, data,
                       profileItem, kernelItem, prepared, tables, ctx>>
    BY <1>2 DEF StageLists
  <2>s. s \in Streams  BY <2>a, RequestFields DEF OwnHelper
  <2>l. lock = t  BY <2>a DEF LockHeld, Launching
  <2>x. /\ tx' \in [Streams -> Threads \cup {NoThread}]
        /\ \A x \in Streams : tx'[x] \in {tx[x], t}
    BY <2>a, <2>s DEF TypeOK
  <2>1. TypeOK'  BY <2>a, <2>x DEF TypeOK, Stages
  <2>2. LockHeld'  BY <2>a DEF TypeOK, LockHeld, Launching
  <2>3. OwnHelper'  BY <2>a DEF TypeOK, OwnHelper
  <2>4. OwnData'  BY <2>a DEF TypeOK, OwnData, Bound
  <2>5. KernelsMatch'  BY <2>a DEF KernelsMatch
  <2>6. ItemsMatch'  BY <2>a DEF TypeOK, ItemsMatch, Kinds
  <2>7. LaunchesOwnKernel'  BY <2>a DEF TypeOK, LaunchesOwnKernel, Kinds
  <2>8. OpenTransactions'
    BY <2>a, <2>x, <2>l DEF TypeOK, OpenTransactions
  <2>9. OneContext'  BY <2>a DEF TypeOK, OneContext
  <2> QED BY <2>1, <2>2, <2>3, <2>4, <2>5, <2>6, <2>7, <2>8, <2>9
<1> QED BY <1>1, <1>2

\* The kernel that a launch takes out of the map is the one of its own call.
LEMMA EvaluateIndInv ==
  ASSUME IndInv, NEW t \in Threads, Evaluate(t)
  PROVE  IndInv'
<1>1. CASE kernelItem[t].gen # kernelGen[Kinds(t)]
  BY <1>1, UndefinedIndInv DEF Evaluate
<1>2. CASE kernelItem[t].gen = kernelGen[Kinds(t)]
  <2> USE DEF IndInv, Stage, tables
  <2> DEFINE k == kernels[Kinds(t)][kernelItem[t].consts]
  <2>a. /\ pc[t] = "evaluate"
        /\ prepared' = [prepared EXCEPT ![t] = k]
        /\ ctx' = Popped(t)
        /\ pc' = [pc EXCEPT ![t] = "submit"]
        /\ UNCHANGED <<lock, req, helper, freeHelpers, data, profileItem,
                       kernelItem, tables, tx>>
    BY <1>2 DEF Evaluate
  <2>r. /\ req[t] \in Requests
        /\ Kinds(t) \in ParamKinds /\ req[t].consts \in Constants
    BY <2>a, RequestFields DEF OwnHelper, Kinds
  <2>i. /\ kernelItem[t].consts = req[t].consts /\ k # NoKernel
    BY <2>a DEF ItemsMatch
  <2>k. /\ k \in Kernel
        /\ k.kinds = Kinds(t) /\ k.consts = req[t].consts
    BY <2>i, <2>r DEF TypeOK, KernelsMatch
  <2> HIDE DEF k
  <2>1. TypeOK'
    <3>1. prepared' \in [Threads -> Kernel \cup {NoKernel}]
      BY <2>a, <2>k DEF TypeOK
    <3>2. ctx' \in [Threads -> {<<>>} \cup {<<x>> : x \in Contexts}]
      BY <2>a DEF TypeOK, Popped
    <3> QED BY <2>a, <3>1, <3>2 DEF TypeOK, Stages
  <2>2. LockHeld'  BY <2>a DEF TypeOK, LockHeld, Launching
  <2>3. OwnHelper'  BY <2>a DEF TypeOK, OwnHelper
  <2>4. OwnData'  BY <2>a DEF TypeOK, OwnData, Bound
  <2>5. KernelsMatch'  BY <2>a DEF KernelsMatch
  <2>6. ItemsMatch'  BY <2>a DEF TypeOK, ItemsMatch, Kinds
  <2>7. LaunchesOwnKernel'
    <3> SUFFICES ASSUME NEW u \in Threads, pc'[u] \in {"submit", "enqueue"}
                 PROVE  /\ prepared'[u] # NoKernel
                        /\ prepared'[u].kinds = Kinds(u)
                        /\ prepared'[u].consts = req[u].consts
                        /\ data[helper[u]] = req[u]
      BY <2>a DEF LaunchesOwnKernel, Kinds
    <3>1. CASE u = t
      <4>1. prepared'[t] = k  BY <2>a DEF TypeOK
      <4>2. data[helper[t]] = req[t]  BY <2>a DEF OwnData, Bound
      <4> QED BY <3>1, <4>1, <4>2, <2>i, <2>k DEF k
    <3>2. CASE u # t
      BY <3>2, <2>a DEF TypeOK, LaunchesOwnKernel
    <3> QED BY <3>1, <3>2
  <2>8. OpenTransactions'  BY <2>a DEF TypeOK, OpenTransactions
  <2>9. OneContext'  BY <2>a DEF TypeOK, OneContext, Popped
  <2> QED BY <2>1, <2>2, <2>3, <2>4, <2>5, <2>6, <2>7, <2>8, <2>9
<1> QED BY <1>1, <1>2

\* A thread that launches holds the lock, so it may return.
LEMMA EndIndInv ==
  ASSUME IndInv, NEW t \in Threads, Enqueue(t) \/ Fail(t)
  PROVE  IndInv'
<1>1. CASE Enqueue(t)
  <2>1. pc[t] = "enqueue"  BY <1>1 DEF Enqueue
  <2>2. Turn(t)  BY <2>1 DEF IndInv, LockHeld, Launching, Turn
  <2> QED BY <1>1, <2>1, <2>2, UnwindIndInv DEF Enqueue
<1>2. CASE Fail(t)
  <2>1. pc[t] # "idle" /\ Turn(t)  BY <1>2 DEF Fail
  <2> QED BY <1>2, <2>1, UnwindIndInv DEF Fail
<1> QED BY <1>1, <1>2

\* Every step keeps the invariant.
LEMMA NextIndInv ==
  ASSUME IndInv, [Next]_vars
  PROVE  IndInv'
<1>1. CASE Next
  <2>1. PICK t \in Threads :
          \/ \E r \in Requests : Enter(t, r)
          \/ Work(t)
          \/ Fail(t)
    BY <1>1 DEF Next
  <2> QED BY <2>1, EnterIndInv, ClassifyIndInv, ExtractIndInv,
             CompiledIndInv, SwitchIndInv, StageListsIndInv,
             EvaluateIndInv, EndIndInv DEF Work
<1>2. CASE UNCHANGED vars
  BY <1>2 DEF vars, tables, device, IndInv, TypeOK, LockHeld, OwnHelper,
              OwnData, KernelsMatch, ItemsMatch, LaunchesOwnKernel,
              OpenTransactions, OneContext, Kinds
<1> QED BY <1>1, <1>2

-----------------------------------------------------------------------------
(* The theorems *)

\* The strengthened invariant holds in every reachable state.
THEOREM Inductive == Spec => []IndInv
BY InitIndInv, NextIndInv, PTL DEF Spec

\* Every variable keeps its type.
THEOREM TypeCorrect == Spec => []TypeOK
<1>1. IndInv => TypeOK  BY DEF IndInv
<1> QED BY <1>1, Inductive, PTL

\* A call enqueues the kernel compiled for its own arguments, with its own
\* arguments in the helper, whatever the other threads do in between.
THEOREM OwnKernel == Spec => []LaunchesOwnKernel
<1>1. IndInv => LaunchesOwnKernel  BY DEF IndInv
<1> QED BY <1>1, Inductive, PTL

\* An open transaction belongs to the thread that holds the lock.
THEOREM ClosedWithTheLock == Spec => []TransactionUnderLock
<1>1. IndInv => TransactionUnderLock
  BY DEF IndInv, OpenTransactions, TransactionUnderLock
<1> QED BY <1>1, Inductive, PTL

\* A thread has its own context back whenever it is between two calls.
THEOREM ContextsPutBack == Spec => []ContextRestored
<1>1. IndInv => ContextRestored
  BY DEF IndInv, OneContext, ContextRestored
<1> QED BY <1>1, Inductive, PTL

\* No step unloads or replaces a kernel that is in a map.
THEOREM KernelsStay == Spec => CachedKernelStays
<1> DEFINE Stays == \A f \in ParamKinds, c \in Constants :
                      kernels[f][c] # NoKernel => kernels'[f][c] = kernels[f][c]
<1>1. IndInv /\ [Next]_vars => [Stays]_vars
  <2> SUFFICES ASSUME IndInv, Next PROVE Stays
    OBVIOUS
  <2>1. PICK t \in Threads :
          \/ \E r \in Requests : Enter(t, r)
          \/ Work(t)
          \/ Fail(t)
    BY DEF Next
  <2>2. CASE Compiled(t)
    <3>1. CASE UNCHANGED kernels
      BY <3>1
    <3>2. CASE ~ UNCHANGED kernels
      <4> DEFINE f == Kinds(t)
                 c == data[helper[t]].consts
      <4>1. PICK k : kernels' = [kernels EXCEPT ![f][c] = Kept(f, c, k)]
        BY <2>2, <3>2 DEF Compiled, Inserted
      <4> HIDE DEF f, c
      <4>2. kernels \in [ParamKinds -> [Constants -> Kernel \cup {NoKernel}]]
        BY DEF IndInv, TypeOK
      <4>3. kernels[f][c] # NoKernel => Kept(f, c, k) = kernels[f][c]
        BY DEF Kept
      <4> QED BY <4>1, <4>2, <4>3
    <3> QED BY <3>1, <3>2
  <2>3. CASE ~Compiled(t)
    <3>1. UNCHANGED kernels
      BY <2>1, <2>3 DEF Work, Enter, Classify, Extract, Switch, StageLists,
                        Evaluate, SwitchAgain, Enqueue, Fail, Undefined,
                        tables
    <3> QED BY <3>1
  <2> QED BY <2>2, <2>3
<1> QED BY <1>1, Inductive, PTL DEF Spec, CachedKernelStays

-----------------------------------------------------------------------------
(* Arguments that are read without Python *)

\* nothing runs Python code but a compilation, and nothing is exported
Native == PythonTypes = {} /\ \A r \in Requests : ~r.export

\* The lock is held except while a kernel is compiled; until then, and from
\* then on, the tables whose items the thread points at do not move.
Fresh ==
  /\ NeverUndefined
  /\ \A t \in Threads :
       /\ pc[t] \in {"classify", "extract"} => lock = t
       /\ pc[t] = "extract" => profileItem[t] = profileGen
       /\ pc[t] = "compile" => kernelItem[t] = NoItem
       /\ pc[t] \in {"switch", "stage", "evaluate"} =>
            kernelItem[t].gen = kernelGen[Kinds(t)]

\* No thread points into a table at first.
LEMMA InitFresh == Init => Fresh
BY DEF Init, Fresh, NeverUndefined

\* With the lock of native code, the tables do not move under a pointer.
LEMMA NextFresh ==
  ASSUME Native, IndInv, Fresh, [Next]_vars
  PROVE  Fresh'
<1> USE NoThreadApart DEF Native, Stage
<1>t. /\ pc \in [Threads -> Stages]
      /\ kernelItem \in [Threads -> Item \cup {NoItem}]
      /\ kernelGen \in [ParamKinds -> Nat]
      /\ profileItem \in [Threads -> Nat]
  BY DEF IndInv, TypeOK
<1>l. \A u \in Threads : pc[u] \in Launching => lock = u
  BY DEF IndInv, LockHeld
<1>f. /\ \A u \in Threads : pc[u] # "undefined"
      /\ \A u \in Threads :
           /\ pc[u] \in {"classify", "extract"} => lock = u
           /\ pc[u] = "extract" => profileItem[u] = profileGen
           /\ pc[u] = "compile" => kernelItem[u] = NoItem
           /\ pc[u] \in {"switch", "stage", "evaluate"} =>
                kernelItem[u].gen = kernelGen[Kinds(u)]
  BY DEF Fresh, NeverUndefined
<1>1. CASE UNCHANGED vars
  BY <1>1, <1>f DEF vars, tables, device, Fresh, NeverUndefined, Kinds
<1>2. ASSUME NEW t \in Threads, NEW r \in Requests, Enter(t, r)
      PROVE  Fresh'
  <2>1. /\ lock = NoThread /\ lock' = t
        /\ pc'[t] \in {"classify", "extract"}
        /\ pc'[t] = "extract" => profileItem'[t] = profileGen
        /\ \A u \in Threads \ {t} : pc'[u] = pc[u]
        /\ UNCHANGED <<profileGen, kernelItem, kernelGen>>
        /\ UNCHANGED kernelItem
    BY <1>2, <1>t DEF Enter, RunsPython, tables
  <2>2. \A u \in Threads \ {t} :
          pc[u] \notin {"classify", "extract", "switch", "stage", "evaluate"}
    BY <2>1, <1>l, <1>f DEF Launching
  <2> QED BY <2>1, <2>2, <1>f DEF Fresh, NeverUndefined
<1>3. ASSUME NEW t \in Threads, Classify(t)
      PROVE  Fresh'
  <2>1. /\ pc[t] = "classify" /\ lock = t
    BY <1>3, <1>f DEF Classify
  <2>2. /\ pc' = [pc EXCEPT ![t] = "extract"] /\ lock' = t
        /\ profileItem' = [profileItem EXCEPT ![t] = profileGen']
        /\ UNCHANGED <<kernelItem, kernelGen, req>>
    BY <1>3 DEF Classify, RunsPython
  <2>3. \A u \in Threads \ {t} :
          pc[u] \notin {"classify", "extract", "switch", "stage", "evaluate"}
    BY <2>1, <1>l, <1>f DEF Launching
  <2> QED BY <2>2, <2>3, <1>t, <1>f DEF Fresh, NeverUndefined
<1>4. ASSUME NEW t \in Threads, Extract(t)
      PROVE  Fresh'
  <2>1. /\ pc[t] = "extract" /\ lock = t /\ profileItem[t] = profileGen
        /\ req[t] \in Requests
    BY <1>4, <1>f DEF Extract, IndInv, OwnHelper
  <2> DEFINE found == kernels[Kinds(t)][req[t].consts] # NoKernel
  <2>2. /\ pc' = [pc EXCEPT ![t] = IF ~found THEN "compile" ELSE "switch"]
        /\ lock' = IF ~found THEN NoThread ELSE t
        /\ kernelItem' = [kernelItem EXCEPT
              ![t] = IF found THEN ItemOf(Kinds(t), req[t].consts) ELSE NoItem]
        /\ UNCHANGED <<kernelGen, profileGen, profileItem, req>>
    BY <1>4, <2>1 DEF Extract, tables
  <2>3. ItemOf(Kinds(t), req[t].consts).gen = kernelGen[Kinds(t)]
    BY DEF ItemOf
  <2>4. \A u \in Threads \ {t} :
          pc[u] \notin {"classify", "extract", "switch", "stage", "evaluate"}
    BY <2>1, <1>l, <1>f DEF Launching
  <2>5. Kinds(t)' = Kinds(t)
    BY <2>2 DEF Kinds
  <2> HIDE DEF found
  <2>6. \A u \in Threads \ {t} :
          pc'[u] = pc[u] /\ kernelItem'[u] = kernelItem[u]
    BY <2>2, <1>t
  <2>7. /\ pc'[t] = IF ~found THEN "compile" ELSE "switch"
        /\ kernelItem'[t] = IF found THEN ItemOf(Kinds(t), req[t].consts) ELSE NoItem
    BY <2>2, <1>t
  <2> QED BY <2>2, <2>3, <2>4, <2>5, <2>6, <2>7, <1>f DEF Fresh, NeverUndefined
<1>5. ASSUME NEW t \in Threads, Compiled(t)
      PROVE  Fresh'
  <2>1. /\ pc[t] = "compile" /\ Turn(t)
        /\ kernelItem[t] = NoItem
        /\ pc' = [pc EXCEPT ![t] = "switch"] /\ lock' = t
        /\ UNCHANGED <<profileGen, profileItem, req>>
    BY <1>5, <1>f DEF Compiled, Inserted, AfterCompiled
  <2> DEFINE c == data[helper[t]].consts
  <2>2. kernelItem' = [kernelItem EXCEPT
             ![t] = [gen |-> kernelGen'[Kinds(t)], consts |-> c]]
    BY <1>5, <2>1 DEF Compiled, Inserted
  <2>3. \A u \in Threads \ {t} :
          pc[u] \notin {"classify", "extract", "switch", "stage", "evaluate"}
    BY <2>1, <1>l, <1>f DEF Launching, Turn
  <2> HIDE DEF c
  <2>4. kernelItem'[t].gen = kernelGen'[Kinds(t)]
    BY <2>2, <1>t
  <2>5. \A u \in Threads \ {t} : kernelItem'[u] = kernelItem[u]
    BY <2>2, <1>t
  <2>6. Kinds(t)' = Kinds(t)
    BY <2>1 DEF Kinds
  <2>7. pc'[t] = "switch" /\ \A u \in Threads \ {t} : pc'[u] = pc[u]
    BY <2>1, <1>t
  <2> QED BY <2>1, <2>3, <2>4, <2>5, <2>6, <2>7, <1>f DEF Fresh, NeverUndefined
\* the steps that move no table
<1>6. ASSUME NEW t \in Threads, StageLists(t)
      PROVE  Fresh'
  <2>1. pc[t] = "stage" /\ lock = t
    BY <1>6, <1>l DEF StageLists, Launching
  <2>2. req[t].stream \in Streams
    BY <2>1, RequestFields DEF IndInv, OwnHelper
  <2>3. tx[req[t].stream] = NoThread
    BY <2>1, <2>2 DEF IndInv, OpenTransactions
  <2> QED BY <1>6, <2>1, <2>3, <1>t, <1>f
          DEF StageLists, Fresh, NeverUndefined, Kinds, tables
<1>7. ASSUME NEW t \in Threads,
             Switch(t) \/ SwitchAgain(t) \/ Evaluate(t)
      PROVE  Fresh'
  BY <1>7, <1>t, <1>f DEF Switch, SwitchAgain, Evaluate, Fresh,
                          NeverUndefined, Kinds, tables
<1>8. ASSUME NEW t \in Threads, Enqueue(t) \/ Fail(t)
      PROVE  Fresh'
  <2>1. /\ pc[t] \in {"classify", "extract"} \cup Bound
        /\ pc[t] \in Launching \/ Turn(t)
        /\ Unwind(t) /\ UNCHANGED tables
    BY <1>8 DEF Enqueue, Fail, Bound, Launching
  <2>2. Turn(t)
    BY <2>1, <1>l DEF Turn
  <2>3. \A u \in Threads \ {t} :
          pc[u] \notin {"classify", "extract", "switch", "stage", "evaluate"}
    BY <2>2, <1>l, <1>f DEF Launching, Turn
  <2>4. /\ pc' = [pc EXCEPT ![t] = "idle"]
        /\ kernelItem' = [kernelItem EXCEPT ![t] = NoItem]
    BY <2>1 DEF Unwind
  <2> QED BY <2>3, <2>4, <1>t, <1>f DEF Fresh, NeverUndefined
<1> QED BY <1>1, <1>2, <1>3, <1>4, <1>5, <1>6, <1>7, <1>8 DEF Next, Work

\* When no argument is read by Python code and nothing is exported, no launch
\* ever reads an item that a rehash moved, nor meets an open transaction.
THEOREM NativeLaunchesSafe ==
  ASSUME PythonTypes = {}, \A r \in Requests : ~r.export
  PROVE  Spec => []NeverUndefined
<1>1. Native  BY DEF Native
<1>2. Fresh => NeverUndefined  BY DEF Fresh
<1>3. IndInv /\ Fresh /\ [Next]_vars => Fresh'
  BY <1>1, NextFresh
<1> QED BY <1>2, <1>3, InitFresh, Inductive, PTL DEF Spec
=============================================================================
