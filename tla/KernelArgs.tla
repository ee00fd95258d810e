------------------------------ MODULE KernelArgs ------------------------------
(***************************************************************************)
(* How the arguments of a launch reach the kernel (cext/tile_kernel.cpp):  *)
(* arrays and lists of arrays are read into the words of a LaunchHelper;   *)
(* the items of lists are copied to staging memory, and from there to the  *)
(* device in the order of the stream.  An exported benchmark carries the   *)
(* words to a worker process (ipc_util.h), which puts its own addresses in *)
(* and stages the lists again.                                             *)
(*                                                                         *)
(* The staging memory is the promise of StreamBuffer; when a region is     *)
(* over, what it held is forgotten.  One call is read at a time: a thread  *)
(* that launches while another one's argument runs Python code has a       *)
(* helper of its own, and no Python code runs between opening and closing  *)
(* a transaction (LaunchPath).  The worker has its own helper too; the     *)
(* payload fills it whole, as clearing does the caller's.                  *)
(*                                                                         *)
(* A word is <<"ptr", allocation, offset>>, <<"map", allocation, offset>>  *)
(* (as mapped by the worker), <<"int", n>>, <<"size", n>>, an offset of    *)
(* the staged data, <<"item", p>>, an offset of the arena,                 *)
(* <<"addr", chunk, n>>, a staging address, or Nothing, a word that nobody *)
(* has written.                                                            *)
(***************************************************************************)
EXTENDS Integers, Sequences, FiniteSets

CONSTANTS Streams, Chunks,
          Worker,        \* the stream of the worker process
          PoolOf,        \* [Streams -> SUBSET Chunks]: each process has a pool
          ChunkWords,    \* words of a chunk
          Starts,        \* where a region may start
          MaxPending,    \* bound on the launches of a stream that are not over
          Arrays,        \* Python objects that are arrays
          DType,         \* [Arrays -> data types]
          Shape, Base,   \* [Arrays -> shapes], [Arrays -> << allocation, offset >>]
          RunsPython,    \* arrays that are read by Python code
          Divisor,       \* what pointers, shapes and strides are tested for
          Contents,      \* what the caller's list may hold
          ArgLists       \* parameters of the kernels that are launched

ASSUME ArgsAssumption ==
  /\ Worker \in Streams /\ PoolOf \in [Streams -> SUBSET Chunks]
  /\ ChunkWords \in Nat /\ Starts \subseteq Nat
  /\ MaxPending \in Nat /\ Divisor \in Nat \ {0}
  /\ \A o \in Arrays : Shape[o] \in Seq(Nat)
  /\ Contents \subseteq Seq(Arrays)
  /\ ArgLists \subseteq Seq([kind : {"array", "list"}, obj : Arrays \cup {""}, dims : Seq(Int)])
  /\ \A params \in ArgLists : \A k \in DOMAIN params :
       params[k].kind = "array" => params[k].obj \in Arrays

VARIABLES
  step,      \* what the call does next
  call,      \* the parameters, the stream, whether it is an export
  list,      \* the list the caller passes, where a parameter is a list
  at,        \* << index of the parameter, items of it that are read >>
  helper,    \* the LaunchHelper; room is the capacity of its arena
  builder,   \* the ArrayTypeConstantBuilder of the list that is read
  seen,      \* history: the arrays that were read, for each parameter
  payload,   \* the exported benchmark the worker has not taken, if any
  mapped,    \* the allocations the worker has open
  host, dev, \* the words of the staging memory, on both sides
  queue,     \* queue[s]: the launches on s that are not over
  pend, staged, inflight, cap

Memory == INSTANCE StagingMemory

memory == << pend, staged, inflight, cap >>
onDevice == << host, dev, queue, memory >>
inCall == << call, list, at, builder, seen >>
vars == << step, inCall, helper, payload, mapped, onDevice >>

-----------------------------------------------------------------------------
(* Words and vectors. *)

Rank(o) == Len(Shape[o])
Type(o) == << DType[o], Rank(o) >>
Product(ns) ==
  LET upTo[i \in 0 .. Len(ns)] == IF i = 0 THEN 1 ELSE upTo[i - 1] * ns[i] IN upTo[Len(ns)]
Strides(o) == [i \in 1 .. Rank(o) |-> Product(SubSeq(Shape[o], i + 1, Rank(o)))]
Ints(ns) == [i \in DOMAIN ns |-> << "int", ns[i] >>]

(* An array: its base pointer, its shape, its strides.                     *)
Repr(o) == << << "ptr", Base[o][1], Base[o][2] >> >> \o Ints(Shape[o]) \o Ints(Strides(o))

(* compute_array_specialization_bits: the bits that are one.               *)
Facts(o) ==
  {<< "base", 1 >> : x \in {y \in {Base[o][2]} : y % Divisor = 0}}
  \cup {<< "shape", i >> : i \in {j \in 1 .. Rank(o) : Shape[o][j] % Divisor = 0}}
  \cup {<< "stride", i >> : i \in {j \in 1 .. Rank(o) : Strides(o)[j] % Divisor = 0}}
  \cup {<< "one", i >> : i \in {j \in 1 .. Rank(o) : Strides(o)[j] = 1}}

(* A full vector grows by half at least; then its words move.              *)
Capacity(room, need) ==
  IF need <= room THEN room ELSE LET more == room + room \div 2 + 1
                                 IN IF need < more THEN more ELSE need
Push(h, words) ==
  [h EXCEPT !.arena = @ \o words, !.room = Capacity(@, Len(h.arena) + Len(words))]
push_single_word_cuarg(h, word) ==
  [Push(h, << word >>) EXCEPT !.cuargs = Append(@, Len(h.arena) + 1)]

(* extract_cuda_args clears what a call left in the helper; the arena      *)
(* keeps its room.                                                         *)
Cleared(h) == [arena |-> << >>, room |-> h.room, cuargs |-> << >>, ptrs |-> << >>,
               lists |-> << >>, total |-> 0, constants |-> << >>]

Nothing == << "none" >>
NoBuilder == [type |-> << >>, bits |-> {}, items |-> 0, len |-> 0,
              first |-> [room |-> 0, at |-> 0]]
NoCall == [params |-> << >>, stream |-> Worker, export |-> FALSE]

Init ==
  /\ step = "idle" /\ call = NoCall /\ list = << >> /\ at = << 1, 0 >>
  /\ helper = Cleared([room |-> 0]) /\ builder = NoBuilder /\ seen = << >>
  /\ payload = << >> /\ mapped = {}
  /\ host = [c \in Chunks |-> [i \in 0 .. ChunkWords - 1 |-> Nothing]] /\ dev = host
  /\ queue = [s \in Streams |-> << >>]
  /\ Memory!Init

-----------------------------------------------------------------------------
(* ArrayTypeConstantBuilder.  first is a pointer into the arena: it stays  *)
(* good as long as the arena has the same room.                            *)

Axis(d, rank) == IF d < 0 THEN d + rank ELSE d
InRange(d, rank) == Axis(d, rank) \in 0 .. rank - 1
Extent(arena, p, d, rank) == arena[p + 1 + Axis(d, rank)][2]

Started(h, o, p) == [NoBuilder EXCEPT !.type = Type(o), !.bits = Facts(o),
                                      !.first = [room |-> h.room, at |-> p]]

\* Mutant: = for &=.
Common_Newest(bits, o) == Facts(o)
Common(bits, o) == bits \cap Facts(o)

(* How reading the extents of the first array ends: "ok", "range" at an    *)
(* axis that does not exist, "undefined" when the array has moved.         *)
Walk(h, b, dims) ==
  LET Bad == {j \in DOMAIN dims : ~InRange(dims[j], b.type[2])}
  IN IF dims = << >> THEN "ok"
     ELSE IF 1 \notin Bad /\ h.room # b.first.room THEN "undefined"
     ELSE IF Bad # {} THEN "range" ELSE "ok"

SameExtents(h, b, p, dims) ==
  \A j \in DOMAIN dims : Extent(h.arena, b.first.at, dims[j], b.type[2])
                       = Extent(h.arena, p, dims[j], b.type[2])

-----------------------------------------------------------------------------
(* Reading the arguments. *)

Param == call.params[at[1]]

(* Reading an array may run Python code, which may change the list.        *)
Converted(o) == IF o \in RunsPython THEN list' \in Contents ELSE UNCHANGED list

Ends(how) == step' = how /\ UNCHANGED << call, at, helper, builder, seen >>

Returned ==
  /\ step' = "idle" /\ call' = NoCall /\ list' = << >> /\ at' = << 1, 0 >>
  /\ builder' = NoBuilder /\ seen' = << >> /\ mapped' = {}

(* finalize, and on to the next parameter.                                 *)
Finalized(h, b, saw) ==
  LET walk == Walk(h, b, Param.dims)
  IN CASE walk = "range" -> Ends("aborted")
       [] walk = "undefined" -> Ends("undefined")
       [] OTHER ->
            /\ helper' = [h EXCEPT !.constants = Append(@,
                 [type |-> b.type, bits |-> b.bits,
                  dims |-> [j \in DOMAIN Param.dims |->
                              Extent(h.arena, b.first.at, Param.dims[j], b.type[2])]])]
            /\ builder' = NoBuilder /\ seen' = saw
            /\ at' = << at[1] + 1, 0 >>
            /\ step' = IF at[1] = Len(call.params) THEN "stage" ELSE "read"
            /\ UNCHANGED call

Call ==
  /\ step = "idle"
  /\ \E params \in ArgLists, s \in Streams \ {Worker}, export \in BOOLEAN :
       /\ Len(queue[s]) < MaxPending
       /\ export => payload = << >>
       /\ call' = [params |-> params, stream |-> s, export |-> export]
       /\ IF \E k \in DOMAIN params : params[k].kind = "list"
          THEN list' \in Contents ELSE list' = << >>
       /\ step' = IF params = << >> THEN "stage" ELSE "read"
  /\ helper' = Cleared(helper)
  /\ UNCHANGED << at, builder, seen, payload, mapped, onDevice >>

extract_array ==
  /\ step = "read" /\ Param.kind = "array"
  /\ LET o == Param.obj
         p == Len(helper.arena) + 1
         h == [Push(helper, Repr(o)) EXCEPT
                 !.ptrs = Append(@, p),
                 !.cuargs = @ \o [j \in DOMAIN Repr(o) |-> p + j - 1]]
     IN Converted(o) /\ Finalized(h, Started(h, o, p), Append(seen, << o >>))
  /\ UNCHANGED << payload, mapped, onDevice >>

(* The words for a list, o its first item: the item, the offsets of all    *)
(* items, where the staged items will be, how many they are.               *)
ListWords(h, o, len) ==
  LET size == Len(Repr(o))
      p == Len(h.arena) + 1
      items == Push(Push(h, Repr(o)), [j \in 1 .. len |-> IF j = 1 THEN << "item", p >> ELSE Nothing])
      base == push_single_word_cuarg(items, << "size", h.total >>)
  IN [push_single_word_cuarg(base, << "int", len >>) EXCEPT
        !.ptrs = Append(@, p), !.total = @ + len * size,
        !.lists = Append(@, [base |-> p + size + len, len |-> len,
                             items |-> p + size, size |-> size])]

(* The length of a list is read once, before its first item.               *)
FirstItem ==
  /\ step = "read" /\ Param.kind = "list" /\ at[2] = 0 /\ list # << >>
  /\ LET o == list[1]
         p == Len(helper.arena) + 1
         h == ListWords(helper, o, Len(list))
         b == [Started(h, o, p) EXCEPT !.items = p + Len(Repr(o)), !.len = Len(list)]
     IN /\ Converted(o)
        /\ IF Len(list) = 1 THEN Finalized(h, b, Append(seen, << o >>))
           ELSE /\ helper' = h /\ builder' = b /\ seen' = Append(seen, << o >>)
                /\ at' = [at EXCEPT ![2] = 1]
                /\ UNCHANGED << step, call >>
  /\ UNCHANGED << payload, mapped, onDevice >>

(* PyList_GET_ITEM does not look at the length.                            *)
PastTheEnd ==
  /\ step = "read" /\ at[2] > 0 /\ at[2] + 1 > Len(list)
  /\ Ends("undefined") /\ UNCHANGED << list, payload, mapped, onDevice >>

\* Mutant: i <= len in the loop over the items.
IsLast_Late(i) == i > builder.len
IsLast(i) == i = builder.len

NextItem ==
  /\ step = "read" /\ at[2] > 0 /\ at[2] + 1 <= Len(list)
  /\ LET i == at[2] + 1
         o == list[i]
         p == Len(helper.arena) + 1
         h == [Push(helper, Repr(o)) EXCEPT !.ptrs = Append(@, p),
                 !.arena[builder.items + i - 1] = << "item", p >>]
         b == [builder EXCEPT !.bits = Common(@, o)]
         saw == [seen EXCEPT ![at[1]] = Append(@, o)]
         walk == Walk(h, b, Param.dims)
     IN IF \/ Type(o) # builder.type \/ walk = "range"
           \/ walk = "ok" /\ ~SameExtents(h, b, p, Param.dims)
        THEN Returned /\ helper' = h
        ELSE /\ Converted(o) /\ UNCHANGED mapped
             /\ CASE walk = "undefined" -> Ends("undefined")
                  [] walk = "ok" /\ IsLast(i) -> Finalized(h, b, saw)
                  [] OTHER ->
                       /\ helper' = h /\ builder' = b /\ seen' = saw
                       /\ at' = [at EXCEPT ![2] = i]
                       /\ UNCHANGED << step, call >>
  /\ UNCHANGED << payload, onDevice >>

(* Any of the calls on the way may fail, or refuse its argument.           *)
Raise ==
  /\ step \in {"read", "stage"} /\ Returned
  /\ UNCHANGED << helper, payload, onDevice >>

-----------------------------------------------------------------------------
(* Staging and launching. *)

(* Staging memory with the items of every list, in a region that starts at *)
(* lo; and the arena with the addresses they got.                          *)
\* Mutant: every list is copied to the start of the region.
Offset_None(h, l) == 0
Offset(h, l) == h.arena[l.base][2]
Staged(h, lo, words) ==
  [x \in DOMAIN words |->
     LET From(l) == x - lo - Offset(h, h.lists[l])
         hits == {l \in DOMAIN h.lists : From(l) \in 0 .. h.lists[l].len * h.lists[l].size - 1}
         last == CHOOSE l \in hits : \A m \in hits : m <= l
         size == h.lists[last].size
     IN IF hits = {} THEN words[x]
        ELSE h.arena[h.arena[h.lists[last].items + (From(last) \div size)][2] + (From(last) % size)]]
Patched(h, c, lo) ==
  [h EXCEPT !.arena = [x \in DOMAIN @ |->
     IF \E l \in DOMAIN h.lists : h.lists[l].base = x THEN << "addr", c, lo + @[x][2] >> ELSE @[x]]]

stage_list_args_on_stream ==
  /\ step = "stage" /\ ~call.export /\ helper.lists # << >>
  /\ \E c \in PoolOf[call.stream], lo \in Starts :
       /\ lo + helper.total <= ChunkWords
       /\ cap' = [cap EXCEPT ![c] = ChunkWords]
       /\ staged' = staged \cup {[stream |-> call.stream, chunk |-> c,
                                  lo |-> lo, hi |-> lo + helper.total]}
       /\ Memory!Grant(call.stream)
       /\ host' = [host EXCEPT ![c] = Staged(helper, lo, @)]
       /\ helper' = Patched(helper, c, lo)
  /\ step' = "launch"
  /\ UNCHANGED << inCall, payload, mapped, dev, queue >>

NothingToStage ==
  /\ step = "stage" /\ ~call.export /\ helper.lists = << >>
  /\ step' = "launch" /\ UNCHANGED << inCall, helper, payload, mapped, onDevice >>

(* cuMemcpyHtoDAsync, cuLaunchKernelEx and the end of the transaction.     *)
(* Either of the first two may fail; the transaction ends anyway.  The     *)
(* worker waits for its kernel.                                            *)
Work(regions, copies, kernel) ==
  [region |-> regions, copies |-> copies, copied |-> FALSE, kernel |-> kernel,
   params |-> call.params, seen |-> seen, constants |-> helper.constants,
   words |-> [j \in DOMAIN helper.cuargs |-> helper.arena[helper.cuargs[j]]]]
Launch ==
  /\ step = "launch"
  /\ \E copies, kernel \in BOOLEAN :
       LET s == call.stream
           mine == {r \in staged : r.stream = s}
       IN /\ IF mine = {} THEN ~copies ELSE kernel => copies
          /\ queue' = IF mine = {} /\ ~kernel THEN queue
                      ELSE [queue EXCEPT ![s] = Append(@, Work(mine, copies, kernel))]
          /\ IF mine = {} THEN UNCHANGED memory ELSE Memory!Submit(s)
          /\ IF s = Worker /\ kernel THEN step' = "wait" /\ UNCHANGED << inCall, mapped >>
             ELSE Returned
  /\ UNCHANGED << helper, payload, host, dev >>

-----------------------------------------------------------------------------
(* The device: each stream in its order. *)

Filled(mem, regions, from) ==
  [c \in Chunks |-> [x \in DOMAIN mem[c] |->
     IF \E r \in regions : r.chunk = c /\ x \in r.lo .. r.hi - 1 THEN from[c][x] ELSE mem[c][x]]]
Forgotten == [c \in Chunks |-> [x \in 0 .. ChunkWords - 1 |-> Nothing]]

Copy(s) ==
  /\ queue[s] # << >> /\ Head(queue[s]).copies /\ ~Head(queue[s]).copied
  /\ dev' = Filled(dev, Head(queue[s]).region, host)
  /\ queue' = [queue EXCEPT ![s][1].copied = TRUE]
  /\ UNCHANGED << step, inCall, helper, payload, mapped, host, memory >>

Finish(s) ==
  /\ queue[s] # << >> /\ Head(queue[s]).copied = Head(queue[s]).copies
  /\ queue' = [queue EXCEPT ![s] = Tail(@)]
  /\ host' = Filled(host, Head(queue[s]).region, Forgotten)
  /\ dev' = Filled(dev, Head(queue[s]).region, Forgotten)
  /\ IF Head(queue[s]).region = {} THEN UNCHANGED memory ELSE Memory!Finish(s)
  /\ UNCHANGED << step, inCall, helper, payload, mapped >>

-----------------------------------------------------------------------------
(* The benchmark in a worker process. *)

(* One handle for each allocation, and where in the arena it is needed.    *)
Allocations(h) == {h.arena[h.ptrs[j]][2] : j \in DOMAIN h.ptrs}
Handles(h) ==
  CHOOSE hs \in [1 .. Cardinality(Allocations(h)) -> Allocations(h)] :
    Allocations(h) = {hs[n] : n \in DOMAIN hs}
Index(hs, a) == CHOOSE n \in DOMAIN hs : hs[n] = a
Patches(h) ==
  [j \in DOMAIN h.ptrs |->
     LET w == h.arena[h.ptrs[j]]
     IN [at |-> h.ptrs[j], handle |-> Index(Handles(h), w[2]), offset |-> w[3]]]

(* The caller gives the payload away when its stream has done all its work. *)
Export ==
  /\ step = "stage" /\ call.export /\ queue[call.stream] = << >>
  /\ payload' = << [helper |-> helper, patches |-> Patches(helper), handles |-> Handles(helper),
                    params |-> call.params, seen |-> seen] >>
  /\ Returned /\ UNCHANGED << helper, onDevice >>

Import ==
  /\ step = "idle" /\ payload # << >> /\ queue[Worker] = << >>
  /\ LET p == payload[1]
         At(x) == {j \in DOMAIN p.patches : p.patches[j].at = x}
         Pointer(w) == << "map", p.handles[w.handle], w.offset >>
     IN /\ helper' = [p.helper EXCEPT !.room = helper.room, !.arena = [x \in DOMAIN @ |->
                        IF At(x) = {} THEN @[x] ELSE Pointer(p.patches[CHOOSE j \in At(x) : TRUE])]]
        /\ call' = [params |-> p.params, stream |-> Worker, export |-> FALSE]
        /\ seen' = p.seen /\ mapped' = {p.handles[n] : n \in DOMAIN p.handles}
  /\ payload' = << >> /\ step' = "stage"
  /\ UNCHANGED << list, at, builder, onDevice >>

(* The benchmark returns when its kernel is over, and closes the handles.  *)
Synchronize ==
  /\ step = "wait" /\ queue[Worker] = << >>
  /\ Returned /\ UNCHANGED << helper, payload, onDevice >>

Stopped == step \in {"undefined", "aborted"} /\ UNCHANGED vars

Next == \/ Call \/ extract_array \/ FirstItem \/ PastTheEnd \/ NextItem \/ Raise
        \/ stage_list_args_on_stream \/ NothingToStage \/ Launch
        \/ Export \/ Import \/ Synchronize
        \/ \E s \in Streams : Copy(s) \/ Finish(s)
        \/ Stopped

Spec == Init /\ [][Next]_vars

-----------------------------------------------------------------------------
(* What the kernel of a launch finds: the words of each parameter, and     *)
(* behind the pointer of a list the words of its items.                    *)

IsList(w, k) == w.params[k].kind = "list"
Size(w, k) == 1 + 2 * w.constants[k].type[2]
Width(w, k) == IF IsList(w, k) THEN 2 ELSE Size(w, k)
Firsts(w) ==
  LET first[k \in DOMAIN w.params] == IF k = 1 THEN 1 ELSE first[k - 1] + Width(w, k - 1)
  IN first
Found(mem, w, k) ==
  LET p == Firsts(w)[k]
  IN IF ~IsList(w, k) THEN << [j \in 1 .. Size(w, k) |-> w.words[p + j - 1]] >>
     ELSE IF w.words[p][1] # "addr" THEN << >>
     ELSE [i \in 1 .. w.words[p + 1][2] |->
             [j \in 1 .. Size(w, k) |->
                mem[w.words[p][2]][w.words[p][3] + (i - 1) * Size(w, k) + j - 1]]]

\* An array as the process of the stream addresses it.
Local(s, o) == IF s = Worker THEN << << "map", Base[o][1], Base[o][2] >> >> \o Tail(Repr(o))
               ELSE Repr(o)

Running(s) == queue[s] # << >> /\ Head(queue[s]).kernel
              /\ Head(queue[s]).copied = Head(queue[s]).copies

(* From the moment its lists are on the device until it is over, a kernel  *)
(* finds exactly the arrays that were read from the caller's objects, in   *)
(* the same order, whatever was launched on any stream in between, and     *)
(* whatever call failed; a kernel in the worker finds the same arrays at   *)
(* the addresses its own process has for them, and has them still.         *)
KernelsFindTheirArguments ==
  \A s \in Streams : Running(s) =>
    LET w == Head(queue[s])
    IN \A k \in DOMAIN w.params :
         /\ Found(dev, w, k) = [i \in DOMAIN w.seen[k] |-> Local(s, w.seen[k][i])]
         /\ s = Worker => \A i \in DOMAIN w.seen[k] : Base[w.seen[k][i]][1] \in mapped

(* The constants a kernel is compiled for are true of every array it is    *)
(* given: type and rank, each divisibility that was promised, and the      *)
(* static extents.                                                         *)
ConstantsAreTrue ==
  \A s \in Streams : \A n \in DOMAIN queue[s] :
    LET w == queue[s][n]
    IN \A k \in DOMAIN w.params : \A i \in DOMAIN w.seen[k] :
         LET o == w.seen[k][i]
             c == w.constants[k]
         IN /\ c.type = Type(o) /\ c.bits \subseteq Facts(o)
            /\ \A j \in DOMAIN c.dims :
                 c.dims[j] = Shape[o][Axis(w.params[k].dims[j], Rank(o)) + 1]

(* A call ends otherwise than with a launch or an exception only if Python *)
(* code shortened the list while it was read, if the next item of a list   *)
(* with static extents does not fit into the arena any more, or if a       *)
(* static axis does not exist.                                             *)
EndsAreExplained ==
  /\ step = "undefined" =>
       \/ Len(list) < builder.len
       \/ Param.dims # << >>
            /\ Len(helper.arena) + 1 + 2 * builder.type[2] > builder.first.room
  /\ step = "aborted" => \E j \in DOMAIN Param.dims, o \in Arrays :
                           ~InRange(Param.dims[j], Rank(o))
=============================================================================
