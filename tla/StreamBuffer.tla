----------------------------- MODULE StreamBuffer -----------------------------
(***************************************************************************)
(* The staging-buffer pool of cext/stream_buffer.cpp.  A launch that       *)
(* passes list arguments opens a transaction on its stream, allocates      *)
(* regions, fills them, enqueues copies and the kernel, and closes the     *)
(* transaction, which records an event on every chunk it used.  Chunks are *)
(* reused once their event has fired, without ever waiting for the device. *)
(*                                                                         *)
(* Calls are atomic: no call of this file runs Python code or releases the *)
(* lock under which it was called.  The device runs in parallel: Finish(s) *)
(* may happen between any two calls.                                       *)
(*                                                                         *)
(* Positions in a stream are relative: ev[c][s] is the number of work      *)
(* items of s that must finish before the event of chunk c fires, so an    *)
(* event that was never recorded has fired, as cuEventQuery reports it.    *)
(***************************************************************************)
EXTENDS Integers, Sequences, FiniteSets

CONSTANTS Streams,          \* CUDA streams, told apart by cuStreamGetId
          Chunks,           \* blocks of memory the driver can hand out
          Buffers,          \* StreamBuffer objects
          NoChunk, NoBuffer,\* null pointers
          Alignment,        \* kAlignment
          InitialCapacity,  \* kInitialChunkCapacity
          Ratio,            \* kMinChunkToAllocationRatio
          SizeMax,          \* SIZE_MAX
          WordBits,         \* bits of size_t, at most this many doublings
          Requests,         \* sizes the launch path asks for
          MaxPending,       \* bound: work items in flight on one stream
          DriverMayFail     \* TRUE: driver allocation may fail at any time

ASSUME StreamsAssumption == IsFiniteSet(Streams)
ASSUME ChunksAssumption == IsFiniteSet(Chunks) /\ NoChunk \notin Chunks
ASSUME BuffersAssumption ==
  /\ IsFiniteSet(Buffers)
  /\ NoBuffer \notin Buffers
  /\ Cardinality(Streams) <= Cardinality(Buffers)
ASSUME SizesAssumption ==
  /\ Alignment \in Nat \ {0}
  /\ InitialCapacity \in Nat \ {0}
  /\ Ratio \in Nat \ {0}
  /\ SizeMax \in Nat
  /\ WordBits \in Nat
  /\ InitialCapacity <= SizeMax
  /\ Requests \subseteq Nat
  /\ MaxPending \in Nat
  /\ DriverMayFail \in BOOLEAN

VARIABLES
  \* the device
  pend,      \* pend[s]: work items enqueued on s and not finished
  \* what the clients hold (history of the regions handed out)
  staged, inflight,
  \* Chunk
  cap, avail, ev,
  \* StreamBuffer
  list,      \* head .. tail
  txHead,    \* transaction_head
  open,      \* open_transaction
  \* StreamBufferPool
  curCap,    \* cur_chunk_capacity
  chunkFree, \* chunk_freelist
  bufOf,     \* stream_ids and stream_buffers: the buffer of each stream
  bufFree,   \* sb_freelist
  \* StreamBufferTransaction
  tx         \* tx[s]: sb_ of the transaction a client holds on s

vars == <<pend, staged, inflight, cap, avail, ev, list, txHead, open,
          curCap, chunkFree, bufOf, bufFree, tx>>

\* The promise speaks of the same streams and blocks; what the pool keeps beside
\* them (lists, events, transactions) is hidden.
Promise == INSTANCE StagingMemory
             WITH Streams <- Streams, Chunks <- Chunks, pend <- pend,
                  staged <- staged, inflight <- inflight, cap <- cap

-----------------------------------------------------------------------------
(* Helpers *)

InPool(b) == \E s \in Streams : bufOf[s] = b

Elems(l) == {l[i] : i \in 1..Len(l)}

Mapped == {c \in Chunks : cap[c] > 0}

Fired(c) == \A s \in Streams : ev[c][s] = 0

\* size rounded up to a multiple of kAlignment
AlignUp(n) == ((n + Alignment - 1) \div Alignment) * Alignment

\* allocate() refuses sizes whose rounding could wrap around
Fits(n) == n < SizeMax - Alignment

\* the capacity the doubling loop of allocate_chunk stops at; empty when the
\* loop gives up because the next doubling could wrap around
GrownCapacity(size) ==
  {m \in 1..SizeMax : /\ \E k \in 1..WordBits : m = curCap * 2^k
                      /\ m \div 2 < SizeMax \div 2
                      /\ m \div Ratio >= size
                      /\ (m \div 2) \div Ratio < size}

SmallRequest(size) == curCap \div Ratio >= size

\* Mutants of Pollable: the transaction head is not checked; polling always
\* leaves the tail.
Pollable_NoHead(b, i) == Fired(list[b][i])
Pollable_NotTail(b, i) ==
  list[b][i] # txHead[b] /\ Fired(list[b][i]) /\ i < Len(list[b])

\* poll_events stops at the transaction head or at the first pending event
Pollable(b, i) == list[b][i] # txHead[b] /\ Fired(list[b][i])

\* cut[b] is the number of leading chunks poll_events takes from buffer b
PollCuts ==
  {cut \in [Buffers -> 0..Cardinality(Chunks)] :
     \A b \in Buffers :
       /\ cut[b] <= Len(list[b])
       /\ \A i \in 1..cut[b] : Pollable(b, i)
       /\ cut[b] < Len(list[b]) => ~Pollable(b, cut[b] + 1)}

ListsAfter(cut) ==
  [b \in Buffers |-> SubSeq(list[b], cut[b] + 1, Len(list[b]))]

Polled(cut) == UNION {{list[b][i] : i \in 1..cut[b]} : b \in Buffers}

\* reclaim_chunk keeps chunks of the current capacity and deletes the others
Recycled(cut) == {c \in Polled(cut) : cap[c] = curCap}
Deleted(cut) == Polled(cut) \ Recycled(cut)

\* Mutants: a buffer that still has chunks, or an open transaction, is dropped.
Emptied_WithChunks(cut) == {b \in Buffers : InPool(b) /\ ~open[b]}
Emptied_WhileOpen(cut) ==
  {b \in Buffers : InPool(b) /\ ListsAfter(cut)[b] = <<>>}

\* reclaim drops the buffers that are empty and have no open transaction
Emptied(cut) ==
  {b \in Buffers : InPool(b) /\ ListsAfter(cut)[b] = <<>> /\ ~open[b]}

Unmap(deleted) == [c \in Chunks |-> IF c \in deleted THEN 0 ELSE cap[c]]

-----------------------------------------------------------------------------
(* Initial state: stream_buffer_pool_new *)

Init ==
  /\ pend = [s \in Streams |-> 0]
  /\ staged = {}
  /\ inflight = {}
  /\ cap = [c \in Chunks |-> 0]
  /\ avail = [c \in Chunks |-> 0]
  /\ ev = [c \in Chunks |-> [s \in Streams |-> 0]]
  /\ list = [b \in Buffers |-> <<>>]
  /\ txHead = [b \in Buffers |-> NoChunk]
  /\ open = [b \in Buffers |-> FALSE]
  /\ curCap = InitialCapacity
  /\ chunkFree = {}
  /\ bufOf = [s \in Streams |-> NoBuffer]
  /\ bufFree = {}
  /\ tx = [s \in Streams |-> NoBuffer]

-----------------------------------------------------------------------------
(* stream_buffer_transaction_open.  A client holds at most one transaction *)
(* on a stream, which CHECK(!sb->open_transaction) demands.                *)

Begin(s, b) ==
  /\ bufOf' = [bufOf EXCEPT ![s] = b]
  /\ open' = [open EXCEPT ![b] = TRUE]
  /\ txHead' = [txHead EXCEPT ![b] = NoChunk]
  /\ tx' = [tx EXCEPT ![s] = b]

\* the stream has a buffer
OpenExisting(s) ==
  /\ tx[s] = NoBuffer
  /\ bufOf[s] # NoBuffer
  /\ Begin(s, bufOf[s])
  /\ UNCHANGED <<pend, staged, inflight, cap, avail, ev, list, curCap,
                 chunkFree, bufFree>>

\* alloc_stream_buffer: from the free list, or a new object if that is empty
OpenNew(s) ==
  /\ tx[s] = NoBuffer
  /\ bufOf[s] = NoBuffer
  /\ \E b \in IF bufFree # {} THEN bufFree
              ELSE {x \in Buffers : ~InPool(x)} :
        /\ Begin(s, b)
        /\ bufFree' = bufFree \ {b}
        /\ list' = [list EXCEPT ![b] = <<>>]
  /\ UNCHANGED <<pend, staged, inflight, cap, avail, ev, curCap, chunkFree>>

-----------------------------------------------------------------------------
(* StreamBufferTransaction::allocate *)

TailOf(s) == LET l == list[tx[s]] IN l[Len(l)]

TailHasRoom(s, size) ==
  list[tx[s]] # <<>> /\ avail[TailOf(s)] >= size

\* hand out the last `size' of the `from' bytes of chunk c that are available
Carve(s, c, from, size) ==
  /\ avail' = [avail EXCEPT ![c] = from - size]
  /\ staged' = staged \cup {[stream |-> s, chunk |-> c,
                             lo |-> from - size, hi |-> from]}
  /\ txHead' = [txHead EXCEPT ![tx[s]] = IF @ = NoChunk THEN c ELSE @]

\* link a chunk at the end of the transaction's buffer
Link(s, c, lists) ==
  list' = [lists EXCEPT ![tx[s]] = Append(@, c)]

AllocateFromTail(s, size) ==
  /\ tx[s] # NoBuffer
  /\ TailHasRoom(s, size)
  /\ Carve(s, TailOf(s), avail[TailOf(s)], size)
  /\ UNCHANGED <<pend, inflight, cap, ev, list, open, curCap, chunkFree,
                 bufOf, bufFree, tx>>

\* allocate_chunk, fast path: the free list has a chunk
AllocateFromFreeList(s, size) ==
  /\ tx[s] # NoBuffer
  /\ ~TailHasRoom(s, size)
  /\ SmallRequest(size)
  /\ \E c \in chunkFree :
        /\ chunkFree' = chunkFree \ {c}
        /\ Link(s, c, list)
        /\ Carve(s, c, curCap, size)
  /\ UNCHANGED <<pend, inflight, cap, ev, open, curCap, bufOf, bufFree, tx>>

\* the part of reclaim that concerns the buffers
DropEmptied(cut) ==
  /\ bufOf' = [s \in Streams |->
                 IF bufOf[s] \in Emptied(cut) THEN NoBuffer ELSE bufOf[s]]
  /\ bufFree' = bufFree \cup Emptied(cut)

MustReclaim(s, size) ==
  /\ tx[s] # NoBuffer
  /\ ~TailHasRoom(s, size)
  /\ SmallRequest(size)
  /\ chunkFree = {}

\* reclaim refilled the free list
AllocateReclaimed(s, size) ==
  /\ MustReclaim(s, size)
  /\ \E cut \in PollCuts :
        /\ DropEmptied(cut)
        /\ cap' = Unmap(Deleted(cut))
        /\ \E c \in Recycled(cut) :
              /\ chunkFree' = Recycled(cut) \ {c}
              /\ Link(s, c, ListsAfter(cut))
              /\ Carve(s, c, curCap, size)
  /\ UNCHANGED <<pend, inflight, ev, open, curCap, tx>>

\* new_chunk: a block of the driver, and an event that was never recorded
MapNew(s, c, capacity, size, lists, deleted) ==
  /\ cap' = [Unmap(deleted) EXCEPT ![c] = capacity]
  /\ ev' = [ev EXCEPT ![c] = [t \in Streams |-> 0]]
  /\ Link(s, c, lists)
  /\ Carve(s, c, capacity, size)

OutOfMemory(deleted) == DriverMayFail \/ Mapped \ deleted = Chunks

\* reclaim found nothing of the current capacity: ask the driver
AllocateNew(s, size) ==
  /\ MustReclaim(s, size)
  /\ \E cut \in PollCuts :
        /\ Recycled(cut) = {}
        /\ DropEmptied(cut)
        /\ \E c \in (Chunks \ Mapped) \cup Deleted(cut) :
              MapNew(s, c, curCap, size, ListsAfter(cut), Deleted(cut))
  /\ UNCHANGED <<pend, inflight, open, curCap, chunkFree, tx>>

\* ... which fails: allocate returns a null pointer after reclaim ran
AllocateNewFails(s, size) ==
  /\ MustReclaim(s, size)
  /\ \E cut \in PollCuts :
        /\ Recycled(cut) = {}
        /\ OutOfMemory(Deleted(cut))
        /\ DropEmptied(cut)
        /\ cap' = Unmap(Deleted(cut))
        /\ list' = ListsAfter(cut)
  /\ UNCHANGED <<pend, staged, inflight, avail, ev, txHead, open, curCap,
                 chunkFree, tx>>

MustGrow(s, size) ==
  /\ tx[s] # NoBuffer
  /\ ~TailHasRoom(s, size)
  /\ ~SmallRequest(size)

\* the request is large: raise the chunk capacity and drop the free list
AllocateGrown(s, size) ==
  /\ MustGrow(s, size)
  /\ \E capacity \in GrownCapacity(size) :
        /\ curCap' = capacity
        /\ \E c \in (Chunks \ Mapped) \cup chunkFree :
              MapNew(s, c, capacity, size, list, chunkFree)
  /\ chunkFree' = {}
  /\ UNCHANGED <<pend, inflight, open, bufOf, bufFree, tx>>

\* ... and the driver fails: the capacity stays raised
AllocateGrownFails(s, size) ==
  /\ MustGrow(s, size)
  /\ OutOfMemory(chunkFree)
  /\ curCap' \in GrownCapacity(size)
  /\ cap' = Unmap(chunkFree)
  /\ chunkFree' = {}
  /\ UNCHANGED <<pend, staged, inflight, avail, ev, list, txHead, open,
                 bufOf, bufFree, tx>>

\* A request that does not fit, or whose growth would overflow, changes nothing.
Allocate(s) ==
  \E size \in {AlignUp(n) : n \in {x \in Requests : Fits(x)}} :
     \/ AllocateFromTail(s, size)
     \/ AllocateFromFreeList(s, size)
     \/ AllocateReclaimed(s, size)
     \/ AllocateNew(s, size)
     \/ AllocateNewFails(s, size)
     \/ AllocateGrown(s, size)
     \/ AllocateGrownFails(s, size)

-----------------------------------------------------------------------------
(* StreamBufferTransaction::close.  The copies and the kernel that read    *)
(* the regions were enqueued while the transaction was open; they are one  *)
(* work item of the stream, and the events are recorded behind it.         *)

\* Mutant: only the event of the last chunk is recorded.
Used_TailOnly(b) ==
  IF txHead[b] = NoChunk THEN {} ELSE {list[b][Len(list[b])]}

\* the chunks from the transaction head to the tail
Used(b) ==
  {c \in Chunks : \E i, j \in 1..Len(list[b]) :
                    i <= j /\ list[b][i] = txHead[b] /\ list[b][j] = c}

Close(s) ==
  LET b == tx[s]
      now == pend[s] + 1
  IN /\ b # NoBuffer
     /\ pend[s] < MaxPending
     /\ pend' = [pend EXCEPT ![s] = now]
     /\ ev' = [c \in Chunks |->
                 IF c \in Used(b)
                 THEN [t \in Streams |-> IF t = s THEN now ELSE 0]
                 ELSE ev[c]]
     /\ staged' = {r \in staged : r.stream # s}
     /\ inflight' = inflight \cup
          {[stream |-> s, chunk |-> r.chunk, lo |-> r.lo, hi |-> r.hi,
            left |-> now] : r \in {q \in staged : q.stream = s}}
     /\ open' = [open EXCEPT ![b] = FALSE]
     /\ txHead' = [txHead EXCEPT ![b] = NoChunk]
     /\ tx' = [tx EXCEPT ![s] = NoBuffer]
     /\ UNCHANGED <<cap, avail, list, curCap, chunkFree, bufOf, bufFree>>

\* The device finishes the oldest work item of s (not in the source).
Finish(s) ==
  /\ pend[s] > 0
  /\ pend' = [pend EXCEPT ![s] = @ - 1]
  /\ ev' = [c \in Chunks |->
              [ev[c] EXCEPT ![s] = IF @ > 0 THEN @ - 1 ELSE 0]]
  /\ inflight' = {r \in inflight : r.stream # s} \cup
       {[r EXCEPT !.left = @ - 1] :
            r \in {q \in inflight : q.stream = s /\ q.left > 1}}
  /\ UNCHANGED <<staged, cap, avail, list, txHead, open, curCap, chunkFree,
                 bufOf, bufFree, tx>>

-----------------------------------------------------------------------------
Next == \E s \in Streams :
          \/ OpenExisting(s) \/ OpenNew(s)
          \/ Allocate(s)
          \/ Close(s)
          \/ Finish(s)

Spec == Init /\ [][Next]_vars

-----------------------------------------------------------------------------
(* Properties *)

\* Every variable has the shape of its counterpart in the source, and a
\* submitted region waits for at most the work its stream has enqueued.
TypeOK ==
  /\ pend \in [Streams -> Nat]
  /\ staged \subseteq [stream : Streams, chunk : Chunks, lo : Nat, hi : Nat]
  /\ inflight \subseteq [stream : Streams, chunk : Chunks, lo : Nat, hi : Nat,
                         left : Nat]
  /\ cap \in [Chunks -> Nat]
  /\ avail \in [Chunks -> Nat]
  /\ ev \in [Chunks -> [Streams -> Nat]]
  /\ list \in [Buffers -> Seq(Chunks)]
  /\ txHead \in [Buffers -> Chunks \cup {NoChunk}]
  /\ open \in [Buffers -> BOOLEAN]
  /\ curCap \in Nat \ {0}
  /\ chunkFree \subseteq Chunks
  /\ bufOf \in [Streams -> Buffers \cup {NoBuffer}]
  /\ bufFree \subseteq Buffers
  /\ tx \in [Streams -> Buffers \cup {NoBuffer}]

\* No staging memory is handed out twice: two regions that a kernel or copy
\* may still read, or that a launch is still filling, never overlap.
NoOverlap ==
  /\ \A r, q \in staged : r # q => ~Promise!Overlap(r, q)
  /\ \A r, q \in inflight : r # q => ~Promise!Overlap(r, q)
  /\ \A r \in staged, q \in inflight : ~Promise!Overlap(r, q)

\* Memory the device may still read is never freed: every live region lies in
\* the chunk it was cut from, at the capacity the chunk was allocated with.
LiveMemoryMapped ==
  \A r \in staged \cup inflight :
    /\ r.chunk \in Mapped
    /\ r.hi <= cap[r.chunk]
    /\ avail[r.chunk] <= r.lo

\* What a kernel or copy may still read is nobody else's, and is there.
MemorySafe == NoOverlap /\ LiveMemoryMapped

\* No chunk leaks and none is on two lists: an allocated chunk is either on
\* the free list or at exactly one place of one buffer of the pool, and only
\* allocated chunks are there.
EveryChunkOwnedOnce ==
  /\ \A c \in Mapped :
        \/ c \in chunkFree
        \/ \E b \in Buffers : InPool(b) /\ c \in Elems(list[b])
  /\ chunkFree \subseteq Mapped
  /\ \A b \in Buffers : ~InPool(b) => list[b] = <<>>
  /\ \A b \in Buffers : \A i \in 1..Len(list[b]) :
        list[b][i] \in Mapped \ chunkFree
  /\ \A a, b \in Buffers :
        \A i \in 1..Len(list[a]), j \in 1..Len(list[b]) :
           list[a][i] = list[b][j] => a = b /\ i = j

\* CHECK(ret->capacity == chunk_capacity) in allocate_chunk never fails.
FreeListUniform == \A c \in chunkFree : cap[c] = curCap

\* The buffer pointer in a transaction stays valid until it is closed: reclaim
\* on behalf of another stream never recycles it, and no other stream has it.
\* With it CHECK(!sb->open_transaction) never fails.
HandleValid ==
  /\ \A s \in Streams : tx[s] # NoBuffer =>
        /\ bufOf[s] = tx[s]
        /\ open[tx[s]]
  /\ \A s \in Streams : bufOf[s] # NoBuffer =>
        /\ bufOf[s] \notin bufFree
        /\ open[bufOf[s]] => tx[s] = bufOf[s]
        /\ \A t \in Streams \ {s} : bufOf[t] # bufOf[s]

\* Why no live chunk is ever polled: the chunk of a region being filled is at
\* or behind the transaction head, and the event of the chunk of a submitted
\* region fires no earlier than the work that reads the region finishes.
RegionsPinned ==
  /\ \A s \in Streams :
        (tx[s] # NoBuffer /\ txHead[tx[s]] # NoChunk)
          => txHead[tx[s]] \in Elems(list[tx[s]])
  /\ \A r \in staged :
        /\ tx[r.stream] # NoBuffer
        /\ r.chunk \in Used(tx[r.stream])
  /\ \A r \in inflight :
        /\ r.left > 0
        /\ r.left <= ev[r.chunk][r.stream]
        /\ r.left <= pend[r.stream]
        /\ bufOf[r.stream] # NoBuffer
        /\ r.chunk \in Elems(list[bufOf[r.stream]])

\* Nothing stays pinned: once a stream is idle and has no open transaction,
\* the next poll takes every chunk of its buffer.
IdleStreamReclaimable ==
  \A s \in Streams :
    (pend[s] = 0 /\ tx[s] = NoBuffer /\ bufOf[s] # NoBuffer)
      => \A i \in 1..Len(list[bufOf[s]]) : Pollable(bufOf[s], i)

\* The pool settles: the driver is asked for memory of the current capacity
\* only when every chunk of that capacity is needed by unfinished work or by
\* an open transaction.
NewOnlyWhenNeeded ==
  [][\A c \in Chunks :
       (cap[c] # curCap /\ cap'[c] = curCap' /\ curCap' = curCap) =>
         \A d \in Chunks : cap[d] = curCap =>
           \/ ~Fired(d)
           \/ \E b \in Buffers : d \in Used(b)]_vars

\* What a listed chunk has left never exceeds its capacity.
AvailWithinCapacity ==
  \A b \in Buffers : \A i \in 1..Len(list[b]) :
    avail[list[b][i]] <= cap[list[b][i]]

\* The inductive invariant behind the safety properties (StreamBufferProofs).
IndInv ==
  /\ TypeOK
  /\ HandleValid
  /\ EveryChunkOwnedOnce
  /\ FreeListUniform
  /\ AvailWithinCapacity
  /\ LiveMemoryMapped
  /\ RegionsPinned
  /\ NoOverlap

\* Why polling may stop at the first chunk that is not ready: the events of a
\* buffer wait for its own stream only, and those before the transaction's
\* chunks fire in list order; free chunks have fired.
EventsOrdered ==
  /\ \A b \in Buffers : ~open[b] => txHead[b] = NoChunk
  /\ \A c \in chunkFree : Fired(c)
  /\ \A s \in Streams : bufOf[s] # NoBuffer =>
        \A i \in 1..Len(list[bufOf[s]]), t \in Streams :
          ev[list[bufOf[s]][i]][t] <= IF t = s THEN pend[s] ELSE 0
  /\ \A b \in Buffers : \A i, j \in 1..Len(list[b]), t \in Streams :
        (i <= j /\ list[b][j] \notin Used(b))
          => ev[list[b][i]][t] <= ev[list[b][j]][t]

\* The pool implements the promise of the allocator.
ImplementsPromise == Promise!Spec
=============================================================================
