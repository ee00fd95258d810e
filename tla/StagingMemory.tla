---------------------------- MODULE StagingMemory ----------------------------
(***************************************************************************)
(* What the stream-buffer allocator (cext/stream_buffer.h) promises to the *)
(* launch path, without chunks lists, free lists or events: a transaction  *)
(* on a stream obtains regions of mapped staging memory; a region stays    *)
(* untouched until the stream has passed the work that was enqueued before *)
(* the transaction was closed.                                             *)
(*                                                                         *)
(* A region is [stream, chunk, lo, hi]: the bytes lo..hi-1 of a block of   *)
(* memory.  A submitted region also carries `left', the number of work     *)
(* items its stream has still to finish before nobody reads the region.    *)
(***************************************************************************)
EXTENDS Integers

CONSTANTS Streams,   \* CUDA streams
          Chunks     \* blocks the driver can hand out

VARIABLES pend,      \* pend[s]: work items enqueued on s and not finished
          staged,    \* regions of open transactions
          inflight,  \* regions of closed transactions whose work is not finished
          cap        \* cap[c]: bytes of block c, 0 when it is not allocated

memVars == <<pend, staged, inflight, cap>>

Live == staged \cup inflight

Overlap(r, q) == /\ r.chunk = q.chunk
                 /\ r.lo < q.hi
                 /\ q.lo < r.hi

\* Blocks may come and go, but never one that holds a live region.
Remap == \A r \in Live : cap'[r.chunk] = cap[r.chunk]

Init == /\ pend = [s \in Streams |-> 0]
        /\ staged = {}
        /\ inflight = {}
        /\ cap = [c \in Chunks |-> 0]

\* A transaction on s receives a region that overlaps no live region.
Grant(s) ==
  /\ \E r \in staged' \ staged :
        /\ r.stream = s
        /\ r.chunk \in Chunks
        /\ 0 <= r.lo /\ r.lo <= r.hi /\ r.hi <= cap'[r.chunk]
        /\ cap'[r.chunk] > 0
        /\ \A q \in Live : ~Overlap(r, q)
        /\ staged' = staged \cup {r}
  /\ Remap
  /\ UNCHANGED <<pend, inflight>>

\* An allocation that fails, or that obtains an empty region it had already.
Refuse == Remap /\ UNCHANGED <<pend, staged, inflight>>

\* The transaction of s is closed: its regions wait for all work of s so far.
Submit(s) ==
  /\ pend' = [pend EXCEPT ![s] = @ + 1]
  /\ staged' = {r \in staged : r.stream # s}
  /\ inflight' = inflight \cup
       {[stream |-> r.stream, chunk |-> r.chunk, lo |-> r.lo, hi |-> r.hi,
         left |-> pend[s] + 1] : r \in {q \in staged : q.stream = s}}
  /\ UNCHANGED cap

\* The device finishes the oldest work item of s.
Finish(s) ==
  /\ pend[s] > 0
  /\ pend' = [pend EXCEPT ![s] = @ - 1]
  /\ inflight' = {r \in inflight : r.stream # s} \cup
       {[r EXCEPT !.left = @ - 1] :
            r \in {q \in inflight : q.stream = s /\ q.left > 1}}
  /\ UNCHANGED <<staged, cap>>

Next == \/ \E s \in Streams : Grant(s) \/ Submit(s) \/ Finish(s)
        \/ Refuse

Spec == Init /\ [][Next]_memVars
=============================================================================
