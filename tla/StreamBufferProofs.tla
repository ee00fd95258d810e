-------------------------- MODULE StreamBufferProofs --------------------------
(***************************************************************************)
(* The safety of StreamBuffer for every number of streams, chunks and      *)
(* buffers and every choice of sizes: IndInv is inductive, and with it     *)
(* every step is a step of the allocator's promise (StagingMemory).        *)
(***************************************************************************)
EXTENDS StreamBuffer, FiniteSetTheorems, TLAPS

-----------------------------------------------------------------------------
(* Lemmas about the operators *)

\* Rounding a size up gives a size.
LEMMA AlignUpType == ASSUME NEW n \in Nat PROVE AlignUp(n) \in Nat
BY SizesAssumption DEF AlignUp

\* A request small enough for the ratio fits into a chunk of that capacity.
LEMMA RatioBound ==
  ASSUME NEW n \in Nat, NEW size \in Nat, n \div Ratio >= size
  PROVE  size <= n
BY SizesAssumption

\* A capacity has room for what is smaller.
LEMMA Difference ==
  ASSUME NEW m \in Nat, NEW n \in Nat, n <= m
  PROVE  m - n \in Nat
OBVIOUS

\* Indices of a list of length n, when d chunks at its head are gone.
LEMMA ShiftedIndex ==
  ASSUME NEW h \in Int, NEW k \in Int, NEW n \in Int, NEW m \in Int, NEW d \in Int,
         h <= k, k <= n, m = n - d, h - d >= 1
  PROVE  k - d \in 1..m /\ h - d <= k - d /\ (k - d) + d = k
OBVIOUS

\* Appending c to one of the lists of L.
LEMMA Linked ==
  ASSUME NEW L \in [Buffers -> Seq(Chunks)], NEW b \in Buffers,
         NEW c \in Chunks, NEW K, K = [L EXCEPT ![b] = Append(@, c)]
  PROVE  /\ K \in [Buffers -> Seq(Chunks)]
         /\ \A x \in Buffers : Len(K[x]) = IF x = b THEN Len(L[b]) + 1
                                                    ELSE Len(L[x])
         /\ \A x \in Buffers : \A i \in 1..Len(L[x]) : K[x][i] = L[x][i]
         /\ K[b][Len(L[b]) + 1] = c
OBVIOUS

\* Dropping the first k elements of a list.
LEMMA DropFirst ==
  ASSUME NEW l \in Seq(Chunks), NEW k \in Nat, k <= Len(l)
  PROVE  /\ SubSeq(l, k + 1, Len(l)) \in Seq(Chunks)
         /\ Len(SubSeq(l, k + 1, Len(l))) = Len(l) - k
         /\ \A i \in 1..(Len(l) - k) : SubSeq(l, k + 1, Len(l))[i] = l[i + k]
OBVIOUS

-----------------------------------------------------------------------------
(* A cut that takes only pollable chunks; PollCuts are the longest ones *)

SafeCut(cut) ==
  /\ cut \in [Buffers -> Nat]
  /\ \A b \in Buffers : /\ cut[b] <= Len(list[b])
                        /\ \A i \in 1..cut[b] : Pollable(b, i)

NoCut == [b \in Buffers |-> 0]

\* What polling takes from a list has fired.
LEMMA PollCutsSafe == ASSUME NEW cut \in PollCuts PROVE SafeCut(cut)
<1>1. Cardinality(Chunks) \in Nat  BY ChunksAssumption, FS_CardinalityType
<1> QED BY <1>1 DEF PollCuts, SafeCut

\* Taking nothing is safe.
LEMMA NoCutSafe ==
  ASSUME TypeOK
  PROVE  /\ SafeCut(NoCut)
         /\ ListsAfter(NoCut) = list
         /\ Polled(NoCut) = {}
<1>1. SafeCut(NoCut) /\ Polled(NoCut) = {}
  BY DEF SafeCut, NoCut, Polled, TypeOK
<1>2. ASSUME NEW b \in Buffers
      PROVE  SubSeq(list[b], NoCut[b] + 1, Len(list[b])) = list[b]
  BY DEF NoCut, TypeOK
<1> QED BY <1>1, <1>2 DEF ListsAfter, TypeOK

\* What a safe cut takes was listed and carries no live region; the rest of
\* the lists keeps its order.
LEMMA CutFacts ==
  ASSUME IndInv, NEW cut, SafeCut(cut)
  PROVE  /\ ListsAfter(cut) \in [Buffers -> Seq(Chunks)]
         /\ \A b \in Buffers :
              /\ Len(ListsAfter(cut)[b]) = Len(list[b]) - cut[b]
              /\ \A i \in 1..Len(ListsAfter(cut)[b]) :
                   ListsAfter(cut)[b][i] = list[b][i + cut[b]]
         /\ Polled(cut) \subseteq Mapped \ chunkFree
         /\ \A b \in Buffers : \A i \in 1..Len(ListsAfter(cut)[b]) :
              ListsAfter(cut)[b][i] \notin Polled(cut)
         /\ \A r \in staged \cup inflight : r.chunk \notin Polled(cut)
<1>0. /\ list \in [Buffers -> Seq(Chunks)]
      /\ cut \in [Buffers -> Nat]
      /\ \A b \in Buffers : cut[b] <= Len(list[b])
  BY DEF IndInv, TypeOK, SafeCut
<1>1. ASSUME NEW b \in Buffers
      PROVE  /\ ListsAfter(cut)[b] \in Seq(Chunks)
             /\ Len(list[b]) \in Nat /\ cut[b] \in Nat
             /\ Len(ListsAfter(cut)[b]) = Len(list[b]) - cut[b]
             /\ \A i \in 1..Len(ListsAfter(cut)[b]) :
                  ListsAfter(cut)[b][i] = list[b][i + cut[b]]
  <2>1. list[b] \in Seq(Chunks) /\ cut[b] \in Nat /\ cut[b] <= Len(list[b])
    BY <1>0
  <2>2. ListsAfter(cut)[b] = SubSeq(list[b], cut[b] + 1, Len(list[b]))
    BY DEF ListsAfter
  <2>3. /\ SubSeq(list[b], cut[b] + 1, Len(list[b])) \in Seq(Chunks)
        /\ Len(SubSeq(list[b], cut[b] + 1, Len(list[b])))
             = Len(list[b]) - cut[b]
        /\ \A i \in 1..(Len(list[b]) - cut[b]) :
             SubSeq(list[b], cut[b] + 1, Len(list[b]))[i] = list[b][i + cut[b]]
    BY <2>1, DropFirst
  <2> QED BY <2>1, <2>2, <2>3
<1>2. ListsAfter(cut) \in [Buffers -> Seq(Chunks)]
  BY <1>1 DEF ListsAfter
<1>3. ASSUME NEW c \in Polled(cut)
      PROVE  \E b \in Buffers : \E i \in 1..Len(list[b]) :
               i <= cut[b] /\ list[b][i] = c /\ Pollable(b, i)
  BY <1>0, <1>1 DEF Polled, SafeCut
<1>4. Polled(cut) \subseteq Mapped \ chunkFree
  BY <1>3 DEF IndInv, EveryChunkOwnedOnce
<1>5. ASSUME NEW b \in Buffers, NEW i \in 1..Len(ListsAfter(cut)[b])
      PROVE  ListsAfter(cut)[b][i] \notin Polled(cut)
  <2>1. /\ i + cut[b] \in 1..Len(list[b])
        /\ i + cut[b] > cut[b]
        /\ ListsAfter(cut)[b][i] = list[b][i + cut[b]]
    BY <1>0, <1>1
  <2>2. \A a \in Buffers : \A j \in 1..Len(list[a]) :
          list[a][j] = list[b][i + cut[b]] => a = b /\ j = i + cut[b]
    BY <2>1 DEF IndInv, EveryChunkOwnedOnce
  <2> QED BY <1>0, <1>3, <2>1, <2>2
<1>6. ASSUME NEW r \in staged, r.chunk \in Polled(cut) PROVE FALSE
  <2>1. tx[r.stream] \in Buffers /\ r.chunk \in Used(tx[r.stream])
    BY DEF IndInv, TypeOK, RegionsPinned
  <2>2. PICK h, k \in 1..Len(list[tx[r.stream]]) :
          /\ h <= k
          /\ list[tx[r.stream]][h] = txHead[tx[r.stream]]
          /\ list[tx[r.stream]][k] = r.chunk
    BY <2>1 DEF Used
  <2>3. k <= cut[tx[r.stream]]
    BY <1>3, <1>6, <2>1, <2>2 DEF IndInv, EveryChunkOwnedOnce
  <2>4. h \in 1..cut[tx[r.stream]]
    BY <1>0, <2>1, <2>2, <2>3
  <2> QED BY <2>1, <2>2, <2>4 DEF SafeCut, Pollable
<1>7. ASSUME NEW r \in inflight, r.chunk \in Polled(cut) PROVE FALSE
  <2>1. Fired(r.chunk)  BY <1>3, <1>7 DEF Pollable
  <2> QED BY <2>1 DEF IndInv, TypeOK, RegionsPinned, Fired
<1> QED BY <1>1, <1>2, <1>4, <1>5, <1>6, <1>7

\* What a safe cut leaves: the chunks it does not take, those of the live
\* regions, and the transaction heads.
LEMMA CutKeeps ==
  ASSUME IndInv, NEW cut, SafeCut(cut)
  PROVE  /\ \A x \in Buffers : \A i \in 1..Len(list[x]) :
              list[x][i] \notin Polled(cut) =>
                \E j \in 1..Len(ListsAfter(cut)[x]) :
                  ListsAfter(cut)[x][j] = list[x][i]
         /\ \A r \in staged \cup inflight :
              /\ bufOf[r.stream] \in Buffers
              /\ \E i \in 1..Len(ListsAfter(cut)[bufOf[r.stream]]) :
                   ListsAfter(cut)[bufOf[r.stream]][i] = r.chunk
         /\ \A x \in Buffers : \A h \in 1..Len(list[x]) :
              list[x][h] = txHead[x] =>
                /\ h - cut[x] \in 1..Len(ListsAfter(cut)[x])
                /\ ListsAfter(cut)[x][h - cut[x]] = txHead[x]
<1> DEFINE L == ListsAfter(cut)
<1>2. /\ L \in [Buffers -> Seq(Chunks)]
      /\ \A x \in Buffers :
           /\ Len(L[x]) = Len(list[x]) - cut[x]
           /\ \A i \in 1..Len(L[x]) : L[x][i] = list[x][i + cut[x]]
      /\ \A r \in staged \cup inflight : r.chunk \notin Polled(cut)
  BY CutFacts
<1> HIDE DEF L
<1>3. /\ cut \in [Buffers -> Nat]
      /\ list \in [Buffers -> Seq(Chunks)]
      /\ \A x \in Buffers : cut[x] <= Len(list[x])
  BY DEF IndInv, TypeOK, SafeCut
<1>19. ASSUME NEW x \in Buffers, NEW i \in 1..Len(list[x]),
             list[x][i] \notin Polled(cut)
      PROVE  \E j \in 1..Len(L[x]) : L[x][j] = list[x][i]
  <2>1. cut[x] \in Nat /\ Len(L[x]) = Len(list[x]) - cut[x] /\ Len(list[x]) \in Nat
    BY <1>2, <1>3
  <2>2. ~(i \in 1..cut[x])
    BY <1>19 DEF Polled
  <2>3. i - cut[x] \in 1..Len(L[x]) /\ (i - cut[x]) + cut[x] = i
    BY <2>1, <2>2
  <2> QED BY <1>2, <2>3
<1>7. ASSUME NEW r \in staged \cup inflight
      PROVE  /\ bufOf[r.stream] \in Buffers
             /\ \E i \in 1..Len(L[bufOf[r.stream]]) :
                  L[bufOf[r.stream]][i] = r.chunk
  <2>2. CASE r \in staged
    <3>1. tx[r.stream] \in Buffers /\ r.chunk \in Used(tx[r.stream])
      BY <2>2 DEF IndInv, TypeOK, RegionsPinned
    <3>2. bufOf[r.stream] = tx[r.stream]
      BY <2>2, <3>1 DEF IndInv, TypeOK, HandleValid, RegionsPinned
    <3>3. PICK i \in 1..Len(list[tx[r.stream]]) :
            list[tx[r.stream]][i] = r.chunk
      BY <3>1 DEF Used
    <3>4. list[tx[r.stream]][i] \notin Polled(cut)
      BY <1>2, <3>3
    <3> QED BY <1>19, <3>1, <3>2, <3>3, <3>4
  <2>3. CASE r \in inflight
    <3>1. bufOf[r.stream] \in Buffers /\ r.chunk \in Elems(list[bufOf[r.stream]])
      BY <2>3 DEF IndInv, TypeOK, RegionsPinned
    <3>2. PICK i \in 1..Len(list[bufOf[r.stream]]) :
            list[bufOf[r.stream]][i] = r.chunk
      BY <3>1 DEF Elems
    <3> QED BY <1>2, <1>19, <3>1, <3>2
  <2> QED BY <2>2, <2>3
<1>8. ASSUME NEW x \in Buffers, NEW h \in 1..Len(list[x]),
             list[x][h] = txHead[x]
      PROVE  /\ h - cut[x] \in 1..Len(L[x])
             /\ L[x][h - cut[x]] = txHead[x]
  <2>1. ~(h \in 1..cut[x])
    BY <1>8 DEF SafeCut, Pollable
  <2>2. cut[x] \in Nat /\ Len(L[x]) = Len(list[x]) - cut[x] /\ Len(list[x]) \in Nat
    BY <1>2, <1>3
  <2>3. h - cut[x] \in 1..Len(L[x]) /\ (h - cut[x]) + cut[x] = h
    BY <2>1, <2>2
  <2> QED BY <1>2, <1>8, <2>3
<1> QED BY <1>19, <1>7, <1>8 DEF L

-----------------------------------------------------------------------------
(* What the ways to obtain a chunk have in common: reclaim takes `cut' from *)
(* the lists, the chunks of `deleted' go back to the driver and the buffers *)
(* of `dropped' to the free list, and chunk c is linked and carved.         *)

Drops(cut, dropped) ==
  /\ dropped \subseteq Emptied(cut)
  /\ bufOf' = [s \in Streams |->
                IF bufOf[s] \in dropped THEN NoBuffer ELSE bufOf[s]]
  /\ bufFree' = bufFree \cup dropped

TakesChunk(s, size, c, cut, deleted, dropped) ==
  /\ tx[s] # NoBuffer
  /\ SafeCut(cut)
  /\ c \in Polled(cut) \cup chunkFree \cup (Chunks \ Mapped)
  /\ deleted \subseteq Polled(cut) \cup chunkFree
  /\ curCap' \in Nat \ {0}
  /\ size <= curCap'
  /\ cap' = [Unmap(deleted) EXCEPT ![c] = curCap']
  /\ chunkFree' = (chunkFree \cup Polled(cut)) \ (deleted \cup {c})
  /\ \A d \in chunkFree' : cap[d] = curCap'
  /\ ev' \in [Chunks -> [Streams -> Nat]]
  /\ \A d \in Chunks \ {c} : ev'[d] = ev[d]
  /\ \/ (c \in Polled(cut) \cup chunkFree /\ ev'[c] = ev[c])
     \/ ev'[c] = [t \in Streams |-> 0]
  /\ Link(s, c, ListsAfter(cut))
  /\ Carve(s, c, curCap', size)
  /\ Drops(cut, dropped)
  /\ UNCHANGED <<pend, inflight, open, tx>>

\* An allocation that takes a chunk from elsewhere keeps the invariant.
LEMMA TakesChunkInductive ==
  ASSUME IndInv, NEW s \in Streams, NEW size \in Nat, NEW c, NEW cut,
         NEW deleted, NEW dropped, NEW b, b = tx[s],
         TakesChunk(s, size, c, cut, deleted, dropped)
  PROVE  IndInv' /\ Promise!Grant(s)
<1> DEFINE L == ListsAfter(cut)
           new == [stream |-> s, chunk |-> c, lo |-> curCap' - size,
                   hi |-> curCap']
<1>0. curCap' \in Nat \ {0} /\ size <= curCap' /\ curCap' - size \in Nat
  <2>1. curCap' \in Nat \ {0} /\ size <= curCap'  BY DEF TakesChunk
  <2> QED BY <2>1, Difference
<1>1. SafeCut(cut)
  BY DEF TakesChunk
<1>2. /\ L \in [Buffers -> Seq(Chunks)]
      /\ \A x \in Buffers :
           /\ Len(L[x]) = Len(list[x]) - cut[x]
           /\ \A i \in 1..Len(L[x]) : L[x][i] = list[x][i + cut[x]]
      /\ Polled(cut) \subseteq Mapped \ chunkFree
      /\ \A x \in Buffers : \A i \in 1..Len(L[x]) : L[x][i] \notin Polled(cut)
      /\ \A r \in staged \cup inflight : r.chunk \notin Polled(cut)
  BY <1>1, CutFacts
<1> HIDE DEF L
<1>3. /\ b \in Buffers /\ bufOf[s] = b /\ open[b]
      /\ c \in Chunks
      /\ curCap' \in Nat \ {0} /\ size <= curCap' /\ size \in Nat
      /\ cut \in [Buffers -> Nat]
      /\ list \in [Buffers -> Seq(Chunks)]
      /\ \A x \in Buffers : cut[x] <= Len(list[x])
  BY <1>1, <1>2 DEF IndInv, TypeOK, HandleValid, TakesChunk, SafeCut, Mapped
\* where the elements of the remaining lists were
<1>4. ASSUME NEW x \in Buffers, NEW i \in 1..Len(L[x])
      PROVE  /\ i + cut[x] \in 1..Len(list[x])
             /\ L[x][i] \in Mapped \ (chunkFree \cup Polled(cut))
             /\ L[x][i] # c
             /\ L[x][i] \notin deleted
             /\ L[x][i] \in Chunks
  <2>1. i + cut[x] \in 1..Len(list[x]) /\ L[x][i] = list[x][i + cut[x]]
    BY <1>2, <1>3
  <2>2. L[x][i] \in Mapped \ (chunkFree \cup Polled(cut))
    BY <1>2, <2>1 DEF IndInv, EveryChunkOwnedOnce
  <2> QED BY <2>1, <2>2 DEF TakesChunk, Mapped
\* the lists after the step
<1>5. /\ list' \in [Buffers -> Seq(Chunks)]
      /\ \A x \in Buffers : Len(list'[x]) = IF x = b THEN Len(L[b]) + 1
                                                   ELSE Len(L[x])
      /\ \A x \in Buffers : \A i \in 1..Len(L[x]) : list'[x][i] = L[x][i]
      /\ list'[b][Len(L[b]) + 1] = c
  <2>1. list' = [L EXCEPT ![b] = Append(@, c)]
    BY DEF TakesChunk, Link, L
  <2> QED BY <1>2, <1>3, <2>1, Linked
<1>20. ASSUME NEW x \in Buffers
       PROVE  Len(L[x]) \in Nat /\ 1..Len(L[x]) \subseteq 1..Len(list'[x])
  <2>1. Len(L[x]) \in Nat /\ Len(L[b]) \in Nat  BY <1>2, <1>3
  <2> QED BY <1>5, <2>1
<1>21. ASSUME NEW x \in Buffers, NEW i \in 1..Len(list'[x])
       PROVE  \/ x = b /\ i = Len(L[b]) + 1 /\ list'[x][i] = c
              \/ i \in 1..Len(L[x]) /\ list'[x][i] = L[x][i]
  BY <1>2, <1>3, <1>5
\* the dropped buffers are empty and not open
<1>6. ASSUME NEW x \in dropped
      PROVE  x \in Buffers /\ L[x] = <<>> /\ ~open[x] /\ x # b /\ InPool(x)
  BY <1>3 DEF TakesChunk, Drops, Emptied, L
\* what is not polled stays, and so do the chunks of the live regions
<1>19. ASSUME NEW x \in Buffers, NEW i \in 1..Len(list[x]),
              list[x][i] \notin Polled(cut)
       PROVE  \E j \in 1..Len(L[x]) : L[x][j] = list[x][i]
  BY <1>1, <1>19, CutKeeps DEF L
<1>7. ASSUME NEW r \in staged \cup inflight
      PROVE  /\ bufOf[r.stream] \in Buffers
             /\ \E i \in 1..Len(L[bufOf[r.stream]]) :
                  L[bufOf[r.stream]][i] = r.chunk
  BY <1>1, CutKeeps DEF L
<1>10. /\ cap' \in [Chunks -> Nat]
       /\ \A d \in Chunks : cap'[d] = IF d = c THEN curCap'
                                     ELSE IF d \in deleted THEN 0 ELSE cap[d]
       /\ avail' \in [Chunks -> Nat]
       /\ \A d \in Chunks : avail'[d] = IF d = c THEN curCap' - size
                                       ELSE avail[d]
  <2>1. cap \in [Chunks -> Nat] /\ avail \in [Chunks -> Nat]
    BY DEF IndInv, TypeOK
  <2>2. Unmap(deleted) \in [Chunks -> Nat]
    BY <2>1 DEF Unmap
  <2>3. cap' = [Unmap(deleted) EXCEPT ![c] = curCap']
    BY DEF TakesChunk
  <2>4. avail' = [avail EXCEPT ![c] = curCap' - size]
    BY DEF TakesChunk, Carve
  <2>5. curCap' - size \in Nat
    BY <1>0
  <2>6. /\ cap' \in [Chunks -> Nat]
        /\ \A d \in Chunks : cap'[d] = IF d = c THEN curCap'
                                      ELSE IF d \in deleted THEN 0 ELSE cap[d]
    BY <1>3, <2>1, <2>2, <2>3 DEF Unmap
  <2> QED BY <1>3, <2>1, <2>4, <2>5, <2>6
<1>8. ASSUME NEW r \in staged \cup inflight
      PROVE  /\ r.chunk \in Chunks /\ r.chunk # c
             /\ cap'[r.chunk] = cap[r.chunk]
             /\ avail'[r.chunk] = avail[r.chunk]
             /\ ev'[r.chunk] = ev[r.chunk]
  <2>1. r.chunk \in Chunks \ deleted /\ r.chunk # c
    BY <1>4, <1>7
  <2> QED BY <1>10, <2>1 DEF TakesChunk
<1>9. /\ staged' = staged \cup {new}
      /\ new \in [stream : Streams, chunk : Chunks, lo : Nat, hi : Nat]
      /\ inflight' = inflight
  BY <1>0, <1>3 DEF TakesChunk, Carve
<1>11. TypeOK'
  <2>1. cap' \in [Chunks -> Nat] /\ avail' \in [Chunks -> Nat]
    BY <1>10
  <2>2. txHead' \in [Buffers -> Chunks \cup {NoChunk}]
    BY <1>3 DEF TakesChunk, Carve, IndInv, TypeOK
  <2>3. /\ bufOf' \in [Streams -> Buffers \cup {NoBuffer}]
        /\ bufFree' \subseteq Buffers
    BY <1>6 DEF TakesChunk, Drops, IndInv, TypeOK
  <2>4. chunkFree' \subseteq Chunks
    BY <1>2 DEF TakesChunk, Mapped, IndInv, TypeOK
  <2>5. pend' = pend /\ open' = open /\ tx' = tx
    BY DEF TakesChunk
  <2>6. ev' \in [Chunks -> [Streams -> Nat]]
    BY DEF TakesChunk
  <2> QED BY <1>3, <1>5, <1>9, <2>1, <2>2, <2>3, <2>4, <2>5, <2>6
          DEF IndInv, TypeOK
<1>12. HandleValid'
  <2>1. \A t \in Streams : bufOf'[t] = IF bufOf[t] \in dropped THEN NoBuffer
                                       ELSE bufOf[t]
    BY DEF TakesChunk, Drops
  <2>2. bufFree' = bufFree \cup dropped /\ tx' = tx /\ open' = open
    BY DEF TakesChunk, Drops
  <2>3. \A x \in dropped : x \in Buffers /\ ~open[x]
    BY <1>6
  <2> QED BY <2>1, <2>2, <2>3, BuffersAssumption DEF IndInv, TypeOK, HandleValid
<1>13. EveryChunkOwnedOnce'
  <2>1. ASSUME NEW x \in Buffers, InPool(x), x \notin dropped
        PROVE  InPool(x)'
    BY <2>1 DEF InPool, TakesChunk, Drops
  <2>2. ASSUME NEW d \in Mapped'
        PROVE  \/ d \in chunkFree'
               \/ \E x \in Buffers : InPool(x)' /\ d \in Elems(list'[x])
    <3>1. CASE d = c
      <4>1. InPool(b)'
        <5>1. b \in Buffers /\ InPool(b) /\ b \notin dropped
          BY <1>3, <1>6 DEF InPool
        <5> QED BY <2>1, <5>1
      <4>2. /\ Len(L[b]) + 1 \in 1..Len(list'[b])
            /\ list'[b][Len(L[b]) + 1] = d
        BY <1>2, <1>3, <1>5, <3>1
      <4>3. d \in Elems(list'[b])
        BY <4>2 DEF Elems
      <4> QED BY <1>3, <4>1, <4>3
    <3>2. CASE d # c /\ (d \in chunkFree \/ d \in Polled(cut))
      BY <1>10, <3>2 DEF TakesChunk, Mapped
    <3>3. CASE d # c /\ d \notin chunkFree /\ d \notin Polled(cut)
      <4>1. d \in Mapped
        BY <1>0, <1>10, <3>3 DEF Mapped, TakesChunk
      <4>2. PICK x \in Buffers : InPool(x) /\ d \in Elems(list[x])
        BY <3>3, <4>1 DEF IndInv, EveryChunkOwnedOnce
      <4>3. PICK i \in 1..Len(list[x]) : list[x][i] = d
        BY <4>2 DEF Elems
      <4>4. PICK j \in 1..Len(L[x]) : L[x][j] = d
        BY <1>19, <3>3, <4>3
      <4>5. x \notin dropped
        BY <1>6, <4>4
      <4>6. j \in 1..Len(list'[x]) /\ list'[x][j] = d
        BY <1>5, <1>20, <4>4
      <4>7. d \in Elems(list'[x])
        BY <4>6 DEF Elems
      <4> QED BY <2>1, <4>2, <4>5, <4>7
    <3> QED BY <3>1, <3>2, <3>3
  <2>3. chunkFree' \subseteq Mapped'
    BY <1>0, <1>2, <1>10 DEF TakesChunk, Mapped, IndInv, EveryChunkOwnedOnce
  <2>4. ASSUME NEW x \in Buffers, ~InPool(x)' PROVE list'[x] = <<>>
    <3>1. x # b
      BY <1>3, <1>6, <2>1, <2>4 DEF InPool
    <3>2. L[x] = <<>>
      <4>1. CASE x \in dropped  BY <1>6, <4>1
      <4>2. CASE x \notin dropped
        <5>1. list[x] = <<>>  BY <2>1, <2>4, <4>2 DEF IndInv, EveryChunkOwnedOnce
        <5>2. Len(L[x]) = 0   BY <1>2, <1>3, <5>1
        <5> QED BY <1>2, <5>2
      <4> QED BY <4>1, <4>2
    <3> QED BY <1>5, <3>1, <3>2
  <2>6. ASSUME NEW x \in Buffers, NEW i \in 1..Len(list'[x])
        PROVE  list'[x][i] \in Mapped' \ chunkFree'
    <3>1. c \in Mapped' \ chunkFree'
      BY <1>0, <1>3, <1>10 DEF Mapped, TakesChunk
    <3>2. ASSUME NEW j \in 1..Len(L[x]) PROVE L[x][j] \in Mapped' \ chunkFree'
      BY <1>4, <1>10 DEF Mapped, TakesChunk
    <3> QED BY <1>21, <3>1, <3>2
  <2>7. ASSUME NEW x \in Buffers, NEW y \in Buffers,
               NEW i \in 1..Len(list'[x]), NEW j \in 1..Len(list'[y]),
               list'[x][i] = list'[y][j]
        PROVE  x = y /\ i = j
    <3>1. ASSUME i \in 1..Len(L[x]), j \in 1..Len(L[y]), L[x][i] = L[y][j]
          PROVE  x = y /\ i = j
      <4>2. /\ i + cut[x] \in 1..Len(list[x])
            /\ j + cut[y] \in 1..Len(list[y])
            /\ list[x][i + cut[x]] = list[y][j + cut[y]]
        BY <1>2, <1>4, <3>1
      <4>1. x = y /\ i + cut[x] = j + cut[y]
        BY <4>2 DEF IndInv, EveryChunkOwnedOnce
      <4> QED BY <1>3, <3>1, <4>1
    <3> QED BY <1>4, <1>21, <2>7, <3>1
  <2> QED BY <2>2, <2>3, <2>4, <2>6, <2>7 DEF EveryChunkOwnedOnce
<1>14. FreeListUniform'
  BY <1>2, <1>10 DEF TakesChunk, FreeListUniform, IndInv, EveryChunkOwnedOnce, Mapped
<1>15. AvailWithinCapacity'
  <2>1. avail'[c] <= cap'[c]
    BY <1>0, <1>3, <1>10
  <2>2. ASSUME NEW x \in Buffers, NEW i \in 1..Len(L[x])
        PROVE  avail'[L[x][i]] <= cap'[L[x][i]]
    <3>1. avail[L[x][i]] <= cap[L[x][i]]
      BY <1>2, <1>4 DEF IndInv, AvailWithinCapacity
    <3> QED BY <1>4, <1>10, <3>1
  <2> QED BY <1>21, <2>1, <2>2 DEF AvailWithinCapacity
<1>16. LiveMemoryMapped'
  <2>1. /\ new.chunk \in Mapped'
        /\ new.hi <= cap'[new.chunk]
        /\ avail'[new.chunk] <= new.lo
    BY <1>0, <1>3, <1>10 DEF Mapped
  <2>2. ASSUME NEW r \in staged \cup inflight
        PROVE  /\ r.chunk \in Mapped'
               /\ r.hi <= cap'[r.chunk]
               /\ avail'[r.chunk] <= r.lo
    BY <1>8 DEF Mapped, IndInv, LiveMemoryMapped
  <2> QED BY <1>9, <2>1, <2>2 DEF LiveMemoryMapped
<1>17. RegionsPinned'
  <2>1. /\ tx' = tx /\ pend' = pend /\ inflight' = inflight
        /\ txHead' = [txHead EXCEPT ![b] = IF @ = NoChunk THEN c ELSE @]
        /\ txHead \in [Buffers -> Chunks \cup {NoChunk}]
    BY DEF TakesChunk, Carve, IndInv, TypeOK
  \* a transaction head stays in the list, at or before what followed it
  <2>2. ASSUME NEW x \in Buffers, NEW h \in 1..Len(list[x]),
               list[x][h] = txHead[x]
        PROVE  /\ h - cut[x] \in 1..Len(L[x])
               /\ list'[x][h - cut[x]] = txHead[x]
    <3>1. /\ h - cut[x] \in 1..Len(L[x])
          /\ L[x][h - cut[x]] = txHead[x]
      BY <1>1, <2>2, CutKeeps DEF L
    <3> QED BY <1>5, <3>1
  <2>3. ASSUME NEW t \in Streams, tx[t] # NoBuffer, txHead'[tx[t]] # NoChunk
        PROVE  txHead'[tx[t]] \in Elems(list'[tx[t]])
    <3>1. tx[t] \in Buffers  BY <2>3 DEF IndInv, TypeOK
    <3>2. CASE txHead[tx[t]] = NoChunk
      <4>1. tx[t] = b /\ txHead'[b] = c
        BY <1>3, <2>1, <2>3, <3>1, <3>2
      <4>2. Len(L[b]) + 1 \in 1..Len(list'[b])
        BY <1>3, <1>5, <1>20
      <4> QED BY <1>5, <4>1, <4>2 DEF Elems
    <3>3. CASE txHead[tx[t]] # NoChunk
      <4>1. txHead'[tx[t]] = txHead[tx[t]]
        BY <1>3, <2>1, <3>1, <3>3
      <4>2. PICK h \in 1..Len(list[tx[t]]) : list[tx[t]][h] = txHead[tx[t]]
        BY <2>3, <3>3 DEF IndInv, RegionsPinned, Elems
      <4>3. /\ h - cut[tx[t]] \in 1..Len(list'[tx[t]])
            /\ list'[tx[t]][h - cut[tx[t]]] = txHead[tx[t]]
        BY <1>20, <2>2, <3>1, <4>2
      <4> QED BY <4>1, <4>3 DEF Elems
    <3> QED BY <3>2, <3>3
  <2>4. ASSUME NEW r \in staged
        PROVE  tx'[r.stream] # NoBuffer /\ r.chunk \in Used(tx[r.stream])'
    <3>0. tx[r.stream] # NoBuffer /\ r.chunk \in Used(tx[r.stream])
      BY DEF IndInv, RegionsPinned
    <3>1. PICK x \in Buffers : x = tx[r.stream]
      BY <3>0 DEF IndInv, TypeOK
    <3>2. PICK h, k \in 1..Len(list[x]) :
            h <= k /\ list[x][h] = txHead[x] /\ list[x][k] = r.chunk
      BY <3>0, <3>1 DEF Used
    <3>3. ~(k \in 1..cut[x])
      BY <1>2, <3>2 DEF Polled
    <3>4. cut[x] \in Nat /\ Len(L[x]) = Len(list[x]) - cut[x] /\ Len(list[x]) \in Nat
      BY <1>2, <1>3
    <3>5. k - cut[x] \in 1..Len(L[x]) /\ (k - cut[x]) + cut[x] = k
      BY <3>3, <3>4
    <3>6. k - cut[x] \in 1..Len(list'[x]) /\ list'[x][k - cut[x]] = r.chunk
      BY <1>2, <1>5, <1>20, <3>2, <3>5
    <3>7. /\ h - cut[x] \in 1..Len(list'[x])
          /\ list'[x][h - cut[x]] = txHead[x]
      BY <1>20, <2>2, <3>2
    <3>8. txHead'[x] = txHead[x]
      <4>1. txHead[x] \in Chunks  BY <1>3, <3>2
      <4> QED BY <1>3, <2>1, <4>1, ChunksAssumption
    <3>9. h - cut[x] <= k - cut[x]
      BY <3>2, <3>4
    <3>10. r.chunk \in Chunks
      BY <1>8
    <3> QED BY <2>1, <3>0, <3>1, <3>6, <3>7, <3>8, <3>9, <3>10 DEF Used
  <2>5. new.chunk \in Used(b)'
    <3> DEFINE last == Len(L[b]) + 1
    <3>1. last \in 1..Len(list'[b]) /\ list'[b][last] = c
      BY <1>3, <1>5, <1>20
    <3>2. CASE txHead[b] = NoChunk
      <4>1. txHead'[b] = c  BY <1>3, <2>1, <3>2
      <4> QED BY <1>3, <3>1, <4>1 DEF Used
    <3>3. CASE txHead[b] # NoChunk
      <4>1. txHead'[b] = txHead[b]
        BY <1>3, <2>1, <3>3
      <4>5. tx[s] # NoBuffer /\ txHead[tx[s]] # NoChunk
        BY <3>3 DEF TakesChunk
      <4>6. txHead[b] \in Elems(list[b])
        BY <4>5 DEF IndInv, RegionsPinned
      <4>2. PICK h \in 1..Len(list[b]) : list[b][h] = txHead[b]
        BY <4>6 DEF Elems
      <4>3. /\ h - cut[b] \in 1..Len(L[b])
            /\ list'[b][h - cut[b]] = txHead[b]
        BY <1>3, <2>2, <4>2
      <4>4. h - cut[b] \in 1..Len(list'[b]) /\ h - cut[b] <= last
        BY <1>3, <1>20, <4>3
      <4> HIDE DEF last
      <4> QED BY <1>3, <3>1, <4>1, <4>3, <4>4 DEF Used
    <3> QED BY <3>2, <3>3
  <2>6. ASSUME NEW r \in inflight
        PROVE  /\ r.left > 0
               /\ r.left <= ev'[r.chunk][r.stream]
               /\ r.left <= pend'[r.stream]
               /\ bufOf'[r.stream] # NoBuffer
               /\ r.chunk \in Elems(list'[bufOf'[r.stream]])
    <3>1. PICK i \in 1..Len(L[bufOf[r.stream]]) :
            L[bufOf[r.stream]][i] = r.chunk
      BY <1>7
    <3>2. bufOf[r.stream] \in Buffers /\ bufOf[r.stream] \notin dropped
      BY <1>6, <1>7, <3>1
    <3>3. bufOf'[r.stream] = bufOf[r.stream]
      BY <3>2 DEF TakesChunk, Drops, IndInv, TypeOK
    <3>4. /\ i \in 1..Len(list'[bufOf[r.stream]])
          /\ list'[bufOf[r.stream]][i] = r.chunk
      BY <1>5, <1>20, <3>1, <3>2
    <3>5. r.chunk \in Elems(list'[bufOf'[r.stream]])
      BY <3>3, <3>4 DEF Elems
    <3> QED BY <1>8, <2>1, <3>2, <3>3, <3>5, BuffersAssumption
            DEF IndInv, RegionsPinned
  <2>7. new.stream = s /\ tx'[s] = b /\ b # NoBuffer
    BY <1>3, <2>1, BuffersAssumption
  <2> QED BY <1>9, <2>1, <2>3, <2>4, <2>5, <2>6, <2>7 DEF RegionsPinned
<1>18. NoOverlap'
  <2>1. ASSUME NEW r \in staged \cup inflight
        PROVE  ~Promise!Overlap(r, new) /\ ~Promise!Overlap(new, r)
    BY <1>8 DEF Promise!Overlap
  <2> QED BY <1>9, <2>1 DEF NoOverlap, IndInv
\* it is the promised step: the region is new and fits into its chunk
<1>22. Promise!Grant(s)
  <2>1. new \notin staged /\ \A q \in staged \cup inflight : ~Promise!Overlap(new, q)
    BY <1>8 DEF Promise!Overlap
  <2>2. /\ new.stream = s /\ new.chunk \in Chunks
        /\ 0 <= new.lo /\ new.lo <= new.hi /\ new.hi <= cap'[new.chunk]
        /\ cap'[new.chunk] > 0
    BY <1>0, <1>3, <1>10
  <2>3. \A r \in staged \cup inflight : cap'[r.chunk] = cap[r.chunk]
    BY <1>8
  <2>4. UNCHANGED <<pend, inflight>>
    BY DEF TakesChunk
  <2> QED BY <1>9, <2>1, <2>2, <2>3, <2>4
          DEF Promise!Grant, Promise!Remap, Promise!Live
<1> QED BY <1>11, <1>12, <1>13, <1>14, <1>15, <1>16, <1>17, <1>18, <1>22 DEF IndInv

-----------------------------------------------------------------------------
(* Each way to obtain a chunk is a TakesChunk *)

\* From the free list.
LEMMA FromFreeListTakesChunk ==
  ASSUME IndInv, NEW s \in Streams, NEW size \in Nat,
         AllocateFromFreeList(s, size)
  PROVE  \E c \in Chunks : TakesChunk(s, size, c, NoCut, {}, {})
<1>1. PICK c \in chunkFree :
        /\ chunkFree' = chunkFree \ {c}
        /\ Link(s, c, list)
        /\ Carve(s, c, curCap, size)
  BY DEF AllocateFromFreeList
<1>2. SafeCut(NoCut) /\ ListsAfter(NoCut) = list /\ Polled(NoCut) = {}
  BY NoCutSafe DEF IndInv
<1>3. c \in Chunks /\ cap[c] = curCap /\ curCap \in Nat \ {0}
  BY DEF IndInv, TypeOK, FreeListUniform
<1>4. size <= curCap
  BY <1>3, RatioBound DEF AllocateFromFreeList, SmallRequest
<1>5. cap' = [Unmap({}) EXCEPT ![c] = curCap']
  BY <1>3 DEF AllocateFromFreeList, Unmap, IndInv, TypeOK
<1>6. Drops(NoCut, {})
  BY DEF AllocateFromFreeList, Drops, IndInv, TypeOK
<1>7. /\ tx[s] # NoBuffer /\ curCap' = curCap /\ ev' = ev
      /\ UNCHANGED <<pend, inflight, open, tx>>
  BY DEF AllocateFromFreeList
<1>8. ev \in [Chunks -> [Streams -> Nat]]
  BY DEF IndInv, TypeOK
<1>9. \A d \in chunkFree : cap[d] = curCap
  BY DEF IndInv, FreeListUniform
<1> QED
  BY <1>1, <1>2, <1>3, <1>4, <1>5, <1>6, <1>7, <1>8, <1>9 DEF TakesChunk

\* Of the reclaimed ones.
LEMMA ReclaimedTakesChunk ==
  ASSUME IndInv, NEW s \in Streams, NEW size \in Nat,
         AllocateReclaimed(s, size)
  PROVE  \E c \in Chunks : \E cut \in PollCuts :
           TakesChunk(s, size, c, cut, Deleted(cut), Emptied(cut))
<1>1. PICK cut \in PollCuts :
        /\ DropEmptied(cut)
        /\ cap' = Unmap(Deleted(cut))
        /\ \E c \in Recycled(cut) :
              /\ chunkFree' = Recycled(cut) \ {c}
              /\ Link(s, c, ListsAfter(cut))
              /\ Carve(s, c, curCap, size)
  BY DEF AllocateReclaimed
<1>2. PICK c \in Recycled(cut) :
        /\ chunkFree' = Recycled(cut) \ {c}
        /\ Link(s, c, ListsAfter(cut))
        /\ Carve(s, c, curCap, size)
  BY <1>1
<1>3. SafeCut(cut) /\ Polled(cut) \subseteq Chunks
  BY PollCutsSafe, CutFacts DEF Mapped
<1>4. /\ tx[s] # NoBuffer /\ chunkFree = {} /\ curCap' = curCap
      /\ UNCHANGED <<pend, inflight, ev, open, tx>>
      /\ curCap \in Nat \ {0}
      /\ cap \in [Chunks -> Nat]
      /\ ev \in [Chunks -> [Streams -> Nat]]
  BY DEF AllocateReclaimed, MustReclaim, IndInv, TypeOK
<1>5. size <= curCap
  BY <1>4, RatioBound DEF AllocateReclaimed, MustReclaim, SmallRequest
<1>6. /\ c \in Polled(cut) /\ c \in Chunks /\ cap[c] = curCap
      /\ Deleted(cut) \subseteq Polled(cut)
      /\ c \notin Deleted(cut)
  BY <1>2, <1>3 DEF Recycled, Deleted
<1>7. cap' = [Unmap(Deleted(cut)) EXCEPT ![c] = curCap']
  BY <1>1, <1>4, <1>6 DEF Unmap
<1>8. chunkFree' = (chunkFree \cup Polled(cut)) \ (Deleted(cut) \cup {c})
  BY <1>2, <1>4 DEF Recycled, Deleted
<1>9. \A d \in chunkFree' : cap[d] = curCap'
  BY <1>2, <1>4 DEF Recycled
<1>10. Drops(cut, Emptied(cut))
  BY <1>1 DEF Drops, DropEmptied
<1> QED
  BY <1>2, <1>3, <1>4, <1>5, <1>6, <1>7, <1>8, <1>9, <1>10 DEF TakesChunk

\* A new one.
LEMMA NewTakesChunk ==
  ASSUME IndInv, NEW s \in Streams, NEW size \in Nat,
         AllocateNew(s, size)
  PROVE  \E c \in Chunks : \E cut \in PollCuts :
           TakesChunk(s, size, c, cut, Deleted(cut), Emptied(cut))
<1>1. PICK cut \in PollCuts :
        /\ Recycled(cut) = {}
        /\ DropEmptied(cut)
        /\ \E c \in (Chunks \ Mapped) \cup Deleted(cut) :
              MapNew(s, c, curCap, size, ListsAfter(cut), Deleted(cut))
  BY DEF AllocateNew
<1>2. PICK c \in (Chunks \ Mapped) \cup Deleted(cut) :
        MapNew(s, c, curCap, size, ListsAfter(cut), Deleted(cut))
  BY <1>1
<1>3. SafeCut(cut) /\ Polled(cut) \subseteq Chunks
  BY PollCutsSafe, CutFacts DEF Mapped
<1>4. /\ tx[s] # NoBuffer /\ chunkFree = {} /\ chunkFree' = {}
      /\ curCap' = curCap
      /\ UNCHANGED <<pend, inflight, open, tx>>
      /\ curCap \in Nat \ {0}
      /\ ev \in [Chunks -> [Streams -> Nat]]
  BY DEF AllocateNew, MustReclaim, IndInv, TypeOK
<1>5. size <= curCap
  BY <1>4, RatioBound DEF AllocateNew, MustReclaim, SmallRequest
<1>6. /\ c \in Polled(cut) \cup (Chunks \ Mapped) /\ c \in Chunks
      /\ Deleted(cut) = Polled(cut)
  BY <1>1, <1>2, <1>3 DEF Deleted
<1>7. /\ cap' = [Unmap(Deleted(cut)) EXCEPT ![c] = curCap']
      /\ ev' = [ev EXCEPT ![c] = [t \in Streams |-> 0]]
      /\ Link(s, c, ListsAfter(cut))
      /\ Carve(s, c, curCap, size)
  BY <1>2, <1>4 DEF MapNew
<1>8. /\ ev' \in [Chunks -> [Streams -> Nat]]
      /\ \A d \in Chunks \ {c} : ev'[d] = ev[d]
      /\ ev'[c] = [t \in Streams |-> 0]
  BY <1>4, <1>6, <1>7
<1>9. Drops(cut, Emptied(cut))
  BY <1>1 DEF Drops, DropEmptied
<1>10. chunkFree' = (chunkFree \cup Polled(cut)) \ (Deleted(cut) \cup {c})
  BY <1>4, <1>6
<1>11. TakesChunk(s, size, c, cut, Deleted(cut), Emptied(cut))
  BY <1>3, <1>4, <1>5, <1>6, <1>7, <1>8, <1>9, <1>10 DEF TakesChunk
<1> QED BY <1>6, <1>11

\* A larger one.
LEMMA GrownTakesChunk ==
  ASSUME IndInv, NEW s \in Streams, NEW size \in Nat,
         AllocateGrown(s, size)
  PROVE  \E c \in Chunks : TakesChunk(s, size, c, NoCut, chunkFree, {})
<1>1. PICK capacity \in GrownCapacity(size) :
        /\ curCap' = capacity
        /\ \E c \in (Chunks \ Mapped) \cup chunkFree :
              MapNew(s, c, capacity, size, list, chunkFree)
  BY DEF AllocateGrown
<1>2. PICK c \in (Chunks \ Mapped) \cup chunkFree :
        MapNew(s, c, capacity, size, list, chunkFree)
  BY <1>1
<1>3. SafeCut(NoCut) /\ ListsAfter(NoCut) = list /\ Polled(NoCut) = {}
  BY NoCutSafe DEF IndInv
<1>4. /\ tx[s] # NoBuffer /\ chunkFree' = {}
      /\ UNCHANGED <<pend, inflight, open, bufOf, bufFree, tx>>
      /\ chunkFree \subseteq Chunks
      /\ ev \in [Chunks -> [Streams -> Nat]]
      /\ bufOf \in [Streams -> Buffers \cup {NoBuffer}]
  BY DEF AllocateGrown, MustGrow, IndInv, TypeOK
<1>5. capacity \in Nat \ {0} /\ capacity \div Ratio >= size
  BY SizesAssumption DEF GrownCapacity
<1>6. size <= capacity
  BY <1>5, RatioBound
<1>7. /\ cap' = [Unmap(chunkFree) EXCEPT ![c] = curCap']
      /\ ev' = [ev EXCEPT ![c] = [t \in Streams |-> 0]]
      /\ Link(s, c, list)
      /\ Carve(s, c, capacity, size)
  BY <1>1, <1>2 DEF MapNew
<1>8. c \in Chunks /\ c \in chunkFree \cup (Chunks \ Mapped)
  BY <1>2, <1>4
<1>9. /\ ev' \in [Chunks -> [Streams -> Nat]]
      /\ \A d \in Chunks \ {c} : ev'[d] = ev[d]
      /\ ev'[c] = [t \in Streams |-> 0]
  BY <1>4, <1>7, <1>8
<1>10. Drops(NoCut, {})
  BY <1>4 DEF Drops
<1> QED
  BY <1>1, <1>3, <1>4, <1>5, <1>6, <1>7, <1>8, <1>9, <1>10 DEF TakesChunk

-----------------------------------------------------------------------------
(* The other steps preserve the invariant *)

\* The invariant holds in an empty pool.
LEMMA InitIndInv == Init => IndInv
<1> SUFFICES ASSUME Init PROVE IndInv
  OBVIOUS
<1>1. TypeOK  BY SizesAssumption DEF Init, TypeOK
<1>2. HandleValid  BY DEF Init, HandleValid
<1>3. EveryChunkOwnedOnce
  BY DEF Init, EveryChunkOwnedOnce, Mapped, InPool
<1>4. FreeListUniform /\ AvailWithinCapacity
  BY DEF Init, FreeListUniform, AvailWithinCapacity
<1>5. LiveMemoryMapped /\ RegionsPinned /\ NoOverlap
  BY DEF Init, LiveMemoryMapped, RegionsPinned, NoOverlap
<1> QED BY <1>1, <1>2, <1>3, <1>4, <1>5 DEF IndInv

\* Opening a transaction keeps it.
LEMMA OpenIndInv ==
  ASSUME IndInv, NEW s \in Streams, OpenExisting(s) \/ OpenNew(s)
  PROVE  IndInv'
<1>1. PICK b \in Buffers :
        /\ Begin(s, b)
        /\ \/ bufOf[s] = b /\ bufFree' = bufFree
           \/ bufOf[s] = NoBuffer /\ ~InPool(b) /\ bufFree' = bufFree \ {b}
        /\ b \notin bufFree'
  <2>1. CASE OpenExisting(s)
    BY <2>1 DEF OpenExisting, IndInv, TypeOK, HandleValid
  <2>2. CASE OpenNew(s)
    <3>1. \A x \in bufFree : x \in Buffers /\ ~InPool(x)
      BY BuffersAssumption DEF IndInv, TypeOK, HandleValid, InPool
    <3> QED BY <2>2, <3>1 DEF OpenNew
  <2> QED BY <2>1, <2>2
<1>2. /\ tx[s] = NoBuffer
      /\ UNCHANGED <<pend, staged, inflight, cap, avail, ev, curCap, chunkFree>>
  BY DEF OpenExisting, OpenNew
<1>3. list' = list
  <2>1. CASE OpenExisting(s)  BY <2>1 DEF OpenExisting
  <2>2. CASE OpenNew(s)
    <3>1. \A x \in Buffers : ~InPool(x) => list[x] = <<>>
      BY DEF IndInv, EveryChunkOwnedOnce
    <3>2. \A x \in bufFree : ~InPool(x)
      BY BuffersAssumption DEF IndInv, TypeOK, HandleValid, InPool
    <3> QED BY <2>2, <3>1, <3>2 DEF OpenNew, IndInv, TypeOK
  <2> QED BY <2>1, <2>2
<1>4. /\ bufOf' = [bufOf EXCEPT ![s] = b]
      /\ open' = [open EXCEPT ![b] = TRUE]
      /\ txHead' = [txHead EXCEPT ![b] = NoChunk]
      /\ tx' = [tx EXCEPT ![s] = b]
  BY <1>1 DEF Begin
<1>5. b # NoBuffer  BY BuffersAssumption
<1>6. TypeOK'
  BY <1>1, <1>2, <1>3, <1>4 DEF IndInv, TypeOK
<1>7. \A t \in Streams \ {s} : bufOf[t] # b
  BY <1>1, <1>5 DEF IndInv, HandleValid, InPool
<1>8. HandleValid'
  BY <1>1, <1>2, <1>4, <1>5, <1>7 DEF IndInv, TypeOK, HandleValid
<1>9. \A x \in Buffers : InPool(x) => InPool(x)'
  <2>1. ASSUME NEW x \in Buffers, NEW t \in Streams, bufOf[t] = x
        PROVE  bufOf'[t] = x
    <3>1. t = s => x = b  BY <1>1, <2>1, BuffersAssumption
    <3> QED BY <1>4, <2>1, <3>1 DEF IndInv, TypeOK
  <2> QED BY <2>1 DEF InPool
<1>10. EveryChunkOwnedOnce'
  BY <1>2, <1>3, <1>9 DEF IndInv, EveryChunkOwnedOnce, Mapped
<1>11. FreeListUniform' /\ AvailWithinCapacity' /\ LiveMemoryMapped' /\ NoOverlap'
  BY <1>2, <1>3 DEF IndInv, FreeListUniform, AvailWithinCapacity,
                    LiveMemoryMapped, NoOverlap, Mapped
<1>12. RegionsPinned'
  <2>1. ASSUME NEW t \in Streams \ {s}, tx[t] # NoBuffer
        PROVE  tx[t] \in Buffers /\ tx[t] # b /\ tx'[t] = tx[t]
               /\ txHead'[tx[t]] = txHead[tx[t]]
    BY <1>4, <1>7, <2>1 DEF IndInv, TypeOK, HandleValid
  <2>2. tx'[s] = b /\ txHead'[b] = NoChunk
    BY <1>4 DEF IndInv, TypeOK
  <2>3. ASSUME NEW r \in staged
        PROVE  tx'[r.stream] # NoBuffer /\ r.chunk \in Used(tx[r.stream])'
    <3>1. r.stream \in Streams \ {s} /\ tx[r.stream] # NoBuffer
      BY <1>2 DEF IndInv, TypeOK, RegionsPinned
    <3>2. PICK x \in Buffers : x = tx[r.stream]
      BY <2>1, <3>1
    <3>3. txHead'[x] = txHead[x] /\ tx'[r.stream] = x
      BY <2>1, <3>1, <3>2
    <3>4. r.chunk \in Used(x)
      BY <3>2 DEF IndInv, RegionsPinned
    <3>5. r.chunk \in Used(x)'
      BY <1>3, <3>3, <3>4 DEF Used
    <3> QED BY <3>1, <3>2, <3>3, <3>5
  <2>4. ASSUME NEW t \in Streams, tx'[t] # NoBuffer, txHead'[tx'[t]] # NoChunk
        PROVE  txHead'[tx'[t]] \in Elems(list'[tx'[t]])
    BY <1>3, <1>4, <2>1, <2>2, <2>4 DEF IndInv, TypeOK, RegionsPinned
  <2>5. ASSUME NEW r \in inflight
        PROVE  bufOf'[r.stream] = bufOf[r.stream]
    BY <1>1, <1>4 DEF IndInv, TypeOK, RegionsPinned, EveryChunkOwnedOnce
  <2> QED BY <1>2, <1>3, <2>3, <2>4, <2>5 DEF IndInv, RegionsPinned
<1> QED BY <1>6, <1>8, <1>10, <1>11, <1>12 DEF IndInv

\* So does allocating from the last chunk.
LEMMA FromTailIndInv ==
  ASSUME IndInv, NEW s \in Streams, NEW size \in Nat,
         AllocateFromTail(s, size)
  PROVE  IndInv' /\ (Promise!Grant(s) \/ Promise!Refuse)
<1> DEFINE c == TailOf(s)
           new == [stream |-> s, chunk |-> c, lo |-> avail[c] - size,
                   hi |-> avail[c]]
<1>1. PICK b \in Buffers : b = tx[s]
  BY DEF AllocateFromTail, IndInv, TypeOK
<1>2. /\ list \in [Buffers -> Seq(Chunks)]
      /\ list[b] # <<>>
      /\ Len(list[b]) \in 1..Len(list[b])
      /\ list[b][Len(list[b])] = c
      /\ c \in Chunks /\ size <= avail[c] /\ avail[c] \in Nat
  BY <1>1 DEF AllocateFromTail, TailHasRoom, TailOf, IndInv, TypeOK
<1> HIDE DEF c
<1>3. /\ staged' = staged \cup {new}
      /\ avail' = [avail EXCEPT ![c] = avail[c] - size]
      /\ txHead' = [txHead EXCEPT ![b] = IF @ = NoChunk THEN c ELSE @]
      /\ UNCHANGED <<pend, inflight, cap, ev, list, open, curCap, chunkFree,
                     bufOf, bufFree, tx>>
  BY <1>1 DEF AllocateFromTail, Carve, c
<1>4. avail[c] - size \in Nat
  BY <1>2, Difference
<1>5. TypeOK'
  <2>1. new \in [stream : Streams, chunk : Chunks, lo : Nat, hi : Nat]
    BY <1>2, <1>4
  <2>2. avail' \in [Chunks -> Nat]
    BY <1>2, <1>3, <1>4 DEF IndInv, TypeOK
  <2>3. txHead' \in [Buffers -> Chunks \cup {NoChunk}]
    BY <1>2, <1>3 DEF IndInv, TypeOK
  <2> QED BY <1>3, <2>1, <2>2, <2>3 DEF IndInv, TypeOK
<1>6. HandleValid' /\ EveryChunkOwnedOnce' /\ FreeListUniform'
  BY <1>3 DEF IndInv, HandleValid, EveryChunkOwnedOnce, FreeListUniform,
              Mapped, InPool
<1>7. /\ avail \in [Chunks -> Nat]
      /\ \A d \in Chunks : avail'[d] <= avail[d]
      /\ avail'[c] = avail[c] - size
  BY <1>2, <1>3, <1>4 DEF IndInv, TypeOK
<1>8. cap[c] \in Nat /\ avail[c] <= cap[c] /\ cap[c] > 0
  BY <1>2 DEF IndInv, AvailWithinCapacity, EveryChunkOwnedOnce, Mapped, TypeOK
<1>9. AvailWithinCapacity'
  <2>1. ASSUME NEW x \in Buffers, NEW i \in 1..Len(list[x])
        PROVE  avail'[list[x][i]] <= cap[list[x][i]]
    <3>1. list[x][i] \in Chunks
      BY <1>2
    <3>2. avail[list[x][i]] <= cap[list[x][i]]
      BY DEF IndInv, AvailWithinCapacity
    <3>3. avail'[list[x][i]] \in Nat /\ cap[list[x][i]] \in Nat
      BY <1>5, <3>1 DEF TypeOK, IndInv
    <3> QED BY <1>7, <3>1, <3>2, <3>3
  <2> QED BY <1>3, <2>1 DEF AvailWithinCapacity
<1>10. LiveMemoryMapped'
  <2>1. ASSUME NEW r \in staged \cup inflight
        PROVE  /\ r.chunk \in Mapped'
               /\ r.hi <= cap'[r.chunk]
               /\ avail'[r.chunk] <= r.lo
    <3>1. /\ r.chunk \in Chunks /\ r.lo \in Nat
          /\ r.chunk \in Mapped /\ r.hi <= cap[r.chunk]
          /\ avail[r.chunk] <= r.lo
      BY DEF IndInv, LiveMemoryMapped, TypeOK
    <3>2. avail'[r.chunk] \in Nat /\ avail[r.chunk] \in Nat
      BY <1>5, <1>7, <3>1 DEF TypeOK
    <3> QED BY <1>3, <1>7, <3>1, <3>2 DEF Mapped
  <2>2. new.chunk \in Mapped' /\ new.hi <= cap'[new.chunk]
        /\ avail'[new.chunk] <= new.lo
    BY <1>2, <1>3, <1>4, <1>7, <1>8 DEF Mapped
  <2> QED BY <1>3, <2>1, <2>2 DEF LiveMemoryMapped
<1>11. NoOverlap'
  <2>1. ASSUME NEW r \in staged \cup inflight
        PROVE  ~Promise!Overlap(r, new) /\ ~Promise!Overlap(new, r)
    <3>1. r.chunk = c => avail[c] <= r.lo
      BY DEF IndInv, LiveMemoryMapped
    <3>2. r.lo \in Nat /\ r.hi \in Nat
      BY DEF IndInv, TypeOK
    <3> QED BY <1>2, <3>1, <3>2 DEF Promise!Overlap
  <2> QED BY <1>3, <2>1 DEF NoOverlap, IndInv
<1>12. RegionsPinned'
  <2>1. /\ txHead \in [Buffers -> Chunks \cup {NoChunk}]
        /\ tx[s] = b /\ b # NoBuffer
    BY <1>1, BuffersAssumption DEF IndInv, TypeOK
  <2>2. ASSUME NEW x \in Buffers, NEW h \in 1..Len(list[x]),
               list[x][h] = txHead[x]
        PROVE  txHead'[x] = txHead[x]
    <3>1. txHead[x] \in Chunks  BY <1>2, <2>2
    <3> QED BY <1>3, <2>1, <3>1, ChunksAssumption
  <2>3. ASSUME NEW x \in Buffers PROVE Used(x) \subseteq Used(x)'
    BY <1>3, <2>2 DEF Used
  <2>4. c \in Used(b)'
    <3>1. CASE txHead[b] = NoChunk
      <4>1. txHead'[b] = c  BY <1>3, <2>1, <3>1
      <4> QED BY <1>2, <1>3, <4>1 DEF Used
    <3>2. CASE txHead[b] # NoChunk
      <4>1. txHead[b] \in Elems(list[b])
        BY <2>1, <3>2 DEF IndInv, RegionsPinned
      <4>2. PICK h \in 1..Len(list[b]) : list[b][h] = txHead[b]
        BY <4>1 DEF Elems
      <4>3. h <= Len(list[b])  BY <1>2
      <4> QED BY <1>2, <1>3, <2>2, <4>2, <4>3 DEF Used
    <3> QED BY <3>1, <3>2
  <2>5. ASSUME NEW t \in Streams, tx[t] # NoBuffer, txHead'[tx[t]] # NoChunk
        PROVE  txHead'[tx[t]] \in Elems(list[tx[t]])
    <3>1. tx[t] \in Buffers  BY <2>5 DEF IndInv, TypeOK
    <3>2. CASE txHead[tx[t]] = NoChunk
      <4>1. tx[t] = b /\ txHead'[b] = c  BY <1>3, <2>1, <2>5, <3>1, <3>2
      <4> QED BY <1>2, <4>1 DEF Elems
    <3>3. CASE txHead[tx[t]] # NoChunk
      <4>1. txHead'[tx[t]] = txHead[tx[t]]  BY <1>3, <2>1, <3>1, <3>3
      <4> QED BY <2>5, <3>3, <4>1 DEF IndInv, RegionsPinned
    <3> QED BY <3>2, <3>3
  <2>6. ASSUME NEW r \in staged
        PROVE  tx[r.stream] \in Buffers /\ r.chunk \in Used(tx[r.stream])
    BY DEF IndInv, RegionsPinned, TypeOK
  <2>7. ASSUME NEW r \in staged'
        PROVE  tx'[r.stream] # NoBuffer /\ r.chunk \in Used(tx[r.stream])'
    <3>1. CASE r = new
      BY <1>3, <2>1, <2>4, <3>1
    <3>2. CASE r \in staged
      <4>1. PICK x \in Buffers : x = tx[r.stream]  BY <2>6, <3>2
      <4> QED BY <1>3, <2>3, <2>6, <3>2, <4>1, BuffersAssumption
    <3> QED BY <1>3, <3>1, <3>2
  <2> QED BY <1>3, <2>5, <2>7 DEF IndInv, RegionsPinned
<1>13. ASSUME NEW q \in staged \cup inflight
       PROVE  ~Promise!Overlap(new, q)
  <2>1. q.chunk = c => avail[c] <= q.lo
    BY DEF IndInv, LiveMemoryMapped
  <2>2. q.lo \in Nat /\ q.hi \in Nat
    BY DEF IndInv, TypeOK
  <2> QED BY <1>2, <2>1, <2>2 DEF Promise!Overlap
<1>14. /\ new.stream = s /\ new.chunk \in Chunks
       /\ 0 <= new.lo /\ new.lo <= new.hi /\ new.hi <= cap'[new.chunk]
       /\ cap'[new.chunk] > 0
  BY <1>2, <1>3, <1>4, <1>8
<1>15. \A r \in staged \cup inflight : cap'[r.chunk] = cap[r.chunk]
  BY <1>3
<1>16. ASSUME new \in staged PROVE Promise!Refuse
  <2> HIDE DEF new
  <2>1. staged' = staged  BY <1>3, <1>16
  <2> QED BY <1>3, <1>15, <2>1 DEF Promise!Refuse, Promise!Remap, Promise!Live
<1>17. ASSUME new \notin staged PROVE Promise!Grant(s)
  <2> HIDE DEF new
  <2>1. new \in staged' \ staged /\ staged' = staged \cup {new}
    BY <1>3, <1>17
  <2>2. pend' = pend /\ inflight' = inflight
    BY <1>3
  <2> QED BY <1>13, <1>14, <1>15, <2>1, <2>2
          DEF Promise!Grant, Promise!Remap, Promise!Live
<1> HIDE DEF new
<1> QED BY <1>5, <1>6, <1>9, <1>10, <1>11, <1>12, <1>16, <1>17 DEF IndInv

\* Memory given back by reclaim, or by growing, never held a live region.
LEMMA FailsIndInv ==
  ASSUME IndInv, NEW s \in Streams, NEW size \in Nat,
         AllocateNewFails(s, size) \/ AllocateGrownFails(s, size)
  PROVE  IndInv' /\ Promise!Refuse
<1>1. PICK cut : \E deleted, dropped :
        /\ SafeCut(cut)
        /\ deleted \subseteq Polled(cut) \cup chunkFree
        /\ Drops(cut, dropped)
        /\ cap' = Unmap(deleted)
        /\ list' = ListsAfter(cut)
        /\ chunkFree' = {} /\ Polled(cut) \cup chunkFree = deleted
        /\ curCap' \in Nat \ {0}
        /\ UNCHANGED <<pend, staged, inflight, avail, ev, txHead, open, tx>>
  <2>1. CASE AllocateNewFails(s, size)
    <3>1. PICK cut \in PollCuts : /\ Recycled(cut) = {}
                                  /\ DropEmptied(cut)
                                  /\ cap' = Unmap(Deleted(cut))
                                  /\ list' = ListsAfter(cut)
      BY <2>1 DEF AllocateNewFails
    <3>2. SafeCut(cut) /\ Deleted(cut) = Polled(cut)
      BY <3>1, PollCutsSafe DEF Deleted
    <3>3. Drops(cut, Emptied(cut))
      BY <3>1 DEF Drops, DropEmptied
    <3>4. chunkFree' = {} /\ chunkFree = {} /\ curCap' \in Nat \ {0}
      BY <2>1 DEF AllocateNewFails, MustReclaim, IndInv, TypeOK
    <3>5. UNCHANGED <<pend, staged, inflight, avail, ev, txHead, open, tx>>
      BY <2>1 DEF AllocateNewFails
    <3> QED BY <3>1, <3>2, <3>3, <3>4, <3>5
  <2>2. CASE AllocateGrownFails(s, size)
    <3>1. SafeCut(NoCut) /\ ListsAfter(NoCut) = list /\ Polled(NoCut) = {}
      BY NoCutSafe DEF IndInv
    <3>2. Drops(NoCut, {})
      BY <2>2 DEF AllocateGrownFails, Drops, IndInv, TypeOK
    <3>3. curCap' \in Nat \ {0}
      BY <2>2, SizesAssumption DEF AllocateGrownFails, GrownCapacity
    <3> QED BY <2>2, <3>1, <3>2, <3>3 DEF AllocateGrownFails
  <2> QED BY <2>1, <2>2
<1>2. PICK deleted, dropped :
        /\ SafeCut(cut)
        /\ deleted \subseteq Polled(cut) \cup chunkFree
        /\ Drops(cut, dropped)
        /\ cap' = Unmap(deleted)
        /\ list' = ListsAfter(cut)
        /\ chunkFree' = {} /\ Polled(cut) \cup chunkFree = deleted
        /\ curCap' \in Nat \ {0}
        /\ UNCHANGED <<pend, staged, inflight, avail, ev, txHead, open, tx>>
  BY <1>1
<1> DEFINE L == ListsAfter(cut)
<1>3. /\ L \in [Buffers -> Seq(Chunks)]
      /\ \A x \in Buffers :
           /\ Len(L[x]) = Len(list[x]) - cut[x]
           /\ \A i \in 1..Len(L[x]) : L[x][i] = list[x][i + cut[x]]
      /\ Polled(cut) \subseteq Mapped \ chunkFree
      /\ \A x \in Buffers : \A i \in 1..Len(L[x]) : L[x][i] \notin Polled(cut)
      /\ \A r \in staged \cup inflight : r.chunk \notin Polled(cut)
      /\ list' = L
  BY <1>2, CutFacts
<1>4. \A x \in dropped : x \in Buffers /\ L[x] = <<>> /\ ~open[x]
  BY <1>2 DEF Drops, Emptied
<1>5. ASSUME NEW x \in Buffers, NEW i \in 1..Len(L[x])
      PROVE  /\ i + cut[x] \in 1..Len(list[x])
             /\ L[x][i] = list[x][i + cut[x]]
             /\ L[x][i] \in Mapped \ deleted
             /\ L[x][i] \in Chunks
  <2>0. /\ cut[x] \in Nat /\ Len(list[x]) \in Nat
        /\ Len(L[x]) = Len(list[x]) - cut[x]
    BY <1>2, <1>3 DEF IndInv, TypeOK, SafeCut
  <2>1. i + cut[x] \in 1..Len(list[x]) /\ L[x][i] = list[x][i + cut[x]]
    BY <1>3, <2>0
  <2> QED BY <1>2, <1>3, <2>1 DEF IndInv, EveryChunkOwnedOnce, Mapped
<1>6. /\ \A x \in Buffers : \A i \in 1..Len(list[x]) :
           list[x][i] \notin Polled(cut) =>
             \E j \in 1..Len(L[x]) : L[x][j] = list[x][i]
      /\ \A r \in staged \cup inflight :
           /\ bufOf[r.stream] \in Buffers
           /\ \E i \in 1..Len(L[bufOf[r.stream]]) :
                L[bufOf[r.stream]][i] = r.chunk
      /\ \A x \in Buffers : \A h \in 1..Len(list[x]) :
           list[x][h] = txHead[x] =>
             /\ h - cut[x] \in 1..Len(L[x])
             /\ L[x][h - cut[x]] = txHead[x]
  BY <1>2, CutKeeps
<1> HIDE DEF L
<1>7. /\ cap' \in [Chunks -> Nat] /\ cap \in [Chunks -> Nat]
      /\ \A d \in Chunks : cap'[d] = IF d \in deleted THEN 0 ELSE cap[d]
  BY <1>2 DEF Unmap, IndInv, TypeOK
<1>8. \A t \in Streams : bufOf'[t] = IF bufOf[t] \in dropped THEN NoBuffer
                                     ELSE bufOf[t]
  BY <1>2 DEF Drops
<1>9. TypeOK'
  <2>1. /\ bufOf' \in [Streams -> Buffers \cup {NoBuffer}]
        /\ bufFree' \subseteq Buffers
    BY <1>2, <1>4 DEF Drops, IndInv, TypeOK
  <2> QED BY <1>2, <1>3, <1>7, <2>1 DEF IndInv, TypeOK
<1>10. HandleValid'
  <2>1. bufFree' = bufFree \cup dropped /\ tx' = tx /\ open' = open
    BY <1>2 DEF Drops
  <2> QED BY <1>4, <1>8, <2>1, BuffersAssumption DEF IndInv, TypeOK, HandleValid
<1>11. EveryChunkOwnedOnce'
  <2>1. ASSUME NEW x \in Buffers, InPool(x), x \notin dropped
        PROVE  InPool(x)'
    BY <1>8, <2>1 DEF InPool
  <2>2. ASSUME NEW d \in Mapped'
        PROVE  \E x \in Buffers : InPool(x)' /\ d \in Elems(list'[x])
    <3>1. d \in Mapped /\ d \notin chunkFree /\ d \notin Polled(cut)
      BY <1>2, <1>7 DEF Mapped
    <3>2. PICK x \in Buffers : InPool(x) /\ d \in Elems(list[x])
      BY <3>1 DEF IndInv, EveryChunkOwnedOnce
    <3>3. PICK i \in 1..Len(list[x]) : list[x][i] = d
      BY <3>2 DEF Elems
    <3>4. PICK j \in 1..Len(L[x]) : L[x][j] = d
      BY <1>6, <3>1, <3>3
    <3>5. x \notin dropped  BY <1>4, <3>4
    <3>6. d \in Elems(list'[x])  BY <1>3, <3>4 DEF Elems
    <3> QED BY <2>1, <3>2, <3>5, <3>6
  <2>3. ASSUME NEW x \in Buffers, ~InPool(x)' PROVE list'[x] = <<>>
    <3>1. CASE x \in dropped  BY <1>3, <1>4, <3>1
    <3>2. CASE x \notin dropped
      <4>1. list[x] = <<>>  BY <2>1, <2>3, <3>2 DEF IndInv, EveryChunkOwnedOnce
      <4>2. Len(L[x]) = 0   BY <1>2, <1>3, <4>1 DEF SafeCut
      <4> QED BY <1>3, <4>2
    <3> QED BY <3>1, <3>2
  <2>4. ASSUME NEW x \in Buffers, NEW i \in 1..Len(L[x])
        PROVE  L[x][i] \in Mapped' \ chunkFree'
    BY <1>2, <1>5, <1>7 DEF Mapped
  <2>5. ASSUME NEW x \in Buffers, NEW y \in Buffers,
               NEW i \in 1..Len(L[x]), NEW j \in 1..Len(L[y]),
               L[x][i] = L[y][j]
        PROVE  x = y /\ i = j
    <3>1. x = y /\ i + cut[x] = j + cut[y]
      <4>1. /\ i + cut[x] \in 1..Len(list[x]) /\ j + cut[y] \in 1..Len(list[y])
            /\ list[x][i + cut[x]] = list[y][j + cut[y]]
        BY <1>5, <2>5
      <4> QED BY <4>1 DEF IndInv, EveryChunkOwnedOnce
    <3>2. cut[x] \in Nat /\ cut[y] \in Nat  BY <1>2 DEF SafeCut
    <3> QED BY <3>1, <3>2
  <2>6. chunkFree' \subseteq Mapped'
    BY <1>2
  <2> QED BY <1>3, <2>2, <2>3, <2>4, <2>5, <2>6 DEF EveryChunkOwnedOnce
<1>12. FreeListUniform'
  BY <1>2 DEF FreeListUniform
<1>13. AvailWithinCapacity'
  <2>1. ASSUME NEW x \in Buffers, NEW i \in 1..Len(L[x])
        PROVE  avail[L[x][i]] <= cap'[L[x][i]]
    <3>1. avail[L[x][i]] <= cap[L[x][i]]
      BY <1>5 DEF IndInv, AvailWithinCapacity
    <3> QED BY <1>5, <1>7, <3>1
  <2> QED BY <1>2, <1>3, <2>1 DEF AvailWithinCapacity
<1>14. ASSUME NEW r \in staged \cup inflight
       PROVE  r.chunk \in Chunks /\ cap'[r.chunk] = cap[r.chunk]
  <2>1. r.chunk \in Chunks \ deleted  BY <1>5, <1>6
  <2> QED BY <1>7, <2>1
<1>15. LiveMemoryMapped'
  BY <1>2, <1>14 DEF IndInv, LiveMemoryMapped, Mapped
<1>16. NoOverlap'
  BY <1>2 DEF IndInv, NoOverlap
<1>17. RegionsPinned'
  <2>1. ASSUME NEW x \in Buffers, txHead[x] \in Elems(list[x])
        PROVE  txHead[x] \in Elems(list'[x])
    BY <1>3, <1>6, <2>1 DEF Elems
  <2>2. ASSUME NEW x \in Buffers, NEW d \in Used(x) PROVE d \in Used(x)'
    <3>1. PICK h, k \in 1..Len(list[x]) :
            h <= k /\ list[x][h] = txHead[x] /\ list[x][k] = d
      BY DEF Used
    <3>2. /\ cut[x] \in Nat /\ Len(list[x]) \in Nat
          /\ Len(L[x]) = Len(list[x]) - cut[x]
      BY <1>2, <1>3 DEF IndInv, TypeOK, SafeCut
    <3>3. /\ h - cut[x] \in 1..Len(L[x])
          /\ L[x][h - cut[x]] = txHead[x]
      BY <1>6, <3>1
    <3>4. /\ k - cut[x] \in 1..Len(L[x]) /\ h - cut[x] <= k - cut[x]
          /\ (k - cut[x]) + cut[x] = k
      <4>1. /\ h \in Int /\ k \in Int /\ k <= Len(list[x]) /\ h <= k
            /\ h - cut[x] >= 1
        BY <3>1, <3>2, <3>3
      <4> QED BY <3>2, <4>1, ShiftedIndex
    <3>5. L[x][k - cut[x]] = d
      BY <1>3, <3>1, <3>4
    <3> QED BY <1>2, <1>3, <3>3, <3>4, <3>5 DEF Used
  <2>3. ASSUME NEW r \in inflight
        PROVE  /\ bufOf'[r.stream] = bufOf[r.stream]
               /\ r.chunk \in Elems(list'[bufOf[r.stream]])
    <3>1. PICK i \in 1..Len(L[bufOf[r.stream]]) :
            L[bufOf[r.stream]][i] = r.chunk
      BY <1>6
    <3>2. bufOf[r.stream] \notin dropped
      BY <1>4, <3>1
    <3> QED BY <1>3, <1>8, <3>1, <3>2 DEF Elems, IndInv, TypeOK
  <2>4. ASSUME NEW r \in staged
        PROVE  tx[r.stream] # NoBuffer /\ r.chunk \in Used(tx[r.stream])'
    <3>1. tx[r.stream] # NoBuffer /\ r.chunk \in Used(tx[r.stream])
      BY DEF IndInv, RegionsPinned
    <3>2. PICK x \in Buffers : x = tx[r.stream]
      BY <3>1 DEF IndInv, TypeOK
    <3> QED BY <1>2, <2>2, <3>1, <3>2
  <2>5. ASSUME NEW t \in Streams, tx[t] # NoBuffer, txHead[tx[t]] # NoChunk
        PROVE  txHead[tx[t]] \in Elems(list'[tx[t]])
    BY <2>1, <2>5 DEF IndInv, TypeOK, RegionsPinned
  <2> QED BY <1>2, <2>3, <2>4, <2>5 DEF IndInv, RegionsPinned
<1>18. Promise!Refuse
  BY <1>2, <1>14 DEF Promise!Refuse, Promise!Remap, Promise!Live
<1> QED BY <1>9, <1>10, <1>11, <1>12, <1>13, <1>15, <1>16, <1>17, <1>18 DEF IndInv

\* So does closing the transaction.
LEMMA CloseIndInv ==
  ASSUME IndInv, NEW s \in Streams, Close(s)
  PROVE  IndInv'
<1>1. PICK b \in Buffers : b = tx[s]
  BY DEF Close, IndInv, TypeOK
<1> DEFINE now == pend[s] + 1
           mine == {q \in staged : q.stream = s}
           done == {[stream |-> s, chunk |-> r.chunk, lo |-> r.lo,
                     hi |-> r.hi, left |-> now] : r \in mine}
<1>2. /\ pend' = [pend EXCEPT ![s] = now]
      /\ ev' = [c \in Chunks |-> IF c \in Used(b)
                                 THEN [t \in Streams |-> IF t = s THEN now ELSE 0]
                                 ELSE ev[c]]
      /\ staged' = {r \in staged : r.stream # s}
      /\ inflight' = inflight \cup done
      /\ open' = [open EXCEPT ![b] = FALSE]
      /\ txHead' = [txHead EXCEPT ![b] = NoChunk]
      /\ tx' = [tx EXCEPT ![s] = NoBuffer]
      /\ UNCHANGED <<cap, avail, list, curCap, chunkFree, bufOf, bufFree>>
  BY <1>1 DEF Close
<1>3. /\ pend \in [Streams -> Nat] /\ now \in Nat /\ now > 0
      /\ b # NoBuffer /\ tx[s] = b /\ bufOf[s] = b
      /\ list \in [Buffers -> Seq(Chunks)]
      /\ ev \in [Chunks -> [Streams -> Nat]]
  BY <1>1, BuffersAssumption DEF IndInv, TypeOK, HandleValid
<1>4. ASSUME NEW q \in done
      PROVE  \E r \in mine :
               /\ q = [stream |-> s, chunk |-> r.chunk, lo |-> r.lo,
                       hi |-> r.hi, left |-> now]
               /\ q.stream = s /\ q.chunk = r.chunk /\ q.lo = r.lo
               /\ q.hi = r.hi /\ q.left = now
  OBVIOUS
<1> HIDE DEF done, mine, now
<1>5. TypeOK'
  <2>1. done \subseteq [stream : Streams, chunk : Chunks, lo : Nat, hi : Nat,
                        left : Nat]
    BY <1>3 DEF done, mine, IndInv, TypeOK
  <2>2. ev' \in [Chunks -> [Streams -> Nat]]
    BY <1>2, <1>3
  <2> QED BY <1>2, <1>3, <2>1, <2>2 DEF IndInv, TypeOK
<1>6. HandleValid'
  BY <1>1, <1>2, <1>3 DEF IndInv, TypeOK, HandleValid
<1>7. EveryChunkOwnedOnce' /\ FreeListUniform' /\ AvailWithinCapacity'
  BY <1>2 DEF IndInv, EveryChunkOwnedOnce, FreeListUniform,
              AvailWithinCapacity, Mapped, InPool
<1>8. ASSUME NEW r \in mine PROVE r \in staged /\ r.stream = s
  BY DEF mine
<1>9. LiveMemoryMapped'
  BY <1>2, <1>4, <1>8 DEF IndInv, LiveMemoryMapped, Mapped
<1>10. NoOverlap'
  <2>1. ASSUME NEW q1 \in done, NEW q2 \in done, q1 # q2
        PROVE  ~Promise!Overlap(q1, q2)
    BY <1>4, <1>8, <2>1 DEF IndInv, NoOverlap, Promise!Overlap
  <2>2. ASSUME NEW q1 \in done, NEW q2 \in inflight
        PROVE  ~Promise!Overlap(q1, q2) /\ ~Promise!Overlap(q2, q1)
    BY <1>4, <1>8 DEF IndInv, NoOverlap, Promise!Overlap
  <2>3. ASSUME NEW r \in staged', NEW q \in done
        PROVE  ~Promise!Overlap(r, q)
    BY <1>2, <1>4, <1>8 DEF IndInv, NoOverlap, Promise!Overlap
  <2> QED BY <1>2, <2>1, <2>2, <2>3 DEF IndInv, NoOverlap
<1>11. RegionsPinned'
  <2>1. ASSUME NEW t \in Streams, tx'[t] # NoBuffer
        PROVE  /\ t # s /\ tx'[t] = tx[t] /\ tx[t] \in Buffers
               /\ tx[t] # b /\ txHead'[tx[t]] = txHead[tx[t]]
    BY <1>1, <1>2, <1>3, <2>1 DEF IndInv, TypeOK, HandleValid
  <2>2. ASSUME NEW t \in Streams, tx'[t] # NoBuffer, txHead'[tx'[t]] # NoChunk
        PROVE  txHead'[tx'[t]] \in Elems(list'[tx'[t]])
    BY <1>2, <2>1, <2>2 DEF IndInv, RegionsPinned
  <2>3. ASSUME NEW r \in staged'
        PROVE  tx'[r.stream] # NoBuffer /\ r.chunk \in Used(tx[r.stream])'
    <3>1. r \in staged /\ r.stream \in Streams /\ r.stream # s
      BY <1>2 DEF IndInv, TypeOK
    <3>2. tx[r.stream] # NoBuffer /\ r.chunk \in Used(tx[r.stream])
      BY <3>1 DEF IndInv, RegionsPinned
    <3>3. tx'[r.stream] = tx[r.stream]
      BY <1>2, <3>1 DEF IndInv, TypeOK
    <3>4. PICK x \in Buffers : x = tx[r.stream]
      BY <3>1, <3>2 DEF IndInv, TypeOK
    <3>5. txHead'[x] = txHead[x]
      BY <2>1, <3>1, <3>2, <3>3, <3>4
    <3>6. r.chunk \in Used(x)'
      BY <1>2, <3>2, <3>4, <3>5 DEF Used
    <3> QED BY <3>2, <3>3, <3>4, <3>6
  <2>4. ASSUME NEW q \in done
        PROVE  /\ q.left > 0
               /\ q.left <= ev'[q.chunk][q.stream]
               /\ q.left <= pend'[q.stream]
               /\ bufOf'[q.stream] # NoBuffer
               /\ q.chunk \in Elems(list'[bufOf'[q.stream]])
    <3>1. PICK r \in mine : q.stream = s /\ q.chunk = r.chunk /\ q.left = now
      BY <1>4
    <3>2. r.chunk \in Used(b) /\ r.chunk \in Chunks
      BY <1>3, <1>8 DEF IndInv, RegionsPinned, TypeOK
    <3>3. r.chunk \in Elems(list[b])
      BY <3>2 DEF Used, Elems
    <3>4. ev'[q.chunk][q.stream] = now /\ pend'[q.stream] = now
      BY <1>2, <1>3, <3>1, <3>2
    <3> QED BY <1>2, <1>3, <3>1, <3>3, <3>4
  <2>5. ASSUME NEW q \in inflight
        PROVE  /\ q.left > 0
               /\ q.left <= ev'[q.chunk][q.stream]
               /\ q.left <= pend'[q.stream]
               /\ bufOf'[q.stream] # NoBuffer
               /\ q.chunk \in Elems(list'[bufOf'[q.stream]])
    <3>1. /\ q.stream \in Streams /\ q.chunk \in Chunks /\ q.left \in Nat
          /\ q.left > 0 /\ q.left <= ev[q.chunk][q.stream]
          /\ q.left <= pend[q.stream]
          /\ bufOf[q.stream] \in Buffers
          /\ q.chunk \in Elems(list[bufOf[q.stream]])
      BY DEF IndInv, TypeOK, RegionsPinned
    <3>2. q.left <= pend'[q.stream]
      BY <1>2, <1>3, <3>1 DEF now
    <3>3. q.chunk \in Used(b) => q.stream = s
      <4>1. ASSUME q.chunk \in Used(b) PROVE bufOf[q.stream] = b
        BY <3>1, <4>1 DEF Used, Elems, IndInv, EveryChunkOwnedOnce
      <4> QED BY <1>3, <3>1, <4>1 DEF IndInv, HandleValid
    <3>4. q.left <= ev'[q.chunk][q.stream]
      <4>1. CASE q.chunk \in Used(b)
        <5>1. q.stream = s  BY <3>3, <4>1
        <5>2. ev'[q.chunk][q.stream] = now  BY <1>2, <3>1, <4>1, <5>1
        <5>3. q.left <= now  BY <1>3, <3>1, <5>1 DEF now
        <5> QED BY <5>2, <5>3
      <4>2. CASE q.chunk \notin Used(b)
        BY <1>2, <3>1, <4>2
      <4> QED BY <4>1, <4>2
    <3> QED BY <1>2, <3>1, <3>2, <3>4, BuffersAssumption
  <2> QED BY <1>2, <2>2, <2>3, <2>4, <2>5 DEF RegionsPinned
<1> QED BY <1>5, <1>6, <1>7, <1>9, <1>10, <1>11 DEF IndInv

\* So does the device finishing its oldest work.
LEMMA FinishIndInv ==
  ASSUME IndInv, NEW s \in Streams, Finish(s)
  PROVE  IndInv'
<1> DEFINE ended == {q \in inflight : q.stream = s /\ q.left > 1}
           fewer == {[r EXCEPT !.left = @ - 1] : r \in ended}
<1>1. /\ pend[s] > 0
      /\ pend' = [pend EXCEPT ![s] = @ - 1]
      /\ ev' = [c \in Chunks |->
                 [ev[c] EXCEPT ![s] = IF @ > 0 THEN @ - 1 ELSE 0]]
      /\ inflight' = {r \in inflight : r.stream # s} \cup fewer
      /\ UNCHANGED <<staged, cap, avail, list, txHead, open, curCap,
                     chunkFree, bufOf, bufFree, tx>>
  BY DEF Finish
<1>2. ASSUME NEW q \in fewer
      PROVE  \E r \in ended :
               /\ q = [r EXCEPT !.left = @ - 1]
               /\ q \in [stream : Streams, chunk : Chunks, lo : Nat, hi : Nat,
                         left : Nat]
               /\ q.stream = s /\ q.chunk = r.chunk /\ q.lo = r.lo
               /\ q.hi = r.hi /\ q.left = r.left - 1
               /\ r.stream = s /\ r.left > 1 /\ r.left \in Nat /\ r \in inflight
  <2>1. PICK r \in ended : q = [r EXCEPT !.left = @ - 1]
    OBVIOUS
  <2>2. r \in inflight /\ r.stream = s /\ r.left > 1
    OBVIOUS
  <2>3. r \in [stream : Streams, chunk : Chunks, lo : Nat, hi : Nat, left : Nat]
    BY <2>2 DEF IndInv, TypeOK
  <2>4. r.left \in Nat /\ r.left - 1 \in Nat
    BY <2>2, <2>3
  <2> QED BY <2>1, <2>2, <2>3, <2>4
<1> HIDE DEF ended, fewer
<1>3. pend \in [Streams -> Nat] /\ ev \in [Chunks -> [Streams -> Nat]]
  BY DEF IndInv, TypeOK
<1>4. TypeOK'
  <2>1. pend' \in [Streams -> Nat]  BY <1>1, <1>3
  <2>2. ev' \in [Chunks -> [Streams -> Nat]]  BY <1>1, <1>3
  <2> QED BY <1>1, <1>2, <2>1, <2>2 DEF IndInv, TypeOK
<1>5. HandleValid' /\ EveryChunkOwnedOnce' /\ FreeListUniform' /\ AvailWithinCapacity'
  BY <1>1 DEF IndInv, HandleValid, EveryChunkOwnedOnce, FreeListUniform,
              AvailWithinCapacity, Mapped, InPool
<1>6. LiveMemoryMapped'
  BY <1>1, <1>2 DEF IndInv, LiveMemoryMapped, Mapped
<1>7. NoOverlap'
  <2>1. ASSUME NEW q1 \in fewer, NEW q2 \in fewer, q1 # q2
        PROVE  ~Promise!Overlap(q1, q2)
    BY <1>2, <2>1 DEF IndInv, NoOverlap, Promise!Overlap
  <2>2. ASSUME NEW q1 \in fewer, NEW q2 \in inflight, q2.stream # s
        PROVE  ~Promise!Overlap(q1, q2) /\ ~Promise!Overlap(q2, q1)
    BY <1>2, <2>2 DEF IndInv, NoOverlap, Promise!Overlap
  <2>3. ASSUME NEW r \in staged, NEW q \in fewer
        PROVE  ~Promise!Overlap(r, q)
    BY <1>2 DEF IndInv, NoOverlap, Promise!Overlap
  <2> QED BY <1>1, <2>1, <2>2, <2>3 DEF IndInv, NoOverlap
<1>8. RegionsPinned'
  <2>1. ASSUME NEW q \in inflight, q.stream # s
        PROVE  /\ q.left <= ev'[q.chunk][q.stream]
               /\ q.left <= pend'[q.stream]
    BY <1>1, <1>3, <2>1 DEF IndInv, TypeOK, RegionsPinned
  <2>2. ASSUME NEW q \in fewer
        PROVE  /\ q.left > 0
               /\ q.left <= ev'[q.chunk][q.stream]
               /\ q.left <= pend'[q.stream]
               /\ bufOf[q.stream] # NoBuffer
               /\ q.chunk \in Elems(list[bufOf[q.stream]])
    <3>1. PICK r \in inflight :
             /\ q.stream = s /\ q.chunk = r.chunk /\ q.left = r.left - 1
             /\ r.stream = s /\ r.left > 1 /\ r.left \in Nat
      BY <1>2
    <3>2. /\ r.left <= ev[r.chunk][s] /\ r.left <= pend[s]
          /\ bufOf[s] # NoBuffer /\ r.chunk \in Elems(list[bufOf[s]])
          /\ r.chunk \in Chunks
      BY <3>1 DEF IndInv, TypeOK, RegionsPinned
    <3>3. ev'[r.chunk][s] = ev[r.chunk][s] - 1 /\ pend'[s] = pend[s] - 1
      BY <1>1, <1>3, <3>1, <3>2
    <3>4. ev[r.chunk][s] \in Nat /\ pend[s] \in Nat
      BY <1>3, <3>2
    <3> QED BY <3>1, <3>2, <3>3, <3>4
  <2>3. \A x : Used(x)' = Used(x)
    BY <1>1 DEF Used
  <2>4. ASSUME NEW r \in staged
        PROVE  tx'[r.stream] # NoBuffer /\ r.chunk \in Used(tx[r.stream])'
    BY <1>1, <2>3 DEF IndInv, RegionsPinned, Used
  <2> QED BY <1>1, <2>1, <2>2, <2>4 DEF IndInv, RegionsPinned
<1> QED BY <1>4, <1>5, <1>6, <1>7, <1>8 DEF IndInv

-----------------------------------------------------------------------------
(* The order of the events *)

\* No chunk has been used yet.
LEMMA InitEvents == Init => EventsOrdered
<1> SUFFICES ASSUME Init PROVE EventsOrdered
  OBVIOUS
<1>1. \A b \in Buffers : Len(list[b]) = 0
  BY DEF Init
<1> QED BY <1>1 DEF Init, EventsOrdered

\* What a poll leaves of a list keeps its order, and a chunk it leaves belongs to
\* the transaction afterwards if it did before.
LEMMA CutKeepsUsed ==
  ASSUME IndInv, NEW cut, SafeCut(cut), NEW b \in Buffers,
         NEW j \in 1..Len(ListsAfter(cut)[b]),
         ListsAfter(cut)[b][j] \in Used(b)
  PROVE  \E h \in 1..j : ListsAfter(cut)[b][h] = txHead[b]
<1>1. /\ list[b] \in Seq(Chunks) /\ cut[b] \in Nat /\ cut[b] <= Len(list[b])
      /\ \A i \in 1..cut[b] : list[b][i] # txHead[b]
  BY DEF IndInv, TypeOK, SafeCut, Pollable
<1>2. /\ Len(ListsAfter(cut)[b]) = Len(list[b]) - cut[b]
      /\ \A i \in 1..Len(ListsAfter(cut)[b]) :
           ListsAfter(cut)[b][i] = list[b][i + cut[b]]
  BY CutFacts
<1>3. PICK g, k \in 1..Len(list[b]) :
        g <= k /\ list[b][g] = txHead[b] /\ list[b][k] = list[b][j + cut[b]]
  BY <1>2 DEF Used
<1>4. j + cut[b] \in 1..Len(list[b]) /\ Len(list[b]) \in Nat
  BY <1>1, <1>2
<1>5. k = j + cut[b]
  BY <1>3, <1>4 DEF IndInv, EveryChunkOwnedOnce
<1>6. g > cut[b]
  BY <1>1, <1>3
<1>7. g - cut[b] \in 1..j /\ g - cut[b] \in 1..Len(ListsAfter(cut)[b])
  BY <1>1, <1>2, <1>3, <1>4, <1>5, <1>6
<1>8. ListsAfter(cut)[b][g - cut[b]] = list[b][g]
  <2>1. ListsAfter(cut)[b][g - cut[b]] = list[b][(g - cut[b]) + cut[b]]
    BY <1>2, <1>7
  <2>2. (g - cut[b]) + cut[b] = g
    BY <1>1, <1>3, <1>4
  <2> QED BY <2>1, <2>2
<1> QED BY <1>3, <1>7, <1>8

\* Taking a chunk from elsewhere keeps the order: it comes last, belongs to the
\* transaction and waits for nothing.
LEMMA TakesChunkEvents ==
  ASSUME IndInv, EventsOrdered, NEW s \in Streams, NEW size \in Nat, NEW c,
         NEW cut, NEW deleted, NEW dropped, NEW b, b = tx[s],
         TakesChunk(s, size, c, cut, deleted, dropped)
  PROVE  EventsOrdered'
<1> DEFINE L == ListsAfter(cut)
<1>1. SafeCut(cut)
  BY DEF TakesChunk
<1>2. /\ L \in [Buffers -> Seq(Chunks)]
      /\ \A x \in Buffers :
           /\ Len(L[x]) = Len(list[x]) - cut[x]
           /\ \A i \in 1..Len(L[x]) : L[x][i] = list[x][i + cut[x]]
      /\ Polled(cut) \subseteq Mapped \ chunkFree
      /\ \A x \in Buffers : \A i \in 1..Len(L[x]) : L[x][i] \notin Polled(cut)
  BY <1>1, CutFacts
<1> HIDE DEF L
<1>3. /\ b \in Buffers /\ bufOf[s] = b /\ open[b] /\ b # NoBuffer
      /\ c \in Chunks
      /\ cut \in [Buffers -> Nat]
      /\ list \in [Buffers -> Seq(Chunks)]
      /\ ev \in [Chunks -> [Streams -> Nat]]
      /\ txHead \in [Buffers -> Chunks \cup {NoChunk}]
      /\ \A x \in Buffers : cut[x] <= Len(list[x])
  BY <1>1, <1>2 DEF IndInv, TypeOK, HandleValid, TakesChunk, SafeCut, Mapped
<1>4. ASSUME NEW x \in Buffers, NEW i \in 1..Len(L[x])
      PROVE  /\ i + cut[x] \in 1..Len(list[x])
             /\ L[x][i] = list[x][i + cut[x]]
             /\ L[x][i] \in Chunks \ {c}
             /\ ev'[L[x][i]] = ev[L[x][i]]
  <2>0. /\ Len(list[x]) \in Nat /\ cut[x] \in Nat /\ cut[x] <= Len(list[x])
        /\ Len(L[x]) = Len(list[x]) - cut[x]
    BY <1>2, <1>3
  <2>1. i + cut[x] \in 1..Len(list[x]) /\ L[x][i] = list[x][i + cut[x]]
    BY <1>2, <2>0
  <2>2. L[x][i] \in Mapped \ (chunkFree \cup Polled(cut))
    BY <1>2, <2>1 DEF IndInv, EveryChunkOwnedOnce
  <2> QED BY <2>1, <2>2 DEF TakesChunk, Mapped
<1>5. /\ list' \in [Buffers -> Seq(Chunks)]
      /\ \A x \in Buffers : Len(list'[x]) = IF x = b THEN Len(L[b]) + 1
                                                   ELSE Len(L[x])
      /\ \A x \in Buffers : \A i \in 1..Len(L[x]) : list'[x][i] = L[x][i]
      /\ list'[b][Len(L[b]) + 1] = c
  <2>1. list' = [L EXCEPT ![b] = Append(@, c)]
    BY DEF TakesChunk, Link, L
  <2> QED BY <1>2, <1>3, <2>1, Linked
<1>6. Fired(c)'
  <2>1. \A d \in Polled(cut) \cup chunkFree : Fired(d)
    BY <1>1 DEF EventsOrdered, SafeCut, Polled, Pollable
  <2> QED BY <2>1 DEF TakesChunk, Fired
<1>7. /\ txHead' = [txHead EXCEPT ![b] = IF @ = NoChunk THEN c ELSE @]
      /\ UNCHANGED <<pend, open>>
  BY DEF TakesChunk, Carve
<1>8. c \in Chunks /\ c # NoChunk  BY <1>3, ChunksAssumption
<1>9. \A x \in Buffers : Len(L[x]) \in Nat
  BY <1>2
\* a transaction's chunks are its chunks afterwards
<1>10. ASSUME NEW x \in Buffers, NEW j \in 1..Len(L[x]), L[x][j] \in Used(x)
       PROVE  L[x][j] \in Used(x)'
  <2>1. PICK h \in 1..j : L[x][h] = txHead[x]
    BY <1>1, <1>10, CutKeepsUsed DEF L
  <2>2. h \in 1..Len(L[x]) /\ L[x][h] # NoChunk
    BY <1>4, <1>9, <2>1, ChunksAssumption
  <2>3. txHead'[x] = txHead[x]
    BY <1>3, <1>7, <2>1, <2>2
  <2>4. /\ h \in 1..Len(list'[x]) /\ j \in 1..Len(list'[x]) /\ h <= j
        /\ list'[x][h] = txHead'[x] /\ list'[x][j] = L[x][j]
    BY <1>5, <1>9, <2>1, <2>2, <2>3
  <2> QED BY <1>4, <2>4 DEF Used
<1>11. c \in Used(b)'
  <2>1. Len(L[b]) + 1 \in 1..Len(list'[b])
    BY <1>3, <1>5, <1>9
  <2>2. CASE txHead[b] = NoChunk
    <3>1. txHead'[b] = c  BY <1>3, <1>7, <2>2
    <3> QED BY <1>3, <1>5, <2>1, <3>1 DEF Used
  <2>3. CASE txHead[b] # NoChunk
    <3>1. PICK k \in 1..Len(list[b]) : list[b][k] = txHead[b]
      <4>1. RegionsPinned  BY DEF IndInv
      <4>2. txHead[b] \in Elems(list[b])  BY <1>3, <2>3, <4>1 DEF RegionsPinned
      <4> QED BY <4>2 DEF Elems
    <3>2. k > cut[b]
      BY <1>1, <1>3, <3>1 DEF SafeCut, Pollable
    <3>3. k - cut[b] \in 1..Len(L[b]) /\ L[b][k - cut[b]] = list[b][k]
      <4>1. /\ k \in Nat /\ cut[b] \in Nat /\ k <= Len(list[b])
            /\ Len(L[b]) = Len(list[b]) - cut[b]
        BY <1>2, <1>3, <3>1
      <4>2. k - cut[b] \in 1..Len(L[b]) /\ (k - cut[b]) + cut[b] = k
        BY <1>3, <1>9, <3>2, <4>1
      <4>3. L[b][k - cut[b]] = list[b][(k - cut[b]) + cut[b]]
        BY <1>3, <1>4, <4>2
      <4> QED BY <4>2, <4>3
    <3>4. txHead'[b] = txHead[b]
      BY <1>3, <1>7, <2>3
    <3>5. /\ k - cut[b] \in 1..Len(list'[b])
          /\ list'[b][k - cut[b]] = txHead'[b]
          /\ k - cut[b] <= Len(L[b]) + 1
      <4>1. Len(L[b]) \in Nat /\ Len(list'[b]) = Len(L[b]) + 1
        BY <1>3, <1>5, <1>9
      <4>2. list'[b][k - cut[b]] = L[b][k - cut[b]]
        BY <1>3, <1>5, <3>3
      <4> QED BY <3>1, <3>3, <3>4, <4>1, <4>2
    <3> QED BY <1>3, <1>5, <2>1, <3>5 DEF Used
  <2> QED BY <2>2, <2>3
<1>12. ASSUME NEW x \in Buffers, ~open'[x]
       PROVE  txHead'[x] = NoChunk
  BY <1>3, <1>7, <1>12 DEF EventsOrdered
<1>13. ASSUME NEW d \in chunkFree'
       PROVE  Fired(d)'
  <2>1. d \in (chunkFree \cup Polled(cut)) /\ d # c
    BY <1>13 DEF TakesChunk
  <2>2. d \in Chunks
    BY <1>2, <2>1 DEF IndInv, TypeOK, Mapped
  <2>3. Fired(d)
    BY <1>1, <2>1 DEF EventsOrdered, SafeCut, Polled, Pollable
  <2>4. ev'[d] = ev[d]
    BY <2>1, <2>2 DEF TakesChunk
  <2> QED BY <2>3, <2>4 DEF Fired
<1>14. ASSUME NEW u \in Streams, bufOf'[u] # NoBuffer,
              NEW i \in 1..Len(list'[bufOf'[u]]), NEW t \in Streams
       PROVE  ev'[list'[bufOf'[u]][i]][t] <= IF t = u THEN pend'[u] ELSE 0
  <2>1. bufOf'[u] = bufOf[u] /\ bufOf[u] \in Buffers
    BY <1>14 DEF TakesChunk, Drops, IndInv, TypeOK
  <2>2. PICK x \in Buffers : x = bufOf[u]  BY <2>1
  <2>3. pend[u] \in Nat  BY DEF IndInv, TypeOK
  <2>4. i \in 1..Len(list'[x])
    BY <1>14, <2>1, <2>2
  <2>5. CASE list'[x][i] = c
    <3>1. ev'[c][t] = 0  BY <1>6 DEF Fired
    <3> QED BY <1>7, <2>1, <2>2, <2>3, <2>5, <3>1
  <2>6. CASE i \in 1..Len(L[x])
    <3>1. list'[x][i] = list[x][i + cut[x]] /\ i + cut[x] \in 1..Len(list[x])
          /\ ev'[list'[x][i]] = ev[list[x][i + cut[x]]]
      BY <1>4, <1>5, <2>6
    <3>2. ev[list[x][i + cut[x]]][t] <= IF t = u THEN pend[u] ELSE 0
      BY <1>14, <2>1, <2>2, <3>1 DEF EventsOrdered
    <3> QED BY <1>7, <2>1, <2>2, <3>1, <3>2
  <2>7. i \in 1..Len(L[x]) \/ (x = b /\ i = Len(L[b]) + 1)
    BY <1>5, <1>9, <2>4
  <2> QED BY <1>5, <2>5, <2>6, <2>7
<1>15. ASSUME NEW x \in Buffers, NEW i \in 1..Len(list'[x]),
              NEW j \in 1..Len(list'[x]), NEW t \in Streams,
              i <= j, list'[x][j] \notin Used(x)'
       PROVE  ev'[list'[x][i]][t] <= ev'[list'[x][j]][t]
  <2>1. j \in 1..Len(L[x])
    <3>1. j \in 1..Len(L[x]) \/ (x = b /\ j = Len(L[b]) + 1)
      BY <1>5, <1>9
    <3> QED BY <1>5, <1>11, <1>15, <3>1
  <2>2. i \in 1..Len(L[x])
    BY <1>9, <1>15, <2>1
  <2>3. L[x][j] \notin Used(x)
    BY <1>5, <1>10, <1>15, <2>1
  <2>4. /\ i + cut[x] \in 1..Len(list[x]) /\ j + cut[x] \in 1..Len(list[x])
        /\ L[x][i] = list[x][i + cut[x]] /\ L[x][j] = list[x][j + cut[x]]
        /\ ev'[L[x][i]] = ev[L[x][i]] /\ ev'[L[x][j]] = ev[L[x][j]]
    BY <1>4, <2>1, <2>2
  <2>5. i + cut[x] <= j + cut[x]
    BY <1>3, <1>15
  <2>6. ev[L[x][i]][t] <= ev[L[x][j]][t]
    BY <2>3, <2>4, <2>5 DEF EventsOrdered
  <2> QED BY <1>5, <2>1, <2>2, <2>4, <2>6
<1> QED BY <1>12, <1>13, <1>14, <1>15 DEF EventsOrdered

-----------------------------------------------------------------------------
(* Theorems *)

\* A size the launch path may ask for.
LEMMA AllocateCases ==
  ASSUME NEW s \in Streams, Allocate(s)
  PROVE  \E size \in Nat :
           \/ AllocateFromTail(s, size)
           \/ AllocateFromFreeList(s, size)
           \/ AllocateReclaimed(s, size)
           \/ AllocateNew(s, size)
           \/ AllocateNewFails(s, size)
           \/ AllocateGrown(s, size)
           \/ AllocateGrownFails(s, size)
BY SizesAssumption, AlignUpType DEF Allocate

\* So does every way to allocate.
LEMMA AllocateIndInv ==
  ASSUME IndInv, NEW s \in Streams, Allocate(s)
  PROVE  IndInv' /\ (Promise!Grant(s) \/ Promise!Refuse)
<1>1. PICK size \in Nat :
           \/ AllocateFromTail(s, size)
           \/ AllocateFromFreeList(s, size)
           \/ AllocateReclaimed(s, size)
           \/ AllocateNew(s, size)
           \/ AllocateNewFails(s, size)
           \/ AllocateGrown(s, size)
           \/ AllocateGrownFails(s, size)
  BY AllocateCases
<1>2. CASE AllocateFromTail(s, size)
  BY <1>2, FromTailIndInv
<1>3. CASE AllocateNewFails(s, size) \/ AllocateGrownFails(s, size)
  BY <1>3, FailsIndInv
<1>4. CASE AllocateFromFreeList(s, size)
  BY <1>4, FromFreeListTakesChunk, TakesChunkInductive
<1>5. CASE AllocateReclaimed(s, size)
  BY <1>5, ReclaimedTakesChunk, TakesChunkInductive
<1>6. CASE AllocateNew(s, size)
  BY <1>6, NewTakesChunk, TakesChunkInductive
<1>7. CASE AllocateGrown(s, size)
  BY <1>7, GrownTakesChunk, TakesChunkInductive
<1> QED BY <1>1, <1>2, <1>3, <1>4, <1>5, <1>6, <1>7

\* Opening a transaction keeps the order: none of the buffer's chunks is its yet.
LEMMA OpenEvents ==
  ASSUME IndInv, EventsOrdered, NEW s \in Streams,
         OpenExisting(s) \/ OpenNew(s)
  PROVE  EventsOrdered'
<1>1. PICK b \in Buffers :
        /\ Begin(s, b)
        /\ bufOf[s] = b \/ (~InPool(b) /\ bufOf[s] = NoBuffer)
        /\ list' = IF bufOf[s] = b THEN list ELSE [list EXCEPT ![b] = <<>>]
  <2>1. CASE OpenExisting(s)
    BY <2>1 DEF OpenExisting, IndInv, TypeOK
  <2>2. CASE OpenNew(s)
    <3>1. \A x \in bufFree : x \in Buffers /\ ~InPool(x)
      BY BuffersAssumption DEF IndInv, TypeOK, HandleValid, InPool
    <3> QED BY <2>2, <3>1, BuffersAssumption DEF OpenNew
  <2> QED BY <2>1, <2>2
<1>2. /\ tx[s] = NoBuffer
      /\ UNCHANGED <<pend, ev, chunkFree>>
  BY DEF OpenExisting, OpenNew
<1>3. /\ bufOf' = [bufOf EXCEPT ![s] = b]
      /\ open' = [open EXCEPT ![b] = TRUE]
      /\ txHead' = [txHead EXCEPT ![b] = NoChunk]
  BY <1>1 DEF Begin
<1>4. /\ b # NoBuffer
      /\ list \in [Buffers -> Seq(Chunks)]
      /\ bufOf \in [Streams -> Buffers \cup {NoBuffer}]
      /\ txHead \in [Buffers -> Chunks \cup {NoChunk}]
      /\ open \in [Buffers -> BOOLEAN]
  BY BuffersAssumption DEF IndInv, TypeOK
<1>5. list' = list
  <2>1. ~InPool(b) => list[b] = <<>>
    BY DEF IndInv, EveryChunkOwnedOnce
  <2> QED BY <1>1, <1>4, <2>1
<1>6. bufOf[s] = b => Used(b) = {}
  <2>1. bufOf[s] = b => txHead[b] = NoChunk
    BY <1>2, <1>4 DEF IndInv, HandleValid, EventsOrdered
  <2>2. \A i \in 1..Len(list[b]) : list[b][i] # NoChunk
    BY <1>4, ChunksAssumption
  <2> QED BY <2>1, <2>2 DEF Used
<1>7. ASSUME NEW x \in Buffers, NEW i \in 1..Len(list[x]),
             NEW j \in 1..Len(list[x]), NEW t \in Streams,
             i <= j, list[x][j] \notin Used(x)'
      PROVE  ev[list[x][i]][t] <= ev[list[x][j]][t]
  <2>1. CASE x = b
    <3>1. bufOf[s] = b
      BY <1>1, <1>4, <1>7, <2>1 DEF IndInv, EveryChunkOwnedOnce
    <3> QED BY <1>6, <1>7, <2>1, <3>1 DEF EventsOrdered
  <2>2. CASE x # b
    <3>1. Used(x)' = Used(x)
      BY <1>3, <1>4, <1>5, <2>2 DEF Used
    <3> QED BY <1>7, <3>1 DEF EventsOrdered
  <2> QED BY <2>1, <2>2
<1>8. ASSUME NEW u \in Streams, bufOf'[u] # NoBuffer,
             NEW i \in 1..Len(list[bufOf'[u]]), NEW t \in Streams
      PROVE  ev[list[bufOf'[u]][i]][t] <= IF t = u THEN pend[u] ELSE 0
  <2>1. CASE bufOf'[u] = bufOf[u]
    BY <1>8, <2>1 DEF EventsOrdered
  <2>2. CASE bufOf'[u] # bufOf[u]
    <3>1. u = s /\ bufOf'[u] = b /\ ~InPool(b)
      BY <1>1, <1>3, <1>4, <2>2
    <3>2. list[b] = <<>>
      BY <3>1 DEF IndInv, EveryChunkOwnedOnce
    <3> QED BY <1>8, <3>1, <3>2
  <2> QED BY <2>1, <2>2
<1>9. \A x \in Buffers : ~open'[x] => txHead'[x] = NoChunk
  BY <1>3, <1>4 DEF EventsOrdered
<1>10. \A c \in chunkFree' : Fired(c)'
  BY <1>2 DEF EventsOrdered, Fired
<1> QED BY <1>2, <1>5, <1>7, <1>8, <1>9, <1>10 DEF EventsOrdered

\* Allocating from the tail makes it the transaction's at most.
LEMMA FromTailEvents ==
  ASSUME IndInv, EventsOrdered, NEW s \in Streams, NEW size \in Nat,
         AllocateFromTail(s, size)
  PROVE  EventsOrdered'
<1>1. /\ txHead' = [txHead EXCEPT ![tx[s]] = IF @ = NoChunk THEN TailOf(s) ELSE @]
      /\ UNCHANGED <<pend, ev, list, open, chunkFree, bufOf>>
      /\ tx[s] # NoBuffer
  BY DEF AllocateFromTail, Carve
<1>2. /\ tx[s] \in Buffers /\ open[tx[s]]
      /\ txHead \in [Buffers -> Chunks \cup {NoChunk}]
      /\ list \in [Buffers -> Seq(Chunks)]
  BY <1>1 DEF IndInv, TypeOK, HandleValid
<1>3. ASSUME NEW x \in Buffers, NEW c \in Used(x)
      PROVE  c \in Used(x)'
  <2>1. PICK i, j \in 1..Len(list[x]) :
          i <= j /\ list[x][i] = txHead[x] /\ list[x][j] = c
    BY <1>3 DEF Used
  <2>2. txHead[x] # NoChunk
    BY <1>2, <2>1, ChunksAssumption
  <2>3. txHead'[x] = txHead[x]
    BY <1>1, <1>2, <2>2
  <2>4. c \in Chunks
    BY <1>3 DEF Used
  <2> QED BY <1>1, <2>1, <2>3, <2>4 DEF Used
<1>4. \A x \in Buffers : ~open'[x] => txHead'[x] = NoChunk
  BY <1>1, <1>2 DEF EventsOrdered
<1>5. \A c \in chunkFree' : Fired(c)'
  BY <1>1 DEF EventsOrdered, Fired
<1> QED BY <1>1, <1>3, <1>4, <1>5 DEF EventsOrdered

\* An allocation that fails only shortens lists and drops buffers.
LEMMA FailsEvents ==
  ASSUME IndInv, EventsOrdered, NEW s \in Streams, NEW size \in Nat,
         AllocateNewFails(s, size) \/ AllocateGrownFails(s, size)
  PROVE  EventsOrdered'
<1>1. /\ UNCHANGED <<pend, ev, txHead, open>>
      /\ chunkFree' \subseteq chunkFree
  BY DEF AllocateNewFails, AllocateGrownFails
<1>2. PICK cut :
        /\ SafeCut(cut)
        /\ list' = ListsAfter(cut)
        /\ \A u \in Streams : bufOf'[u] = bufOf[u] \/ bufOf'[u] = NoBuffer
  <2>1. CASE AllocateNewFails(s, size)
    BY <2>1, PollCutsSafe DEF AllocateNewFails, DropEmptied
  <2>2. CASE AllocateGrownFails(s, size)
    BY <2>2, NoCutSafe DEF AllocateGrownFails, IndInv
  <2> QED BY <2>1, <2>2
<1>3. ASSUME NEW x \in Buffers, NEW i \in 1..Len(list'[x])
      PROVE  /\ i + cut[x] \in 1..Len(list[x])
             /\ list'[x][i] = list[x][i + cut[x]]
  <2>1. /\ Len(list'[x]) = Len(list[x]) - cut[x]
        /\ list'[x][i] = list[x][i + cut[x]]
        /\ list[x] \in Seq(Chunks) /\ cut[x] \in Nat /\ cut[x] <= Len(list[x])
    BY <1>2, CutFacts DEF SafeCut, IndInv, TypeOK
  <2> QED BY <2>1
<1>4. ASSUME NEW x \in Buffers, NEW i \in 1..Len(list'[x]),
             NEW j \in 1..Len(list'[x]), NEW t \in Streams,
             i <= j, list'[x][j] \notin Used(x)'
      PROVE  ev[list'[x][i]][t] <= ev[list'[x][j]][t]
  <2>1. list'[x][j] \notin Used(x)
    <3>1. SUFFICES ASSUME ListsAfter(cut)[x][j] \in Used(x) PROVE FALSE
      BY <1>2
    <3>2. PICK h \in 1..j : ListsAfter(cut)[x][h] = txHead[x]
      BY <1>2, <3>1, CutKeepsUsed
    <3>3. h \in 1..Len(list'[x]) /\ h <= j
      BY <3>2
    <3>4. list'[x][j] \in Chunks
      BY <1>2, <3>1 DEF Used
    <3> QED BY <1>1, <1>2, <1>4, <3>2, <3>3, <3>4 DEF Used
  <2>2. cut[x] \in Nat
    BY <1>2 DEF SafeCut
  <2>3. i + cut[x] <= j + cut[x]
    BY <1>4, <2>2
  <2> QED BY <1>3, <2>1, <2>3 DEF EventsOrdered
<1>5. ASSUME NEW u \in Streams, bufOf'[u] # NoBuffer,
             NEW i \in 1..Len(list'[bufOf'[u]]), NEW t \in Streams
      PROVE  ev[list'[bufOf'[u]][i]][t] <= IF t = u THEN pend[u] ELSE 0
  <2>1. bufOf'[u] = bufOf[u] /\ bufOf[u] \in Buffers
    BY <1>2, <1>5 DEF IndInv, TypeOK
  <2>2. PICK x \in Buffers : x = bufOf[u]
    BY <2>1
  <2>3. i + cut[x] \in 1..Len(list[x]) /\ list'[x][i] = list[x][i + cut[x]]
    BY <1>3, <1>5, <2>1, <2>2
  <2>4. ev[list[x][i + cut[x]]][t] <= IF t = u THEN pend[u] ELSE 0
    BY <1>5, <2>1, <2>2, <2>3 DEF EventsOrdered
  <2> QED BY <2>1, <2>2, <2>3, <2>4
<1>6. \A c \in chunkFree' : Fired(c)'
  BY <1>1 DEF EventsOrdered, Fired
<1> QED BY <1>1, <1>4, <1>5, <1>6 DEF EventsOrdered

\* Closing records the event behind all other work of the stream on the chunks
\* from the head to the tail: the order extends to them.
LEMMA CloseEvents ==
  ASSUME IndInv, EventsOrdered, NEW s \in Streams, Close(s)
  PROVE  EventsOrdered'
<1> DEFINE b == tx[s]
           now == pend[s] + 1
<1>1. /\ b # NoBuffer
      /\ pend' = [pend EXCEPT ![s] = now]
      /\ ev' = [c \in Chunks |-> IF c \in Used(b)
                                 THEN [t \in Streams |-> IF t = s THEN now ELSE 0]
                                 ELSE ev[c]]
      /\ open' = [open EXCEPT ![b] = FALSE]
      /\ txHead' = [txHead EXCEPT ![b] = NoChunk]
      /\ UNCHANGED <<list, chunkFree, bufOf>>
  BY DEF Close
<1>2. /\ b \in Buffers /\ bufOf[s] = b
      /\ list \in [Buffers -> Seq(Chunks)]
      /\ pend \in [Streams -> Nat]
      /\ ev \in [Chunks -> [Streams -> Nat]]
      /\ txHead \in [Buffers -> Chunks \cup {NoChunk}]
      /\ open \in [Buffers -> BOOLEAN]
  BY <1>1 DEF IndInv, TypeOK, HandleValid
<1> HIDE DEF b
<1>3. \A c \in Used(b) : c \in Elems(list[b])
  BY <1>2 DEF Used, Elems
<1>4. ASSUME NEW x \in Buffers \ {b}, NEW i \in 1..Len(list[x])
      PROVE  list[x][i] \notin Used(b)
  <2>1. \A k \in 1..Len(list[b]) : list[x][i] # list[b][k]
    BY <1>2 DEF IndInv, EveryChunkOwnedOnce
  <2> QED BY <1>3, <2>1 DEF Elems
<1>5. ASSUME NEW c \in Chunks, NEW t \in Streams
      PROVE  /\ c \in Used(b) => ev'[c][t] = IF t = s THEN now ELSE 0
             /\ c \notin Used(b) => ev'[c][t] = ev[c][t]
  BY <1>1
<1>6. \A x \in Buffers : \A i \in 1..Len(list[x]) : list[x][i] \in Chunks
  BY <1>2
<1>7. \A c \in chunkFree' : Fired(c)'
  <2>1. \A c \in chunkFree : c \in Chunks /\ c \notin Used(b)
    BY <1>2, <1>3 DEF IndInv, EveryChunkOwnedOnce, Elems, Mapped
  <2> QED BY <1>1, <1>5, <2>1 DEF EventsOrdered, Fired
<1>8. \A x \in Buffers : ~open'[x] => txHead'[x] = NoChunk
  BY <1>1, <1>2 DEF EventsOrdered
<1>9. ASSUME NEW u \in Streams, bufOf[u] # NoBuffer,
             NEW i \in 1..Len(list[bufOf[u]]), NEW t \in Streams
      PROVE  ev'[list[bufOf[u]][i]][t] <= IF t = u THEN pend'[u] ELSE 0
  <2>1. PICK x \in Buffers : x = bufOf[u]
    BY <1>9 DEF IndInv, TypeOK
  <2>2. PICK c \in Chunks : c = list[x][i]
    BY <1>6, <1>9, <2>1
  <2>3. ev[c][t] <= IF t = u THEN pend[u] ELSE 0
    BY <1>9, <2>1, <2>2 DEF EventsOrdered
  <2>4. pend[u] \in Nat /\ pend[s] \in Nat /\ ev[c][t] \in Nat
    BY <1>2
  <2>5. pend'[u] = IF u = s THEN now ELSE pend[u]
    BY <1>1, <1>2
  <2>6. CASE c \in Used(b)
    <3>1. x = b
      BY <1>4, <1>9, <2>1, <2>2, <2>6
    <3>2. u = s
      BY <1>2, <2>1, <3>1, BuffersAssumption DEF IndInv, HandleValid
    <3> QED BY <1>5, <2>1, <2>2, <2>4, <2>5, <2>6, <3>2
  <2>7. CASE c \notin Used(b)
    BY <1>5, <2>1, <2>2, <2>3, <2>4, <2>5, <2>7
  <2> QED BY <2>6, <2>7
<1>10. ASSUME NEW x \in Buffers, NEW i \in 1..Len(list[x]),
              NEW j \in 1..Len(list[x]), NEW t \in Streams,
              i <= j, list[x][j] \notin Used(x)'
       PROVE  ev'[list[x][i]][t] <= ev'[list[x][j]][t]
  <2>1. list[x][i] \in Chunks /\ list[x][j] \in Chunks
    BY <1>6
  <2>2. CASE x # b
    <3>1. Used(x)' = Used(x)
      BY <1>1, <1>2, <2>2 DEF Used
    <3>2. ev[list[x][i]][t] <= ev[list[x][j]][t]
      BY <1>10, <3>1 DEF EventsOrdered
    <3> QED BY <1>4, <1>5, <2>1, <2>2, <3>2
  <2>3. CASE x = b /\ list[b][j] \in Used(b)
    <3>1. ev[list[b][i]][t] <= IF t = s THEN pend[s] ELSE 0
      BY <1>2, <1>10, <2>3, BuffersAssumption DEF EventsOrdered
    <3>2. ev[list[b][i]][t] \in Nat /\ pend[s] \in Nat
      BY <1>2, <2>1, <2>3
    <3>3. ev'[list[b][j]][t] = IF t = s THEN now ELSE 0
      BY <1>5, <2>1, <2>3
    <3> QED BY <1>5, <2>1, <2>3, <3>1, <3>2, <3>3
  <2>4. CASE x = b /\ list[b][j] \notin Used(b)
    <3>1. list[b][i] \notin Used(b)
      <4>1. SUFFICES ASSUME list[b][i] \in Used(b) PROVE FALSE
        OBVIOUS
      <4>2. PICK g, k \in 1..Len(list[b]) :
              g <= k /\ list[b][g] = txHead[b] /\ list[b][k] = list[b][i]
        BY <4>1 DEF Used
      <4>3. k = i
        BY <1>2, <1>10, <2>4, <4>2 DEF IndInv, EveryChunkOwnedOnce
      <4>4. g <= j
        BY <1>10, <2>4, <4>2, <4>3
      <4>5. list[b][j] \in Used(b)
        BY <1>10, <2>1, <2>4, <4>2, <4>4 DEF Used
      <4> QED BY <2>4, <4>5
    <3>2. ev[list[b][i]][t] <= ev[list[b][j]][t]
      BY <1>10, <2>4 DEF EventsOrdered
    <3> QED BY <1>5, <2>1, <2>4, <3>1, <3>2
  <2> QED BY <2>2, <2>3, <2>4
<1> QED BY <1>1, <1>7, <1>8, <1>9, <1>10 DEF EventsOrdered

\* The device only brings events closer.
LEMMA FinishEvents ==
  ASSUME IndInv, EventsOrdered, NEW s \in Streams, Finish(s)
  PROVE  EventsOrdered'
<1>1. /\ pend[s] > 0 /\ pend' = [pend EXCEPT ![s] = @ - 1]
      /\ ev' = [c \in Chunks |->
                  [ev[c] EXCEPT ![s] = IF @ > 0 THEN @ - 1 ELSE 0]]
      /\ UNCHANGED <<list, txHead, open, chunkFree, bufOf>>
  BY DEF Finish
<1>2. /\ list \in [Buffers -> Seq(Chunks)]
      /\ pend \in [Streams -> Nat]
      /\ ev \in [Chunks -> [Streams -> Nat]]
      /\ chunkFree \subseteq Chunks
      /\ bufOf \in [Streams -> Buffers \cup {NoBuffer}]
  BY DEF IndInv, TypeOK
<1>3. ASSUME NEW c \in Chunks, NEW t \in Streams
      PROVE  /\ t # s => ev'[c][t] = ev[c][t]
             /\ ev'[c][s] = IF ev[c][s] > 0 THEN ev[c][s] - 1 ELSE 0
             /\ ev[c][t] \in Nat /\ ev[c][s] \in Nat
  BY <1>1, <1>2
<1>4. \A x \in Buffers : \A i \in 1..Len(list[x]) : list[x][i] \in Chunks
  BY <1>2
<1>5. \A c \in chunkFree' : Fired(c)'
  <2>1. ASSUME NEW c \in chunkFree, NEW t \in Streams
        PROVE  ev'[c][t] = 0
    <3>1. ev[c][t] = 0 /\ ev[c][s] = 0 /\ c \in Chunks
      BY <1>2 DEF EventsOrdered, Fired
    <3> QED BY <1>3, <3>1
  <2> QED BY <1>1, <2>1 DEF Fired
<1>6. ASSUME NEW u \in Streams, bufOf[u] # NoBuffer,
             NEW i \in 1..Len(list[bufOf[u]]), NEW t \in Streams
      PROVE  ev'[list[bufOf[u]][i]][t] <= IF t = u THEN pend'[u] ELSE 0
  <2>1. bufOf[u] \in Buffers
    BY <1>2, <1>6
  <2>2. PICK c \in Chunks : c = list[bufOf[u]][i]
    BY <1>4, <1>6, <2>1
  <2>3. /\ ev[c][t] <= IF t = u THEN pend[u] ELSE 0
        /\ ev[c][s] <= IF s = u THEN pend[u] ELSE 0
    BY <1>6, <2>1, <2>2 DEF EventsOrdered
  <2>4. /\ pend[u] \in Nat /\ pend[s] \in Nat
        /\ pend'[u] = IF u = s THEN pend[s] - 1 ELSE pend[u]
    BY <1>1, <1>2
  <2> QED BY <1>1, <1>3, <2>2, <2>3, <2>4
<1>7. ASSUME NEW x \in Buffers, NEW i \in 1..Len(list[x]),
             NEW j \in 1..Len(list[x]), NEW t \in Streams,
             i <= j, list[x][j] \notin Used(x)'
      PROVE  ev'[list[x][i]][t] <= ev'[list[x][j]][t]
  <2>1. Used(x)' = Used(x)
    BY <1>1 DEF Used
  <2>2. /\ ev[list[x][i]][t] <= ev[list[x][j]][t]
        /\ ev[list[x][i]][s] <= ev[list[x][j]][s]
    BY <1>7, <2>1 DEF EventsOrdered
  <2>3. PICK c, d \in Chunks : c = list[x][i] /\ d = list[x][j]
    BY <1>4
  <2>4. ev[c][t] <= ev[d][t] /\ ev[c][s] <= ev[d][s]
    BY <2>2, <2>3
  <2>5. ev'[c][t] <= ev'[d][t]
    <3>1. CASE t = s
      <4>1. /\ ev'[c][s] = IF ev[c][s] > 0 THEN ev[c][s] - 1 ELSE 0
            /\ ev'[d][s] = IF ev[d][s] > 0 THEN ev[d][s] - 1 ELSE 0
            /\ ev[c][s] \in Nat /\ ev[d][s] \in Nat
        BY <1>3
      <4> QED BY <2>4, <3>1, <4>1
    <3>2. CASE t # s
      <4>1. ev'[c][t] = ev[c][t] /\ ev'[d][t] = ev[d][t]
        BY <1>3, <3>2
      <4> QED BY <2>4, <4>1
    <3> QED BY <3>1, <3>2
  <2> QED BY <2>3, <2>5
<1>8. \A x \in Buffers : ~open'[x] => txHead'[x] = NoChunk
  BY <1>1 DEF EventsOrdered
<1> QED BY <1>1, <1>5, <1>6, <1>7, <1>8 DEF EventsOrdered

\* So does every way to allocate.
LEMMA AllocateEvents ==
  ASSUME IndInv, EventsOrdered, NEW s \in Streams, Allocate(s)
  PROVE  EventsOrdered'
<1>1. PICK size \in Nat :
           \/ AllocateFromTail(s, size)
           \/ AllocateFromFreeList(s, size)
           \/ AllocateReclaimed(s, size)
           \/ AllocateNew(s, size)
           \/ AllocateNewFails(s, size)
           \/ AllocateGrown(s, size)
           \/ AllocateGrownFails(s, size)
  BY AllocateCases
<1>2. CASE AllocateFromTail(s, size)
  BY <1>2, FromTailEvents
<1>3. CASE AllocateNewFails(s, size) \/ AllocateGrownFails(s, size)
  BY <1>3, FailsEvents
<1>4. CASE AllocateFromFreeList(s, size)
  BY <1>4, FromFreeListTakesChunk, TakesChunkEvents
<1>5. CASE AllocateReclaimed(s, size)
  BY <1>5, ReclaimedTakesChunk, TakesChunkEvents
<1>6. CASE AllocateNew(s, size)
  BY <1>6, NewTakesChunk, TakesChunkEvents
<1>7. CASE AllocateGrown(s, size)
  BY <1>7, GrownTakesChunk, TakesChunkEvents
<1> QED BY <1>1, <1>2, <1>3, <1>4, <1>5, <1>6, <1>7

\* The inductive invariant of the pool holds for all constants.
THEOREM Inductive == Spec => []IndInv
<1>1. IndInv /\ [Next]_vars => IndInv'
  <2> SUFFICES ASSUME IndInv, [Next]_vars PROVE IndInv'
    OBVIOUS
  <2>1. CASE Next
    <3>1. PICK s \in Streams :
            \/ OpenExisting(s) \/ OpenNew(s)
            \/ Allocate(s)
            \/ Close(s)
            \/ Finish(s)
      BY <2>1 DEF Next
    <3> QED BY <3>1, OpenIndInv, AllocateIndInv, CloseIndInv, FinishIndInv
  <2>2. CASE UNCHANGED vars
    BY <2>2 DEF vars, IndInv, TypeOK, HandleValid, EveryChunkOwnedOnce,
                FreeListUniform, AvailWithinCapacity, LiveMemoryMapped,
                RegionsPinned, NoOverlap, Mapped, InPool, Used
  <2> QED BY <2>1, <2>2
<1> QED BY <1>1, InitIndInv, PTL DEF Spec

\* Every variable keeps its type.
THEOREM TypeCorrect == Spec => []TypeOK
<1>1. IndInv => TypeOK  BY DEF IndInv
<1> QED BY <1>1, Inductive, PTL

\* No two regions in use overlap: staging memory is never handed out twice; and
\* none lies in memory given back to the driver.
THEOREM NeverReusedOrFreed == Spec => []MemorySafe
<1>1. IndInv => MemorySafe  BY DEF IndInv, MemorySafe
<1> QED BY <1>1, Inductive, PTL

\* Chunks are neither leaked nor listed twice, and the free list holds only
\* chunks of the current capacity, which allocate_chunk CHECKs.
THEOREM ListsSound == Spec => []EveryChunkOwnedOnce /\ []FreeListUniform
<1>1. IndInv => EveryChunkOwnedOnce /\ FreeListUniform  BY DEF IndInv
<1> QED BY <1>1, Inductive, PTL

\* The buffer of an open transaction is never recycled, so that the CHECK in
\* stream_buffer_transaction_open never fails.
THEOREM HandlesStayValid == Spec => []HandleValid
<1>1. IndInv => HandleValid  BY DEF IndInv
<1> QED BY <1>1, Inductive, PTL

\* The events of every buffer fire in list order, for all constants.
THEOREM EventsInOrder == Spec => []EventsOrdered
<1>1. IndInv /\ EventsOrdered /\ [Next]_vars => EventsOrdered'
  <2> SUFFICES ASSUME IndInv, EventsOrdered, [Next]_vars PROVE EventsOrdered'
    OBVIOUS
  <2>1. CASE Next
    <3>1. PICK s \in Streams :
            \/ OpenExisting(s) \/ OpenNew(s)
            \/ Allocate(s)
            \/ Close(s)
            \/ Finish(s)
      BY <2>1 DEF Next
    <3> QED BY <3>1, OpenEvents, AllocateEvents, CloseEvents, FinishEvents
  <2>2. CASE UNCHANGED vars
    BY <2>2 DEF vars, EventsOrdered, Fired, Used
  <2> QED BY <2>1, <2>2
<1> QED BY <1>1, InitEvents, Inductive, PTL DEF Spec

\* Once a stream is idle and has no open transaction, polling takes every chunk of
\* its buffer: nothing stays pinned.
THEOREM IdleStreamsReclaimed == Spec => []IdleStreamReclaimable
<1>1. IndInv /\ EventsOrdered => IdleStreamReclaimable
  <2> SUFFICES ASSUME IndInv, EventsOrdered, NEW s \in Streams,
                      pend[s] = 0, tx[s] = NoBuffer, bufOf[s] # NoBuffer,
                      NEW i \in 1..Len(list[bufOf[s]])
               PROVE  Pollable(bufOf[s], i)
    BY DEF IdleStreamReclaimable
  <2>1. bufOf[s] \in Buffers /\ list[bufOf[s]] \in Seq(Chunks)
    BY DEF IndInv, TypeOK
  <2>2. list[bufOf[s]][i] \in Chunks
    BY <2>1
  <2>3. txHead[bufOf[s]] = NoChunk
    BY <2>1 DEF IndInv, HandleValid, EventsOrdered
  <2>4. ASSUME NEW t \in Streams
        PROVE  ev[list[bufOf[s]][i]][t] = 0
    <3>1. ev[list[bufOf[s]][i]][t] <= 0
      BY DEF EventsOrdered
    <3>2. ev[list[bufOf[s]][i]][t] \in Nat
      BY <2>2 DEF IndInv, TypeOK
    <3> QED BY <3>1, <3>2
  <2> QED BY <2>2, <2>3, <2>4, ChunksAssumption DEF Pollable, Fired
<1> QED BY <1>1, Inductive, EventsInOrder, PTL

\* The pool asks the driver for memory of the current capacity only when every
\* chunk of that capacity is in use.
THEOREM PoolSettles == Spec => NewOnlyWhenNeeded
<1> DEFINE A == \A c \in Chunks :
                  (cap[c] # curCap /\ cap'[c] = curCap' /\ curCap' = curCap) =>
                    \A d \in Chunks : cap[d] = curCap =>
                      \/ ~Fired(d)
                      \/ \E b \in Buffers : d \in Used(b)
<1>1. ASSUME IndInv, EventsOrdered, NEW s \in Streams, NEW size \in Nat,
             AllocateNew(s, size), NEW d \in Chunks, cap[d] = curCap
      PROVE  ~Fired(d) \/ \E b \in Buffers : d \in Used(b)
  <2>1. PICK cut \in PollCuts : Recycled(cut) = {}
    BY <1>1 DEF AllocateNew
  <2>2. curCap \in Nat \ {0} /\ list \in [Buffers -> Seq(Chunks)]
        /\ ev \in [Chunks -> [Streams -> Nat]]
    BY <1>1 DEF IndInv, TypeOK
  <2>3. PICK b \in Buffers : InPool(b) /\ d \in Elems(list[b])
    <3>1. d \in Mapped /\ chunkFree = {}
      BY <1>1, <2>2 DEF Mapped, AllocateNew, MustReclaim
    <3> QED BY <1>1, <3>1 DEF IndInv, EveryChunkOwnedOnce
  <2>4. PICK i \in 1..Len(list[b]) : list[b][i] = d
    BY <2>3 DEF Elems
  <2>5. cut[b] \in Nat /\ i > cut[b]
    <3>1. cut[b] \in Nat
      BY PollCutsSafe DEF SafeCut
    <3>2. d \notin Polled(cut)
      BY <1>1, <2>1 DEF Recycled
    <3>3. i \notin 1..cut[b]
      BY <2>4, <3>2 DEF Polled
    <3> QED BY <3>1, <3>3
  <2>6. ~Pollable(b, cut[b] + 1)
    <3>1. cut[b] < Len(list[b])
      BY <2>2, <2>5
    <3> QED BY <3>1 DEF PollCuts
  <2>7. cut[b] + 1 \in 1..Len(list[b]) /\ cut[b] + 1 <= i
    BY <2>2, <2>5
  <2>8. CASE list[b][cut[b] + 1] = txHead[b]
    BY <2>4, <2>7, <2>8 DEF Used
  <2>9. CASE ~Fired(list[b][cut[b] + 1])
    <3>1. PICK t \in Streams : ev[list[b][cut[b] + 1]][t] # 0
      BY <2>9 DEF Fired
    <3>2. list[b][cut[b] + 1] \in Chunks
      BY <2>2, <2>7
    <3>3. d \notin Used(b) => ev[list[b][cut[b] + 1]][t] <= ev[d][t]
      BY <1>1, <2>4, <2>7 DEF EventsOrdered
    <3>4. ev[list[b][cut[b] + 1]][t] \in Nat /\ ev[d][t] \in Nat
      BY <2>2, <3>2
    <3>5. d \notin Used(b) => ev[d][t] # 0
      BY <3>1, <3>3, <3>4
    <3> QED BY <3>5 DEF Fired
  <2> QED BY <2>6, <2>8, <2>9 DEF Pollable
<1>2. ASSUME IndInv, EventsOrdered, NEW s \in Streams, Allocate(s)
      PROVE  A
  <2>0. /\ cap \in [Chunks -> Nat] /\ curCap \in Nat \ {0}
    BY <1>2 DEF IndInv, TypeOK
  <2>1. PICK size \in Nat :
           \/ AllocateFromTail(s, size)
           \/ AllocateFromFreeList(s, size)
           \/ AllocateReclaimed(s, size)
           \/ AllocateNew(s, size)
           \/ AllocateNewFails(s, size)
           \/ AllocateGrown(s, size)
           \/ AllocateGrownFails(s, size)
    BY <1>2, AllocateCases
  <2>2. CASE AllocateFromTail(s, size) \/ AllocateFromFreeList(s, size)
    BY <2>2 DEF AllocateFromTail, AllocateFromFreeList
  <2>3. CASE AllocateReclaimed(s, size)
    BY <2>0, <2>3 DEF AllocateReclaimed, Unmap
  <2>4. CASE AllocateNew(s, size)
    BY <1>1, <1>2, <2>4
  <2>5. CASE AllocateNewFails(s, size)
    BY <2>0, <2>5 DEF AllocateNewFails, Unmap
  <2>6. CASE AllocateGrown(s, size)
    <3>1. curCap' # curCap
      BY <2>6 DEF AllocateGrown, MustGrow, SmallRequest, GrownCapacity
    <3> QED BY <3>1
  <2>7. CASE AllocateGrownFails(s, size)
    <3>1. curCap' # curCap
      BY <2>7 DEF AllocateGrownFails, MustGrow, SmallRequest, GrownCapacity
    <3> QED BY <3>1
  <2> QED BY <2>1, <2>2, <2>3, <2>4, <2>5, <2>6, <2>7
<1>3. IndInv /\ EventsOrdered /\ [Next]_vars => [A]_vars
  <2> SUFFICES ASSUME IndInv, EventsOrdered, Next PROVE A
    OBVIOUS
  <2>1. PICK s \in Streams :
            \/ OpenExisting(s) \/ OpenNew(s)
            \/ Allocate(s)
            \/ Close(s)
            \/ Finish(s)
    BY DEF Next
  <2>2. CASE Allocate(s)
    BY <1>2, <2>2
  <2>3. CASE OpenExisting(s) \/ OpenNew(s) \/ Close(s) \/ Finish(s)
    BY <2>3 DEF OpenExisting, OpenNew, Close, Finish
  <2> QED BY <2>1, <2>2, <2>3
<1> QED BY <1>3, Inductive, EventsInOrder, PTL DEF Spec, NewOnlyWhenNeeded

\* The pool implements the promise: under the invariant each of its steps is a
\* step of StagingMemory or leaves the promised variables alone.
THEOREM Implementation == Spec => ImplementsPromise
<1>1. Init => Promise!Init
  BY DEF Init, Promise!Init
<1>2. IndInv /\ [Next]_vars => [Promise!Next]_(Promise!memVars)
  <2> SUFFICES ASSUME IndInv, [Next]_vars
               PROVE  Promise!Next \/ UNCHANGED Promise!memVars
    OBVIOUS
  <2>1. CASE UNCHANGED vars
    BY <2>1 DEF vars, Promise!memVars
  <2>2. CASE Next
    <3>1. PICK s \in Streams :
            \/ OpenExisting(s) \/ OpenNew(s)
            \/ Allocate(s)
            \/ Close(s)
            \/ Finish(s)
      BY <2>2 DEF Next
    <3>2. CASE OpenExisting(s) \/ OpenNew(s)
      BY <3>2 DEF OpenExisting, OpenNew, Promise!memVars
    <3>3. CASE Allocate(s)
      BY <3>3, AllocateIndInv DEF Promise!Next
    <3>4. CASE Close(s)
      BY <3>4 DEF Close, Promise!Next, Promise!Submit
    <3>5. CASE Finish(s)
      BY <3>5 DEF Finish, Promise!Next, Promise!Finish
    <3> QED BY <3>1, <3>2, <3>3, <3>4, <3>5
  <2> QED BY <2>1, <2>2
<1> QED BY <1>1, <1>2, Inductive, PTL DEF Spec, ImplementsPromise, Promise!Spec
=============================================================================
