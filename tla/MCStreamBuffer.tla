---------------------------- MODULE MCStreamBuffer ----------------------------
(* StreamBuffer for TLC: streams, chunks and buffers are interchangeable. *)
EXTENDS StreamBuffer, TLC

Symmetry == Permutations(Streams) \cup Permutations(Chunks)
              \cup Permutations(Buffers)
=============================================================================
