--------------------------- MODULE MCKernelRegistry ---------------------------
EXTENDS KernelRegistry, TLC

\* one entry more than there are calls; the addresses are interchangeable
MCSymmetry == Permutations(Entries)
=============================================================================
