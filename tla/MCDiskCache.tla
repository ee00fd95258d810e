------------------------------ MODULE MCDiskCache ------------------------------
EXTENDS DiskCache

MCSize == [k \in Keys |-> IF k = 2 THEN 2 ELSE 1]
=============================================================================
