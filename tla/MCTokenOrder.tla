----------------------------- MODULE MCTokenOrder -----------------------------
EXTENDS TokenOrder, TLC

\* Blocks with any effects, and those that touch single alias sets
All == [touched |-> AliasSets, stored |-> AliasSets, acquire |-> TRUE]
Loads == [touched |-> AliasSets, stored |-> {}, acquire |-> FALSE]
Own == {A \in AliasSets : Single(A)}
Singles == [touched |-> Own, stored |-> Own, acquire |-> TRUE]
Mixed == {[touched |-> Own, stored |-> {A}, acquire |-> FALSE] : A \in Own}

MCSummaries == {All, Loads, Singles} \cup Mixed
MCSymmetry == Permutations(Groups)
=============================================================================
