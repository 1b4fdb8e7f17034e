-------------------------- MODULE MCMatrixAssignment --------------------------
(* Small instances of MatrixAssignment for TLC. *)
EXTENDS MatrixAssignment

Seqs(S, n) == UNION {[1 .. k -> S] : k \in 0 .. n}
Blocks(n, size, eligible) == [count |-> n, numel |-> size, eligible |-> eligible]
Input(ranks, hosts, groups) == [ranks |-> ranks, hosts |-> hosts, groups |-> groups]

\* Two groups of matrices, with blocks for everybody or for two halves.
Matrices == Seqs({1, 2, 5}, 3)
Everybody == <<3, 1, 2>>
SomeBlocks == {<<>>, <<Blocks(2, 2, Everybody)>>, <<Blocks(3, 1, <<2>>), Blocks(2, 3, <<3, 1>>)>>}
Unhosted ==
  {Input(3, <<>>, <<[matrices |-> a, blocks |-> b], [matrices |-> c, blocks |-> d]>>) :
     a, c \in Matrices, b, d \in SomeBlocks}

\* Three groups over hosts of one or two ranks.
Hosted ==
  {Input(Len(h), h, [g \in 1 .. 3 |-> [matrices |-> m[g], blocks |-> <<>>]]) :
     h \in {<<0, 1, 2, 3>>, <<0, 0, 1, 1>>, <<0, 1, 0, 1>>},
     m \in [1 .. 3 -> Seqs({1, 4}, 2) \cup {<<4, 1, 1, 1, 1>>}]}

SomeInputs == Unhosted \cup Hosted
===============================================================================
