--------------------------- MODULE MCMuonPipeline ---------------------------
(* Small instances of MuonPipeline for TLC. *)
EXTENDS MuonPipeline

L == [local |-> TRUE, numel |-> 1]
R1 == [local |-> FALSE, numel |-> 1]
R2 == [local |-> FALSE, numel |-> 2]

\* Local buckets alone, first, last and between, slots that grow, and up to two
\* buckets per slot.
SomeLists ==
  {<<L>>, <<R2>>, <<L, R2>>, <<R1, L>>, <<R1, R2>>}
  \cup {<<R2, L, R1>>, <<R1, R1, L>>, <<R1, R2, R1>>, <<R1, L, R1, R2>>, <<R1, R2, R1, R2>>}
=============================================================================
