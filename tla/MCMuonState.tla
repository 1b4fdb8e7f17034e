----------------------------- MODULE MCMuonState -----------------------------
(* A small instance of MuonState for TLC: two parameters of which the first is *)
(* stored as it is computed. *)
EXTENDS MuonState

TwoParams == 1 .. 2
FirstReady == {1}
==============================================================================
