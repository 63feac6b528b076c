----------------------------- MODULE MCProcInfo -----------------------------
(* A small instance of ProcInfo for TLC. *)
EXTENDS ProcInfo, TLC

CONSTANTS i1, i2, f1, pipe

TwoImages  == {i1, i2}
TwoFiles   == {f1, pipe}
OneRegular == {f1}
Symmetry   == Permutations(TwoImages)
===========================================================================
