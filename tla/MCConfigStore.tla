--------------------------- MODULE MCConfigStore ---------------------------
(* Small instances of ConfigStore for TLC. *)
EXTENDS ConfigStore, TLC

CONSTANTS c1, c2, n1, n2

OneCmd  == {c1}
TwoCmds == {c1, c2}
OneName == {n1}
TwoNames == {n1, n2}

\* Commands are interchangeable.
Symmetry == Permutations(Cmd)
===========================================================================
