--------------------------- MODULE MCProcessTree ---------------------------
(* Small instances of ProcessTree for TLC. *)
EXTENDS ProcessTree, TLC

CONSTANTS p1, p2, p3, p4, agent, other

FourPids  == {p1, p2, p3, p4}
ThreePids == {p1, p2, p3}
TwoComms  == {agent, other}
OneComm   == {agent}
OneTarget == {agent}
BootOne   == {p1}

\* The ids no task holds at the start are interchangeable.
Symmetry == Permutations(Pid \ Boot)
===========================================================================
