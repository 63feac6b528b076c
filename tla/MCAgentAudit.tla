---------------------------- MODULE MCAgentAudit ----------------------------
(* A small instance of AgentAudit for TLC. *)
EXTENDS AgentAudit

CONSTANTS p1, p2, agent

TwoPids   == {p1, p2}
OneComm   == {agent}
NoTargets == {}
BootOne   == {p1}

ByName == [process |-> {agent}, path |-> {}]
ByPath == [process |-> {}, path |-> {agent}]
Empty  == [process |-> {}, path |-> {}]

ThreeConfigs == {ByName, ByPath, Empty}
===========================================================================
