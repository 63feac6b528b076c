-------------------------- MODULE MCDaemonLifecycle --------------------------
\* Three ids, so that a daemon, its successor and a stranger meet; two commands.
EXTENDS DaemonLifecycle

CONSTANTS p1, p2, p3, c1, c2

MCPid == {p1, p2, p3}
MCCmd == {c1, c2}
==============================================================================
