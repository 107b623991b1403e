---------------------------- MODULE MCAgentConns ----------------------------
(* Instances of AgentConns for TLC.                                        *)
EXTENDS AgentConns

CONSTANTS c1, c2, h1, h2

TwoCallers == {c1, c2}
TwoHosts == {h1, h2}
=============================================================================
