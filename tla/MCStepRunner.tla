---------------------------- MODULE MCStepRunner ----------------------------
(* Instances of StepRunner for TLC.                                        *)
EXTENDS StepRunner

CONSTANTS r1, r2, h1, h2

AllSteps == LocalSteps \cup SshSteps \cup {"share-oids"}

TwoHosts == {h1, h2}
NoHosts == {}
OneRunner == {r1}
TwoRunners == {r1, r2}
StartAgents == {"start-agents"}
=============================================================================
