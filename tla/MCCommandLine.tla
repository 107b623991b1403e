---------------------------- MODULE MCCommandLine ----------------------------
(* An instance of CommandLine for TLC: two command lines, a command for      *)
(* every kind of commander and of handler, three hub processes, one of them  *)
(* started by hand, two hosts and two databases.                             *)
EXTENDS CommandLine

CONSTANTS p1, p2, b1, b2, b3, h1, h2, d1, d2

TwoProcs == {p1, p2}
ThreeHubs == {b1, b2, b3}
LastHub == {b3}
TwoHosts == {h1, h2}
TwoDatabases == {d1, d2}
AroundTheLimit == {79, 80}
OneOfEachKind ==
  {"prepare.start-hub", "prepare.init", "prepare.shutdown-clusters", "status.conversion",
   "check.version", "check.object-count", "check.disk-space", "check.config",
   "upgrade.convert-master"}
=============================================================================
