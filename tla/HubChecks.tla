------------------------------ MODULE HubChecks ------------------------------
(***************************************************************************)
(* The handlers of the hub that look at the world and change nothing but,  *)
(* some of them, the state directory: Ping, CheckVersion, CheckObjectCount *)
(* and CheckDiskSpace, with the agent's CheckDiskSpaceOnAgents.            *)
(* CheckConfig is here with the one file it writes; the other methods have *)
(* modules of their own and are here as what a command line sees of them.  *)
(***************************************************************************)
EXTENDS HubServer

CONSTANTS
  Hosts,        \* the hosts of the cluster, each with an agent
  Databases,    \* the databases of the cluster, template0 left out
  Usages        \* how full a file system may be, in percent

ASSUME ChecksAssumption == Usages \subseteq 0..100

VARIABLES
  dbUp,      \* does the old cluster accept connections?
  dbs,       \* the databases it has
  agents,    \* hosts whose agent serves
  stateDir,  \* does the state directory exist?
  file       \* the configuration file in it

worldVars == <<dbUp, dbs, agents>>
fileVars == <<stateDir, file>>
checkVars == <<serverVars, worldVars, fileVars>>

\* A file that was opened and not written is empty; one that was written by
\* DoInit has no segments; "mixed" is a short text over the start of a long one.
File == {"none", "empty", "bare", "full", "mixed"}

ChecksInit ==
  /\ ServerInit
  /\ dbUp = TRUE /\ dbs = Databases /\ agents = Hosts
  /\ \/ stateDir = FALSE /\ file = "none"
     \/ stateDir = TRUE /\ file = "full"

\* db.NewDBConn and Connect, for databases that may be gone.
Connects(names) == dbUp /\ names \subseteq dbs

\* The stub of the agent: a call needs somebody who serves.
AgentServes(h) == h \in agents

OnlyReplies == UNCHANGED <<hub, port, died, faults, worldVars, fileVars>>

---------------------------------------------------------------------------
(* Hub.Ping and Hub.CheckVersion.                                          *)

Ping(p) == Handling(p, "Ping", "begin") /\ ReplyOK(p, {}) /\ OnlyReplies

\* The version is compared with MINIMUM_VERSION.
CheckVersion(p) ==
  /\ Handling(p, "CheckVersion", "begin")
  /\ \/ ~Connects({}) /\ ReplyError(p)
     \/ /\ Connects({})
        /\ \E verdict \in {"OK", "Failed"} : ReplyOK(p, {<<"version", verdict>>})
  /\ OnlyReplies

---------------------------------------------------------------------------
(* Hub.CheckObjectCount.                                                   *)

ConnectTemplate(p) ==
  /\ Handling(p, "CheckObjectCount", "begin")
  /\ \/ Connects({}) /\ CallBecomes(p, [call[p] EXCEPT !.pc = "names"])
     \/ ~Connects({}) /\ ReplyError(p)
  /\ OnlyReplies

SelectNames(p) ==
  /\ Handling(p, "CheckObjectCount", "names")
  /\ \/ Connects({}) /\ CallBecomes(p, [call[p] EXCEPT !.pc = "next", !.todo = dbs, !.told = dbs])
     \/ ~Connects({}) /\ ReplyError(p)
  /\ OnlyReplies

\* A mutated ConnectDatabase: a database that cannot be opened is passed over.
PassOver(p) ==
  /\ Handling(p, "CheckObjectCount", "next")
  /\ \/ call[p].todo = {} /\ ReplyOK(p, call[p].lines)
     \/ \E d \in call[p].todo :
          \/ Connects({d}) /\ CallBecomes(p, [call[p] EXCEPT !.pc = "count", !.cur = {d}])
          \/ ~Connects({d}) /\ CallBecomes(p, [call[p] EXCEPT !.todo = @ \ {d}])
  /\ OnlyReplies

ConnectDatabase(p) ==
  /\ Handling(p, "CheckObjectCount", "next")
  /\ \/ call[p].todo = {} /\ ReplyOK(p, call[p].lines)
     \/ \E d \in call[p].todo :
          \/ Connects({d}) /\ CallBecomes(p, [call[p] EXCEPT !.pc = "count", !.cur = {d}])
          \/ ~Connects({d}) /\ ReplyError(p)
  /\ OnlyReplies

GetCountsForDb(p) ==
  /\ Handling(p, "CheckObjectCount", "count")
  /\ Connects(call[p].cur)
  /\ CallBecomes(p, [call[p] EXCEPT !.pc = "next", !.todo = @ \ call[p].cur, !.cur = {},
                       !.lines = @ \cup {<<d, "counted">> : d \in call[p].cur}])
  /\ OnlyReplies

\* A query fails, on a database that is gone or not: what is logged is the
\* error of Connect, which is nil, and the hub dies of it.
CountsFail(p) ==
  /\ Handling(p, "CheckObjectCount", "count")
  /\ \E h \in call[p].at : HubDies(h)
  /\ UNCHANGED <<faults, worldVars, fileVars>>

---------------------------------------------------------------------------
(* Hub.CheckDiskSpace and AgentServer.CheckDiskSpaceOnAgents.              *)

diskUsageWarningLimit == 80

\* A reader of its own reads the file anew.  grpc.Dial does not block, and
\* does not fail for a host name.
HostsToAsk(p) ==
  /\ Handling(p, "CheckDiskSpace", "begin")
  /\ \/ file = "full" /\ CallBecomes(p, [call[p] EXCEPT !.pc = "ask", !.todo = Hosts])
     \/ file = "bare" /\ CallBecomes(p, [call[p] EXCEPT !.pc = "ask"])
     \/ file \notin {"full", "bare"} /\ ReplyError(p)
  /\ OnlyReplies

Verdict(usages) == IF \E u \in usages : u >= diskUsageWarningLimit THEN "WARNING" ELSE "OK"

Told(p, h, usages, verdict) ==
  CallBecomes(p, [call[p] EXCEPT !.todo = @ \ {h}, !.lines = @ \cup {<<h, verdict>>},
                    !.told = @ \cup {<<h, u>> : u \in usages}])

\* The agent lists its file systems and how full each one is.
CheckDiskSpaceOnAgents(p, h) ==
  /\ Handling(p, "CheckDiskSpace", "ask") /\ h \in call[p].todo
  /\ AgentServes(h)
  /\ \E usages \in SUBSET Usages \ {{}} : Told(p, h, usages, Verdict(usages))
  /\ OnlyReplies

\* Nobody answers, or with an error: a line of the reply, and the next host.
AgentFails(p, h) ==
  /\ Handling(p, "CheckDiskSpace", "ask") /\ h \in call[p].todo
  /\ Told(p, h, {}, "Unknown")
  /\ OnlyReplies

ReplyDiskSpace(p) ==
  /\ Handling(p, "CheckDiskSpace", "ask") /\ call[p].todo = {}
  /\ ReplyOK(p, call[p].lines)
  /\ OnlyReplies

---------------------------------------------------------------------------
(* Hub.CheckConfig, as far as the state directory sees it.                 *)

\* ResetStateDir makes the directories above the step's, and if that fails the
\* handler goes on; the file is opened without O_TRUNC.
OpenConfig(p) ==
  /\ Handling(p, "CheckConfig", "begin")
  /\ \/ ReplyError(p) /\ file' = file /\ stateDir' \in {stateDir, TRUE}
     \/ /\ Connects({}) /\ CallBecomes(p, [call[p] EXCEPT !.pc = "save"])
        /\ file' = (IF file = "none" THEN "empty" ELSE file) /\ stateDir' = TRUE
  /\ UNCHANGED <<hub, port, died, faults, worldVars>>

SaveConfig(p) ==
  /\ Handling(p, "CheckConfig", "save")
  /\ \/ Connects({}) /\ file' = "full" /\ ReplyOK(p, {})
     \/ file' = file /\ ReplyError(p)
  /\ UNCHANGED <<hub, port, died, faults, worldVars, stateDir>>

---------------------------------------------------------------------------
(* The methods that have modules of their own.                             *)

Elsewhere == Methods \ {"Ping", "CheckVersion", "CheckObjectCount", "CheckDiskSpace", "CheckConfig"}

\* These reset a checklist directory or make one for pg_upgrade, and with it
\* the directories above it, unless they are refused or fail before that.
MakesStateDir(method) ==
  method \in {"CheckSeginstall", "PrepareStartAgents", "PrepareShutdownClusters",
              "UpgradeShareOids", "UpgradeValidateStartCluster", "UpgradeReconfigurePorts",
              "UpgradeConvertMaster"}

\* StatusUpgrade replies with ten steps; StatusConversion with a line for every
\* segment the agents know, of which there may be none.
Lines(method) ==
  CASE method = "StatusUpgrade"    -> {{<<"steps", "listed">>}}
    [] method = "StatusConversion" -> {{}, {<<"segments", "listed">>}}
    [] OTHER                       -> {{}}

HandleElsewhere(p) ==
  /\ call[p].method \in Elsewhere /\ call[p].pc = "begin"
  /\ \/ ReplyError(p)
     \/ \E lines \in Lines(call[p].method) : ReplyOK(p, lines)
  /\ stateDir' \in {stateDir, stateDir \/ MakesStateDir(call[p].method)}
  /\ UNCHANGED <<hub, port, died, faults, worldVars, file>>

HandlerStep(p) ==
  \/ Dispatch(p) /\ UNCHANGED <<worldVars, fileVars>>
  \/ Ping(p) \/ CheckVersion(p)
  \/ ConnectTemplate(p) \/ SelectNames(p) \/ ConnectDatabase(p) \/ GetCountsForDb(p) \/ CountsFail(p)
  \/ HostsToAsk(p) \/ ReplyDiskSpace(p)
  \/ \E h \in Hosts : CheckDiskSpaceOnAgents(p, h) \/ AgentFails(p, h)
  \/ OpenConfig(p) \/ SaveConfig(p)
  \/ HandleElsewhere(p)

---------------------------------------------------------------------------
(* The world, outside of gpupgrade.                                        *)

Outage ==
  /\ Fault
  /\ \/ dbUp /\ dbUp' = FALSE /\ UNCHANGED <<dbs, agents>>
     \/ \E d \in dbs : dbs' = dbs \ {d} /\ UNCHANGED <<dbUp, agents>>
     \/ \E h \in agents : agents' = agents \ {h} /\ UNCHANGED <<dbUp, dbs>>
  /\ UNCHANGED <<hub, port, call, died, fileVars>>

Recovery ==
  /\ \/ ~dbUp /\ dbUp' = TRUE /\ UNCHANGED agents
     \/ \E h \in Hosts \ agents : agents' = agents \cup {h} /\ UNCHANGED dbUp
  /\ UNCHANGED <<serverVars, fileVars, dbs>>

ChecksTypeOK ==
  /\ ServerTypeOK
  /\ dbUp \in BOOLEAN /\ dbs \subseteq Databases /\ agents \subseteq Hosts
  /\ file \in File /\ stateDir \in BOOLEAN /\ (file # "none" => stateDir)

---------------------------------------------------------------------------
(* For the inductive invariant of CommandLine.                             *)

Line ==
  (Hosts \cup Databases \cup {"version", "steps", "segments"})
  \X {"OK", "Failed", "WARNING", "Unknown", "counted", "listed"}

Request ==
  [pc : {"none", "sent", "begin", "names", "next", "count", "ask", "save", "ok", "error"},
   method : Methods, at : SUBSET Hubs, todo : SUBSET (Hosts \cup Databases),
   cur : SUBSET Databases, lines : SUBSET Line,
   told : SUBSET (Databases \cup (Hosts \X Usages))]

Subjects(lines) == {line[1] : line \in lines}

\* What has a line and what is still to do are together what was told.
CountsInv(c) ==
  c.method = "CheckObjectCount" =>
    /\ c.pc \in {"next", "count"} => Subjects(c.lines) \cup c.todo = c.told
    /\ c.pc = "count" => c.cur \subseteq c.todo
    /\ c.pc = "ok" => Subjects(c.lines) = c.told

\* The same of the hosts, and a host that is still to be asked has no line yet.
DiskInv(c) ==
  c.method = "CheckDiskSpace" =>
    /\ c.pc = "ask" => /\ Subjects(c.lines) \cup c.todo \in {{}, Hosts}
                       /\ \A line \in c.lines : line[1] \notin c.todo
                       /\ \A told \in c.told : told[1] \notin c.todo
    /\ c.pc = "ok" => Subjects(c.lines) \in {{}, Hosts}
    /\ c.pc \in {"ask", "ok"} =>
         \A told \in c.told : <<told[1], "OK">> \in c.lines => told[2] < diskUsageWarningLimit

CallInv(c) ==
  /\ c \in Request /\ CountsInv(c) /\ DiskInv(c)
  /\ c.pc \in {"sent", "begin", "names"} => c.todo = {} /\ c.lines = {} /\ c.told = {}

=============================================================================
