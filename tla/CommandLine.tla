----------------------------- MODULE CommandLine -----------------------------
(***************************************************************************)
(* The gpupgrade commands, several of them at once, from the arguments to  *)
(* the exit status.                                                        *)
(*   prepare start-hub  counts the hubs, starts one if there is none, and  *)
(*                      pings until it answers or the attempts are used up *)
(*   prepare init       makes the state directory and the first            *)
(*                      configuration, without a hub                       *)
(*   version            prints a text                                      *)
(*   the others         make one call to the hub and show its reply        *)
(* HubChecks has the hub's side.                                           *)
(***************************************************************************)
EXTENDS HubChecks, FiniteSets

CONSTANTS
  Names,          \* the commands that are given, some of AllNames
  Attempts        \* NumberOfConnectionAttempt

VARIABLES
  cmd,         \* cmd[p]: command line p
  handled      \* history: command lines whose handler came to a reply without an error

vars == <<checkVars, cmd, handled>>

---------------------------------------------------------------------------
(* The tree of commands, parent.child, each with the one method it calls.  *)

PrepareCommands ==
  {<<"prepare.shutdown-clusters", "PrepareShutdownClusters">>,
   <<"prepare.start-agents", "PrepareStartAgents">>,
   <<"prepare.init-cluster", "PrepareInitCluster">>}

StatusCommands ==
  {<<"status.upgrade", "StatusUpgrade">>, <<"status.conversion", "StatusConversion">>}

CheckCommands ==
  {<<"check.version", "CheckVersion">>, <<"check.object-count", "CheckObjectCount">>,
   <<"check.disk-space", "CheckDiskSpace">>, <<"check.config", "CheckConfig">>,
   <<"check.seginstall", "CheckSeginstall">>}

UpgradeCommands ==
  {<<"upgrade.convert-master", "UpgradeConvertMaster">>,
   <<"upgrade.convert-primaries", "UpgradeConvertPrimaries">>,
   <<"upgrade.share-oids", "UpgradeShareOids">>,
   <<"upgrade.validate-start-cluster", "UpgradeValidateStartCluster">>,
   <<"upgrade.reconfigure-ports", "UpgradeReconfigurePorts">>}

Requests == PrepareCommands \cup StatusCommands \cup CheckCommands \cup UpgradeCommands

AllNames == {r[1] : r \in Requests} \cup {"prepare.start-hub", "prepare.init", "version"}

ASSUME CommandAssumption == Names \subseteq AllNames /\ Attempts \in Nat

MethodOf(name) == (CHOOSE r \in Requests : r[1] = name)[2]

In(name, commands) == \E r \in commands : r[1] = name

RequiredFlags(name) ==
  CASE name = "upgrade.convert-master" ->
         {"old-datadir", "old-bindir", "new-datadir", "new-bindir"}
    [] name \in {"upgrade.convert-primaries", "prepare.shutdown-clusters"} ->
         {"old-bindir", "new-bindir"}
    [] name = "upgrade.validate-start-cluster" -> {"new-datadir", "new-bindir"}
    [] name = "prepare.init-cluster"           -> {"port", "new-bindir"}
    [] name = "prepare.init"                   -> {"old-bindir"}
    [] name = "check.config"                   -> {"master-host", "old-bindir"}
    [] In(name, CheckCommands) /\ name # "check.config" -> {"master-host"}
    [] OTHER                                   -> {}

---------------------------------------------------------------------------
(* The commanders: the exit status and what is shown, given the reply.     *)

Failed == [exit |-> "exit1", shown |-> {}]

Shows(lines) == [exit |-> "exit0", shown |-> lines]

\* The error of the call is logged and dropped.
ShutdownClusters(reply) == Shows({})

InitCluster(reply) == IF reply.pc = "ok" THEN Shows({}) ELSE Failed

StartAgents(reply) == IF reply.pc = "ok" THEN Shows({}) ELSE Failed

\* A mutated Upgrader: the error of the call is logged and dropped.
UpgraderDropsError(reply) == Shows({})

Upgrader(reply) == IF reply.pc = "ok" THEN Shows({}) ELSE Failed

\* An empty list is an error.
Reporter(reply) == IF reply.pc = "ok" /\ reply.lines # {} THEN Shows(reply.lines) ELSE Failed

\* A version that is not compatible is shown, and no error.
VersionChecker(reply) == IF reply.pc = "ok" THEN Shows(reply.lines) ELSE Failed

ObjectCountChecker(reply) == IF reply.pc = "ok" THEN Shows(reply.lines) ELSE Failed

DiskSpaceChecker(reply) == IF reply.pc = "ok" THEN Shows(reply.lines) ELSE Failed

ConfigChecker(reply) == IF reply.pc = "ok" THEN Shows({}) ELSE Failed

SeginstallChecker(reply) == IF reply.pc = "ok" THEN Shows({}) ELSE Failed

Commander(name, reply) ==
  CASE name = "prepare.shutdown-clusters" -> ShutdownClusters(reply)
    [] name = "prepare.init-cluster"      -> InitCluster(reply)
    [] name = "prepare.start-agents"      -> StartAgents(reply)
    [] name = "check.version"             -> VersionChecker(reply)
    [] name = "check.object-count"        -> ObjectCountChecker(reply)
    [] name = "check.disk-space"          -> DiskSpaceChecker(reply)
    [] name = "check.config"              -> ConfigChecker(reply)
    [] name = "check.seginstall"          -> SeginstallChecker(reply)
    [] In(name, StatusCommands)           -> Reporter(reply)
    [] In(name, UpgradeCommands)          -> Upgrader(reply)

---------------------------------------------------------------------------
NewCommand == [pc |-> "new", name |-> "version", tries |-> 0, shown |-> {}]

Ended == {"exit0", "exit1", "killed"}

CmdBecomes(p, state) == cmd' = [cmd EXCEPT ![p] = state]

Goto(p, pc) == CmdBecomes(p, [cmd[p] EXCEPT !.pc = pc])

Init ==
  /\ ChecksInit
  /\ cmd = [p \in Procs |-> NewCommand] /\ handled = {}

\* What a step of a command line that is not a call leaves alone.
OnlyLocal == UNCHANGED <<checkVars, handled>>

\* main: cobra refuses a command without its required flags.
Begin(p) ==
  /\ cmd[p].pc = "new"
  /\ \E name \in Names : \E given \in {RequiredFlags(name), {}} :
       /\ CmdBecomes(p, [cmd[p] EXCEPT !.name = name, !.pc =
            IF RequiredFlags(name) \subseteq given
            THEN CASE name = "version"           -> "exit0"
                   [] name = "prepare.start-hub" -> "count"
                   [] name = "prepare.init"      -> "mkdir"
                   [] OTHER                      -> "call"
            ELSE "exit1"])
  /\ OnlyLocal

\* grpc.Dial, and the call.
Call(p) ==
  /\ cmd[p].pc = "call"
  /\ Invoke(p, MethodOf(cmd[p].name)) /\ Goto(p, "wait")
  /\ UNCHANGED <<hub, port, died, faults, worldVars, fileVars, handled>>

Answered(p) ==
  /\ cmd[p].pc = "wait" /\ Over(p)
  /\ LET result == Commander(cmd[p].name, call[p])
     IN CmdBecomes(p, [cmd[p] EXCEPT !.pc = result.exit, !.shown = result.shown])
  /\ OnlyLocal

---------------------------------------------------------------------------
(* Preparer.StartHub and Preparer.VerifyConnectivity.                      *)

\* ps and grep find the processes whose command line ends in the hub's name, not
\* those with arguments.
HowManyHubsRunning == Cardinality(Alive \ ByHand)

\* There is a hub, or what ps and grep print is no number.
CountHubs(p) ==
  /\ cmd[p].pc = "count"
  /\ \/ HowManyHubsRunning = 0 /\ Goto(p, "kickoff")
     \/ Goto(p, "exit1")
  /\ OnlyLocal

KickOff(p) ==
  /\ cmd[p].pc = "kickoff"
  /\ \/ /\ \E h \in Hubs \ ByHand : hub[h] = "none" /\ hub' = [hub EXCEPT ![h] = "boot"]
        /\ Goto(p, "ping")
     \/ hub' = hub /\ Goto(p, "exit1")
  /\ UNCHANGED <<port, call, died, faults, worldVars, fileVars, handled>>

\* After an attempt that failed the channel waits before it dials again, and
\* calls fail meanwhile, whoever listens.
PingHub(p) ==
  /\ cmd[p].pc = "ping" /\ Goto(p, "pinging")
  /\ Invoke(p, "Ping") \/ (cmd[p].tries > 0 /\ ReplyError(p))
  /\ UNCHANGED <<hub, port, died, faults, worldVars, fileVars, handled>>

\* A mutated PingAnswered: the attempts are not counted.
PingAgain(p) ==
  /\ cmd[p].pc = "pinging" /\ Over(p)
  /\ \/ call[p].pc = "ok" /\ Goto(p, "exit0")
     \/ call[p].pc = "error" /\ Goto(p, "ping")
  /\ OnlyLocal

\* A mutated PingAnswered: the loop goes round once more.
PingOnceMore(p) ==
  /\ cmd[p].pc = "pinging" /\ Over(p)
  /\ \/ call[p].pc = "ok" /\ Goto(p, "exit0")
     \/ /\ call[p].pc = "error" /\ cmd[p].tries <= Attempts
        /\ CmdBecomes(p, [cmd[p] EXCEPT !.pc = "ping", !.tries = @ + 1])
     \/ call[p].pc = "error" /\ cmd[p].tries > Attempts /\ Goto(p, "exit1")
  /\ OnlyLocal

\* One ping and then Attempts more.
PingAnswered(p) ==
  /\ cmd[p].pc = "pinging" /\ Over(p)
  /\ \/ call[p].pc = "ok" /\ Goto(p, "exit0")
     \/ /\ call[p].pc = "error" /\ cmd[p].tries < Attempts
        /\ CmdBecomes(p, [cmd[p] EXCEPT !.pc = "ping", !.tries = @ + 1])
     \/ call[p].pc = "error" /\ cmd[p].tries = Attempts /\ Goto(p, "exit1")
  /\ OnlyLocal

---------------------------------------------------------------------------
(* DoInit.                                                                 *)

\* A mutated MakeStateDir: MkdirAll, which is content with a directory that
\* is there.
MkdirAllStateDir(p) ==
  /\ cmd[p].pc = "mkdir"
  /\ \/ stateDir' = TRUE /\ Goto(p, "open")
     \/ stateDir' = stateDir /\ Goto(p, "exit1")
  /\ UNCHANGED <<serverVars, worldVars, file, handled>>

\* os.Mkdir fails if the directory is there, or for some other reason.
MakeStateDir(p) ==
  /\ cmd[p].pc = "mkdir"
  /\ \/ ~stateDir /\ stateDir' = TRUE /\ Goto(p, "open")
     \/ stateDir' = stateDir /\ Goto(p, "exit1")
  /\ UNCHANGED <<serverVars, worldVars, file, handled>>

OpenFile(p) ==
  /\ cmd[p].pc = "open"
  /\ \/ file' = (IF file = "none" THEN "empty" ELSE file) /\ Goto(p, "write")
     \/ file' = file /\ Goto(p, "exit1")
  /\ UNCHANGED <<serverVars, worldVars, stateDir, handled>>

\* The text is written to the start of what is in the file.
WriteBare(p) ==
  /\ cmd[p].pc = "write"
  /\ \/ file' = (IF file \in {"empty", "bare"} THEN "bare" ELSE "mixed") /\ Goto(p, "exit0")
     \/ file' = file /\ Goto(p, "exit1")
  /\ UNCHANGED <<serverVars, worldVars, stateDir, handled>>

---------------------------------------------------------------------------
\* A command line that is killed leaves its call and its hub behind.
Interrupt(p) ==
  /\ cmd[p].pc \notin Ended \cup {"new"}
  /\ Fault /\ Goto(p, "killed")
  /\ UNCHANGED <<hub, port, call, died, worldVars, fileVars, handled>>

HubRuns(h) == HubStep(h) /\ UNCHANGED <<worldVars, fileVars, cmd, handled>>

HubFails(h) == HubIsKilled(h) /\ UNCHANGED <<worldVars, fileVars, cmd, handled>>

Handle(p) ==
  /\ HandlerStep(p)
  /\ handled' = handled \cup {q \in Procs : call[q].pc # "ok" /\ call'[q].pc = "ok"}
  /\ UNCHANGED cmd

World == (Outage \/ Recovery) /\ UNCHANGED <<cmd, handled>>

\* A step of command line p itself.
CommandStep(p) ==
  \/ Call(p) \/ Answered(p)
  \/ CountHubs(p) \/ KickOff(p) \/ PingHub(p) \/ PingAnswered(p)
  \/ MakeStateDir(p) \/ OpenFile(p) \/ WriteBare(p)

\* All commands have ended: the only way to rest.
Quiescent == (\A p \in Procs : cmd[p].pc \in Ended) /\ UNCHANGED vars

Next ==
  \/ \E p \in Procs : Begin(p) \/ CommandStep(p) \/ Interrupt(p) \/ Handle(p)
  \/ \E h \in Hubs : HubRuns(h) \/ HubFails(h)
  \/ World
  \/ Quiescent

Spec == Init /\ [][Next]_vars

\* Processes and goroutines are scheduled.  Databases and agents answer, or the
\* connection to them fails: handlers have no deadline of their own.
FairSpec ==
  /\ Spec
  /\ \A p \in Procs : WF_vars(CommandStep(p)) /\ WF_vars(Handle(p))
  /\ \A h \in Hubs : WF_vars(HubRuns(h))

---------------------------------------------------------------------------
Exited(name) == {p \in Procs : cmd[p].name = name /\ cmd[p].pc = "exit0"}

TypeOK ==
  /\ ChecksTypeOK
  /\ \A p \in Procs :
       /\ cmd[p].name \in AllNames /\ cmd[p].tries \in 0..Attempts
       /\ cmd[p].pc \in Ended \cup {"new", "call", "wait", "count", "kickoff", "ping",
                                    "pinging", "mkdir", "open", "write"}
       /\ (cmd[p].pc = "wait" => call[p].pc # "none")
       /\ cmd[p].pc \in {"wait", "pinging"} /\ call[p].at # {} /\ ~Over(p) => call[p].at \subseteq Alive
  /\ handled \subseteq Procs

\* Exit status 0 is earned: the handler of the command's one request came to its
\* end without an error, and a status that is shown is not empty.  Only
\* shutdown-clusters exits with 0 whatever happens.
ExitZeroIsEarned ==
  \A p \in Procs : cmd[p].pc = "exit0" =>
    CASE cmd[p].name \in {"version", "prepare.init", "prepare.shutdown-clusters"} -> TRUE
      [] In(cmd[p].name, StatusCommands) -> p \in handled /\ cmd[p].shown # {}
      [] OTHER -> p \in handled

\* Unless a hub has died since, exactly one hub serves when start-hub exits with
\* 0, although several command lines may all have counted none and started one,
\* and one that was started by hand is not counted.
StartedHubServes ==
  Exited("prepare.start-hub") # {} /\ ~died =>
    Cardinality({h \in Hubs : hub[h] = "serving"}) = 1

\* One init succeeds at most, whatever else makes the state directory at the
\* same time, and then there is something in the configuration file.
InitOnce ==
  /\ Cardinality(Exited("prepare.init")) <= 1
  /\ Exited("prepare.init") # {} => file \notin {"none", "empty"}

\* A check that exits with 0 has left nothing out: every database that was
\* listed is counted, although databases go away meanwhile; every host of the
\* configuration has its line, and says OK only if no file system that its agent
\* told of was at the limit.
ChecksAreComplete ==
  /\ \A p \in Exited("check.object-count") : {line[1] : line \in cmd[p].shown} = call[p].told
  /\ \A p \in Exited("check.disk-space") :
       /\ {line[1] : line \in cmd[p].shown} \in {{}, Hosts}
       /\ \A told \in call[p].told :
            <<told[1], "OK">> \in cmd[p].shown => told[2] < diskUsageWarningLimit

\* Every command that is given ends, also if the hub it waits for dies or never
\* comes to listen.
EveryCommandEnds == \A p \in Procs : (cmd[p].pc # "new") ~> (cmd[p].pc \in Ended)

---------------------------------------------------------------------------
(* The inductive invariant for the proofs.                                 *)

Command ==
  [pc : Ended \cup {"new", "call", "wait", "count", "kickoff", "ping", "pinging", "mkdir", "open",
                    "write"},
   name : AllNames, tries : 0..Attempts, shown : SUBSET Line]

\* Where command line c is with its call k; replied says that its handler came to
\* a reply without an error.
CommandInv(c, k, replied) ==
  /\ c \in Command
  /\ c.pc \in {"call", "wait"} => In(c.name, Requests)
  /\ c.pc \in {"count", "kickoff", "ping", "pinging"} => c.name = "prepare.start-hub"
  /\ c.pc \in {"mkdir", "open", "write"} => c.name = "prepare.init"
  /\ c.pc = "wait" => k.pc # "none" /\ (k.pc = "error" \/ k.method = MethodOf(c.name))
  /\ k.pc = "ok" => replied
  /\ c.pc = "exit0" =>
       /\ c.name \in {"version", "prepare.init", "prepare.shutdown-clusters"} \/ replied
       /\ In(c.name, StatusCommands) => c.shown # {}
       /\ c.name \in {"check.object-count", "check.disk-space"} =>
            k.pc = "ok" /\ k.method = MethodOf(c.name) /\ c.shown = k.lines

\* The inits that have made the state directory and have not failed.
Makers == {p \in Procs : cmd[p].name = "prepare.init" /\ cmd[p].pc \in {"open", "write", "exit0"}}

\* Nobody makes a directory that is there, and nothing takes a file away.
FileInv ==
  /\ \A p, q \in Makers : p = q
  /\ Makers # {} => stateDir
  /\ \A p \in Procs :
       /\ cmd[p].pc = "write" \/ call[p].pc = "save" => file # "none"
       /\ p \in Exited("prepare.init") => file \notin {"none", "empty"}

CommandLineInv ==
  /\ ChecksTypeOK /\ PortInv /\ FileInv
  /\ handled \subseteq Procs /\ DOMAIN cmd = Procs
  /\ \A p \in Procs : CallInv(call[p]) /\ CommandInv(cmd[p], call[p], p \in handled)
  /\ handled # {} /\ ~died => \E h \in Hubs : hub[h] = "serving"

=============================================================================
