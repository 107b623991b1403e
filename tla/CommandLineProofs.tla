-------------------------- MODULE CommandLineProofs --------------------------
(***************************************************************************)
(* The commands and the hub processes: for any number of command lines,    *)
(* hubs, hosts, databases, attempts and faults.                            *)
(***************************************************************************)
EXTENDS CommandLine, FiniteSetTheorems, TLAPS

---------------------------------------------------------------------------
(* The tree of commands.                                                   *)

\* Every command calls a method that the hub has registered.
LEMMA MethodsAreKnown ==
  ASSUME NEW name, In(name, Requests)
  PROVE  MethodOf(name) \in Methods
<1>1. \E r \in Requests : r[1] = name
  BY DEF In
<1>2. (CHOOSE r \in Requests : r[1] = name) \in Requests
  BY <1>1
<1>3. \A r \in Requests : r[2] \in Methods
  BY DEF Requests, PrepareCommands, StatusCommands, CheckCommands, UpgradeCommands, Methods
<1> QED
  BY <1>2, <1>3 DEF MethodOf

\* The two checks with more than one line call methods of their own.
LEMMA ChecksCall ==
  /\ MethodOf("check.object-count") = "CheckObjectCount"
  /\ MethodOf("check.disk-space") = "CheckDiskSpace"
<1>1. ASSUME NEW r \in Requests
      PROVE  /\ r[1] = "check.object-count" => r[2] = "CheckObjectCount"
             /\ r[1] = "check.disk-space" => r[2] = "CheckDiskSpace"
  BY DEF Requests, PrepareCommands, StatusCommands, CheckCommands, UpgradeCommands
<1>2. /\ <<"check.object-count", "CheckObjectCount">> \in Requests
      /\ <<"check.disk-space", "CheckDiskSpace">> \in Requests
  BY DEF Requests, CheckCommands
<1>3. (CHOOSE r \in Requests : r[1] = "check.object-count") \in
        {r \in Requests : r[1] = "check.object-count"}
  BY <1>2
<1>4. (CHOOSE r \in Requests : r[1] = "check.disk-space") \in
        {r \in Requests : r[1] = "check.disk-space"}
  BY <1>2
<1> QED
  BY <1>1, <1>3, <1>4 DEF MethodOf

\* What a commander makes of a reply.
LEMMA CommanderSays ==
  ASSUME NEW name, In(name, Requests), NEW reply, reply.lines \in SUBSET Line
  PROVE  /\ Commander(name, reply).exit \in {"exit0", "exit1"}
         /\ Commander(name, reply).shown \in SUBSET Line
         /\ Commander(name, reply).exit = "exit0" =>
              /\ name = "prepare.shutdown-clusters" \/ reply.pc = "ok"
              /\ In(name, StatusCommands) => Commander(name, reply).shown # {}
              /\ name \in {"check.object-count", "check.disk-space"} =>
                   Commander(name, reply).shown = reply.lines
<1> DEFINE out == Commander(name, reply)
<1>1. /\ Failed.exit = "exit1" /\ Failed.shown = {}
      /\ \A lines : Shows(lines).exit = "exit0" /\ Shows(lines).shown = lines
  BY DEF Failed, Shows
<1>2. CASE In(name, PrepareCommands)
  <2>1. name \in {"prepare.shutdown-clusters", "prepare.init-cluster", "prepare.start-agents"}
    BY <1>2 DEF In, PrepareCommands
  <2>2. out = (IF name = "prepare.shutdown-clusters" \/ reply.pc = "ok" THEN Shows({}) ELSE Failed)
    BY <2>1 DEF Commander, ShutdownClusters, InitCluster, StartAgents, In, StatusCommands,
                UpgradeCommands
  <2>3. ~In(name, StatusCommands)
    BY <2>1 DEF In, StatusCommands
  <2> QED
    BY <1>1, <2>1, <2>2, <2>3
<1>3. CASE In(name, StatusCommands)
  <2>1. name \in {"status.upgrade", "status.conversion"}
    BY <1>3 DEF In, StatusCommands
  <2>2. out = Reporter(reply)
    BY <1>3, <2>1 DEF Commander, In, UpgradeCommands
  <2> QED
    BY <1>1, <2>1, <2>2 DEF Reporter
<1>4. CASE In(name, CheckCommands)
  <2>1. name \in {"check.version", "check.object-count", "check.disk-space", "check.config",
                  "check.seginstall"}
    BY <1>4 DEF In, CheckCommands
  <2>2. out = (IF reply.pc = "ok"
               THEN Shows(IF name \in {"check.config", "check.seginstall"} THEN {} ELSE reply.lines)
               ELSE Failed)
    BY <2>1 DEF Commander, In, StatusCommands, UpgradeCommands, VersionChecker,
                ObjectCountChecker, DiskSpaceChecker, ConfigChecker, SeginstallChecker
  <2>3. ~In(name, StatusCommands)
    BY <2>1 DEF In, StatusCommands
  <2> QED
    BY <1>1, <2>1, <2>2, <2>3
<1>5. CASE In(name, UpgradeCommands)
  <2>1. name \in {"upgrade.convert-master", "upgrade.convert-primaries", "upgrade.share-oids",
                  "upgrade.validate-start-cluster", "upgrade.reconfigure-ports"}
    BY <1>5 DEF In, UpgradeCommands
  <2>2. out = Upgrader(reply) /\ ~In(name, StatusCommands)
    BY <1>5, <2>1 DEF Commander, In, StatusCommands
  <2> QED
    BY <1>1, <2>1, <2>2 DEF Upgrader
<1> QED
  BY <1>2, <1>3, <1>4, <1>5 DEF In, Requests

---------------------------------------------------------------------------
(* What the steps have in common.                                          *)

\* A call that has not been made, or has failed, is with nobody.
LEMMA EmptyCalls ==
  ASSUME NEW pc \in {"none", "error"}
  PROVE  /\ CallInv([NoCall EXCEPT !.pc = pc]) /\ [NoCall EXCEPT !.pc = pc].pc = pc
         /\ CallInv(NoCall) /\ NoCall.pc = "none"
<1>1. "Ping" \in Methods
  BY DEF Methods
<1> DEFINE c == [NoCall EXCEPT !.pc = pc]
<1>2. c \in Request /\ c.pc = pc
  BY <1>1 DEF NoCall, Request
<1>3. NoCall \in Request /\ NoCall.pc = "none" /\ NoCall.method = "Ping" /\ c.method = "Ping"
  BY <1>1 DEF NoCall, Request
<1> QED
  BY <1>2, <1>3 DEF CallInv, CountsInv, DiskInv

\* What may happen to the files: they stay, and what is in the one of the old cluster.
FilesStay ==
  /\ file' \in File /\ stateDir' \in BOOLEAN /\ (stateDir => stateDir')
  /\ (file' # "none" => stateDir')
  /\ (file # "none" => file' # "none")
  /\ (file \notin {"none", "empty"} => file' \notin {"none", "empty"})

\* A step of the handler of p, whose call becomes k.
LEMMA StepOfHandler ==
  ASSUME CommandLineInv, NEW p \in Procs, ~Over(p), NEW k, CallInv(k), CallBecomes(p, k),
         k.pc # "none", k.pc = "error" \/ k.method = call[p].method,
         k.pc \notin {"ok", "error"} => k.at = call[p].at,
         k.pc \notin {"sent", "error"} => \A h \in port : hub[h] = "serving",
         handled' = handled \cup {q \in Procs : call[q].pc # "ok" /\ call'[q].pc = "ok"},
         UNCHANGED <<hub, port, died, faults, worldVars, cmd>>,
         FilesStay, k.pc = "save" => file' # "none"
  PROVE  CommandLineInv'
<1>1. /\ hub' = hub /\ port' = port /\ died' = died /\ faults' = faults /\ cmd' = cmd
      /\ dbUp' = dbUp /\ dbs' = dbs /\ agents' = agents
  BY DEF worldVars
<1>2. /\ DOMAIN call = Procs /\ DOMAIN call' = Procs /\ call'[p] = k
      /\ \A q \in Procs \ {p} : call'[q] = call[q]
  BY DEF CommandLineInv, ChecksTypeOK, ServerTypeOK, CallBecomes
<1>3. k \in Request /\ k.at \subseteq Hubs /\ call[p].pc \notin {"none", "ok", "error"}
  BY DEF CallInv, Request, Over
<1>4. ServerTypeOK'
  BY <1>1, <1>2, <1>3 DEF CommandLineInv, ChecksTypeOK, ServerTypeOK
<1>5. ChecksTypeOK'
  BY <1>1, <1>4 DEF CommandLineInv, ChecksTypeOK, FilesStay
<1>6. PortInv'
  BY <1>1, <1>2, <1>3 DEF CommandLineInv, PortInv, Over
<1>7. FileInv'
  <2>1. Makers' = Makers /\ Exited("prepare.init")' = Exited("prepare.init")
    BY <1>1 DEF Makers, Exited
  <2> QED
    BY <1>1, <1>2, <2>1 DEF CommandLineInv, FileInv, FilesStay
<1>8. handled' = (IF k.pc = "ok" THEN handled \cup {p} ELSE handled)
  BY <1>2, <1>3 DEF Over
<1>9. ASSUME NEW q \in Procs
      PROVE  CallInv(call'[q]) /\ CommandInv(cmd'[q], call'[q], q \in handled')
  <2>1. CallInv(call[q]) /\ CommandInv(cmd[q], call[q], q \in handled)
    BY DEF CommandLineInv
  <2>2. CASE q # p
    <3>1. call'[q] = call[q] /\ cmd'[q] = cmd[q] /\ (q \in handled' <=> q \in handled)
      BY <1>1, <1>2, <1>8, <2>2
    <3> QED
      BY <2>1, <3>1 DEF CommandInv
  <2>3. CASE q = p
    <3>1. call'[q] = k /\ cmd'[q] = cmd[q] /\ (q \in handled => q \in handled')
          /\ (k.pc = "ok" => q \in handled')
      BY <1>1, <1>2, <1>8, <2>3
    <3> QED
      BY <1>3, <2>1, <2>3, <3>1 DEF CommandInv
  <2> QED
    BY <2>2, <2>3
<1>10. handled' # {} /\ ~died' => \E h \in Hubs : hub'[h] = "serving"
  <2>1. CASE k.pc = "ok"
    <3>1. port # {} /\ port \subseteq Hubs
      BY DEF CommandLineInv, PortInv, ChecksTypeOK, ServerTypeOK
    <3> QED
      BY <1>1, <2>1, <3>1
  <2>2. CASE k.pc # "ok"
    BY <1>1, <1>8, <2>2 DEF CommandLineInv
  <2> QED
    BY <2>1, <2>2
<1>11. handled' \subseteq Procs /\ DOMAIN cmd' = Procs
  BY <1>1, <1>8 DEF CommandLineInv
<1> QED
  BY <1>5, <1>6, <1>7, <1>9, <1>10, <1>11 DEF CommandLineInv

\* A step of command line p, which becomes c, and its call k.
LEMMA StepOfCommand ==
  ASSUME CommandLineInv, NEW p \in Procs, NEW c, CmdBecomes(p, c), NEW k, call'[p] = k,
         DOMAIN call' = Procs, \A q \in Procs \ {p} : call'[q] = call[q],
         CallInv(k), CommandInv(c, k, p \in handled),
         k = call[p] \/ k.pc = "error" \/ (k.pc = "sent" /\ k.at = port /\ port # {}),
         hub' \in [Hubs -> {"none", "boot", "listening", "serving", "dead"}],
         \A h \in Hubs : hub'[h] = hub[h] \/ (hub[h] = "none" /\ hub'[h] = "boot"),
         UNCHANGED <<port, died, worldVars, handled>>, faults' \in 0..MaxFaults,
         FilesStay,
         c.name = "prepare.init" /\ c.pc \in {"open", "write", "exit0"} =>
           stateDir' /\ (p \in Makers \/ Makers = {}),
         c.pc = "write" => file' # "none",
         c.pc = "exit0" /\ c.name = "prepare.init" => file' \notin {"none", "empty"}
  PROVE  CommandLineInv'
<1>1. /\ port' = port /\ died' = died /\ handled' = handled
      /\ dbUp' = dbUp /\ dbs' = dbs /\ agents' = agents
  BY DEF worldVars
<1>2. /\ DOMAIN call = Procs /\ DOMAIN call' = Procs /\ call'[p] = k
      /\ \A q \in Procs \ {p} : call'[q] = call[q]
      /\ DOMAIN cmd' = Procs /\ cmd'[p] = c /\ \A q \in Procs \ {p} : cmd'[q] = cmd[q]
  BY DEF CommandLineInv, ChecksTypeOK, ServerTypeOK, CallBecomes, CmdBecomes
<1>3. k \in Request /\ k.at \subseteq Hubs
  BY DEF CallInv, Request
<1>4. ServerTypeOK'
  BY <1>1, <1>2, <1>3 DEF CommandLineInv, ChecksTypeOK, ServerTypeOK
<1>5. ChecksTypeOK'
  BY <1>1, <1>4 DEF CommandLineInv, ChecksTypeOK, FilesStay
<1>6. PortInv'
  <2>1. \A h \in Hubs : hub'[h] \in {"listening", "serving"} <=> h \in port'
    BY <1>1 DEF CommandLineInv, PortInv
  <2>2. \A h \in port : h \in Hubs /\ hub'[h] = hub[h]
    BY DEF CommandLineInv, ChecksTypeOK, ServerTypeOK
  <2>3. ASSUME NEW q \in Procs
        PROVE  /\ ~Over(q)' => port' # {} /\ call'[q].at = port'
               /\ call'[q].pc \notin {"none", "sent", "ok", "error"} => \A h \in port' : hub'[h] = "serving"
    <3>1. CASE call'[q] = call[q]
      BY <1>1, <2>2, <3>1 DEF CommandLineInv, PortInv, Over
    <3>2. CASE call'[q] # call[q]
      BY <1>1, <1>2, <3>2 DEF Over
    <3> QED
      BY <3>1, <3>2
  <2> QED
    BY <2>1, <2>3 DEF PortInv
<1>7. FileInv'
  <2>1. Makers' \subseteq Makers \cup {p} /\ (p \in Makers' => stateDir' /\ (p \in Makers \/ Makers = {}))
    BY <1>2 DEF Makers
  <2>2. \A q, r \in Makers' : q = r
    BY <2>1 DEF CommandLineInv, FileInv
  <2>3. Makers' # {} => stateDir'
    BY <2>1 DEF CommandLineInv, FileInv, FilesStay
  <2>4. ASSUME NEW q \in Procs
        PROVE  /\ cmd'[q].pc = "write" \/ call'[q].pc = "save" => file' # "none"
               /\ q \in Exited("prepare.init")' => file' \notin {"none", "empty"}
    <3>1. CASE q = p
      BY <1>2, <3>1 DEF CommandLineInv, FileInv, Exited, FilesStay
    <3>2. CASE q # p
      BY <1>2, <3>2 DEF CommandLineInv, FileInv, Exited, FilesStay
    <3> QED
      BY <3>1, <3>2
  <2> QED
    BY <2>2, <2>3, <2>4 DEF FileInv
<1>8. ASSUME NEW q \in Procs
      PROVE  CallInv(call'[q]) /\ CommandInv(cmd'[q], call'[q], q \in handled')
  <2>1. CASE q = p
    BY <1>1, <1>2, <2>1
  <2>2. CASE q # p
    BY <1>1, <1>2, <2>2 DEF CommandLineInv
  <2> QED
    BY <2>1, <2>2
<1>9. handled' # {} /\ ~died' => \E h \in Hubs : hub'[h] = "serving"
  BY <1>1 DEF CommandLineInv
<1>10. handled' \subseteq Procs
  BY <1>1 DEF CommandLineInv
<1> QED
  BY <1>2, <1>5, <1>6, <1>7, <1>8, <1>9, <1>10 DEF CommandLineInv

\* Files that nobody touches stay.
LEMMA FilesAlone ==
  ASSUME CommandLineInv, UNCHANGED fileVars
  PROVE  FilesStay
BY DEF CommandLineInv, ChecksTypeOK, fileVars, FilesStay

---------------------------------------------------------------------------
(* The handlers.                                                           *)

\* What a handler changes beside its call and the files.
Quiet ==
  /\ handled' = handled \cup {q \in Procs : call[q].pc # "ok" /\ call'[q].pc = "ok"}
  /\ UNCHANGED <<hub, port, died, faults, worldVars, cmd>>

\* A handler returns an error.
LEMMA HandlerFails ==
  ASSUME CommandLineInv, NEW p \in Procs, ~Over(p), ReplyError(p), Quiet, FilesStay
  PROVE  CommandLineInv'
<1> DEFINE k == [NoCall EXCEPT !.pc = "error"]
<1>1. CallInv(k) /\ k.pc = "error"
  BY EmptyCalls
<1>2. CallBecomes(p, k)
  BY DEF ReplyError
<1> HIDE DEF k
<1> QED
  BY <1>1, <1>2, StepOfHandler DEF Quiet

\* A handler that has begun is that of a hub that serves.
LEMMA HandlerServes ==
  ASSUME CommandLineInv, NEW p \in Procs, call[p].pc \notin {"none", "sent", "ok", "error"}
  PROVE  /\ call[p] \in Request /\ CallInv(call[p]) /\ ~Over(p)
         /\ \A h \in port : hub[h] = "serving"
BY DEF CommandLineInv, PortInv, CallInv, Over

\* A handler replies with some lines.
LEMMA HandlerReplies ==
  ASSUME CommandLineInv, NEW p \in Procs, call[p].pc \notin {"none", "sent", "ok", "error"},
         NEW lines \in SUBSET Line, ReplyOK(p, lines), Quiet, FilesStay,
         call[p].method = "CheckObjectCount" => Subjects(lines) = call[p].told,
         call[p].method = "CheckDiskSpace" =>
           call[p].pc = "ask" /\ lines = call[p].lines /\ call[p].todo = {}
  PROVE  CommandLineInv'
<1> DEFINE k == [call[p] EXCEPT !.pc = "ok", !.lines = lines]
<1>1. /\ call[p] \in Request /\ CallInv(call[p]) /\ ~Over(p)
      /\ \A h \in port : hub[h] = "serving"
  BY HandlerServes
<1>2. /\ k \in Request /\ k.pc = "ok" /\ k.lines = lines /\ k.method = call[p].method
      /\ k.told = call[p].told
  BY <1>1 DEF Request
<1>3. CallBecomes(p, k)
  BY DEF ReplyOK
<1> HIDE DEF k
<1>4. CallInv(k)
  BY <1>1, <1>2 DEF CallInv, CountsInv, DiskInv
<1> QED
  BY <1>1, <1>2, <1>3, <1>4, StepOfHandler DEF Quiet

\* A handler goes on, to k.
LEMMA HandlerGoesOn ==
  ASSUME CommandLineInv, NEW p \in Procs, call[p].pc \notin {"none", "sent", "ok", "error"},
         NEW k \in Request, CallBecomes(p, k), CountsInv(k), DiskInv(k),
         k.pc \in {"begin", "names", "next", "count", "ask", "save"},
         k.pc \in {"sent", "begin", "names"} => k.todo = {} /\ k.lines = {} /\ k.told = {},
         k.method = call[p].method, k.at = call[p].at, Quiet, FilesStay,
         k.pc = "save" => file' # "none"
  PROVE  CommandLineInv'
<1>1. ~Over(p) /\ \A h \in port : hub[h] = "serving"
  BY HandlerServes
<1>2. CallInv(k)
  BY DEF CallInv
<1> QED
  BY <1>1, <1>2, StepOfHandler DEF Quiet

\* A handler begins, or the method is not known.
LEMMA DispatchKeeps ==
  ASSUME CommandLineInv, NEW p \in Procs, Dispatch(p), Quiet, FilesStay
  PROVE  CommandLineInv'
<1>1. /\ call[p] \in Request /\ CallInv(call[p]) /\ call[p].pc = "sent" /\ ~Over(p)
      /\ call[p].at = port /\ \A h \in port : hub[h] = "serving"
  BY DEF CommandLineInv, PortInv, CallInv, Over, Dispatch
<1>2. PICK pc \in {"begin", "error"} : CallBecomes(p, [call[p] EXCEPT !.pc = pc])
  BY DEF Dispatch
<1> DEFINE k == [call[p] EXCEPT !.pc = pc]
<1>3. /\ k \in Request /\ k.pc = pc /\ k.method = call[p].method /\ k.at = call[p].at
      /\ k.todo = call[p].todo /\ k.lines = call[p].lines /\ k.told = call[p].told
  BY <1>1 DEF Request
<1>4. CallBecomes(p, k)
  BY <1>2
<1> HIDE DEF k
<1>5. CallInv(k)
  BY <1>1, <1>3 DEF CallInv, CountsInv, DiskInv
<1> QED
  BY <1>1, <1>3, <1>4, <1>5, StepOfHandler DEF Quiet

\* Some lines that are replied.
LEMMA LinesTyped ==
  /\ {} \in SUBSET Line
  /\ \A verdict \in {"OK", "Failed"} : {<<"version", verdict>>} \in SUBSET Line
  /\ \A method : \A lines \in Lines(method) : lines \in SUBSET Line
<1>1. {{<<"steps", "listed">>}} \subseteq SUBSET Line
  BY DEF Line
<1>2. {{}, {<<"segments", "listed">>}} \subseteq SUBSET Line
  BY DEF Line
<1>3. ASSUME NEW method
      PROVE  Lines(method) \in {{{<<"steps", "listed">>}}, {{}, {<<"segments", "listed">>}}, {{}}}
  BY DEF Lines
<1>4. \A verdict \in {"OK", "Failed"} : {<<"version", verdict>>} \in SUBSET Line
  BY DEF Line
<1>5. ASSUME NEW method, NEW lines \in Lines(method)
      PROVE  lines \in SUBSET Line
  <2>1. Lines(method) \in {{{<<"steps", "listed">>}}, {{}, {<<"segments", "listed">>}}, {{}}}
    BY <1>3
  <2> QED
    BY <1>1, <1>2, <2>1
<1> QED
  BY <1>4, <1>5

\* A hub dies: its calls end, and whoever has no call with it does not see it.
LEMMA HubDeathKeeps ==
  ASSUME CommandLineInv, NEW h \in Hubs, HubDies(h), faults' \in 0..MaxFaults,
         UNCHANGED <<worldVars, fileVars, cmd, handled>>
  PROVE  CommandLineInv'
<1>1. /\ cmd' = cmd /\ handled' = handled /\ stateDir' = stateDir /\ file' = file
      /\ dbUp' = dbUp /\ dbs' = dbs /\ agents' = agents /\ died' = TRUE
      /\ port' = port \ {h} /\ hub' = [hub EXCEPT ![h] = "dead"]
  BY DEF worldVars, fileVars, HubDies
<1> DEFINE err == [NoCall EXCEPT !.pc = "error"]
<1>2. CallInv(err) /\ err.pc = "error" /\ err \in Request
  BY EmptyCalls DEF CallInv
<1>3. /\ DOMAIN call' = Procs
      /\ \A q \in Procs : call'[q] = IF call[q].at = {h} /\ ~Over(q) THEN err ELSE call[q]
  BY DEF HubDies
<1> HIDE DEF err
<1>4. \A g \in Hubs : hub'[g] = IF g = h THEN "dead" ELSE hub[g]
  BY <1>1 DEF CommandLineInv, ChecksTypeOK, ServerTypeOK
<1>5. ServerTypeOK'
  <2>1. hub' \in [Hubs -> {"none", "boot", "listening", "serving", "dead"}]
    BY <1>1 DEF CommandLineInv, ChecksTypeOK, ServerTypeOK
  <2>2. port' \subseteq {g \in Hubs : hub'[g] \in {"listening", "serving"}} /\ \A g, f \in port' : g = f
    BY <1>1, <1>4 DEF CommandLineInv, ChecksTypeOK, ServerTypeOK
  <2>3. \A q \in Procs : call'[q].at \subseteq Hubs
    BY <1>2, <1>3 DEF CommandLineInv, ChecksTypeOK, ServerTypeOK, Request
  <2> QED
    BY <1>1, <1>3, <2>1, <2>2, <2>3 DEF ServerTypeOK
<1>6. ChecksTypeOK'
  BY <1>1, <1>5 DEF CommandLineInv, ChecksTypeOK
<1>7. PortInv'
  <2>1. \A g \in Hubs : hub'[g] \in {"listening", "serving"} <=> g \in port'
    BY <1>1, <1>4 DEF CommandLineInv, PortInv
  <2>2. ASSUME NEW q \in Procs, call'[q].pc \notin {"none", "ok", "error"}
        PROVE  /\ port' # {} /\ call'[q].at = port'
               /\ call'[q].pc # "sent" => \A g \in port' : hub'[g] = "serving"
    <3>1. call'[q] = call[q] /\ call[q].at # {h} /\ ~Over(q)
      BY <1>2, <1>3, <2>2 DEF Over
    <3>2. port # {} /\ call[q].at = port /\ port \subseteq Hubs /\ \A g, f \in port : g = f
      BY <3>1 DEF CommandLineInv, PortInv, ChecksTypeOK, ServerTypeOK
    <3>3. h \notin port
      BY <3>1, <3>2
    <3>4. port' = port
      BY <1>1, <3>3
    <3> QED
      BY <1>4, <2>2, <3>1, <3>2, <3>3, <3>4 DEF CommandLineInv, PortInv
  <2> QED
    BY <2>1, <2>2 DEF PortInv, Over
<1>8. FileInv'
  <2>1. Makers' = Makers /\ Exited("prepare.init")' = Exited("prepare.init")
    BY <1>1 DEF Makers, Exited
  <2> QED
    BY <1>1, <1>2, <1>3, <2>1 DEF CommandLineInv, FileInv
<1>9. ASSUME NEW q \in Procs
      PROVE  CallInv(call'[q]) /\ CommandInv(cmd'[q], call'[q], q \in handled')
  <2>1. CallInv(call[q]) /\ CommandInv(cmd[q], call[q], q \in handled)
    BY DEF CommandLineInv
  <2>2. CASE call'[q] = call[q]
    BY <1>1, <2>1, <2>2
  <2>3. CASE call'[q] = err /\ call[q].pc # "ok"
    BY <1>1, <1>2, <2>1, <2>3 DEF CommandInv
  <2> QED
    BY <1>3, <2>2, <2>3 DEF Over
<1> QED
  BY <1>1, <1>6, <1>7, <1>8, <1>9 DEF CommandLineInv

\* The lines of some databases that were counted.
LEMMA CountedLines ==
  ASSUME NEW counted \in SUBSET Databases
  PROVE  LET new == {<<d, "counted">> : d \in counted}
         IN  new \in SUBSET Line /\ Subjects(new) = counted
<1> DEFINE new == {<<d, "counted">> : d \in counted}
<1>1. \A d \in counted : <<d, "counted">> \in Line
  BY DEF Line
<1>2. new \in SUBSET Line
  BY <1>1
<1>3. \A d \in counted : <<d, "counted">> \in new /\ <<d, "counted">>[1] = d
  OBVIOUS
<1>4. \A line \in new : line[1] \in counted
  OBVIOUS
<1> HIDE DEF new
<1>5. Subjects(new) = counted
  BY <1>3, <1>4 DEF Subjects
<1> QED
  BY <1>2, <1>5 DEF new

\* CheckObjectCount: every database that was listed has a line or is still to do.
LEMMA CountsKeep ==
  ASSUME CommandLineInv, NEW p \in Procs, Quiet, FilesStay,
         ConnectTemplate(p) \/ SelectNames(p) \/ ConnectDatabase(p) \/ GetCountsForDb(p)
  PROVE  CommandLineInv'
<1>1. call[p].method = "CheckObjectCount" /\ call[p].pc \in {"begin", "names", "next", "count"}
  BY DEF ConnectTemplate, SelectNames, ConnectDatabase, GetCountsForDb, Handling
<1>2. call[p] \in Request /\ CallInv(call[p]) /\ ~Over(p) /\ dbs \subseteq Databases
  BY <1>1, HandlerServes DEF CommandLineInv, ChecksTypeOK
<1>3. call[p].lines \in SUBSET Line
  BY <1>2 DEF Request
<1>4. CASE ReplyError(p)
  BY <1>2, <1>4, HandlerFails
<1>5. CASE ConnectTemplate(p) /\ CallBecomes(p, [call[p] EXCEPT !.pc = "names"])
  <2> DEFINE k == [call[p] EXCEPT !.pc = "names"]
  <2>1. /\ k \in Request /\ k.pc = "names" /\ k.method = call[p].method /\ k.at = call[p].at
        /\ k.todo = call[p].todo /\ k.lines = call[p].lines /\ k.told = call[p].told
    BY <1>2 DEF Request
  <2>2. CallBecomes(p, k) /\ call[p].pc = "begin"
    BY <1>5 DEF ConnectTemplate, Handling
  <2> HIDE DEF k
  <2>3. CountsInv(k) /\ DiskInv(k) /\ k.todo = {} /\ k.lines = {} /\ k.told = {}
    BY <1>1, <1>2, <2>1, <2>2 DEF CountsInv, DiskInv, CallInv
  <2> QED
    BY <1>1, <2>1, <2>2, <2>3, HandlerGoesOn
<1>6. CASE SelectNames(p) /\ CallBecomes(p, [call[p] EXCEPT !.pc = "next", !.todo = dbs, !.told = dbs])
  <2> DEFINE k == [call[p] EXCEPT !.pc = "next", !.todo = dbs, !.told = dbs]
  <2>1. /\ k \in Request /\ k.pc = "next" /\ k.method = call[p].method /\ k.at = call[p].at
        /\ k.todo = dbs /\ k.lines = call[p].lines /\ k.told = dbs
    BY <1>2 DEF Request
  <2>2. CallBecomes(p, k) /\ call[p].lines = {}
    BY <1>2, <1>6 DEF SelectNames, Handling, CallInv
  <2> HIDE DEF k
  <2>3. CountsInv(k) /\ DiskInv(k)
    BY <1>1, <2>1, <2>2 DEF CountsInv, DiskInv, Subjects
  <2> QED
    BY <1>1, <2>1, <2>2, <2>3, HandlerGoesOn
<1>7. CASE ConnectDatabase(p) /\ call[p].todo = {} /\ ReplyOK(p, call[p].lines)
  <2>1. Subjects(call[p].lines) = call[p].told
    BY <1>1, <1>2, <1>7 DEF ConnectDatabase, Handling, CallInv, CountsInv
  <2> QED
    BY <1>1, <1>3, <1>7, <2>1, HandlerReplies
<1>8. ASSUME NEW d \in call[p].todo, ConnectDatabase(p), Connects({d}),
             CallBecomes(p, [call[p] EXCEPT !.pc = "count", !.cur = {d}])
      PROVE  CommandLineInv'
  <2>1. {d} \in SUBSET Databases
    BY <1>2, <1>8 DEF Connects
  <2> DEFINE k == [call[p] EXCEPT !.pc = "count", !.cur = {d}]
  <2>2. /\ k \in Request /\ k.pc = "count" /\ k.method = call[p].method /\ k.at = call[p].at
        /\ k.todo = call[p].todo /\ k.lines = call[p].lines /\ k.told = call[p].told /\ k.cur = {d}
    BY <1>2, <2>1 DEF Request
  <2>3. CallBecomes(p, k) /\ call[p].pc = "next"
    BY <1>8 DEF ConnectDatabase, Handling
  <2> HIDE DEF k
  <2>4. CountsInv(k) /\ DiskInv(k)
    BY <1>1, <1>2, <2>2, <2>3 DEF CountsInv, DiskInv, CallInv
  <2> QED
    BY <1>1, <2>2, <2>3, <2>4, HandlerGoesOn
<1>9. CASE GetCountsForDb(p)
  <2>1. call[p].pc = "count" /\ call[p].cur \in SUBSET Databases /\ call[p].cur \subseteq call[p].todo
    BY <1>1, <1>2, <1>9 DEF GetCountsForDb, Handling, CallInv, CountsInv, Request
  <2>2. PICK new \in SUBSET Line :
          new = {<<d, "counted">> : d \in call[p].cur} /\ Subjects(new) = call[p].cur
    BY <2>1, CountedLines
  <2>3. Subjects(call[p].lines \cup new) = Subjects(call[p].lines) \cup call[p].cur
    BY <2>2 DEF Subjects
  <2>4. PICK lines \in SUBSET Line : lines = call[p].lines \cup new
    BY <1>3
  <2>5. PICK todo \in SUBSET (Hosts \cup Databases) : todo = call[p].todo \ call[p].cur
    BY <1>2 DEF Request
  <2> DEFINE k == [call[p] EXCEPT !.pc = "next", !.todo = todo, !.cur = {}, !.lines = lines]
  <2>6. /\ k \in Request /\ k.pc = "next" /\ k.method = call[p].method /\ k.at = call[p].at
        /\ k.todo = todo /\ k.lines = lines /\ k.told = call[p].told
    BY <1>2, <2>4, <2>5 DEF Request
  <2>7. CallBecomes(p, k)
    BY <1>9, <2>2, <2>4, <2>5 DEF GetCountsForDb
  <2> HIDE DEF k
  <2>8. CountsInv(k) /\ DiskInv(k)
    BY <1>1, <1>2, <2>1, <2>3, <2>4, <2>5, <2>6 DEF CountsInv, DiskInv, CallInv
  <2> QED
    BY <1>1, <2>6, <2>7, <2>8, HandlerGoesOn
<1> QED
  BY <1>4, <1>5, <1>6, <1>7, <1>8, <1>9 DEF ConnectTemplate, SelectNames, ConnectDatabase

\* CheckDiskSpace: one host more has its line, and says OK only if it may.
LEMMA HostIsTold ==
  ASSUME CommandLineInv, NEW p \in Procs, Quiet, FilesStay, Handling(p, "CheckDiskSpace", "ask"),
         NEW h \in Hosts, h \in call[p].todo, NEW usages \in SUBSET Usages,
         NEW verdict \in {"OK", "WARNING", "Unknown"}, Told(p, h, usages, verdict),
         verdict = "OK" => \A u \in usages : u < diskUsageWarningLimit
  PROVE  CommandLineInv'
<1>1. call[p].method = "CheckDiskSpace" /\ call[p].pc = "ask"
  BY DEF Handling
<1>2. call[p] \in Request /\ CallInv(call[p])
  BY <1>1, HandlerServes
<1>3. /\ Subjects(call[p].lines) \cup call[p].todo \in {{}, Hosts}
      /\ \A line \in call[p].lines : line[1] \notin call[p].todo
      /\ \A told \in call[p].told : told[1] \notin call[p].todo
      /\ \A told \in call[p].told : <<told[1], "OK">> \in call[p].lines => told[2] < diskUsageWarningLimit
  BY <1>1, <1>2 DEF CallInv, DiskInv
<1>4. PICK todo \in SUBSET (Hosts \cup Databases) : todo = call[p].todo \ {h}
  BY <1>2 DEF Request
<1>5. PICK line \in Line : line = <<h, verdict>> /\ line[1] = h
  <2>1. <<h, verdict>> \in Line
    BY DEF Line
  <2>2. <<h, verdict>>[1] = h
    OBVIOUS
  <2> QED
    BY <2>1, <2>2
<1>6. PICK lines \in SUBSET Line : lines = call[p].lines \cup {line}
  BY <1>2 DEF Request
<1>7. PICK new \in SUBSET (Databases \cup (Hosts \X Usages)) : new = {<<h, u>> : u \in usages}
  <2>1. \A u \in usages : <<h, u>> \in Databases \cup (Hosts \X Usages)
    OBVIOUS
  <2> QED
    BY <2>1
<1>8. \A t \in new : t[1] = h /\ (verdict = "OK" => t[2] < diskUsageWarningLimit)
  <2>1. ASSUME NEW t \in new
        PROVE  t[1] = h /\ (verdict = "OK" => t[2] < diskUsageWarningLimit)
    <3>1. PICK u \in usages : t = <<h, u>>
      BY <1>7
    <3>2. t[1] = h /\ t[2] = u
      BY <3>1
    <3> QED
      BY <3>2
  <2> QED
    BY <2>1
<1>9. PICK told \in SUBSET (Databases \cup (Hosts \X Usages)) : told = call[p].told \cup new
  BY <1>2 DEF Request
<1> DEFINE k == [call[p] EXCEPT !.todo = todo, !.lines = lines, !.told = told]
<1>10. CallBecomes(p, k)
  BY <1>4, <1>5, <1>6, <1>7, <1>9 DEF Told
<1>11. /\ k \in Request /\ k.pc = "ask" /\ k.method = call[p].method /\ k.at = call[p].at
       /\ k.todo = todo /\ k.lines = lines /\ k.told = told
  BY <1>1, <1>2, <1>4, <1>6, <1>9 DEF Request
<1> HIDE DEF k
<1>12. Subjects(lines) \cup todo = Subjects(call[p].lines) \cup call[p].todo
  <2>1. Subjects(lines) = Subjects(call[p].lines) \cup {h}
    BY <1>5, <1>6 DEF Subjects
  <2> QED
    BY <1>4, <2>1
<1>13. (\A l \in lines : l[1] \notin todo) /\ (\A t \in told : t[1] \notin todo)
  BY <1>3, <1>4, <1>5, <1>6, <1>8, <1>9
<1>14. ASSUME NEW t \in told, <<t[1], "OK">> \in lines
       PROVE  t[2] < diskUsageWarningLimit
  <2>1. CASE t \in new
    <3>1. t[1] = h
      BY <1>8, <2>1
    <3>2. <<h, "OK">> \notin call[p].lines
      <4>1. <<h, "OK">>[1] = h
        OBVIOUS
      <4> QED
        BY <1>3, <4>1
    <3>3. <<h, "OK">> = <<h, verdict>>
      BY <1>5, <1>6, <1>14, <3>1, <3>2
    <3>4. verdict = "OK"
      BY <3>3
    <3> QED
      BY <1>8, <2>1, <3>4
  <2>2. CASE t \in call[p].told
    <3>1. t[1] # h
      BY <1>3, <2>2
    <3>2. <<t[1], "OK">> # <<h, verdict>>
      BY <3>1
    <3>3. <<t[1], "OK">> \in call[p].lines
      BY <1>5, <1>6, <1>14, <3>2
    <3> QED
      BY <1>3, <2>2, <3>3
  <2> QED
    BY <1>9, <2>1, <2>2
<1>15. CountsInv(k) /\ DiskInv(k)
  BY <1>1, <1>3, <1>11, <1>12, <1>13, <1>14 DEF CountsInv, DiskInv
<1> QED
  BY <1>1, <1>10, <1>11, <1>15, HandlerGoesOn

\* CheckDiskSpace.
LEMMA DiskKeeps ==
  ASSUME CommandLineInv, NEW p \in Procs, Quiet, FilesStay,
         \/ HostsToAsk(p) \/ ReplyDiskSpace(p)
         \/ \E h \in Hosts : CheckDiskSpaceOnAgents(p, h) \/ AgentFails(p, h)
  PROVE  CommandLineInv'
<1>1. call[p].method = "CheckDiskSpace" /\ call[p].pc \in {"begin", "ask"}
  BY DEF HostsToAsk, ReplyDiskSpace, CheckDiskSpaceOnAgents, AgentFails, Handling
<1>2. call[p] \in Request /\ CallInv(call[p]) /\ ~Over(p)
  BY <1>1, HandlerServes
<1>3. CASE HostsToAsk(p)
  <2>1. call[p].pc = "begin" /\ call[p].todo = {} /\ call[p].lines = {} /\ call[p].told = {}
    BY <1>2, <1>3 DEF HostsToAsk, Handling, CallInv
  <2>2. CASE ReplyError(p)
    BY <1>2, <2>2, HandlerFails
  <2>3. ASSUME NEW todo \in {{}, Hosts}, CallBecomes(p, [call[p] EXCEPT !.pc = "ask", !.todo = todo])
        PROVE  CommandLineInv'
    <3>1. todo \in SUBSET (Hosts \cup Databases)
      OBVIOUS
    <3> DEFINE k == [call[p] EXCEPT !.pc = "ask", !.todo = todo]
    <3>2. /\ k \in Request /\ k.pc = "ask" /\ k.method = call[p].method /\ k.at = call[p].at
          /\ k.todo = todo /\ k.lines = call[p].lines /\ k.told = call[p].told
      BY <1>2, <3>1 DEF Request
    <3>3. CallBecomes(p, k)
      BY <2>3
    <3> HIDE DEF k
    <3>4. CountsInv(k) /\ DiskInv(k)
      BY <1>1, <2>1, <3>2 DEF CountsInv, DiskInv, Subjects
    <3> QED
      BY <1>1, <3>2, <3>3, <3>4, HandlerGoesOn
  <2>4. CASE CallBecomes(p, [call[p] EXCEPT !.pc = "ask"])
    <3>1. [call[p] EXCEPT !.pc = "ask"] = [call[p] EXCEPT !.pc = "ask", !.todo = {}]
      BY <1>2, <2>1 DEF Request
    <3> QED
      BY <2>3, <2>4, <3>1
  <2> QED
    BY <1>3, <2>2, <2>3, <2>4 DEF HostsToAsk
<1>4. CASE ReplyDiskSpace(p)
  <2>1. call[p].pc = "ask" /\ call[p].todo = {} /\ ReplyOK(p, call[p].lines)
    BY <1>4 DEF ReplyDiskSpace, Handling
  <2>2. call[p].lines \in SUBSET Line
    BY <1>2 DEF Request
  <2> QED
    BY <1>1, <2>1, <2>2, HandlerReplies
<1>5. ASSUME NEW h \in Hosts, CheckDiskSpaceOnAgents(p, h)
      PROVE  CommandLineInv'
  <2>1. PICK usages \in SUBSET Usages : Told(p, h, usages, Verdict(usages))
    BY <1>5 DEF CheckDiskSpaceOnAgents
  <2>2. /\ Verdict(usages) \in {"OK", "WARNING"}
        /\ Verdict(usages) = "OK" => \A u \in usages : ~(u >= diskUsageWarningLimit)
    BY DEF Verdict
  <2>3. \A u \in usages : u \in 0..100
    BY ChecksAssumption
  <2>4. Verdict(usages) = "OK" => \A u \in usages : u < diskUsageWarningLimit
    BY <2>2, <2>3 DEF diskUsageWarningLimit
  <2>5. PICK verdict \in {"OK", "WARNING", "Unknown"} : verdict = Verdict(usages)
    BY <2>2
  <2> QED
    BY <1>5, <2>1, <2>4, <2>5, HostIsTold DEF CheckDiskSpaceOnAgents
<1>6. ASSUME NEW h \in Hosts, AgentFails(p, h)
      PROVE  CommandLineInv'
  BY <1>6, HostIsTold DEF AgentFails
<1> QED
  BY <1>3, <1>4, <1>5, <1>6

\* CheckConfig: the file is there when it is written.
LEMMA ConfigKeeps ==
  ASSUME CommandLineInv, NEW p \in Procs, Quiet, OpenConfig(p) \/ SaveConfig(p)
  PROVE  CommandLineInv'
<1>1. call[p].method = "CheckConfig" /\ call[p].pc \in {"begin", "save"}
  BY DEF OpenConfig, SaveConfig, Handling
<1>2. call[p] \in Request /\ CallInv(call[p]) /\ ~Over(p)
  BY <1>1, HandlerServes
<1>3. file \in File /\ stateDir \in BOOLEAN /\ (file # "none" => stateDir)
  BY DEF CommandLineInv, ChecksTypeOK
<1>4. CASE OpenConfig(p)
  <2>1. FilesStay
    <3>1. CASE file' = file /\ stateDir' \in {stateDir, TRUE}
      BY <1>3, <3>1 DEF FilesStay
    <3>2. CASE file' = (IF file = "none" THEN "empty" ELSE file) /\ stateDir' = TRUE
      BY <1>3, <3>2 DEF FilesStay, File
    <3> QED
      BY <1>4, <3>1, <3>2 DEF OpenConfig
  <2>2. CASE ReplyError(p)
    BY <1>2, <2>1, <2>2, HandlerFails
  <2>3. CASE CallBecomes(p, [call[p] EXCEPT !.pc = "save"])
               /\ file' = IF file = "none" THEN "empty" ELSE file
    <3> DEFINE k == [call[p] EXCEPT !.pc = "save"]
    <3>1. k \in Request /\ k.pc = "save" /\ k.method = call[p].method /\ k.at = call[p].at
      BY <1>2 DEF Request
    <3>2. CallBecomes(p, k) /\ file' # "none"
      BY <2>3
    <3> HIDE DEF k
    <3>3. CountsInv(k) /\ DiskInv(k)
      BY <1>1, <3>1 DEF CountsInv, DiskInv
    <3> QED
      BY <1>1, <2>1, <3>1, <3>2, <3>3, HandlerGoesOn
  <2> QED
    BY <1>4, <2>2, <2>3 DEF OpenConfig
<1>5. CASE SaveConfig(p)
  <2>1. file # "none" /\ stateDir' = stateDir
    BY <1>5 DEF SaveConfig, Handling, CommandLineInv, FileInv
  <2>2. FilesStay
    BY <1>3, <1>5, <2>1 DEF SaveConfig, FilesStay, File
  <2>3. CASE ReplyError(p)
    BY <1>2, <2>2, <2>3, HandlerFails
  <2>4. CASE ReplyOK(p, {})
    BY <1>1, <2>2, <2>4, HandlerReplies, LinesTyped
  <2> QED
    BY <1>5, <2>3, <2>4 DEF SaveConfig
<1> QED
  BY <1>4, <1>5

\* A step of a handler.
LEMMA HandleKeeps ==
  ASSUME CommandLineInv, NEW p \in Procs, Handle(p)
  PROVE  CommandLineInv'
<1>1. /\ handled' = handled \cup {q \in Procs : call[q].pc # "ok" /\ call'[q].pc = "ok"}
      /\ cmd' = cmd
  BY DEF Handle
<1>2. ASSUME OnlyReplies
      PROVE  Quiet /\ FilesStay
  BY <1>1, <1>2, FilesAlone DEF OnlyReplies, Quiet
<1>3. CASE Dispatch(p) /\ UNCHANGED <<worldVars, fileVars>>
  <2>1. Quiet /\ FilesStay
    BY <1>1, <1>3, FilesAlone DEF Dispatch, Quiet
  <2> QED
    BY <1>3, <2>1, DispatchKeeps
<1>4. CASE Ping(p)
  BY <1>2, <1>4, HandlerReplies, LinesTyped DEF Ping, Handling
<1>5. CASE CheckVersion(p)
  <2>1. call[p].pc = "begin" /\ call[p].method = "CheckVersion" /\ ~Over(p)
    BY <1>5 DEF CheckVersion, Handling, Over
  <2>2. CASE ReplyError(p)
    BY <1>2, <1>5, <2>1, <2>2, HandlerFails DEF CheckVersion
  <2>3. ASSUME NEW verdict \in {"OK", "Failed"}, ReplyOK(p, {<<"version", verdict>>})
        PROVE  CommandLineInv'
    <3>1. {<<"version", verdict>>} \in SUBSET Line
      BY LinesTyped
    <3> QED
      BY <1>2, <1>5, <2>1, <2>3, <3>1, HandlerReplies DEF CheckVersion
  <2> QED
    BY <1>5, <2>2, <2>3 DEF CheckVersion
<1>6. CASE ConnectTemplate(p) \/ SelectNames(p) \/ ConnectDatabase(p) \/ GetCountsForDb(p)
  BY <1>2, <1>6, CountsKeep DEF ConnectTemplate, SelectNames, ConnectDatabase, GetCountsForDb
<1>7. CASE CountsFail(p)
  <2>1. PICK h \in call[p].at : HubDies(h)
    BY <1>7 DEF CountsFail
  <2>2. h \in Hubs /\ faults' \in 0..MaxFaults /\ UNCHANGED <<worldVars, fileVars>>
    BY <1>7 DEF CountsFail, CommandLineInv, ChecksTypeOK, ServerTypeOK
  <2>3. [NoCall EXCEPT !.pc = "error"].pc = "error"
    BY EmptyCalls
  <2>4. \A q \in Procs : call'[q].pc = "ok" => call[q].pc = "ok"
    BY <2>1, <2>3 DEF HubDies
  <2>5. handled' = handled
    BY <1>1, <2>4
  <2> QED
    BY <1>1, <2>1, <2>2, <2>5, HubDeathKeeps
<1>8. CASE \/ HostsToAsk(p) \/ ReplyDiskSpace(p)
           \/ \E h \in Hosts : CheckDiskSpaceOnAgents(p, h) \/ AgentFails(p, h)
  BY <1>2, <1>8, DiskKeeps DEF HostsToAsk, ReplyDiskSpace, CheckDiskSpaceOnAgents, AgentFails
<1>9. CASE OpenConfig(p) \/ SaveConfig(p)
  BY <1>1, <1>9, ConfigKeeps DEF OpenConfig, SaveConfig, Quiet
<1>10. CASE HandleElsewhere(p)
  <2>1. call[p].pc = "begin" /\ call[p].method \notin {"CheckObjectCount", "CheckDiskSpace"} /\ ~Over(p)
    BY <1>10 DEF HandleElsewhere, Elsewhere, Over
  <2>2. Quiet
    BY <1>1, <1>10 DEF HandleElsewhere, Quiet
  <2>3. FilesStay
    BY <1>10 DEF HandleElsewhere, FilesStay, CommandLineInv, ChecksTypeOK
  <2>4. CASE ReplyError(p)
    BY <2>1, <2>2, <2>3, <2>4, HandlerFails
  <2>5. ASSUME NEW lines \in Lines(call[p].method), ReplyOK(p, lines)
        PROVE  CommandLineInv'
    <3>1. lines \in SUBSET Line
      BY LinesTyped
    <3> QED
      BY <2>1, <2>2, <2>3, <2>5, <3>1, HandlerReplies
  <2> QED
    BY <1>10, <2>4, <2>5 DEF HandleElsewhere
<1> QED
  BY <1>3, <1>4, <1>5, <1>6, <1>7, <1>8, <1>9, <1>10 DEF Handle, HandlerStep

---------------------------------------------------------------------------
(* The command lines.                                                      *)

\* A step of command line p, to c, that is not a call.
LEMMA CommandMoves ==
  ASSUME CommandLineInv, NEW p \in Procs, NEW c, CmdBecomes(p, c),
         CommandInv(c, call[p], p \in handled),
         hub' = hub \/ \E h \in Hubs : hub[h] = "none" /\ hub' = [hub EXCEPT ![h] = "boot"],
         UNCHANGED <<port, call, died, worldVars, handled>>, faults' \in 0..MaxFaults, FilesStay,
         c.name = "prepare.init" /\ c.pc \in {"open", "write", "exit0"} =>
           stateDir' /\ (p \in Makers \/ Makers = {}),
         c.pc = "write" => file' # "none",
         c.pc = "exit0" /\ c.name = "prepare.init" => file' \notin {"none", "empty"}
  PROVE  CommandLineInv'
<1>1. /\ call' = call /\ DOMAIN call = Procs /\ CallInv(call[p])
      /\ hub \in [Hubs -> {"none", "boot", "listening", "serving", "dead"}]
  BY DEF CommandLineInv, ChecksTypeOK, ServerTypeOK
<1>2. hub' \in [Hubs -> {"none", "boot", "listening", "serving", "dead"}]
  BY <1>1
<1>3. \A h \in Hubs : hub'[h] = hub[h] \/ (hub[h] = "none" /\ hub'[h] = "boot")
  BY <1>1
<1> QED
  BY <1>1, <1>2, <1>3, StepOfCommand

\* What is known of command line p, and of it at another point.
LEMMA CommandAt ==
  ASSUME CommandLineInv, NEW p \in Procs,
         NEW pc \in Ended \cup {"new", "call", "wait", "count", "kickoff", "ping", "pinging",
                                "mkdir", "open", "write"}
  PROVE  LET c == [cmd[p] EXCEPT !.pc = pc]
         IN  /\ cmd[p] \in Command /\ CallInv(call[p]) /\ CommandInv(cmd[p], call[p], p \in handled)
             /\ c \in Command /\ c.pc = pc /\ c.name = cmd[p].name /\ c.shown = cmd[p].shown
             /\ faults \in 0..MaxFaults
<1>1. /\ cmd[p] \in Command /\ CallInv(call[p]) /\ CommandInv(cmd[p], call[p], p \in handled)
      /\ faults \in 0..MaxFaults
  BY DEF CommandLineInv, CommandInv, ChecksTypeOK, ServerTypeOK
<1> QED
  BY <1>1 DEF Command

\* A command ends without success, or goes on in start-hub, and touches no file.
LEMMA CommandGoes ==
  ASSUME CommandLineInv, NEW p \in Procs, NEW pc \in {"exit1", "killed", "kickoff", "ping"},
         Goto(p, pc), pc \in {"kickoff", "ping"} => cmd[p].name = "prepare.start-hub",
         hub' = hub \/ \E h \in Hubs : hub[h] = "none" /\ hub' = [hub EXCEPT ![h] = "boot"],
         UNCHANGED <<port, call, died, worldVars, handled>>, faults' \in 0..MaxFaults, FilesStay
  PROVE  CommandLineInv'
<1> DEFINE c == [cmd[p] EXCEPT !.pc = pc]
<1>1. pc \in Ended \cup {"new", "call", "wait", "count", "kickoff", "ping", "pinging", "mkdir",
                         "open", "write"}
  BY DEF Ended
<1>2. /\ CommandInv(cmd[p], call[p], p \in handled)
      /\ c \in Command /\ c.pc = pc /\ c.name = cmd[p].name
  BY <1>1, CommandAt
<1>3. CmdBecomes(p, c)
  BY DEF Goto
<1> HIDE DEF c
<1>4. CommandInv(c, call[p], p \in handled)
  BY <1>2 DEF CommandInv
<1> QED
  BY <1>2, <1>3, <1>4, CommandMoves

\* The arguments are read.
LEMMA BeginKeeps ==
  ASSUME CommandLineInv, NEW p \in Procs, Begin(p)
  PROVE  CommandLineInv'
<1>1. PICK name \in Names : \E given \in {RequiredFlags(name), {}} :
        CmdBecomes(p, [cmd[p] EXCEPT !.name = name, !.pc =
            IF RequiredFlags(name) \subseteq given
            THEN CASE name = "version"           -> "exit0"
                   [] name = "prepare.start-hub" -> "count"
                   [] name = "prepare.init"      -> "mkdir"
                   [] OTHER                      -> "call"
            ELSE "exit1"])
  BY DEF Begin
<1>2. PICK pc : /\ pc = "exit1" \/ pc = (CASE name = "version"           -> "exit0"
                                           [] name = "prepare.start-hub" -> "count"
                                           [] name = "prepare.init"      -> "mkdir"
                                           [] OTHER                      -> "call")
                /\ CmdBecomes(p, [cmd[p] EXCEPT !.name = name, !.pc = pc])
  BY <1>1
<1>3. /\ pc \in {"exit0", "exit1", "count", "mkdir", "call"}
      /\ pc = "exit0" => name = "version"
      /\ pc = "count" => name = "prepare.start-hub"
      /\ pc = "mkdir" => name = "prepare.init"
      /\ pc = "call" => name \notin {"version", "prepare.start-hub", "prepare.init"}
  BY <1>2
<1>4. name \in AllNames /\ (pc = "call" => In(name, Requests))
  BY <1>3, CommandAssumption DEF AllNames, In
<1> DEFINE c == [cmd[p] EXCEPT !.name = name, !.pc = pc]
<1>5. cmd[p] \in Command /\ CallInv(call[p]) /\ CommandInv(cmd[p], call[p], p \in handled)
      /\ faults \in 0..MaxFaults
  BY DEF CommandLineInv, CommandInv, ChecksTypeOK, ServerTypeOK
<1>6. c \in Command /\ c.pc = pc /\ c.name = name
  BY <1>3, <1>4, <1>5 DEF Command, Ended
<1>7. CmdBecomes(p, c)
  BY <1>2
<1> HIDE DEF c
<1>8. ~In("version", StatusCommands)
  BY DEF In, StatusCommands
<1>9. CommandInv(c, call[p], p \in handled)
  BY <1>3, <1>4, <1>5, <1>6, <1>8 DEF CommandInv
<1>10. /\ UNCHANGED <<hub, port, call, died, worldVars, handled>> /\ faults' = faults /\ FilesStay
  BY FilesAlone DEF Begin, OnlyLocal, checkVars, serverVars
<1> QED
  BY <1>3, <1>5, <1>6, <1>7, <1>9, <1>10, CommandMoves

\* A call goes out, or fails at once.
LEMMA InvokeKeeps ==
  ASSUME CommandLineInv, NEW p \in Procs, NEW pc \in {"wait", "pinging"}, Goto(p, pc),
         NEW method \in Methods, Invoke(p, method) \/ ReplyError(p),
         pc = "wait" => In(cmd[p].name, Requests) /\ method = MethodOf(cmd[p].name),
         pc = "pinging" => cmd[p].name = "prepare.start-hub",
         UNCHANGED <<hub, port, died, faults, worldVars, fileVars, handled>>
  PROVE  CommandLineInv'
<1> DEFINE c == [cmd[p] EXCEPT !.pc = pc]
<1>1. pc \in Ended \cup {"new", "call", "wait", "count", "kickoff", "ping", "pinging", "mkdir",
                         "open", "write"}
  OBVIOUS
<1>2. /\ CommandInv(cmd[p], call[p], p \in handled)
      /\ c \in Command /\ c.pc = pc /\ c.name = cmd[p].name /\ faults \in 0..MaxFaults
  BY <1>1, CommandAt
<1>3. CmdBecomes(p, c)
  BY DEF Goto
<1> HIDE DEF c
<1>4. /\ hub \in [Hubs -> {"none", "boot", "listening", "serving", "dead"}] /\ port \subseteq Hubs
      /\ DOMAIN call = Procs
  BY DEF CommandLineInv, ChecksTypeOK, ServerTypeOK
<1>5. PICK k : /\ CallBecomes(p, k) /\ CallInv(k)
               /\ k.pc = "error" \/ (k.pc = "sent" /\ k.at = port /\ port # {} /\ k.method = method)
  <2> DEFINE err == [NoCall EXCEPT !.pc = "error"]
             sent == [NoCall EXCEPT !.pc = "sent", !.method = method, !.at = port]
  <2>1. CallInv(err) /\ err.pc = "error"
    BY EmptyCalls
  <2>2. /\ sent \in Request /\ sent.pc = "sent" /\ sent.at = port /\ sent.method = method
        /\ sent.todo = {} /\ sent.lines = {} /\ sent.told = {}
    BY <1>4 DEF NoCall, Request
  <2>3. CallBecomes(p, err) \/ (CallBecomes(p, sent) /\ port # {})
    BY DEF Invoke, ReplyError
  <2> HIDE DEF err, sent
  <2>4. CallInv(sent)
    BY <2>2 DEF CallInv, CountsInv, DiskInv
  <2> QED
    BY <2>1, <2>2, <2>3, <2>4
<1>6. call'[p] = k /\ DOMAIN call' = Procs /\ \A q \in Procs \ {p} : call'[q] = call[q]
  BY <1>4, <1>5 DEF CallBecomes
<1>7. CommandInv(c, k, p \in handled)
  BY <1>2, <1>5 DEF CommandInv
<1>8. FilesStay /\ hub' = hub /\ faults' = faults
  BY FilesAlone
<1> QED
  BY <1>2, <1>3, <1>4, <1>5, <1>6, <1>7, <1>8, StepOfCommand

\* The reply is there, and the commander makes an exit status of it.
LEMMA AnsweredKeeps ==
  ASSUME CommandLineInv, NEW p \in Procs, Answered(p)
  PROVE  CommandLineInv'
<1>1. /\ cmd[p] \in Command /\ CallInv(call[p]) /\ CommandInv(cmd[p], call[p], p \in handled)
      /\ faults \in 0..MaxFaults
  BY DEF CommandLineInv, CommandInv, ChecksTypeOK, ServerTypeOK
<1>2. /\ cmd[p].pc = "wait" /\ In(cmd[p].name, Requests) /\ call[p].pc \in {"ok", "error"}
      /\ call[p].pc = "ok" => p \in handled /\ call[p].method = MethodOf(cmd[p].name)
  BY <1>1 DEF Answered, Over, CommandInv
<1>3. call[p].lines \in SUBSET Line
  BY <1>1 DEF CallInv, Request
<1> DEFINE out == Commander(cmd[p].name, call[p])
<1>4. /\ out.exit \in {"exit0", "exit1"} /\ out.shown \in SUBSET Line
      /\ out.exit = "exit0" =>
           /\ cmd[p].name = "prepare.shutdown-clusters" \/ call[p].pc = "ok"
           /\ In(cmd[p].name, StatusCommands) => out.shown # {}
           /\ cmd[p].name \in {"check.object-count", "check.disk-space"} => out.shown = call[p].lines
  BY <1>2, <1>3, CommanderSays
<1>5. PICK exit, shown : exit = out.exit /\ shown = out.shown
  OBVIOUS
<1>6. CmdBecomes(p, [cmd[p] EXCEPT !.pc = exit, !.shown = shown])
  BY <1>5 DEF Answered
<1> HIDE DEF out
<1> DEFINE c == [cmd[p] EXCEPT !.pc = exit, !.shown = shown]
<1>7. c \in Command /\ c.pc = exit /\ c.shown = shown /\ c.name = cmd[p].name
  BY <1>1, <1>4, <1>5 DEF Command, Ended
<1>8. CmdBecomes(p, c)
  BY <1>6
<1> HIDE DEF c
<1>9. cmd[p].name # "prepare.init"
  BY <1>2 DEF In, Requests, PrepareCommands, StatusCommands, CheckCommands, UpgradeCommands
<1>10. CommandInv(c, call[p], p \in handled)
  BY <1>1, <1>2, <1>4, <1>5, <1>7 DEF CommandInv
<1>11. UNCHANGED <<hub, port, call, died, worldVars, handled>> /\ faults' = faults /\ FilesStay
  BY FilesAlone DEF Answered, OnlyLocal, checkVars, serverVars
<1> QED
  BY <1>1, <1>4, <1>5, <1>7, <1>8, <1>9, <1>10, <1>11, CommandMoves

\* start-hub: hubs are counted, one is started, and it is pinged until it answers.
LEMMA StartHubKeeps ==
  ASSUME CommandLineInv, NEW p \in Procs,
         CountHubs(p) \/ KickOff(p) \/ PingHub(p) \/ PingAnswered(p)
  PROVE  CommandLineInv'
<1>1. /\ cmd[p] \in Command /\ CallInv(call[p]) /\ CommandInv(cmd[p], call[p], p \in handled)
      /\ faults \in 0..MaxFaults
  BY DEF CommandLineInv, CommandInv, ChecksTypeOK, ServerTypeOK
<1>2. cmd[p].pc \in {"count", "kickoff", "ping", "pinging"} /\ cmd[p].name = "prepare.start-hub"
  BY <1>1 DEF CountHubs, KickOff, PingHub, PingAnswered, CommandInv
<1>3. ASSUME OnlyLocal
      PROVE  UNCHANGED <<hub, port, call, died, worldVars, handled>> /\ faults' = faults /\ FilesStay
  BY <1>3, FilesAlone DEF OnlyLocal, checkVars, serverVars
<1>4. CASE CountHubs(p)
  <2>1. Goto(p, "kickoff") \/ Goto(p, "exit1")
    BY <1>4 DEF CountHubs
  <2> QED
    BY <1>1, <1>2, <1>3, <1>4, <2>1, CommandGoes DEF CountHubs
<1>5. CASE KickOff(p)
  <2>1. /\ UNCHANGED <<port, call, died, worldVars, handled>> /\ faults' = faults /\ FilesStay
        /\ hub' = hub \/ \E h \in Hubs : hub[h] = "none" /\ hub' = [hub EXCEPT ![h] = "boot"]
        /\ Goto(p, "ping") \/ Goto(p, "exit1")
    BY <1>5, FilesAlone DEF KickOff
  <2> QED
    BY <1>1, <1>2, <2>1, CommandGoes
<1>6. CASE PingHub(p)
  <2>1. "Ping" \in Methods
    BY DEF Methods
  <2> QED
    BY <1>2, <1>6, <2>1, InvokeKeeps DEF PingHub
<1>7. CASE PingAnswered(p)
  <2>1. UNCHANGED <<hub, port, call, died, worldVars, handled>> /\ faults' = faults /\ FilesStay
    BY <1>3, <1>7 DEF PingAnswered
  <2>2. CASE call[p].pc = "ok" /\ Goto(p, "exit0")
    <3> DEFINE c == [cmd[p] EXCEPT !.pc = "exit0"]
    <3>1. c \in Command /\ c.pc = "exit0" /\ c.name = cmd[p].name
      BY <1>1, CommandAt DEF Ended
    <3>2. CmdBecomes(p, c)
      BY <2>2 DEF Goto
    <3> HIDE DEF c
    <3>3. ~In("prepare.start-hub", StatusCommands)
      BY DEF In, StatusCommands
    <3>4. CommandInv(c, call[p], p \in handled)
      BY <1>1, <1>2, <2>2, <3>1, <3>3 DEF CommandInv
    <3> QED
      BY <1>1, <1>2, <2>1, <3>1, <3>2, <3>4, CommandMoves
  <2>3. CASE /\ cmd[p].tries < Attempts
             /\ CmdBecomes(p, [cmd[p] EXCEPT !.pc = "ping", !.tries = @ + 1])
    <3>1. cmd[p].tries \in 0..Attempts
      BY <1>1 DEF Command
    <3>2. PICK n \in 0..Attempts : n = cmd[p].tries + 1
      BY <2>3, <3>1, CommandAssumption
    <3> DEFINE c == [cmd[p] EXCEPT !.pc = "ping", !.tries = n]
    <3>3. c \in Command /\ c.pc = "ping" /\ c.name = cmd[p].name
      BY <1>1 DEF Command
    <3>4. CmdBecomes(p, c)
      BY <2>3, <3>2
    <3> HIDE DEF c
    <3>5. CommandInv(c, call[p], p \in handled)
      BY <1>1, <1>2, <3>3 DEF CommandInv
    <3> QED
      BY <1>1, <2>1, <3>3, <3>4, <3>5, CommandMoves
  <2>4. CASE Goto(p, "exit1")
    BY <1>1, <2>1, <2>4, CommandGoes
  <2> QED
    BY <1>7, <2>2, <2>3, <2>4 DEF PingAnswered
<1> QED
  BY <1>4, <1>5, <1>6, <1>7

\* init: one command makes the state directory, opens the file and writes it.
LEMMA InitKeeps ==
  ASSUME CommandLineInv, NEW p \in Procs, MakeStateDir(p) \/ OpenFile(p) \/ WriteBare(p)
  PROVE  CommandLineInv'
<1>1. /\ cmd[p] \in Command /\ CallInv(call[p]) /\ CommandInv(cmd[p], call[p], p \in handled)
      /\ faults \in 0..MaxFaults
  BY DEF CommandLineInv, CommandInv, ChecksTypeOK, ServerTypeOK
<1>2. cmd[p].pc \in {"mkdir", "open", "write"} /\ cmd[p].name = "prepare.init"
  BY <1>1 DEF MakeStateDir, OpenFile, WriteBare, CommandInv
<1>3. /\ UNCHANGED <<hub, port, call, died, worldVars, handled>> /\ faults' = faults
  BY DEF MakeStateDir, OpenFile, WriteBare, serverVars
<1>4. /\ file \in File /\ stateDir \in BOOLEAN /\ (file # "none" => stateDir)
      /\ Makers # {} => stateDir
      /\ cmd[p].pc = "write" => file # "none"
  BY DEF CommandLineInv, ChecksTypeOK, FileInv
<1>5. cmd[p].pc \in {"open", "write"} => p \in Makers
  BY <1>2 DEF Makers
<1>6. CASE Goto(p, "exit1") /\ file' = file /\ stateDir' = stateDir
  <2>1. FilesStay
    BY <1>4, <1>6 DEF FilesStay
  <2> QED
    BY <1>1, <1>3, <1>6, <2>1, CommandGoes
<1>7. ASSUME NEW pc \in {"open", "write", "exit0"}, Goto(p, pc), FilesStay, stateDir',
             p \in Makers \/ Makers = {}, pc = "write" => file' # "none",
             pc = "exit0" => file' \notin {"none", "empty"}
      PROVE  CommandLineInv'
  <2> DEFINE c == [cmd[p] EXCEPT !.pc = pc]
  <2>1. pc \in Ended \cup {"new", "call", "wait", "count", "kickoff", "ping", "pinging", "mkdir",
                           "open", "write"}
    BY DEF Ended
  <2>2. c \in Command /\ c.pc = pc /\ c.name = cmd[p].name
    BY <2>1, CommandAt
  <2>3. CmdBecomes(p, c)
    BY <1>7 DEF Goto
  <2> HIDE DEF c
  <2>4. ~In("prepare.init", StatusCommands)
    BY DEF In, StatusCommands
  <2>5. CommandInv(c, call[p], p \in handled)
    BY <1>1, <1>2, <2>2, <2>4 DEF CommandInv
  <2> QED
    BY <1>1, <1>3, <1>7, <2>2, <2>3, <2>5, CommandMoves
<1>8. CASE MakeStateDir(p)
  <2>1. CASE ~stateDir /\ stateDir' = TRUE /\ Goto(p, "open")
    <3>1. FilesStay /\ Makers = {}
      BY <1>4, <1>8, <2>1 DEF FilesStay, MakeStateDir
    <3> QED
      BY <1>7, <2>1, <3>1
  <2> QED
    BY <1>6, <1>8, <2>1 DEF MakeStateDir
<1>9. CASE OpenFile(p)
  <2>1. p \in Makers /\ stateDir /\ stateDir' = stateDir
    BY <1>4, <1>5, <1>9 DEF OpenFile
  <2>2. CASE file' = (IF file = "none" THEN "empty" ELSE file) /\ Goto(p, "write")
    <3>1. FilesStay /\ file' # "none"
      BY <1>4, <2>1, <2>2 DEF FilesStay, File
    <3> QED
      BY <1>7, <2>1, <2>2, <3>1
  <2> QED
    BY <1>6, <1>9, <2>1, <2>2 DEF OpenFile
<1>10. CASE WriteBare(p)
  <2>1. p \in Makers /\ stateDir /\ stateDir' = stateDir
    BY <1>4, <1>5, <1>10 DEF WriteBare
  <2>2. CASE file' = (IF file \in {"empty", "bare"} THEN "bare" ELSE "mixed") /\ Goto(p, "exit0")
    <3>1. FilesStay /\ file' \notin {"none", "empty"}
      BY <1>4, <2>1, <2>2 DEF FilesStay, File
    <3> QED
      BY <1>7, <2>1, <2>2, <3>1
  <2> QED
    BY <1>6, <1>10, <2>1, <2>2 DEF WriteBare
<1> QED
  BY <1>8, <1>9, <1>10

\* A step of command line p.
LEMMA CommandKeeps ==
  ASSUME CommandLineInv, NEW p \in Procs, CommandStep(p) \/ Interrupt(p)
  PROVE  CommandLineInv'
<1>1. CASE Call(p)
  <2>1. In(cmd[p].name, Requests)
    BY <1>1 DEF Call, CommandLineInv, CommandInv
  <2>2. MethodOf(cmd[p].name) \in Methods
    BY <2>1, MethodsAreKnown
  <2> QED
    BY <1>1, <2>1, <2>2, InvokeKeeps DEF Call
<1>2. CASE Interrupt(p)
  <2>1. faults \in 0..MaxFaults /\ MaxFaults \in Nat
    BY ServerAssumption DEF CommandLineInv, ChecksTypeOK, ServerTypeOK
  <2>2. faults' \in 0..MaxFaults
    BY <1>2, <2>1 DEF Interrupt, Fault
  <2>3. UNCHANGED <<hub, port, call, died, worldVars, handled>> /\ Goto(p, "killed") /\ FilesStay
    BY <1>2, FilesAlone DEF Interrupt
  <2> QED
    BY <2>2, <2>3, CommandGoes
<1> QED
  BY <1>1, <1>2, AnsweredKeeps, StartHubKeeps, InitKeeps DEF CommandStep

---------------------------------------------------------------------------
(* The hubs and the world.                                                 *)

\* A hub comes to listen, or finds the port taken and dies, or serves.
LEMMA HubKeeps ==
  ASSUME CommandLineInv, NEW h \in Hubs, HubRuns(h)
  PROVE  CommandLineInv'
<1>1. /\ call' = call /\ cmd' = cmd /\ handled' = handled /\ died' = died /\ faults' = faults
      /\ stateDir' = stateDir /\ file' = file /\ dbUp' = dbUp /\ dbs' = dbs /\ agents' = agents
  BY DEF HubRuns, HubStep, Listen, Serve, worldVars, fileVars
<1>2. PICK state \in {"listening", "serving", "dead"} :
        /\ hub' = [hub EXCEPT ![h] = state]
        /\ \/ hub[h] = "boot" /\ state = "listening" /\ port = {} /\ port' = {h}
           \/ hub[h] = "boot" /\ state = "dead" /\ port' = port
           \/ hub[h] = "listening" /\ state = "serving" /\ port' = port
  BY DEF HubRuns, HubStep, Listen, Serve
<1>3. /\ hub \in [Hubs -> {"none", "boot", "listening", "serving", "dead"}]
      /\ port \subseteq Hubs /\ \A g, f \in port : g = f
      /\ \A g \in Hubs : hub[g] \in {"listening", "serving"} <=> g \in port
  BY DEF CommandLineInv, PortInv, ChecksTypeOK, ServerTypeOK
<1>4. /\ hub' \in [Hubs -> {"none", "boot", "listening", "serving", "dead"}]
      /\ \A g \in Hubs : hub'[g] = IF g = h THEN state ELSE hub[g]
  BY <1>2, <1>3
<1>5. /\ \A g \in Hubs : hub'[g] \in {"listening", "serving"} <=> g \in port'
      /\ port' \subseteq Hubs /\ \A g, f \in port' : g = f
  BY <1>2, <1>3, <1>4
<1>6. ServerTypeOK'
  BY <1>1, <1>4, <1>5 DEF CommandLineInv, ChecksTypeOK, ServerTypeOK
<1>7. ChecksTypeOK'
  BY <1>1, <1>6 DEF CommandLineInv, ChecksTypeOK
<1>8. ASSUME NEW q \in Procs, ~Over(q)'
      PROVE  /\ port' # {} /\ call'[q].at = port'
             /\ call'[q].pc # "sent" => \A g \in port' : hub'[g] = "serving"
  <2>1. ~Over(q) /\ call'[q] = call[q]
    BY <1>1, <1>8 DEF Over
  <2>2. port # {} /\ call[q].at = port /\ (call[q].pc # "sent" => \A g \in port : hub[g] = "serving")
    BY <2>1 DEF CommandLineInv, PortInv, Over
  <2>3. port' = port
    BY <1>2, <2>2
  <2>4. ASSUME NEW g \in port, hub[g] = "serving"
        PROVE  hub'[g] = "serving"
    BY <1>2, <1>3, <1>4, <2>4
  <2> QED
    BY <2>1, <2>2, <2>3, <2>4
<1>9. PortInv'
  BY <1>5, <1>8 DEF PortInv, Over
<1>10. FileInv'
  <2>1. Makers' = Makers /\ Exited("prepare.init")' = Exited("prepare.init")
    BY <1>1 DEF Makers, Exited
  <2> QED
    BY <1>1, <2>1 DEF CommandLineInv, FileInv
<1>11. \A q \in Procs : CallInv(call'[q]) /\ CommandInv(cmd'[q], call'[q], q \in handled')
  BY <1>1 DEF CommandLineInv
<1>12. handled' # {} /\ ~died' => \E g \in Hubs : hub'[g] = "serving"
  BY <1>1, <1>2, <1>4 DEF CommandLineInv
<1> QED
  BY <1>1, <1>7, <1>9, <1>10, <1>11, <1>12 DEF CommandLineInv

\* The databases and the agents come and go.
LEMMA WorldKeeps ==
  ASSUME CommandLineInv, World
  PROVE  CommandLineInv'
<1>1. /\ hub' = hub /\ port' = port /\ call' = call /\ died' = died /\ stateDir' = stateDir
      /\ file' = file /\ cmd' = cmd /\ handled' = handled
  BY DEF World, Outage, Recovery, serverVars, fileVars
<1>2. faults' \in 0..MaxFaults
  <2>1. faults \in 0..MaxFaults /\ MaxFaults \in Nat
    BY ServerAssumption DEF CommandLineInv, ChecksTypeOK, ServerTypeOK
  <2> QED
    BY <2>1 DEF World, Outage, Recovery, Fault, serverVars
<1>3. dbUp' \in BOOLEAN /\ dbs' \subseteq Databases /\ agents' \subseteq Hosts
  BY DEF World, Outage, Recovery, CommandLineInv, ChecksTypeOK
<1>4. ServerTypeOK'
  BY <1>1, <1>2 DEF CommandLineInv, ChecksTypeOK, ServerTypeOK
<1>5. ChecksTypeOK'
  BY <1>1, <1>3, <1>4 DEF CommandLineInv, ChecksTypeOK
<1>6. PortInv' /\ FileInv'
  BY <1>1 DEF CommandLineInv, PortInv, FileInv, Over, Makers, Exited
<1> QED
  BY <1>1, <1>5, <1>6 DEF CommandLineInv

---------------------------------------------------------------------------
(* The invariant.                                                          *)

\* The invariant holds at the start.
LEMMA CommandLineStart ==
  ASSUME Init
  PROVE  CommandLineInv
<1>1. PICK up \in SUBSET ByHand :
        /\ up = {} \/ \E h \in Hubs : up = {h}
        /\ hub = [h \in Hubs |-> IF h \in up THEN "serving" ELSE "none"] /\ port = up
  BY DEF Init, ChecksInit, ServerInit
<1>2. /\ call = [p \in Procs |-> NoCall] /\ died = FALSE /\ faults = 0
      /\ cmd = [p \in Procs |-> NewCommand] /\ handled = {}
      /\ dbUp = TRUE /\ dbs = Databases /\ agents = Hosts
  BY DEF Init, ChecksInit, ServerInit
<1>3. CallInv(NoCall) /\ NoCall.pc = "none" /\ NoCall.at = {}
  BY EmptyCalls DEF NoCall
<1>4. NewCommand \in Command /\ NewCommand.pc = "new"
  <2>1. "version" \in AllNames /\ 0 \in 0..Attempts
    BY CommandAssumption DEF AllNames
  <2>2. PICK tries \in 0..Attempts : tries = 0
    BY <2>1
  <2>3. NewCommand = [pc |-> "new", name |-> "version", tries |-> tries, shown |-> {}]
    BY <2>2 DEF NewCommand
  <2> QED
    BY <2>1, <2>3 DEF Command
<1>5. up \subseteq Hubs /\ faults \in 0..MaxFaults
  BY <1>1, <1>2, ServerAssumption
<1>6. ServerTypeOK
  BY <1>1, <1>2, <1>3, <1>5 DEF ServerTypeOK
<1>7. ChecksTypeOK
  BY <1>2, <1>6 DEF ChecksTypeOK, Init, ChecksInit, File
<1>8. \A p \in Procs : call[p] = NoCall /\ cmd[p] = NewCommand
  BY <1>2
<1>9. PortInv
  BY <1>1, <1>3, <1>5, <1>8 DEF PortInv, Over
<1>10. FileInv
  BY <1>3, <1>4, <1>8 DEF FileInv, Makers, Exited
<1>11. CommandInv(NewCommand, NoCall, FALSE)
  BY <1>3, <1>4 DEF CommandInv
<1>12. ASSUME NEW p \in Procs
       PROVE  CallInv(call[p]) /\ CommandInv(cmd[p], call[p], p \in handled)
  <2>1. (p \in handled) = FALSE
    BY <1>2
  <2> QED
    BY <1>3, <1>8, <1>11, <2>1
<1> QED
  BY <1>2, <1>7, <1>9, <1>10, <1>12 DEF CommandLineInv

\* Every step keeps the invariant.
LEMMA CommandLineStep ==
  ASSUME CommandLineInv, [Next]_vars
  PROVE  CommandLineInv'
<1>1. CASE UNCHANGED vars
  <2>1. /\ UNCHANGED <<hub, port, call, died, faults>> /\ UNCHANGED <<dbUp, dbs, agents>>
        /\ UNCHANGED <<stateDir, file, cmd, handled>>
    BY <1>1 DEF vars, checkVars, serverVars, worldVars, fileVars
  <2> QED
    BY <2>1 DEF CommandLineInv, ChecksTypeOK, ServerTypeOK, PortInv, FileInv, Over, Makers, Exited
<1>2. ASSUME NEW h \in Hubs, HubFails(h)
      PROVE  CommandLineInv'
  <2>1. faults \in 0..MaxFaults /\ MaxFaults \in Nat
    BY ServerAssumption DEF CommandLineInv, ChecksTypeOK, ServerTypeOK
  <2>2. faults' \in 0..MaxFaults
    BY <1>2, <2>1 DEF HubFails, HubIsKilled, Fault
  <2>3. HubDies(h) /\ UNCHANGED <<worldVars, fileVars, cmd, handled>>
    BY <1>2 DEF HubFails, HubIsKilled
  <2> QED
    BY <2>2, <2>3, HubDeathKeeps
<1> QED
  BY <1>1, <1>2, BeginKeeps, CommandKeeps, HandleKeeps, HubKeeps, WorldKeeps DEF Next, Quiescent

\* In every reachable state.
LEMMA CommandLineHolds == Spec => []CommandLineInv
BY CommandLineStart, CommandLineStep, PTL DEF Spec

---------------------------------------------------------------------------
\* Every process, call and command line is at a point the code has, the port has
\* one owner at most, and whoever waits for a reply waits for a hub that is alive.
THEOREM CommandTypeCorrect == Spec => []TypeOK
<1>1. ASSUME CommandLineInv
      PROVE  TypeOK
  <2>1. ASSUME NEW p \in Procs
        PROVE  /\ cmd[p].name \in AllNames /\ cmd[p].tries \in 0..Attempts
               /\ cmd[p].pc \in Ended \cup {"new", "call", "wait", "count", "kickoff", "ping",
                                            "pinging", "mkdir", "open", "write"}
               /\ (cmd[p].pc = "wait" => call[p].pc # "none")
    BY <1>1 DEF CommandLineInv, CommandInv, Command
  <2>2. ASSUME NEW p \in Procs, ~Over(p)
        PROVE  call[p].at \subseteq Alive
    BY <1>1, <2>2 DEF CommandLineInv, PortInv, ChecksTypeOK, ServerTypeOK, Alive
  <2> QED
    BY <1>1, <2>1, <2>2 DEF TypeOK, CommandLineInv
<1> QED
  BY <1>1, CommandLineHolds, PTL

\* A command other than shutdown-clusters exits with 0 only if the handler of its
\* request came to its end without an error, and a status that is shown is not
\* empty, whichever hubs die and whichever command lines run beside it.
THEOREM SuccessIsEarned == Spec => []ExitZeroIsEarned
<1>1. ASSUME CommandLineInv, NEW p \in Procs, cmd[p].pc = "exit0"
      PROVE  CASE cmd[p].name \in {"version", "prepare.init", "prepare.shutdown-clusters"} -> TRUE
               [] In(cmd[p].name, StatusCommands) -> p \in handled /\ cmd[p].shown # {}
               [] OTHER -> p \in handled
  <2>1. /\ cmd[p].name \in {"version", "prepare.init", "prepare.shutdown-clusters"} \/ p \in handled
        /\ In(cmd[p].name, StatusCommands) => cmd[p].shown # {}
    BY <1>1 DEF CommandLineInv, CommandInv
  <2>2. ASSUME cmd[p].name \in {"version", "prepare.init", "prepare.shutdown-clusters"}
        PROVE  ~In(cmd[p].name, StatusCommands)
    BY <2>2 DEF In, StatusCommands
  <2> QED
    BY <2>1, <2>2
<1>2. CommandLineInv => ExitZeroIsEarned
  BY <1>1 DEF ExitZeroIsEarned
<1> QED
  BY <1>2, CommandLineHolds, PTL

\* Whatever number of start-hub commands race, and whoever starts hubs by hand
\* meanwhile: as long as no hub has died, a start-hub that exits with 0 leaves
\* exactly one hub that serves.
THEOREM OneHubServes == Spec => []StartedHubServes
<1>1. ASSUME CommandLineInv, Exited("prepare.start-hub") # {}, ~died
      PROVE  Cardinality({h \in Hubs : hub[h] = "serving"}) = 1
  <2>1. PICK p \in Procs : cmd[p].name = "prepare.start-hub" /\ cmd[p].pc = "exit0"
    BY <1>1 DEF Exited
  <2>2. p \in handled
    BY <1>1, <2>1 DEF CommandLineInv, CommandInv
  <2>3. PICK h \in Hubs : hub[h] = "serving"
    BY <1>1, <2>2 DEF CommandLineInv
  <2>4. \A g \in Hubs : hub[g] = "serving" => g = h
    BY <1>1, <2>3 DEF CommandLineInv, PortInv, ChecksTypeOK, ServerTypeOK
  <2>5. {g \in Hubs : hub[g] = "serving"} = {h}
    BY <2>3, <2>4
  <2> QED
    BY <2>5, FS_Singleton
<1>2. CommandLineInv => StartedHubServes
  BY <1>1 DEF StartedHubServes
<1> QED
  BY <1>2, CommandLineHolds, PTL

\* Of any number of inits that run at the same time, beside handlers that make
\* the state directory too, one succeeds at most, and only with a file that is
\* not empty.
THEOREM OneInitSucceeds == Spec => []InitOnce
<1>1. ASSUME CommandLineInv
      PROVE  InitOnce
  <2>1. Exited("prepare.init") \subseteq Makers
    BY DEF Exited, Makers
  <2>2. \A p, q \in Exited("prepare.init") : p = q
    BY <1>1, <2>1 DEF CommandLineInv, FileInv
  <2>3. Exited("prepare.init") = {} \/ \E p : Exited("prepare.init") = {p}
    BY <2>2
  <2>4. Cardinality(Exited("prepare.init")) \in {0, 1}
    BY <2>3, FS_EmptySet, FS_Singleton
  <2>5. Exited("prepare.init") # {} => file \notin {"none", "empty"}
    <3>1. Exited("prepare.init") \subseteq Procs
      BY DEF Exited
    <3> QED
      BY <1>1, <3>1 DEF CommandLineInv, FileInv
  <2> QED
    BY <2>4, <2>5 DEF InitOnce
<1> QED
  BY <1>1, CommandLineHolds, PTL

\* A check that exits with 0 has counted every database that was listed, or has a
\* line for every host, and says OK of a host only if no file system its agent told
\* of was at the limit, for any number of databases, hosts and file systems.
THEOREM ChecksLeaveNothingOut == Spec => []ChecksAreComplete
<1>1. ASSUME CommandLineInv, NEW p \in Exited("check.object-count")
      PROVE  {line[1] : line \in cmd[p].shown} = call[p].told
  <2>1. p \in Procs /\ cmd[p].name = "check.object-count" /\ cmd[p].pc = "exit0"
    BY DEF Exited
  <2>2. /\ CallInv(call[p]) /\ call[p].pc = "ok" /\ call[p].method = "CheckObjectCount"
        /\ cmd[p].shown = call[p].lines
    BY <1>1, <2>1, ChecksCall DEF CommandLineInv, CommandInv
  <2> QED
    BY <2>2 DEF CallInv, CountsInv, Subjects
<1>2. ASSUME CommandLineInv, NEW p \in Exited("check.disk-space")
      PROVE  /\ {line[1] : line \in cmd[p].shown} \in {{}, Hosts}
             /\ \A told \in call[p].told :
                  <<told[1], "OK">> \in cmd[p].shown => told[2] < diskUsageWarningLimit
  <2>1. p \in Procs /\ cmd[p].name = "check.disk-space" /\ cmd[p].pc = "exit0"
    BY DEF Exited
  <2>2. /\ CallInv(call[p]) /\ call[p].pc = "ok" /\ call[p].method = "CheckDiskSpace"
        /\ cmd[p].shown = call[p].lines
    BY <1>2, <2>1, ChecksCall DEF CommandLineInv, CommandInv
  <2> QED
    BY <2>2 DEF CallInv, DiskInv, Subjects
<1>3. CommandLineInv => ChecksAreComplete
  BY <1>1, <1>2 DEF ChecksAreComplete
<1> QED
  BY <1>3, CommandLineHolds, PTL

=============================================================================
