--------------------------- MODULE ConvertPrimaries ---------------------------
(***************************************************************************)
(* Converting the primaries, and asking how far that has come.             *)
(*   hub    UpgradeConvertPrimaries gets the connections, asks every agent *)
(*          in a goroutine of its own and waits for all of them;           *)
(*          StatusUpgrade (through StatusConversion) asks the agents one   *)
(*          after the other and folds their answers into one status.       *)
(*   agent  UpgradeConvertPrimarySegments looks for the OID files, then    *)
(*          makes a directory, copies the files and starts pg_upgrade for  *)
(*          each primary of the host; CheckConversionStatus looks for the  *)
(*          directory, the process and the files of one after the other.   *)
(* The connections come from AgentConns, whose steps are steps of this     *)
(* specification.                                                          *)
(***************************************************************************)
EXTENDS AgentConns, FiniteSets, Pgrep

CONSTANTS
  Converters,   \* the callers that convert; the others ask for the status
  Segments,     \* the primaries of the cluster
  HostOf,       \* HostOf[s]: the host of primary s
  MasterHost,   \* the host of the master, asked like the others
  OidFiles,     \* the OID files that share-oids copies to the hosts
  MaxConverts,  \* bound on requests to convert
  MaxProcs      \* bound on pg_upgrades at work in one directory; if it is 0 none
                \* gets beyond its start

ASSUME ConvertAssumption ==
  /\ Converters \subseteq Callers /\ MaxConverts \in Nat /\ MaxProcs \in Nat
  /\ HostOf \in [Segments -> Hosts] /\ MasterHost \in Hosts

VARIABLES
  job,         \* job[c]: what caller c does with its connections
  oids,        \* oids[h]: the OID files that host h has
  seg,         \* seg[s]: the pg_upgrade directory and processes of primary s
  allStarted,  \* history: has the last conversion asked every host, with success,
               \* and is no other under way?
  converts

convVars == <<job, oids, seg, allStarted, converts>>
vars == <<connVars, convVars>>

SegmentsOn(h) == {s \in Segments : HostOf[s] = h}

\* The goroutine of the hub that calls an agent, and the agent's handler: files
\* is the list of OID files it has found and left what is still to be copied of
\* it for cur, the primary it is at.
Handler == [pc : {"glob", "next", "cp", "ok", "err", "done"}, todo : SUBSET Segments,
            cur : SUBSET Segments, files : SUBSET OidFiles, left : SUBSET OidFiles]

NewHandler == [pc |-> "glob", todo |-> {}, cur |-> {}, files |-> {}, left |-> {}]

InFlight == {"glob", "next", "cp"}

\* The agent's handler of a status query: the primaries it has still to look at
\* and the one it is at.
Look == [pc : {"none", "next", "pgrep", "inprogress", "glob", "scan", "err"},
         todo : SUBSET Segments, cur : SUBSET Segments]

NoLook == [pc |-> "none", todo |-> {}, cur |-> {}]

AllShared == \A h \in Hosts : OidFiles \subseteq oids[h]

\* errs is the fill of the channel agentErrs; asked is the number of agents
\* that have answered a status query, look the call of the next one and seen
\* what they said.  For the properties: started holds the primaries whose
\* pg_upgrade the request started, hosts the hosts it had a connection to,
\* shared says that every host had all OID files when it came, and trusted that
\* a query began after a conversion that asked every host, with no other since,
\* when each pg_upgrade had deleted the files of an earlier one and none of an
\* earlier one was left.
NoJob == [handlers |-> <<>>, errs |-> 0, started |-> {}, reply |-> "none",
          asked |-> 0, look |-> NoLook, seen |-> {}, trusted |-> FALSE, hosts |-> {},
          shared |-> FALSE]

\* The directory of a primary: the OID files in it, whether it has a file
\* *.inprogress and a *.done file that says "Upgrade complete", and the number of
\* pg_upgrade processes that were started there, fresh until they have deleted
\* the files of an earlier one.
Directory == [dir : BOOLEAN, oids : SUBSET OidFiles, fresh : Nat, procs : Nat,
              inprogress : BOOLEAN, complete : BOOLEAN]

NoDirectory == [dir |-> FALSE, oids |-> {}, fresh |-> 0, procs |-> 0,
                inprogress |-> FALSE, complete |-> FALSE]

DirBecomes(s, state) == seg' = [seg EXCEPT ![s] = state]

JobBecomes(c, state) == job' = [job EXCEPT ![c] = state]

Init ==
  /\ ConnInit
  /\ job = [c \in Callers |-> NoJob]
  /\ oids = [h \in Hosts |-> {}]
  /\ seg = [s \in Segments |-> NoDirectory]
  /\ allStarted = FALSE /\ converts = 0

---------------------------------------------------------------------------
(* Both handlers begin with AgentConns and return its error.               *)

BeginConvert(c) ==
  /\ c \in Converters /\ converts < MaxConverts /\ converts' = converts + 1
  /\ CallAgentConns(c)
  /\ job' = [d \in Callers |-> IF d = c THEN [NoJob EXCEPT !.shared = AllShared]
                                 ELSE [job[d] EXCEPT !.trusted = FALSE]]
  /\ allStarted' = FALSE
  /\ UNCHANGED <<oids, seg>>

\* For the properties: every pg_upgrade in the directory has deleted the files
\* of an earlier one, and at most one of them is still to end.
Alone(s) ==
  seg[s].fresh = 0 /\ (seg[s].procs = 0 \/ (seg[s].procs = 1 /\ ~seg[s].complete))

BeginStatus(c) ==
  /\ c \notin Converters
  /\ CallAgentConns(c)
  /\ JobBecomes(c, [NoJob EXCEPT !.trusted = allStarted /\ \A s \in Segments : Alone(s)])
  /\ UNCHANGED <<oids, seg, allStarted, converts>>

GetConns(c) == ConnStep(c) /\ UNCHANGED convVars

HandlerEnds(c, reply) ==
  /\ call' = [call EXCEPT ![c] = NoCall]
  /\ JobBecomes(c, [job[c] EXCEPT !.reply = reply, !.handlers = <<>>,
       !.errs = 0, !.asked = 0, !.look = NoLook, !.seen = {}, !.shared = FALSE,
       !.hosts = Connected(call[c].conns)])
  /\ UNCHANGED <<agentConns, netVars, connGhosts, oids, seg, converts>>

\* UpgradeConvertPrimaries fails too when the data directories cannot be
\* paired.  StatusUpgrade drops the error and has no statuses then.
ConvertFails(c) ==
  /\ c \in Converters /\ call[c].pc \in {"got", "failed"} /\ job[c].handlers = <<>>
  /\ HandlerEnds(c, "error") /\ UNCHANGED allStarted

---------------------------------------------------------------------------
(* Hub.UpgradeConvertPrimaries.                                            *)

\* A mutated FanOut: the loop goes one step too far.
FanOutBeyond(c) ==
  /\ c \in Converters /\ call[c].pc = "got" /\ job[c].handlers = <<>>
  /\ JobBecomes(c, [job[c] EXCEPT
       !.handlers = [i \in 1..(Len(call[c].conns) + 1) |-> NewHandler]])
  /\ UNCHANGED <<connVars, oids, seg, allStarted, converts>>

FanOut(c) ==
  /\ c \in Converters /\ call[c].pc = "got" /\ job[c].handlers = <<>>
  /\ JobBecomes(c, [job[c] EXCEPT
       !.handlers = [i \in 1..Len(call[c].conns) |-> NewHandler]])
  /\ UNCHANGED <<connVars, oids, seg, allStarted, converts>>

\* The capacity of agentErrs; a goroutine that cannot send never ends.
Capacity(c) == Len(call[c].conns)

SetHandler(c, i, handler) ==
  JobBecomes(c, [job[c] EXCEPT !.handlers = [@ EXCEPT ![i] = handler]])

\* A mutated CollectAnswer: the channel holds one error less than there are
\* connections.
SmallChannel(c, i) ==
  LET hd == job[c].handlers[i] IN
  /\ \/ hd.pc = "ok" /\ SetHandler(c, i, [hd EXCEPT !.pc = "done"])
     \/ /\ hd.pc = "err" /\ job[c].errs < Capacity(c) - 1
        /\ JobBecomes(c, [job[c] EXCEPT !.errs = @ + 1,
             !.handlers = [@ EXCEPT ![i] = [hd EXCEPT !.pc = "done"]]])
  /\ UNCHANGED <<connVars, oids, seg, allStarted, converts>>

CollectAnswer(c, i) ==
  LET hd == job[c].handlers[i] IN
  /\ \/ hd.pc = "ok" /\ SetHandler(c, i, [hd EXCEPT !.pc = "done"])
     \/ /\ hd.pc = "err" /\ job[c].errs < Capacity(c)
        /\ JobBecomes(c, [job[c] EXCEPT !.errs = @ + 1,
             !.handlers = [@ EXCEPT ![i] = [hd EXCEPT !.pc = "done"]]])
  /\ UNCHANGED <<connVars, oids, seg, allStarted, converts>>

\* For the properties: the hub has a connection to every host, no goroutine has
\* reported an error, and no other conversion is under way.
AllAsked(c) ==
  /\ job[c].errs = 0 /\ Connected(call[c].conns) = Hosts
  /\ \A d \in Converters \ {c} : call[d].pc = "idle"

\* With no connections there is no goroutine to start.
FannedOut(c) == call[c].pc = "got" /\ Len(job[c].handlers) = Len(call[c].conns)

\* A mutated ReplyConvert: the handler does not wait for the goroutines.
ReplyWithoutWait(c) ==
  /\ c \in Converters /\ FannedOut(c)
  /\ HandlerEnds(c, IF job[c].errs = 0 THEN "ok" ELSE "error")
  /\ allStarted' = AllAsked(c)

\* wg.Wait, then the reply.
ReplyConvert(c) ==
  /\ c \in Converters /\ FannedOut(c)
  /\ \A i \in 1..Len(job[c].handlers) : job[c].handlers[i].pc = "done"
  /\ HandlerEnds(c, IF job[c].errs = 0 THEN "ok" ELSE "error")
  /\ allStarted' = AllAsked(c)

---------------------------------------------------------------------------
(* AgentServer.UpgradeConvertPrimarySegments, run for connection i of c.   *)

\* The request reaches the agent, if it serves, which looks for OID files; one
\* is enough, whether share-oids is through or not.
GlobOids(c, i) ==
  LET hd == job[c].handlers[i]
      h == call[c].conns[i]
  IN /\ hd.pc = "glob"
     /\ \/ /\ h \in listening /\ oids[h] # {}
           /\ SetHandler(c, i, [hd EXCEPT !.pc = "next", !.todo = SegmentsOn(h), !.files = oids[h]])
        \/ /\ h \notin listening \/ oids[h] = {}
           /\ SetHandler(c, i, [hd EXCEPT !.pc = "err"])
     /\ UNCHANGED <<connVars, oids, seg, allStarted, converts>>

\* A mutated NextSegment: the files are copied into a new directory only.
CopyOnlyOnce(c, i) ==
  LET hd == job[c].handlers[i] IN
  /\ hd.pc = "next"
  /\ \/ /\ hd.todo = {}
        /\ SetHandler(c, i, [hd EXCEPT !.pc = "ok"]) /\ seg' = seg
     \/ \E s \in hd.todo :
          /\ SetHandler(c, i, [hd EXCEPT !.pc = "cp", !.cur = {s}, !.todo = @ \ {s},
                                         !.left = IF seg[s].dir THEN {} ELSE hd.files])
          /\ DirBecomes(s, [seg[s] EXCEPT !.dir = TRUE])
  /\ UNCHANGED <<connVars, oids, allStarted, converts>>

\* The handler returns its answer when no segment is left; a directory that is
\* there will do.
NextSegment(c, i) ==
  LET hd == job[c].handlers[i] IN
  /\ hd.pc = "next"
  /\ \/ /\ hd.todo = {}
        /\ SetHandler(c, i, [hd EXCEPT !.pc = "ok"]) /\ seg' = seg
     \/ \E s \in hd.todo :
          /\ SetHandler(c, i, [hd EXCEPT !.pc = "cp", !.cur = {s}, !.todo = @ \ {s},
                                         !.left = hd.files])
          /\ DirBecomes(s, [seg[s] EXCEPT !.dir = TRUE])
  /\ UNCHANGED <<connVars, oids, allStarted, converts>>

CopyOid(c, i) ==
  LET hd == job[c].handlers[i] IN
  /\ hd.pc = "cp"
  /\ \E f \in hd.left, s \in hd.cur :
       /\ SetHandler(c, i, [hd EXCEPT !.left = @ \ {f}])
       /\ DirBecomes(s, [seg[s] EXCEPT !.oids = @ \cup {f}])
  /\ UNCHANGED <<connVars, oids, allStarted, converts>>

\* The shell that runs pg_upgrade is left running; the files of an earlier one
\* are still there.
StartPgUpgrade(c, i) ==
  LET hd == job[c].handlers[i] IN
  /\ hd.pc = "cp" /\ hd.left = {}
  /\ \E s \in hd.cur :
       /\ JobBecomes(c, [job[c] EXCEPT !.started = @ \cup {s},
            !.handlers = [@ EXCEPT ![i] = [hd EXCEPT !.pc = "next", !.cur = {}]]])
       /\ DirBecomes(s, [seg[s] EXCEPT !.fresh = @ + 1])
  /\ UNCHANGED <<connVars, oids, allStarted, converts>>

\* mkdir, cp or the start of the process fails: the segments that are left
\* are not tried.
SegmentFails(c, i) ==
  LET hd == job[c].handlers[i] IN
  /\ (hd.pc = "next" /\ hd.todo # {}) \/ hd.pc = "cp"
  /\ SetHandler(c, i, [hd EXCEPT !.pc = "err"])
  /\ UNCHANGED <<connVars, oids, seg, allStarted, converts>>

AgentStep(c, i) ==
  \/ GlobOids(c, i) \/ NextSegment(c, i) \/ CopyOid(c, i)
  \/ StartPgUpgrade(c, i) \/ SegmentFails(c, i)

---------------------------------------------------------------------------
(* AgentServer.CheckConversionStatus and the status that is made of it.    *)

\* The agent's handler goes on to its next call.
LookBecomes(c, look) ==
  /\ JobBecomes(c, [job[c] EXCEPT !.look = look])
  /\ UNCHANGED <<connVars, oids, seg, allStarted, converts>>

\* The status of the primary at hand is known.
Told(c, status) ==
  /\ JobBecomes(c, [job[c] EXCEPT !.seen = @ \cup {status},
       !.look = [@ EXCEPT !.pc = "next", !.cur = {}]])
  /\ UNCHANGED <<connVars, oids, seg, allStarted, converts>>

\* The agent is asked about every segment of its host in the configuration; the
\* master's is looked for in a directory that nobody makes.
HasSegments(h) == SegmentsOn(h) # {} \/ h = MasterHost

NextAgent(c) == call[c].conns[job[c].asked + 1]

AskAgent(c) ==
  /\ c \notin Converters /\ call[c].pc = "got"
  /\ job[c].asked < Len(call[c].conns) /\ job[c].look.pc = "none"
  /\ NextAgent(c) \in listening /\ HasSegments(NextAgent(c))
  /\ JobBecomes(c, [job[c] EXCEPT
       !.look = [pc |-> "next", todo |-> SegmentsOn(NextAgent(c)), cur |-> {}],
       !.seen = @ \cup (IF NextAgent(c) = MasterHost THEN {"PENDING"} ELSE {})])
  /\ UNCHANGED <<connVars, oids, seg, allStarted, converts>>

\* GetStatus for one segment after the other begins with its directory.
StatSegment(c) ==
  LET look == job[c].look IN
  /\ look.pc = "next"
  /\ \E s \in look.todo :
       \/ /\ ~seg[s].dir
          /\ JobBecomes(c, [job[c] EXCEPT !.seen = @ \cup {"PENDING"},
               !.look = [look EXCEPT !.todo = @ \ {s}]])
          /\ UNCHANGED <<connVars, oids, seg, allStarted, converts>>
       \/ /\ seg[s].dir
          /\ LookBecomes(c, [pc |-> "pgrep", todo |-> look.todo \ {s}, cur |-> {s}])

ProcessesOn(h) ==
  IF \E s \in SegmentsOn(h) : seg[s].fresh + seg[s].procs > 0 THEN PgUpgradeNames ELSE {}

LookForProcess(c) ==
  LET running == PgUpgradeRunning(ProcessesOn(NextAgent(c))) IN
  /\ job[c].look.pc = "pgrep"
  /\ \/ running /\ Told(c, "RUNNING")
     \/ ~running /\ LookBecomes(c, [job[c].look EXCEPT !.pc = "inprogress"])

InProgressFilesExist(c) ==
  /\ job[c].look.pc = "inprogress"
  /\ \E s \in job[c].look.cur :
       \/ seg[s].inprogress /\ Told(c, "FAILED")
       \/ ~seg[s].inprogress /\ LookBecomes(c, [job[c].look EXCEPT !.pc = "glob"])

\* There may be *.done files of other stages.
GlobDone(c) ==
  /\ job[c].look.pc = "glob"
  /\ \E s \in job[c].look.cur :
       \/ ~seg[s].complete /\ Told(c, "FAILED")
       \/ LookBecomes(c, [job[c].look EXCEPT !.pc = "scan"])

\* The file that is opened is taken for the newest, which need not be the one
\* that says the upgrade is complete; MasterUpgrade has the reads one by one.
ScanLatest(c) ==
  /\ job[c].look.pc = "scan"
  /\ \E s \in job[c].look.cur :
       \/ seg[s].complete /\ Told(c, "COMPLETE")
       \/ Told(c, "FAILED")

AgentAnswers(c) ==
  /\ job[c].look.pc = "next" /\ job[c].look.todo = {}
  /\ JobBecomes(c, [job[c] EXCEPT !.asked = @ + 1, !.look = NoLook])
  /\ UNCHANGED <<connVars, oids, seg, allStarted, converts>>

CheckConversionStatus(c) ==
  \/ StatSegment(c) \/ LookForProcess(c) \/ InProgressFilesExist(c)
  \/ GlobDone(c) \/ ScanLatest(c) \/ AgentAnswers(c)

\* A mutated Overall: completion is looked for before anything else.
CompleteFirst(seen) ==
  IF "COMPLETE" \in seen THEN "COMPLETE"
  ELSE IF "FAILED" \in seen THEN "FAILED"
  ELSE IF "RUNNING" \in seen THEN "RUNNING"
  ELSE "PENDING"

\* StatusUpgrade searches the joined answers for one word after the other.
Overall(seen) ==
  IF "FAILED" \in seen THEN "FAILED"
  ELSE IF "RUNNING" \in seen THEN "RUNNING"
  ELSE IF "COMPLETE" \in seen THEN "COMPLETE"
  ELSE "PENDING"

AnswerStatus(c) ==
  /\ c \notin Converters /\ call[c].pc = "got"
  /\ job[c].asked = Len(call[c].conns)
  /\ HandlerEnds(c, Overall(job[c].seen)) /\ UNCHANGED allStarted

\* The first agent that does not answer, or has no segments to report on, ends
\* StatusConversion; its error is dropped by StatusUpgrade, which is left with
\* no statuses at all.
StatusConversionFails(c) ==
  /\ c \notin Converters
  /\ \/ call[c].pc = "failed"
     \/ /\ call[c].pc = "got" /\ job[c].asked < Len(call[c].conns)
        /\ \/ job[c].look.pc = "err"
           \/ /\ job[c].look.pc = "none"
              /\ NextAgent(c) \notin listening \/ ~HasSegments(NextAgent(c))
  /\ HandlerEnds(c, Overall({})) /\ UNCHANGED allStarted

---------------------------------------------------------------------------
(* The environment: pg_upgrade, share-oids and the agents.                 *)

DirStep(s, state) == DirBecomes(s, state) /\ UNCHANGED <<connVars, job, oids, allStarted, converts>>

DeleteOldFiles(s) ==
  /\ seg[s].fresh > 0 /\ seg[s].procs < MaxProcs
  /\ DirStep(s, [seg[s] EXCEPT !.fresh = @ - 1, !.procs = @ + 1,
                                !.inprogress = FALSE, !.complete = FALSE])

\* A stage of it begins or ends; a file of another one may be there too.
PgUpgradeWrites(s) ==
  /\ seg[s].procs > 0
  /\ \E inprogress \in BOOLEAN : DirStep(s, [seg[s] EXCEPT !.inprogress = inprogress])

PgUpgradeFinishes(s) ==
  /\ seg[s].procs > 0
  /\ \E inprogress \in BOOLEAN :
       /\ inprogress => seg[s].procs > 1
       /\ DirStep(s, [seg[s] EXCEPT !.procs = @ - 1, !.inprogress = inprogress, !.complete = TRUE])

\* It fails or is killed, and leaves its files.
PgUpgradeDies(s) ==
  \/ seg[s].fresh > 0 /\ DirStep(s, [seg[s] EXCEPT !.fresh = @ - 1])
  \/ seg[s].procs > 0 /\ DirStep(s, [seg[s] EXCEPT !.procs = @ - 1])

PgUpgrade(s) ==
  /\ MaxProcs > 0
  /\ DeleteOldFiles(s) \/ PgUpgradeWrites(s) \/ PgUpgradeFinishes(s) \/ PgUpgradeDies(s)

\* rsync gives a file its name when it has all of it.
OidFileArrives(h, f) ==
  /\ f \notin oids[h] /\ oids' = [oids EXCEPT ![h] = @ \cup {f}]
  /\ UNCHANGED <<connVars, job, seg, allStarted, converts>>

\* An agent that stops takes its handlers with it and the calls fail; the
\* pg_upgrade processes go on.
AgentStopsServing(h) ==
  /\ AgentStops(h)
  /\ job' = [c \in Callers |-> [job[c] EXCEPT
       !.handlers =
         [i \in 1..Len(job[c].handlers) |->
            IF call[c].conns[i] = h /\ job[c].handlers[i].pc \in InFlight
            THEN [job[c].handlers[i] EXCEPT !.pc = "err"] ELSE job[c].handlers[i]],
       !.look = IF job[c].look.pc # "none" /\ NextAgent(c) = h
                THEN [@ EXCEPT !.pc = "err"] ELSE @]]
  /\ UNCHANGED <<oids, seg, allStarted, converts>>

Network ==
  \/ \E h \in Hosts : AgentStopsServing(h)
  \/ /\ (\E h \in Hosts : AgentStarts(h) \/ LinkBreaks(h) \/ LinkMends(h)) \/ ConfigSaved
     /\ UNCHANGED convVars

\* Nobody asks: the only way to rest.
Quiescent == (\A c \in Callers : call[c].pc = "idle") /\ UNCHANGED vars

---------------------------------------------------------------------------
ConvertStep(c) ==
  \/ GetConns(c) \/ ConvertFails(c) \/ FanOut(c) \/ ReplyConvert(c)
  \/ \E i \in 1..Len(job[c].handlers) : CollectAnswer(c, i) \/ AgentStep(c, i)

StatusStep(c) ==
  \/ GetConns(c) \/ AskAgent(c) \/ CheckConversionStatus(c)
  \/ AnswerStatus(c) \/ StatusConversionFails(c)

Next ==
  \/ \E c \in Converters : BeginConvert(c) \/ ConvertStep(c)
  \/ \E c \in Callers \ Converters : BeginStatus(c) \/ StatusStep(c)
  \/ \E s \in Segments : PgUpgrade(s)
  \/ \E h \in Hosts, f \in OidFiles : OidFileArrives(h, f)
  \/ Network
  \/ Quiescent

Spec == Init /\ [][Next]_vars

\* Goroutines are scheduled and an agent's handler runs on; nothing is said
\* of how long pg_upgrade takes or of agents that are down.
FairSpec ==
  /\ Spec
  /\ \A c \in Converters : WF_vars(ConvertStep(c))
  /\ \A c \in Callers \ Converters : WF_vars(StatusStep(c))

---------------------------------------------------------------------------
Job == [handlers : Seq(Handler), errs : Nat, started : SUBSET Segments,
        reply : {"none", "ok", "error"} \cup {"PENDING", "RUNNING", "COMPLETE", "FAILED"},
        asked : Nat, look : Look, seen : SUBSET {"PENDING", "RUNNING", "COMPLETE", "FAILED"},
        trusted : BOOLEAN, hosts : SUBSET Hosts, shared : BOOLEAN]

TypeOK ==
  /\ ConnTypeOK
  /\ job \in [Callers -> Job]
  /\ \A c \in Callers : Len(job[c].handlers) \in {0, Len(call[c].conns)}
  /\ oids \in [Hosts -> SUBSET OidFiles]
  /\ seg \in [Segments -> Directory]
  /\ allStarted \in BOOLEAN /\ converts \in 0..MaxConverts

\* UpgradeConvertPrimaries replies without an error only if pg_upgrade was
\* started for every primary of every host it has a connection to, whichever
\* agents fail or stop meanwhile and in whatever order they answer.
OkMeansStarted == \A c \in Converters :
  job[c].reply = "ok" => {s \in Segments : HostOf[s] \in job[c].hosts} \subseteq job[c].started

\* pg_upgrade is started for a primary only with an OID file beside it, and by
\* a conversion that was asked for once share-oids had copied all files to all
\* hosts, with all of them, whatever an earlier conversion, one that failed or
\* one that came during share-oids, has left in the directory.
OidsInPlace == \A c \in Converters : \A s \in job[c].started :
  seg[s].oids # {} /\ (job[c].shared => OidFiles \subseteq seg[s].oids)

\* A query that began after a successful conversion of all hosts, with no other
\* since, when each pg_upgrade had deleted the files of an earlier one and no
\* earlier one was left, says COMPLETE only if every primary is converted,
\* although the segments are looked at one after the other and none of the looks
\* sees a pg_upgrade that still runs.
TrustedAnswer == \A c \in Callers \ Converters :
  job[c].trusted /\ job[c].hosts = Hosts /\ job[c].reply = "COMPLETE" =>
    \A s \in Segments : seg[s].procs = 0 /\ seg[s].complete

\* A request to convert is answered, whatever the agents do: no goroutine is
\* left waiting to report its error.
ConvertAnswered == \A c \in Converters : (call[c].pc = "enter") ~> (call[c].pc = "idle")

---------------------------------------------------------------------------
(* The inductive invariant for the proofs.  Its parts are about values that *)
(* are given, so that they can be asked of the state after a step.          *)

Made == {s \in Segments : seg[s].dir}

\* The goroutine hd for host h of a request j: each primary of the host is
\* started, under way or still to come, until the agent has answered, the OID
\* files are copied or still to be, and an error the agent has answered with is
\* counted once the goroutine is done.
HandlerInv(hd, h, j, dirs) ==
  /\ hd.pc \in {"next", "cp"} =>
       /\ hd.files # {} /\ (j.shared => OidFiles \subseteq hd.files)
       /\ hd.cur \subseteq SegmentsOn(h) /\ hd.todo \subseteq SegmentsOn(h)
       /\ SegmentsOn(h) \subseteq j.started \cup hd.todo \cup hd.cur
       /\ \A s \in hd.cur : dirs[s].dir /\ hd.files \ hd.left \subseteq dirs[s].oids
  /\ hd.pc \in {"glob", "next"} => hd.cur = {}
  /\ hd.pc = "cp" => \A s, t \in hd.cur : s = t
  /\ hd.pc = "ok" => SegmentsOn(h) \subseteq j.started
  /\ hd.pc = "done" => j.errs > 0 \/ SegmentsOn(h) \subseteq j.started

\* A request has goroutines, one for each connection, and answers only while it
\* holds its connections.
JobInv(c, j, k, files, dirs) ==
  /\ j.handlers # <<>> => c \in Converters /\ k.pc = "got" /\ Len(j.handlers) = Len(k.conns)
  /\ \A i \in 1..Len(j.handlers) : HandlerInv(j.handlers[i], k.conns[i], j, dirs)
  /\ k.pc # "got" => j.asked = 0 /\ j.look = NoLook
  /\ j.shared => \A h \in Hosts : OidFiles \subseteq files[h]
  /\ \A s \in j.started :
       dirs[s].dir /\ dirs[s].oids # {} /\ (j.shared => OidFiles \subseteq dirs[s].oids)
  /\ c \in Converters =>
       /\ ~j.trusted
       /\ j.reply = "ok" => {s \in Segments : HostOf[s] \in j.hosts} \subseteq j.started

\* No conversion is under way and each primary has had one.
Calm == (\A c \in Converters : call[c].pc = "idle") /\ Made = Segments

Converted(dir) == dir.procs = 0 /\ dir.complete

\* The primaries that a query has got a status of.
LookedAt(j, k) ==
  {s \in Segments :
     \/ \E i \in 1..j.asked : HostOf[s] = k.conns[i]
     \/ /\ j.look.pc \notin {"none", "err"} /\ HostOf[s] = k.conns[j.asked + 1]
        /\ s \notin j.look.todo \cup j.look.cur}

\* What a trusted query was told of a primary as good stays good.
ToldTrue(j, k, dirs) ==
  j.trusted =>
    /\ \A s \in LookedAt(j, k) :
         Converted(dirs[s]) \/ "FAILED" \in j.seen \/ "RUNNING" \in j.seen
    /\ j.look.pc = "next" => j.look.cur = {}
    /\ \A s, t \in j.look.cur : s = t
    /\ j.hosts = Hosts /\ j.reply = "COMPLETE" => \A s \in Segments : Converted(dirs[s])

TrustInv ==
  /\ allStarted => Calm
  /\ \A c \in Callers : job[c].trusted => Calm /\ \A s \in Segments : Alone(s)
  /\ \A c \in Callers \ Converters : ToldTrue(job[c], call[c], seg)

ConvInv ==
  /\ ConnInv /\ TypeOK /\ TrustInv
  /\ \A c \in Callers : JobInv(c, job[c], call[c], oids, seg)

=============================================================================
