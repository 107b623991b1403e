----------------------------- MODULE StepRunner -----------------------------
(***************************************************************************)
(* One checklist step of the upgrade as the hub runs it.  Six steps are    *)
(* run by the same protocol on a directory of their own, so one step,      *)
(* chosen in Init, is followed through a sequence of requests:             *)
(*   clear, rmdir, mkdir  ChecklistManager.ResetStateDir                   *)
(*   mark                 ChecklistManager.MarkInProgress                  *)
(*   work                 what the step is for                             *)
(*   unmark, create       ChecklistManager.MarkComplete or MarkFailed      *)
(* A runner is the goroutine (or the RPC handler) of one request; each pc  *)
(* is one system call, so that runners interleave where the code can be    *)
(* preempted and the hub can die between any two calls.                    *)
(***************************************************************************)
EXTENDS Naturals, Checklist

CONSTANTS
  Steps,           \* the checklist steps to follow
  Runners,         \* goroutines a request can run in
  Hosts,           \* the hosts of the cluster
  KnownHosts,      \* the hosts the hub's configuration reader returns
  ClientsAtStart,  \* the hosts the pinger knew when the hub started
  PingTries,       \* passes of PingPollAgents (10 in the code)
  Overlap,         \* may a request arrive while another one runs?
  MaxAttempts,     \* bound on requests
  MaxFaults,       \* bound on failing file system calls
  MaxCrashes       \* bound on hub restarts

LocalSteps == {"check-config", "validate-start-cluster", "reconfigure-ports"}
SshSteps == {"seginstall", "start-agents"}

ASSUME StepsAssumption == Steps \subseteq LocalSteps \cup SshSteps \cup {"share-oids"}
ASSUME HostsAssumption == KnownHosts \subseteq Hosts /\ ClientsAtStart \subseteq Hosts
ASSUME BoundsAssumption ==
  /\ PingTries \in Nat \ {0}
  /\ MaxAttempts \in Nat /\ MaxFaults \in Nat /\ MaxCrashes \in Nat
  /\ Overlap \in BOOLEAN

VARIABLES
  step,      \* the step that is followed
  dir,       \* its directory below the state directory
  run,       \* run[r]: the control state and the locals of runner r
  starting,  \* hosts whose agent was launched and does not listen yet
  up,        \* hosts whose agent answers
  clients,   \* the hosts the pinger has a client for
  outcome,   \* history: what really came of the latest attempt
  history,   \* history: every outcome so far
  attempts, faults, crashes

envVars == <<starting, up, clients>>
ghostVars == <<outcome, history>>
bounds == <<attempts, faults, crashes>>
vars == <<step, dir, run, envVars, ghostVars, bounds>>

PC == {"idle", "clear", "rmdir", "mkdir", "mark", "work", "unmark", "create"}

Run == [pc : PC, todo : SUBSET Hosts, anyFailed : BOOLEAN,
        reached : SUBSET Hosts, tries : Nat, verdict : {"completed", "failed"}]

Idle == [pc |-> "idle", todo |-> {}, anyFailed |-> FALSE,
         reached |-> {}, tries |-> 0, verdict |-> "failed"]

AllIdle == \A r \in Runners : run[r].pc = "idle"

\* The runner is in another state, and the others are where they were.
Becomes(r, state) == run' = [run EXCEPT ![r] = state]

Goto(r, pc) == Becomes(r, [run[r] EXCEPT !.pc = pc])

Init ==
  /\ step \in Steps
  /\ dir = Absent
  /\ run = [r \in Runners |-> Idle]
  /\ starting = {} /\ up = {} /\ clients = ClientsAtStart
  /\ outcome = "none" /\ history = {}
  /\ attempts = 0 /\ faults = 0 /\ crashes = 0

---------------------------------------------------------------------------
(* The RPC handlers.                                                       *)

Begin(r) ==
  /\ run[r].pc = "idle" /\ (Overlap \/ AllIdle)
  /\ attempts < MaxAttempts
  /\ Becomes(r, [Idle EXCEPT
       !.pc = "clear", !.todo = IF step \in LocalSteps THEN {} ELSE KnownHosts])
  /\ attempts' = attempts + 1
  /\ UNCHANGED <<step, dir, envVars, ghostVars, faults, crashes>>

CheckConfig(r) == step = "check-config" /\ Begin(r)

CheckSeginstall(r) == step = "seginstall" /\ KnownHosts # {} /\ Begin(r)

PrepareStartAgents(r) == step = "start-agents" /\ KnownHosts # {} /\ Begin(r)

UpgradeShareOids(r) == step = "share-oids" /\ Begin(r)

UpgradeValidateStartCluster(r) == step = "validate-start-cluster" /\ Begin(r)

UpgradeReconfigurePorts(r) == step = "reconfigure-ports" /\ Begin(r)

---------------------------------------------------------------------------
(* ResetStateDir and MarkInProgress.                                       *)

\* What the step makes of an error from one of them: most steps log it and go
\* on with the call after it, validate-start-cluster returns, remoteExec
\* returns true without having run anything.
AfterError(r, next) ==
  Becomes(r,
    IF step = "validate-start-cluster" THEN Idle
    ELSE IF step \in SshSteps
         THEN [run[r] EXCEPT !.pc = "work", !.todo = {}, !.anyFailed = TRUE]
         ELSE [run[r] EXCEPT !.pc = next])

\* A mutated RemoveAllFiles: the attempt starts on top of the old markers.
KeepOldFiles(r) ==
  /\ run[r].pc = "clear" /\ Goto(r, "mkdir")
  /\ outcome' = "none"
  /\ UNCHANGED <<step, dir, envVars, history, bounds>>

\* The latest attempt is what `outcome' is about from here on.
RemoveAllFiles(r) ==
  /\ run[r].pc = "clear" /\ Goto(r, "rmdir")
  /\ dir' = Unlinked(dir)
  /\ outcome' = "none"
  /\ UNCHANGED <<step, envVars, history, bounds>>

RemoveDir(r) ==
  /\ run[r].pc = "rmdir"
  /\ \/ CanRmdir(dir) /\ dir' = Absent /\ Goto(r, "mkdir")
     \/ ~CanRmdir(dir) /\ dir' = dir /\ AfterError(r, "mark")
  /\ UNCHANGED <<step, envVars, ghostVars, bounds>>

MakeDir(r) ==
  /\ run[r].pc = "mkdir" /\ Goto(r, "mark")
  /\ dir' = MkdirAll(dir)
  /\ UNCHANGED <<step, envVars, ghostVars, bounds>>

MarkInProgress(r) ==
  /\ run[r].pc = "mark"
  /\ \/ CanOpen(dir) /\ dir' = Opened(dir, "in.progress") /\ Goto(r, "work")
     \/ ~CanOpen(dir) /\ dir' = dir /\ AfterError(r, "work")
  /\ UNCHANGED <<step, envVars, ghostVars, bounds>>

---------------------------------------------------------------------------
(* The work of a step.                                                     *)

\* The code's verdict goes to the marker, the truth to the history.
Decide(r, ok, truth) ==
  /\ Becomes(r, [run[r] EXCEPT
       !.pc = "unmark", !.verdict = IF ok THEN "completed" ELSE "failed"])
  /\ outcome' = IF truth THEN "ok" ELSE "bad"
  /\ history' = history \cup {IF truth THEN "ok" ELSE "bad"}

\* Steps whose work is one command or query on the hub's own host.
RunCommand(r) ==
  /\ run[r].pc = "work"
  /\ \E ok \in BOOLEAN : Decide(r, ok, ok)
  /\ UNCHANGED <<step, dir, envVars, bounds>>

SaveOldClusterConfig(r) == step = "check-config" /\ RunCommand(r)

StartNewCluster(r) == step = "validate-start-cluster" /\ RunCommand(r)

\* A mutated SedAndMv: the handler returns the error before MarkFailed.
SedReturnsEarly(r) ==
  /\ step = "reconfigure-ports" /\ run[r].pc = "work"
  /\ \/ Decide(r, TRUE, TRUE)
     \/ Becomes(r, Idle) /\ outcome' = "bad" /\ history' = history \cup {"bad"}
  /\ UNCHANGED <<step, dir, envVars, bounds>>

SedAndMv(r) == step = "reconfigure-ports" /\ RunCommand(r)

\* remoteExec: one ssh after the other; a failing host does not stop the loop.
\* An agent that was launched still has to start listening.
RemoteExec(r) ==
  /\ run[r].pc = "work" /\ step \in SshSteps
  /\ \E h \in run[r].todo :
       \/ /\ Becomes(r, [run[r] EXCEPT
               !.todo = @ \ {h}, !.reached = @ \cup {h}])
          /\ starting' = IF step = "start-agents" THEN starting \cup ({h} \ up)
                                                  ELSE starting
       \/ /\ Becomes(r, [run[r] EXCEPT
               !.todo = @ \ {h}, !.anyFailed = TRUE])
          /\ starting' = starting
  /\ UNCHANGED <<step, dir, up, clients, ghostVars, bounds>>

\* A mutated VerifySoftware: the result of the ssh loop is dropped.
IgnoreAnyFailed(r) ==
  /\ run[r].pc = "work" /\ step = "seginstall" /\ run[r].todo = {}
  /\ Decide(r, TRUE, run[r].reached = Hosts)
  /\ UNCHANGED <<step, dir, envVars, bounds>>

VerifySoftware(r) ==
  /\ run[r].pc = "work" /\ step = "seginstall" /\ run[r].todo = {}
  /\ Decide(r, ~run[r].anyFailed, run[r].reached = Hosts)
  /\ UNCHANGED <<step, dir, envVars, bounds>>

\* A mutated PingPollAgents: it polls until all the agents answer.
PingForever(r) ==
  /\ run[r].pc = "work" /\ step = "start-agents" /\ run[r].todo = {}
  /\ \/ clients \subseteq up /\ Decide(r, TRUE, Hosts \subseteq up)
     \/ ~(clients \subseteq up) /\ UNCHANGED <<run, ghostVars>>
  /\ UNCHANGED <<step, dir, envVars, bounds>>

\* start-agents drops the result of the ssh loop and asks the agents instead,
\* PingTries times; a pass over no clients succeeds.
PingPollAgents(r) ==
  /\ run[r].pc = "work" /\ step = "start-agents" /\ run[r].todo = {}
  /\ \/ clients \subseteq up /\ Decide(r, TRUE, Hosts \subseteq up)
     \/ /\ ~(clients \subseteq up) /\ run[r].tries + 1 < PingTries
        /\ Becomes(r, [run[r] EXCEPT !.tries = @ + 1])
        /\ UNCHANGED ghostVars
     \/ /\ ~(clients \subseteq up) /\ run[r].tries + 1 = PingTries
        /\ Decide(r, FALSE, Hosts \subseteq up)
  /\ UNCHANGED <<step, dir, envVars, bounds>>

\* A host that cannot be reached is marked failed at once, and the loop goes on.
RsyncOids(r) ==
  /\ run[r].pc = "work" /\ step = "share-oids"
  /\ \E h \in run[r].todo :
       \/ /\ Becomes(r, [run[r] EXCEPT
               !.todo = @ \ {h}, !.reached = @ \cup {h}])
          /\ UNCHANGED ghostVars
       \/ /\ Becomes(r, [run[r] EXCEPT
               !.pc = "unmark", !.todo = @ \ {h}, !.anyFailed = TRUE, !.verdict = "failed"])
          /\ outcome' = "bad" /\ history' = history \cup {"bad"}
  /\ UNCHANGED <<step, dir, envVars, bounds>>

ShareOidsDone(r) ==
  /\ run[r].pc = "work" /\ step = "share-oids" /\ run[r].todo = {}
  /\ \/ ~run[r].anyFailed /\ Decide(r, TRUE, run[r].reached = Hosts)
     \/ run[r].anyFailed /\ Becomes(r, Idle) /\ UNCHANGED ghostVars
  /\ UNCHANGED <<step, dir, envVars, bounds>>

---------------------------------------------------------------------------
(* MarkComplete and MarkFailed: the file of the verdict replaces            *)
(* in.progress; the caller logs an error at most and is done.               *)

AfterMark(r) ==
  Becomes(r,
    IF step = "share-oids" /\ run[r].verdict = "failed" THEN [run[r] EXCEPT !.pc = "work"] ELSE Idle)

RemoveInProgress(r) ==
  /\ run[r].pc = "unmark"
  /\ \/ CanUnmark(dir) /\ dir' = Unmarked(dir) /\ Goto(r, "create")
     \/ ~CanUnmark(dir) /\ dir' = dir /\ AfterMark(r)
  /\ UNCHANGED <<step, envVars, ghostVars, bounds>>

\* A mutated CreateVerdict: the name of the marker is misspelled.
MisspelledMarker(r) ==
  /\ run[r].pc = "create" /\ AfterMark(r)
  /\ \/ CanOpen(dir) /\ dir' = Opened(dir, IF run[r].verdict = "failed" THEN "failed" ELSE "complete")
     \/ ~CanOpen(dir) /\ dir' = dir
  /\ UNCHANGED <<step, envVars, ghostVars, bounds>>

\* A mutated CreateVerdict: the file is opened without O_CREATE, and the error
\* is only logged.
OpenWithoutCreate(r) ==
  /\ run[r].pc = "create" /\ AfterMark(r) /\ dir' = dir
  /\ UNCHANGED <<step, envVars, ghostVars, bounds>>

CreateVerdict(r) ==
  /\ run[r].pc = "create" /\ AfterMark(r)
  /\ \/ CanOpen(dir) /\ dir' = Opened(dir, run[r].verdict)
     \/ ~CanOpen(dir) /\ dir' = dir
  /\ UNCHANGED <<step, envVars, ghostVars, bounds>>

---------------------------------------------------------------------------
(* What the environment does.                                              *)

\* A file system call fails.  A RemoveAll that fails may have removed some.
IOError(r) ==
  /\ faults < MaxFaults /\ faults' = faults + 1
  /\ \/ /\ run[r].pc = "clear" /\ AfterError(r, "mark") /\ outcome' = "none"
        /\ \E left \in SUBSET dir.files : dir' = [dir EXCEPT !.files = left]
     \/ /\ run[r].pc \in {"rmdir", "mkdir"} /\ AfterError(r, "mark")
        /\ UNCHANGED <<dir, outcome>>
     \/ /\ run[r].pc = "mark" /\ AfterError(r, "work")
        /\ UNCHANGED <<dir, outcome>>
     \/ /\ run[r].pc \in {"unmark", "create"} /\ AfterMark(r)
        /\ UNCHANGED <<dir, outcome>>
  /\ UNCHANGED <<step, envVars, history, attempts, crashes>>

AgentListens(h) ==
  /\ h \in starting
  /\ starting' = starting \ {h} /\ up' = up \cup {h}
  /\ UNCHANGED <<step, dir, run, clients, ghostVars, bounds>>

\* The hub dies with its goroutines and is started again, when the pinger
\* reads the configuration anew.  The agents live on.
HubRestart ==
  /\ crashes < MaxCrashes /\ crashes' = crashes + 1
  /\ run' = [r \in Runners |-> Idle]
  /\ clients' = KnownHosts
  /\ UNCHANGED <<step, dir, starting, up, ghostVars, attempts, faults>>

\* Nothing is asked any more: the only way to rest.
Quiescent == AllIdle /\ attempts = MaxAttempts /\ UNCHANGED vars

---------------------------------------------------------------------------
Request(r) ==
  \/ CheckConfig(r) \/ CheckSeginstall(r) \/ PrepareStartAgents(r)
  \/ UpgradeShareOids(r) \/ UpgradeValidateStartCluster(r)
  \/ UpgradeReconfigurePorts(r)

Work(r) ==
  \/ SaveOldClusterConfig(r) \/ StartNewCluster(r) \/ SedAndMv(r)
  \/ RemoteExec(r) \/ VerifySoftware(r) \/ PingPollAgents(r)
  \/ RsyncOids(r) \/ ShareOidsDone(r)

\* The steps a runner takes by itself once it is running.
RunnerStep(r) ==
  \/ RemoveAllFiles(r) \/ RemoveDir(r) \/ MakeDir(r) \/ MarkInProgress(r)
  \/ Work(r) \/ RemoveInProgress(r) \/ CreateVerdict(r)

Next ==
  \/ \E r \in Runners : Request(r) \/ RunnerStep(r) \/ IOError(r)
  \/ \E h \in Hosts : AgentListens(h)
  \/ HubRestart
  \/ Quiescent

Spec == Init /\ [][Next]_vars

\* A goroutine that can run is scheduled, and ssh, rsync, gpstart and the
\* database answer in the end; nobody promises another request.
Fairness == \A r \in Runners : WF_vars(RunnerStep(r))

FairSpec == Spec /\ Fairness

---------------------------------------------------------------------------
TypeOK ==
  /\ step \in Steps
  /\ dir \in StepDir
  /\ run \in [Runners -> Run]
  /\ starting \subseteq Hosts /\ up \subseteq Hosts /\ clients \subseteq Hosts
  /\ outcome \in {"none", "ok", "bad"} /\ history \subseteq {"ok", "bad"}
  /\ attempts \in 0..MaxAttempts /\ faults \in 0..MaxFaults /\ crashes \in 0..MaxCrashes

Shown == GetStatus(dir)

\* The directory of a step never holds two markers, so that `status upgrade'
\* can always be answered (StateCheck.GetStatus returns an error and a nil
\* status otherwise).  Holds while one request runs at a time.
OneMarker == Shown # "error"

\* COMPLETE and FAILED are shown only if that is what came of the latest
\* attempt to have started writing, whatever the hub died in the middle of.
ReportIsTrue ==
  /\ Shown = "COMPLETE" => outcome = "ok"
  /\ Shown = "FAILED" => outcome = "bad"

\* Unless the hub has died or a file system call has failed, RUNNING is shown only
\* while the step really runs: no path through a step leaves in.progress behind.
\* (The handlers drop or log the errors of the marker calls; if one fails,
\* in.progress may stay.)
RunningIsTrue == crashes = 0 /\ faults = 0 /\ Shown = "RUNNING" => ~AllIdle

\* Under the same condition the result of the last attempt is there to be read when
\* nothing runs.  share-oids marks the step failed once for every host that fails;
\* the second time the call itself fails, because in.progress is gone, and must not
\* take the result with it.
ResultKept ==
  crashes = 0 /\ faults = 0 /\ AllIdle /\ attempts > 0 =>
    Shown = (IF outcome = "ok" THEN "COMPLETE" ELSE "FAILED")

\* However requests overlap, calls fail and the hub dies, a completed marker
\* means that some attempt succeeded on every host, and a failed one that some
\* attempt did not.
MarkersEarned ==
  /\ "completed" \in dir.files => "ok" \in history
  /\ "failed" \in dir.files => "bad" \in history

\* A result that is shown stays until a new attempt removes it.
OnlyResetErases ==
  [][(Shown \in {"COMPLETE", "FAILED"} /\ Shown' # Shown)
       => (\E r \in Runners : run[r].pc = "clear")]_vars

\* A request that was accepted ends, with a result that can be read, unless the
\* hub dies; it does so again on a directory that a dead hub has left.
Settles == \A n \in 0..MaxCrashes :
  (~AllIdle /\ crashes = n)
    ~> (crashes > n \/ (AllIdle /\ Shown \in {"COMPLETE", "FAILED"}))

\* Every goroutine ends, whatever the others and the file system do.
EveryRequestEnds == \A r \in Runners : (run[r].pc # "idle") ~> (run[r].pc = "idle")

---------------------------------------------------------------------------
(* Inductive invariants for the proofs, where every host is known.         *)

\* A runner about to write a marker has an outcome to show for it.
Promise(r) ==
  run[r].pc \in {"unmark", "create"} =>
    /\ run[r].verdict = "completed" => "ok" \in history
    /\ run[r].verdict = "failed" => "bad" \in history

\* The loop over the hosts accounts for each: it is still to be done, it was
\* reached, or anyFailed says that one is neither.
Accounts(r) ==
  step \notin LocalSteps /\ run[r].pc # "idle" =>
    /\ run[r].reached \cap run[r].todo = {}
    /\ run[r].anyFailed <=> (run[r].reached \cup run[r].todo # Hosts)
    /\ run[r].pc \in {"clear", "rmdir", "mkdir", "mark"} => run[r].reached = {}
    /\ step \in SshSteps => Hosts # {}

EarnedInv ==
  /\ TypeOK /\ MarkersEarned /\ clients = Hosts
  /\ \A r \in Runners : Promise(r) /\ Accounts(r)

\* While requests do not overlap and no call fails: what is in the directory,
\* and whether the truth is out, at each point of a runner.  A share-oids loop
\* that has marked its failure goes on without a marker of its own.
OutcomeOf(verdict) == IF verdict = "completed" THEN "ok" ELSE "bad"

FailureMarked(r) ==
  /\ step = "share-oids" /\ run[r].anyFailed
  /\ dir.files = {"failed"} /\ outcome = "bad"

InOrder(r) ==
  /\ run[r].pc \in {"clear", "rmdir", "mkdir", "mark"} => ~run[r].anyFailed
  /\ run[r].pc \in {"rmdir", "mkdir"} => dir.files = {} /\ outcome = "none"
  /\ run[r].pc = "mark" => dir.exists /\ dir.files = {} /\ outcome = "none"
  /\ run[r].pc = "work" => dir.exists /\
       \/ /\ dir.files = {"in.progress"} /\ outcome = "none"
          /\ step = "share-oids" => ~run[r].anyFailed
       \/ FailureMarked(r)
  /\ run[r].pc = "unmark" => dir.exists /\
       \/ dir.files = {"in.progress"} /\ outcome = OutcomeOf(run[r].verdict)
       \/ FailureMarked(r) /\ run[r].verdict = "failed"
  /\ run[r].pc = "create" =>
       dir.exists /\ dir.files = {} /\ outcome = OutcomeOf(run[r].verdict)
  /\ run[r].pc \in {"unmark", "create"} /\ step = "share-oids" /\ run[r].verdict = "failed"
       => run[r].anyFailed

\* The directory by itself.
DirInOrder ==
  /\ ~dir.exists => dir.files = {}
  /\ dir.files \in {{}, {"in.progress"}, {"failed"}, {"completed"}}
  /\ "completed" \in dir.files => outcome = "ok"
  /\ "failed" \in dir.files => outcome = "bad"

RestInOrder ==
  crashes = 0 /\ AllIdle =>
    \/ attempts = 0 /\ dir.files = {}
    \/ attempts > 0 /\ dir.files = {"completed"} /\ outcome = "ok"
    \/ attempts > 0 /\ dir.files = {"failed"} /\ outcome = "bad"

AttemptCounted == \A r \in Runners : run[r].pc # "idle" => attempts > 0

SequentialInv ==
  /\ EarnedInv /\ DirInOrder /\ RestInOrder /\ AttemptCounted
  /\ \A r, q \in Runners : run[r].pc # "idle" /\ run[q].pc # "idle" => r = q
  /\ \A r \in Runners : InOrder(r)

\* How far the attempt has come, for a reader of the status.
Phase ==
  IF AllIdle THEN "idle"
  ELSE IF \E r \in Runners : run[r].pc = "clear" THEN "begun" ELSE "cleared"

Lifecycle == INSTANCE StepLifecycle WITH shown <- Shown, truth <- outcome, phase <- Phase

\* While requests do not overlap and the file system works, a step does what
\* StepLifecycle promises about its status, through any number of restarts.
ImplementsLifecycle == Lifecycle!Spec

---------------------------------------------------------------------------
(* What the repository says of a step, and what the code does not do.      *)

\* "check that all the agents are running": a start-agents step that is shown as
\* complete has an agent on every host.
AgentsChecked == step = "start-agents" /\ Shown = "COMPLETE" => Hosts \subseteq up

=============================================================================
