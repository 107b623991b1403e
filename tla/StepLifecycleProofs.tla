------------------------ MODULE StepLifecycleProofs ------------------------
(***************************************************************************)
(* Proofs about a step whose requests do not overlap, on a file system     *)
(* that works, with any number of hosts, requests and hub restarts: what   *)
(* is shown is true, and StepRunner implements StepLifecycle.              *)
(***************************************************************************)
EXTENDS StepRunnerProofs

\* The runner that moves is the only one that runs.
LEMMA OrderByRunner ==
  ASSUME SequentialInv, EarnedInv', NEW r \in Runners, NEW x, Becomes(r, x),
         \A q \in Runners : q # r => run[q].pc = "idle",
         DirInOrder', InOrder(r)', x.pc = "idle" => RestInOrder', attempts' > 0
  PROVE  SequentialInv'
<1>0. run \in [Runners -> Run]  BY DEF SequentialInv, EarnedInv, TypeOK
<1>1. run'[r] = x /\ \A q \in Runners : q # r => run'[q].pc = "idle"
  BY <1>0, OthersStay
<1>2. \A p, q \in Runners : run'[p].pc # "idle" /\ run'[q].pc # "idle" => p = q
  BY <1>1
<1>3. \A q \in Runners : InOrder(q)'
  BY <1>1 DEF InOrder
<1>4. RestInOrder'
  BY <1>1 DEF RestInOrder, AllIdle
<1> QED  BY <1>2, <1>3, <1>4 DEF SequentialInv, AttemptCounted

\* A failing call is out of the question when none may fail.
LEMMA NoFault ==
  ASSUME MaxFaults = 0, TypeOK, NEW r \in Runners, IOError(r)
  PROVE  FALSE
  BY DEF TypeOK, IOError

\* The end of a mark puts things in order: the loop of share-oids goes on, or
\* the step rests with its marker in place.
LEMMA AfterMarkInOrder ==
  ASSUME SequentialInv, EarnedInv', NEW r \in Runners, AfterMark(r),
         run[r].pc \in {"unmark", "create"},
         step' = step, outcome' = outcome, attempts' = attempts,
         run[r].verdict = "failed" => outcome = "bad",
         run[r].verdict = "completed" => outcome = "ok",
         dir'.exists, dir'.files = {run[r].verdict}
  PROVE  SequentialInv'
<1>0. /\ TypeOK /\ run \in [Runners -> Run] /\ run[r] \in Run
      /\ run[r].verdict \in {"completed", "failed"}
  BY DEF SequentialInv, EarnedInv, TypeOK, Run
<1>1. \A q \in Runners : q # r => run[q].pc = "idle"
  BY DEF SequentialInv
<1>2. DirInOrder'  BY <1>0 DEF DirInOrder
<1>3. attempts > 0
  BY <1>0 DEF SequentialInv, AttemptCounted
<1>4. CASE step = "share-oids" /\ run[r].verdict = "failed"
  <2> DEFINE x == [run[r] EXCEPT !.pc = "work"]
  <2>1. Becomes(r, x)  BY <1>4 DEF AfterMark
  <2>2. run'[r] = x  BY <1>0, <2>1, OthersStay
  <2>3. x.pc = "work" /\ x.anyFailed = run[r].anyFailed  BY <1>0 DEF Run
  <2>4. run[r].anyFailed  BY <1>4 DEF SequentialInv, InOrder
  <2> HIDE DEF x
  <2>5. InOrder(r)'  BY <1>4, <2>2, <2>3, <2>4 DEF InOrder, FailureMarked
  <2> QED  BY <1>1, <1>2, <1>3, <2>1, <2>3, <2>5, OrderByRunner
<1>5. CASE ~(step = "share-oids" /\ run[r].verdict = "failed")
  <2>1. Becomes(r, Idle)  BY <1>5 DEF AfterMark
  <2>2. run'[r] = Idle  BY <1>0, <2>1, OthersStay
  <2>3. InOrder(r)'  BY <2>2 DEF InOrder, Idle
  <2>4. RestInOrder'  BY <1>0, <1>3 DEF RestInOrder
  <2> QED  BY <1>1, <1>2, <1>3, <2>1, <2>3, <2>4, OrderByRunner
<1> QED  BY <1>4, <1>5

\* Every step keeps the directory and the runner in order.
LEMMA OrderStep ==
  ASSUME KnownHosts = Hosts, ~Overlap, MaxFaults = 0, SequentialInv, [Next]_vars
  PROVE  SequentialInv'
<1>0. /\ EarnedInv /\ EarnedInv' /\ TypeOK /\ run \in [Runners -> Run]
      /\ dir \in StepDir /\ attempts \in Nat
  BY EarnedStep, BoundsAssumption DEF SequentialInv, EarnedInv, TypeOK
<1>1. ASSUME NEW r \in Runners, Request(r) PROVE SequentialInv'
  <2>1. Begin(r)
    BY <1>1 DEF Request, CheckConfig, CheckSeginstall, PrepareStartAgents,
      UpgradeShareOids, UpgradeValidateStartCluster, UpgradeReconfigurePorts
  <2>2. /\ \A q \in Runners : run[q].pc = "idle"
        /\ dir' = dir /\ outcome' = outcome /\ attempts' = attempts + 1
    BY <2>1 DEF Begin, AllIdle, ghostVars
  <2> DEFINE x == [Idle EXCEPT
        !.pc = "clear", !.todo = IF step \in LocalSteps THEN {} ELSE KnownHosts]
  <2>3. Becomes(r, x) /\ x.pc = "clear" /\ ~x.anyFailed  BY <2>1 DEF Begin, Idle
  <2>4. run'[r] = x  BY <1>0, <2>3, OthersStay
  <2> HIDE DEF x
  <2>5. InOrder(r)'  BY <2>3, <2>4 DEF InOrder
  <2>6. DirInOrder'  BY <2>2 DEF SequentialInv, DirInOrder
  <2> QED  BY <1>0, <2>2, <2>3, <2>5, <2>6, OrderByRunner
<1>2. ASSUME NEW r \in Runners, run[r].pc # "idle"
      PROVE  (\A q \in Runners : q # r => run[q].pc = "idle") /\ attempts > 0
  BY <1>2 DEF SequentialInv, AttemptCounted
<1>3. ASSUME NEW r \in Runners, NEW pc \in PC \ {"idle"}, Goto(r, pc), run[r].pc # "idle",
             attempts' = attempts, DirInOrder',
             [run[r] EXCEPT !.pc = pc] = run'[r] => InOrder(r)'
      PROVE  SequentialInv'
  <2> DEFINE x == [run[r] EXCEPT !.pc = pc]
  <2>1. Becomes(r, x) /\ x.pc = pc  BY <1>0, <1>3 DEF Goto, Run
  <2>2. run'[r] = x  BY <1>0, <2>1, OthersStay
  <2>3. InOrder(r)'  BY <1>3, <2>2
  <2> HIDE DEF x
  <2> QED  BY <1>0, <1>2, <1>3, <2>1, <2>3, OrderByRunner
<1>4. ASSUME NEW r \in Runners, RemoveAllFiles(r) PROVE SequentialInv'
  <2>0. ~run[r].anyFailed  BY <1>4 DEF RemoveAllFiles, SequentialInv, InOrder
  <2>1. dir'.files = {} /\ outcome' = "none" /\ attempts' = attempts
    BY <1>0, <1>4 DEF RemoveAllFiles, Unlinked, StepDir, bounds
  <2>2. DirInOrder'  BY <2>1 DEF DirInOrder
  <2>3. [run[r] EXCEPT !.pc = "rmdir"] = run'[r] => InOrder(r)'
    BY <1>0, <2>0, <2>1 DEF InOrder, Run
  <2> QED  BY <1>3, <1>4, <2>1, <2>2, <2>3 DEF RemoveAllFiles, PC
<1>5. ASSUME NEW r \in Runners, RemoveDir(r) PROVE SequentialInv'
  <2>1. dir.files = {} /\ outcome = "none" /\ run[r].pc = "rmdir" /\ ~run[r].anyFailed
    BY <1>5 DEF RemoveDir, SequentialInv, InOrder
  <2>2. /\ dir' = Absent /\ outcome' = outcome /\ attempts' = attempts
        /\ Goto(r, "mkdir")
    BY <1>5, <2>1 DEF RemoveDir, CanRmdir, ghostVars, bounds
  <2>3. DirInOrder'  BY <2>2 DEF DirInOrder, Absent
  <2>4. [run[r] EXCEPT !.pc = "mkdir"] = run'[r] => InOrder(r)'
    BY <1>0, <2>1, <2>2 DEF InOrder, Run, Absent
  <2> QED  BY <1>3, <2>1, <2>2, <2>3, <2>4 DEF PC
<1>6. ASSUME NEW r \in Runners, MakeDir(r) PROVE SequentialInv'
  <2>1. dir.files = {} /\ outcome = "none" /\ run[r].pc = "mkdir" /\ ~run[r].anyFailed
    BY <1>6 DEF MakeDir, SequentialInv, InOrder
  <2>2. /\ dir'.exists /\ dir'.files = {} /\ outcome' = outcome /\ attempts' = attempts
        /\ Goto(r, "mark")
    BY <1>0, <1>6, <2>1 DEF MakeDir, MkdirAll, StepDir, ghostVars, bounds
  <2>3. DirInOrder'  BY <2>2 DEF DirInOrder
  <2>4. [run[r] EXCEPT !.pc = "mark"] = run'[r] => InOrder(r)'
    BY <1>0, <2>1, <2>2 DEF InOrder, Run
  <2> QED  BY <1>3, <2>1, <2>2, <2>3, <2>4 DEF PC
<1>7. ASSUME NEW r \in Runners, MarkInProgress(r) PROVE SequentialInv'
  <2>1. /\ dir.exists /\ dir.files = {} /\ outcome = "none" /\ run[r].pc = "mark"
    BY <1>7 DEF MarkInProgress, SequentialInv, InOrder
  <2>2. /\ dir' = Opened(dir, "in.progress") /\ step' = step
        /\ outcome' = outcome /\ attempts' = attempts /\ Goto(r, "work")
    BY <1>7, <2>1 DEF MarkInProgress, CanOpen, ghostVars, bounds
  <2>3. dir'.exists /\ dir'.files = {"in.progress"}
    BY <1>0, <2>1, <2>2 DEF Opened, StepDir
  <2>4. DirInOrder'  BY <2>3 DEF DirInOrder
  <2>5. step = "share-oids" => ~run[r].anyFailed
    BY <2>1 DEF SequentialInv, InOrder
  <2>6. [run[r] EXCEPT !.pc = "work"] = run'[r] => InOrder(r)'
    BY <1>0, <2>1, <2>2, <2>3, <2>5 DEF InOrder, Run
  <2> QED  BY <1>3, <2>1, <2>2, <2>4, <2>6 DEF PC
<1>8. ASSUME NEW r \in Runners, Work(r) PROVE SequentialInv'
  <2>0. /\ run[r].pc = "work" /\ step' = step /\ dir' = dir /\ attempts' = attempts
        /\ run[r] \in Run /\ dir.exists /\ InOrder(r)
    BY <1>0, <1>8 DEF Work, SaveOldClusterConfig, StartNewCluster, SedAndMv, RunCommand,
      RemoteExec, VerifySoftware, PingPollAgents, RsyncOids, ShareOidsDone, bounds,
      SequentialInv, InOrder
  <2>1. ASSUME NEW x, Becomes(r, x), x.pc = "work", x.anyFailed = run[r].anyFailed \/ step # "share-oids",
               outcome' = outcome
        PROVE  SequentialInv'
    <3>1. run'[r] = x  BY <1>0, <2>1, OthersStay
    <3>2. DirInOrder'  BY <2>0, <2>1 DEF SequentialInv, DirInOrder
    <3>3. InOrder(r)'  BY <2>0, <2>1, <3>1 DEF InOrder, FailureMarked
    <3> QED  BY <1>0, <1>2, <2>0, <2>1, <3>2, <3>3, OrderByRunner
  <2>2. ASSUME NEW ok \in BOOLEAN, Decide(r, ok, ok),
               dir.files = {"in.progress"}, step = "share-oids" => ok
        PROVE  SequentialInv'
    <3> DEFINE x == [run[r] EXCEPT
          !.pc = "unmark", !.verdict = IF ok THEN "completed" ELSE "failed"]
    <3>1. Becomes(r, x)  BY <2>2 DEF Decide
    <3>2. run'[r] = x  BY <1>0, <3>1, OthersStay
    <3>3. x.pc = "unmark" /\ x.verdict = IF ok THEN "completed" ELSE "failed"
      BY <2>0 DEF Run
    <3> HIDE DEF x
    <3>4. outcome' = IF ok THEN "ok" ELSE "bad"  BY <2>2 DEF Decide
    <3>5. DirInOrder'  BY <2>0, <2>2 DEF DirInOrder
    <3>6. InOrder(r)'
      BY <2>0, <2>2, <3>2, <3>3, <3>4 DEF InOrder, OutcomeOf
    <3> QED  BY <1>0, <1>2, <2>0, <3>1, <3>3, <3>5, <3>6, OrderByRunner
  <2>3. step # "share-oids" => dir.files = {"in.progress"}
    BY <2>0 DEF InOrder, FailureMarked
  <2>4. CASE RunCommand(r) /\ step \in LocalSteps
    BY <2>2, <2>3, <2>4 DEF RunCommand, LocalSteps
  <2>5. CASE RemoteExec(r)
    <3>1. PICK h \in run[r].todo :
            \/ Becomes(r, [run[r] EXCEPT !.todo = @ \ {h}, !.reached = @ \cup {h}])
            \/ Becomes(r, [run[r] EXCEPT !.todo = @ \ {h}, !.anyFailed = TRUE])
      BY <2>5 DEF RemoteExec
    <3> DEFINE x == [run[r] EXCEPT !.todo = @ \ {h}, !.reached = @ \cup {h}]
               y == [run[r] EXCEPT !.todo = @ \ {h}, !.anyFailed = TRUE]
    <3>2. (Becomes(r, x) \/ Becomes(r, y)) /\ x.pc = "work" /\ y.pc = "work"
      BY <2>0, <3>1 DEF Run
    <3>3. step # "share-oids" /\ outcome' = outcome
      BY <2>5 DEF RemoteExec, SshSteps, ghostVars
    <3> HIDE DEF x, y
    <3> QED  BY <2>1, <3>2, <3>3
  <2>6. CASE VerifySoftware(r)
    <3>1. ~run[r].anyFailed <=> run[r].reached = Hosts
      BY <1>0, <2>6 DEF VerifySoftware, EarnedInv, Accounts, LocalSteps, Run
    <3>2. PICK ok \in BOOLEAN : Decide(r, ok, ok)
      BY <2>6, <3>1 DEF VerifySoftware, Decide
    <3> QED  BY <2>2, <2>3, <2>6, <3>2 DEF VerifySoftware
  <2>7. CASE PingPollAgents(r)
    <3>0. clients = Hosts /\ step # "share-oids"
      BY <1>0, <2>7 DEF EarnedInv, PingPollAgents
    <3>1. CASE \E ok \in BOOLEAN : Decide(r, ok, ok)
      BY <2>2, <2>3, <3>0, <3>1
    <3>2. CASE Becomes(r, [run[r] EXCEPT !.tries = @ + 1]) /\ UNCHANGED ghostVars
      <4> DEFINE x == [run[r] EXCEPT !.tries = @ + 1]
      <4>1. Becomes(r, x) /\ x.pc = "work"  BY <2>0, <3>2 DEF Run
      <4> HIDE DEF x
      <4> QED  BY <2>1, <3>0, <3>2, <4>1 DEF ghostVars
    <3> QED  BY <2>7, <3>0, <3>1, <3>2 DEF PingPollAgents, Decide
  <2>8. CASE RsyncOids(r)
    <3>1. PICK h \in run[r].todo :
            \/ Becomes(r, [run[r] EXCEPT !.todo = @ \ {h}, !.reached = @ \cup {h}])
               /\ UNCHANGED ghostVars
            \/ Becomes(r, [run[r] EXCEPT !.pc = "unmark", !.todo = @ \ {h},
                                         !.anyFailed = TRUE, !.verdict = "failed"])
               /\ outcome' = "bad"
      BY <2>8 DEF RsyncOids
    <3>2. CASE Becomes(r, [run[r] EXCEPT !.todo = @ \ {h}, !.reached = @ \cup {h}])
               /\ UNCHANGED ghostVars
      <4> DEFINE x == [run[r] EXCEPT !.todo = @ \ {h}, !.reached = @ \cup {h}]
      <4>1. Becomes(r, x) /\ x.pc = "work" /\ x.anyFailed = run[r].anyFailed
        BY <2>0, <3>2 DEF Run
      <4> HIDE DEF x
      <4> QED  BY <2>1, <3>2, <4>1 DEF ghostVars
    <3>3. CASE Becomes(r, [run[r] EXCEPT !.pc = "unmark", !.todo = @ \ {h},
                                         !.anyFailed = TRUE, !.verdict = "failed"])
               /\ outcome' = "bad"
      <4> DEFINE x == [run[r] EXCEPT !.pc = "unmark", !.todo = @ \ {h},
                                     !.anyFailed = TRUE, !.verdict = "failed"]
      <4>1. /\ Becomes(r, x) /\ x.pc = "unmark" /\ x.anyFailed = TRUE
            /\ x.verdict = "failed"
        BY <2>0, <3>3 DEF Run
      <4> HIDE DEF x
      <4>2. run'[r] = x  BY <1>0, <4>1, OthersStay
      <4>3. dir.files \in {{"in.progress"}, {"failed"}}
        BY <2>0 DEF InOrder, FailureMarked
      <4>4. DirInOrder'  BY <2>0, <3>3, <4>3 DEF DirInOrder
      <4>5. step = "share-oids"  BY <2>8 DEF RsyncOids
      <4>6. InOrder(r)'
        BY <2>0, <3>3, <4>1, <4>2, <4>3, <4>5 DEF InOrder, FailureMarked, OutcomeOf
      <4> QED  BY <1>0, <1>2, <2>0, <4>1, <4>4, <4>6, OrderByRunner
    <3> QED  BY <3>1, <3>2, <3>3
  <2>9. CASE ShareOidsDone(r)
    <3>0. step = "share-oids" /\ run[r].todo = {}  BY <2>9 DEF ShareOidsDone
    <3>1. CASE ~run[r].anyFailed /\ Decide(r, TRUE, run[r].reached = Hosts)
      <4>1. run[r].reached = Hosts
        BY <1>0, <2>0, <3>0, <3>1 DEF EarnedInv, Accounts, LocalSteps, Run
      <4>2. Decide(r, TRUE, TRUE)  BY <3>1, <4>1 DEF Decide
      <4>3. dir.files = {"in.progress"}  BY <2>0, <3>1 DEF InOrder, FailureMarked
      <4> QED  BY <2>2, <4>2, <4>3
    <3>2. CASE run[r].anyFailed /\ Becomes(r, Idle) /\ UNCHANGED ghostVars
      <4>1. run'[r] = Idle  BY <1>0, <3>2, OthersStay
      <4>2. dir.files = {"failed"} /\ outcome = "bad"
        BY <2>0, <3>0, <3>2 DEF InOrder, FailureMarked
      <4>3. InOrder(r)'  BY <4>1 DEF InOrder, Idle
      <4>4. DirInOrder'  BY <2>0, <3>2, <4>2 DEF DirInOrder, ghostVars
      <4>5. RestInOrder'
        BY <1>2, <2>0, <3>2, <4>2 DEF RestInOrder, ghostVars
      <4> QED  BY <1>0, <1>2, <2>0, <3>2, <4>3, <4>4, <4>5, OrderByRunner
    <3> QED  BY <2>9, <3>1, <3>2 DEF ShareOidsDone
  <2> QED  BY <1>8, <2>4, <2>5, <2>6, <2>7, <2>8, <2>9
    DEF Work, SaveOldClusterConfig, StartNewCluster, SedAndMv, LocalSteps
<1>9. ASSUME NEW r \in Runners, RemoveInProgress(r) PROVE SequentialInv'
  <2>0. /\ run[r].pc = "unmark" /\ step' = step /\ outcome' = outcome /\ attempts' = attempts
        /\ dir.exists /\ InOrder(r) /\ run[r] \in Run
    BY <1>0, <1>9 DEF RemoveInProgress, ghostVars, bounds, SequentialInv, InOrder
  <2>1. CASE CanUnmark(dir)
    <3>1. dir.files = {"in.progress"} /\ outcome = OutcomeOf(run[r].verdict)
      BY <2>0, <2>1 DEF CanUnmark, InOrder, FailureMarked
    <3>2. dir' = Unmarked(dir) /\ Goto(r, "create")
      BY <1>9, <2>1 DEF RemoveInProgress
    <3>3. dir'.exists /\ dir'.files = {}
      BY <1>0, <2>0, <3>1, <3>2 DEF Unmarked, StepDir
    <3>4. DirInOrder'  BY <3>3 DEF DirInOrder
    <3>5. [run[r] EXCEPT !.pc = "create"] = run'[r] => InOrder(r)'
      BY <2>0, <3>1, <3>3 DEF InOrder, Run, OutcomeOf
    <3> QED  BY <1>3, <2>0, <3>2, <3>4, <3>5 DEF PC
  <2>2. CASE ~CanUnmark(dir)
    <3>1. FailureMarked(r) /\ run[r].verdict = "failed"
      BY <2>0, <2>2 DEF CanUnmark, InOrder
    <3>2. dir' = dir /\ AfterMark(r)
      BY <1>9, <2>2 DEF RemoveInProgress
    <3> QED  BY <1>0, <2>0, <3>1, <3>2, AfterMarkInOrder DEF FailureMarked
  <2> QED  BY <2>1, <2>2
<1>10. ASSUME NEW r \in Runners, CreateVerdict(r) PROVE SequentialInv'
  <2>0. /\ run[r].pc = "create" /\ step' = step /\ outcome' = outcome /\ attempts' = attempts
        /\ dir.exists /\ dir.files = {} /\ outcome = OutcomeOf(run[r].verdict)
        /\ AfterMark(r)
    BY <1>0, <1>10 DEF CreateVerdict, ghostVars, bounds, SequentialInv, InOrder
  <2>1. dir'.exists /\ dir'.files = {run[r].verdict}
    BY <1>0, <1>10, <2>0 DEF CreateVerdict, CanOpen, Opened, StepDir
  <2> QED  BY <1>0, <2>0, <2>1, AfterMarkInOrder DEF OutcomeOf
<1>11. ASSUME NEW r \in Runners, IOError(r) PROVE SequentialInv'
  BY <1>0, <1>11, NoFault
<1>12. ASSUME NEW h \in Hosts, AgentListens(h) PROVE SequentialInv'
  <2>1. /\ step' = step /\ dir' = dir /\ run' = run /\ outcome' = outcome
        /\ attempts' = attempts /\ crashes' = crashes
    BY <1>12 DEF AgentListens, ghostVars, bounds
  <2> QED  BY <1>0, <2>1 DEF SequentialInv, DirInOrder, RestInOrder, AllIdle, AttemptCounted,
             InOrder, FailureMarked
<1>13. CASE HubRestart
  <2>1. /\ dir' = dir /\ outcome' = outcome /\ attempts' = attempts /\ crashes' # 0
        /\ \A r \in Runners : run'[r].pc = "idle"
    BY <1>0, <1>13 DEF HubRestart, ghostVars, Idle, TypeOK
  <2> QED  BY <1>0, <2>1 DEF SequentialInv, DirInOrder, RestInOrder, AttemptCounted, InOrder
<1>14. CASE UNCHANGED vars
  <2>1. /\ step' = step /\ dir' = dir /\ run' = run /\ outcome' = outcome
        /\ attempts' = attempts /\ crashes' = crashes
    BY <1>14 DEF vars, ghostVars, bounds
  <2> QED  BY <1>0, <2>1 DEF SequentialInv, DirInOrder, RestInOrder, AllIdle, AttemptCounted,
             InOrder, FailureMarked
<1> QED  BY <1>1, <1>4, <1>5, <1>6, <1>7, <1>8, <1>9, <1>10, <1>11, <1>12, <1>13, <1>14
  DEF Next, RunnerStep, Quiescent

\* How GetStatus reads a directory that holds at most one marker.
LEMMA StatusOf ==
  ASSUME NEW d \in StepDir, ~d.exists => d.files = {}
  PROVE  /\ d.files = {} => GetStatus(d) = "PENDING"
         /\ d.files = {"in.progress"} => GetStatus(d) = "RUNNING"
         /\ d.files = {"completed"} => GetStatus(d) = "COMPLETE"
         /\ d.files = {"failed"} => GetStatus(d) = "FAILED"
<1>1. d.files = {} => GetStatus(d) = "PENDING"  BY DEF GetStatus
<1>2. ASSUME d.files # {} PROVE d.exists  BY <1>2
<1>3. d.files = {"in.progress"} => GetStatus(d) = "RUNNING"  BY <1>2 DEF GetStatus
<1>4. d.files = {"completed"} => GetStatus(d) = "COMPLETE"  BY <1>2 DEF GetStatus
<1>5. d.files = {"failed"} => GetStatus(d) = "FAILED"  BY <1>2 DEF GetStatus
<1> QED  BY <1>1, <1>3, <1>4, <1>5

\* The invariant holds when the hub starts with nothing done.
LEMMA OrderInit ==
  ASSUME KnownHosts = Hosts, ClientsAtStart = Hosts, Init
  PROVE  SequentialInv
<1>1. TypeOK
  BY IdleType, HostsAssumption, BoundsAssumption DEF Init, TypeOK, Absent, StepDir, Marker
<1>2. /\ dir.files = {} /\ clients = Hosts /\ attempts = 0
      /\ \A r \in Runners : run[r].pc = "idle"
  BY DEF Init, Absent, Idle
<1>3. EarnedInv  BY <1>1, <1>2 DEF EarnedInv, MarkersEarned, Promise, Accounts
<1> QED  BY <1>2, <1>3
  DEF SequentialInv, DirInOrder, RestInOrder, AttemptCounted, InOrder

\* What the order of the directory says to a reader of the status.
LEMMA OrderTells ==
  ASSUME SequentialInv
  PROVE  OneMarker /\ ReportIsTrue /\ RunningIsTrue /\ ResultKept
<1>1. /\ DirInOrder /\ RestInOrder /\ dir \in StepDir /\ attempts \in Nat
  BY BoundsAssumption DEF SequentialInv, EarnedInv, TypeOK
<1>2. /\ dir.files = {} => Shown = "PENDING"
      /\ dir.files = {"in.progress"} => Shown = "RUNNING"
      /\ dir.files = {"completed"} => Shown = "COMPLETE"
      /\ dir.files = {"failed"} => Shown = "FAILED"
  BY <1>1, StatusOf DEF Shown, DirInOrder
<1>3. OneMarker  BY <1>1, <1>2 DEF OneMarker, DirInOrder
<1>4. ReportIsTrue  BY <1>1, <1>2 DEF ReportIsTrue, DirInOrder
<1>5. RunningIsTrue  BY <1>1, <1>2 DEF RunningIsTrue, RestInOrder
<1>6. ResultKept  BY <1>1, <1>2 DEF ResultKept, RestInOrder
<1> QED  BY <1>3, <1>4, <1>5, <1>6

\* The directory is in order for as long as the hub is used.
LEMMA AlwaysInOrder ==
  ASSUME KnownHosts = Hosts, ClientsAtStart = Hosts, ~Overlap, MaxFaults = 0
  PROVE  Spec => []SequentialInv
<1>1. Init => SequentialInv  BY OrderInit
<1>2. SequentialInv /\ [Next]_vars => SequentialInv'  BY OrderStep
<1> QED  BY <1>1, <1>2, PTL DEF Spec

\* One request at a time on a file system that works: COMPLETE and FAILED are
\* the truth about the latest attempt, wherever in it the hub dies.
THEOREM ReportsAreTrue ==
  ASSUME KnownHosts = Hosts, ClientsAtStart = Hosts, ~Overlap, MaxFaults = 0
  PROVE  Spec => []ReportIsTrue
<1>1. SequentialInv => ReportIsTrue  BY OrderTells
<1> QED  BY <1>1, AlwaysInOrder, PTL

\* One request at a time on a file system that works: no two markers are ever
\* in a directory together, so that GetStatus has an answer at any moment, the
\* time after a hub has died in the middle of MarkComplete included.
THEOREM StatusCanBeTold ==
  ASSUME KnownHosts = Hosts, ClientsAtStart = Hosts, ~Overlap, MaxFaults = 0
  PROVE  Spec => []OneMarker
<1>1. SequentialInv => OneMarker  BY OrderTells
<1> QED  BY <1>1, AlwaysInOrder, PTL

\* One request at a time on a file system that works: as long as the hub has
\* not died, RUNNING means that the step runs; none of the six handlers has a
\* path that leaves in.progress behind.
THEOREM RunningIsNow ==
  ASSUME KnownHosts = Hosts, ClientsAtStart = Hosts, ~Overlap, MaxFaults = 0
  PROVE  Spec => []RunningIsTrue
<1>1. SequentialInv => RunningIsTrue  BY OrderTells
<1> QED  BY <1>1, AlwaysInOrder, PTL

\* One request at a time on a file system that works: as long as the hub has
\* not died, a step that has ended shows how it ended.
THEOREM ResultsAreKept ==
  ASSUME KnownHosts = Hosts, ClientsAtStart = Hosts, ~Overlap, MaxFaults = 0
  PROVE  Spec => []ResultKept
<1>1. SequentialInv => ResultKept  BY OrderTells
<1> QED  BY <1>1, AlwaysInOrder, PTL

\* No call but RemoveAll changes a directory that holds a result: the others
\* find nothing to do there, or are not made.
LEMMA ResultStays ==
  ASSUME MaxFaults = 0, SequentialInv, [Next]_vars,
         dir.files \in {{"completed"}, {"failed"}},
         ~\E r \in Runners : run[r].pc = "clear"
  PROVE  dir' = dir
<1>0. TypeOK  BY DEF SequentialInv, EarnedInv
<1>1. ASSUME NEW r \in Runners, RunnerStep(r) PROVE dir' = dir
  <2>1. CASE RemoveDir(r)
    BY <2>1 DEF RemoveDir, SequentialInv, InOrder
  <2>2. CASE MakeDir(r)
    BY <2>2 DEF MakeDir, SequentialInv, InOrder
  <2>3. CASE MarkInProgress(r)
    BY <2>3 DEF MarkInProgress, SequentialInv, InOrder
  <2>4. CASE Work(r)
    BY <2>4 DEF Work, SaveOldClusterConfig, StartNewCluster, SedAndMv, RunCommand,
      RemoteExec, VerifySoftware, PingPollAgents, RsyncOids, ShareOidsDone
  <2>5. CASE RemoveInProgress(r)
    BY <2>5 DEF RemoveInProgress, CanUnmark
  <2>6. CASE CreateVerdict(r)
    BY <2>6 DEF CreateVerdict, SequentialInv, InOrder
  <2>7. CASE RemoveAllFiles(r)
    BY <2>7 DEF RemoveAllFiles
  <2> QED  BY <1>1, <2>1, <2>2, <2>3, <2>4, <2>5, <2>6, <2>7 DEF RunnerStep
<1>2. ASSUME NEW r \in Runners, Request(r) PROVE dir' = dir
  BY <1>2 DEF Request, CheckConfig, CheckSeginstall, PrepareStartAgents,
    UpgradeShareOids, UpgradeValidateStartCluster, UpgradeReconfigurePorts, Begin
<1>3. ASSUME NEW r \in Runners, IOError(r) PROVE dir' = dir
  BY <1>0, <1>3, NoFault
<1>4. ASSUME NEW h \in Hosts, AgentListens(h) PROVE dir' = dir
  BY <1>4 DEF AgentListens
<1>5. CASE HubRestart  BY <1>5 DEF HubRestart
<1>6. CASE UNCHANGED vars  BY <1>6 DEF vars
<1> QED  BY <1>1, <1>2, <1>3, <1>4, <1>5, <1>6 DEF Next, Quiescent

\* One request at a time on a file system that works: a result that is shown
\* goes away only in the RemoveAll with which a new attempt begins; neither a
\* restart of the hub nor the rest of a step takes it back.
THEOREM ResultsAreFinal ==
  ASSUME KnownHosts = Hosts, ClientsAtStart = Hosts, ~Overlap, MaxFaults = 0
  PROVE  Spec => OnlyResetErases
<1>1. ASSUME SequentialInv, [Next]_vars
      PROVE  [(Shown \in {"COMPLETE", "FAILED"} /\ Shown' # Shown)
                => (\E r \in Runners : run[r].pc = "clear")]_vars
  <2>1. SUFFICES ASSUME Shown \in {"COMPLETE", "FAILED"}, Shown' # Shown,
                        ~\E r \in Runners : run[r].pc = "clear"
                 PROVE  FALSE
    OBVIOUS
  <2>2. DirInOrder /\ dir \in StepDir
    BY <1>1 DEF SequentialInv, EarnedInv, TypeOK
  <2>3. dir.files \in {{"completed"}, {"failed"}}
    BY <2>1, <2>2, StatusOf DEF Shown, DirInOrder
  <2>4. dir' = dir  BY <1>1, <2>1, <2>3, ResultStays
  <2> QED  BY <2>1, <2>4 DEF Shown
<1> QED  BY <1>1, AlwaysInOrder, PTL DEF Spec, OnlyResetErases

\* The phase follows the one runner that runs.
LEMMA PhaseOf ==
  ASSUME run \in [Runners -> Run], NEW r \in Runners, NEW x, Becomes(r, x),
         \A q \in Runners : q # r => run[q].pc = "idle"
  PROVE  /\ run[r].pc = "idle" => Phase = "idle"
         /\ run[r].pc = "clear" => Phase = "begun"
         /\ run[r].pc \notin {"idle", "clear"} => Phase = "cleared"
         /\ x.pc = "idle" => Phase' = "idle"
         /\ x.pc = "clear" => Phase' = "begun"
         /\ x.pc \notin {"idle", "clear"} => Phase' = "cleared"
<1>1. run'[r] = x /\ \A q \in Runners : q # r => run'[q].pc = "idle"
  BY OthersStay
<1>2. /\ run[r].pc = "idle" => Phase = "idle"
      /\ run[r].pc = "clear" => Phase = "begun"
      /\ run[r].pc \notin {"idle", "clear"} => Phase = "cleared"
  BY DEF Phase, AllIdle
<1>3. /\ x.pc = "idle" => Phase' = "idle"
      /\ x.pc = "clear" => Phase' = "begun"
      /\ x.pc \notin {"idle", "clear"} => Phase' = "cleared"
  BY <1>1 DEF Phase, AllIdle
<1> QED  BY <1>2, <1>3

\* Every step of StepRunner is a step of StepLifecycle or none.
LEMMA LifecycleStep ==
  ASSUME KnownHosts = Hosts, ~Overlap, MaxFaults = 0,
         SequentialInv, SequentialInv', [Next]_vars
  PROVE  [Lifecycle!Next]_(Lifecycle!vars)
<1>0. /\ run \in [Runners -> Run] /\ TypeOK /\ EarnedInv
      /\ dir \in StepDir /\ dir' \in StepDir /\ DirInOrder /\ DirInOrder'
  BY DEF SequentialInv, EarnedInv, TypeOK
<1>1. /\ dir.files = {} => Shown = "PENDING"
      /\ dir.files = {"in.progress"} => Shown = "RUNNING"
      /\ dir.files = {"completed"} => Shown = "COMPLETE"
      /\ dir.files = {"failed"} => Shown = "FAILED"
  BY <1>0, StatusOf DEF Shown, DirInOrder
<1>2. /\ dir'.files = {} => Shown' = "PENDING"
      /\ dir'.files = {"in.progress"} => Shown' = "RUNNING"
      /\ dir'.files = {"completed"} => Shown' = "COMPLETE"
      /\ dir'.files = {"failed"} => Shown' = "FAILED"
  BY <1>0, StatusOf DEF Shown, DirInOrder
<1>3. ASSUME Shown' = Shown, outcome' = outcome, Phase' = Phase
      PROVE  [Lifecycle!Next]_(Lifecycle!vars)
  BY <1>3 DEF Lifecycle!vars
<1>4. dir' = dir => Shown' = Shown  BY DEF Shown
<1>5. ASSUME NEW r \in Runners, run[r].pc # "idle"
      PROVE  \A q \in Runners : q # r => run[q].pc = "idle"
  BY <1>5 DEF SequentialInv
<1>6. ASSUME NEW r \in Runners, NEW pc \in {"rmdir", "mkdir", "mark", "work", "unmark", "create"},
             run[r].pc # "idle", Goto(r, pc)
      PROVE  /\ run[r].pc = "clear" => Phase = "begun"
             /\ run[r].pc # "clear" => Phase = "cleared"
             /\ Phase' = "cleared"
  <2> DEFINE x == [run[r] EXCEPT !.pc = pc]
  <2>1. Becomes(r, x) /\ x.pc = pc  BY <1>0, <1>6 DEF Goto, Run
  <2> HIDE DEF x
  <2> QED  BY <1>0, <1>5, <1>6, <2>1, PhaseOf
<1>7. ASSUME NEW r \in Runners, Request(r) PROVE Lifecycle!Begin
  <2>1. Begin(r)
    BY <1>7 DEF Request, CheckConfig, CheckSeginstall, PrepareStartAgents,
      UpgradeShareOids, UpgradeValidateStartCluster, UpgradeReconfigurePorts
  <2>2. /\ \A q \in Runners : run[q].pc = "idle"
        /\ dir' = dir /\ outcome' = outcome
    BY <2>1 DEF Begin, AllIdle, ghostVars
  <2> DEFINE x == [Idle EXCEPT
        !.pc = "clear", !.todo = IF step \in LocalSteps THEN {} ELSE KnownHosts]
  <2>3. Becomes(r, x) /\ x.pc = "clear"  BY <2>1 DEF Begin, Idle
  <2> HIDE DEF x
  <2>4. Phase = "idle" /\ Phase' = "begun"  BY <1>0, <2>2, <2>3, PhaseOf
  <2> QED  BY <1>4, <2>2, <2>4 DEF Lifecycle!Begin
<1>8. ASSUME NEW r \in Runners, RemoveAllFiles(r) PROVE Lifecycle!Clear
  <2>1. /\ run[r].pc = "clear" /\ Goto(r, "rmdir") /\ dir'.files = {} /\ outcome' = "none"
    BY <1>0, <1>8 DEF RemoveAllFiles, Unlinked, StepDir
  <2> QED  BY <1>2, <1>6, <2>1 DEF Lifecycle!Clear
<1>9. ASSUME NEW r \in Runners, RemoveDir(r) PROVE [Lifecycle!Next]_(Lifecycle!vars)
  <2>1. dir.files = {} /\ run[r].pc = "rmdir"
    BY <1>9 DEF RemoveDir, SequentialInv, InOrder
  <2>2. dir'.files = {} /\ outcome' = outcome /\ Goto(r, "mkdir")
    BY <1>9, <2>1 DEF RemoveDir, CanRmdir, Absent, ghostVars
  <2>3. Phase = "cleared" /\ Phase' = "cleared"  BY <1>6, <2>1, <2>2
  <2> QED  BY <1>1, <1>2, <1>3, <2>1, <2>2, <2>3
<1>10. ASSUME NEW r \in Runners, MakeDir(r) PROVE [Lifecycle!Next]_(Lifecycle!vars)
  <2>1. dir.files = {} /\ run[r].pc = "mkdir"
    BY <1>10 DEF MakeDir, SequentialInv, InOrder
  <2>2. dir'.files = {} /\ outcome' = outcome /\ Goto(r, "mark")
    BY <1>0, <1>10, <2>1 DEF MakeDir, MkdirAll, StepDir, ghostVars
  <2>3. Phase = "cleared" /\ Phase' = "cleared"  BY <1>6, <2>1, <2>2
  <2> QED  BY <1>1, <1>2, <1>3, <2>1, <2>2, <2>3
<1>11. ASSUME NEW r \in Runners, MarkInProgress(r) PROVE Lifecycle!Announce
  <2>1. dir.exists /\ dir.files = {} /\ run[r].pc = "mark" /\ outcome = "none"
    BY <1>11 DEF MarkInProgress, SequentialInv, InOrder
  <2>2. dir'.files = {"in.progress"} /\ outcome' = outcome /\ Goto(r, "work")
    BY <1>0, <1>11, <2>1 DEF MarkInProgress, CanOpen, Opened, StepDir, ghostVars
  <2>3. Phase = "cleared" /\ Phase' = "cleared"  BY <1>6, <2>1, <2>2
  <2> QED  BY <1>1, <1>2, <2>1, <2>2, <2>3 DEF Lifecycle!Announce
<1>12. ASSUME NEW r \in Runners, Work(r) PROVE [Lifecycle!Next]_(Lifecycle!vars)
  <2>0. run[r].pc = "work" /\ dir' = dir /\ run[r] \in Run /\ InOrder(r) /\ Shown' = Shown
    BY <1>0, <1>4, <1>12 DEF Work, SaveOldClusterConfig, StartNewCluster, SedAndMv, RunCommand,
      RemoteExec, VerifySoftware, PingPollAgents, RsyncOids, ShareOidsDone, SequentialInv
  <2>1. ASSUME NEW x, Becomes(r, x), x.pc \notin {"idle", "clear"}
        PROVE  Phase = "cleared" /\ Phase' = "cleared"
    BY <1>0, <1>5, <2>0, <2>1, PhaseOf
  <2>2. ASSUME NEW ok, NEW truth, Decide(r, ok, truth), outcome = "none"
        PROVE  Lifecycle!Decide
    <3> DEFINE x == [run[r] EXCEPT
          !.pc = "unmark", !.verdict = IF ok THEN "completed" ELSE "failed"]
    <3>1. Becomes(r, x) /\ x.pc = "unmark"  BY <2>0, <2>2 DEF Decide, Run
    <3> HIDE DEF x
    <3>2. Phase = "cleared" /\ Phase' = "cleared"  BY <2>1, <3>1
    <3>3. Shown = "RUNNING" /\ outcome' \in {"ok", "bad"}
      BY <1>1, <2>0, <2>2 DEF Decide, InOrder, FailureMarked
    <3> QED  BY <2>0, <2>2, <3>2, <3>3 DEF Lifecycle!Decide
  <2>3. step # "share-oids" => outcome = "none"
    BY <2>0 DEF InOrder, FailureMarked
  <2>4. CASE RunCommand(r) /\ step \in LocalSteps
    BY <2>2, <2>3, <2>4 DEF RunCommand, LocalSteps, Lifecycle!Next
  <2>5. CASE RemoteExec(r)
    <3>1. PICK h \in run[r].todo :
            \/ Becomes(r, [run[r] EXCEPT !.todo = @ \ {h}, !.reached = @ \cup {h}])
            \/ Becomes(r, [run[r] EXCEPT !.todo = @ \ {h}, !.anyFailed = TRUE])
      BY <2>5 DEF RemoteExec
    <3> DEFINE x == [run[r] EXCEPT !.todo = @ \ {h}, !.reached = @ \cup {h}]
               y == [run[r] EXCEPT !.todo = @ \ {h}, !.anyFailed = TRUE]
    <3>2. (Becomes(r, x) \/ Becomes(r, y)) /\ x.pc = "work" /\ y.pc = "work"
      BY <2>0, <3>1 DEF Run
    <3>3. outcome' = outcome  BY <2>5 DEF RemoteExec, ghostVars
    <3> HIDE DEF x, y
    <3> QED  BY <1>3, <2>0, <2>1, <3>2, <3>3
  <2>6. CASE VerifySoftware(r)
    BY <2>2, <2>3, <2>6 DEF VerifySoftware, Lifecycle!Next
  <2>7. CASE PingPollAgents(r)
    <3>1. CASE \E ok, truth : Decide(r, ok, truth)
      BY <2>2, <2>3, <2>7, <3>1 DEF PingPollAgents, Lifecycle!Next
    <3>2. CASE Becomes(r, [run[r] EXCEPT !.tries = @ + 1]) /\ UNCHANGED ghostVars
      <4> DEFINE x == [run[r] EXCEPT !.tries = @ + 1]
      <4>1. Becomes(r, x) /\ x.pc = "work"  BY <2>0, <3>2 DEF Run
      <4> HIDE DEF x
      <4> QED  BY <1>3, <2>0, <2>1, <3>2, <4>1 DEF ghostVars
    <3> QED  BY <2>7, <3>1, <3>2 DEF PingPollAgents
  <2>8. CASE RsyncOids(r)
    <3>1. PICK h \in run[r].todo :
            \/ Becomes(r, [run[r] EXCEPT !.todo = @ \ {h}, !.reached = @ \cup {h}])
               /\ UNCHANGED ghostVars
            \/ Becomes(r, [run[r] EXCEPT !.pc = "unmark", !.todo = @ \ {h},
                                         !.anyFailed = TRUE, !.verdict = "failed"])
               /\ outcome' = "bad"
      BY <2>8 DEF RsyncOids
    <3> DEFINE x == [run[r] EXCEPT !.todo = @ \ {h}, !.reached = @ \cup {h}]
               y == [run[r] EXCEPT !.pc = "unmark", !.todo = @ \ {h},
                                   !.anyFailed = TRUE, !.verdict = "failed"]
    <3>2. \/ Becomes(r, x) /\ UNCHANGED ghostVars
          \/ Becomes(r, y) /\ outcome' = "bad"
      BY <3>1
    <3>3. x.pc = "work" /\ y.pc = "unmark"  BY <2>0 DEF Run
    <3> HIDE DEF x, y
    <3>4. Phase = "cleared" /\ Phase' = "cleared"  BY <2>1, <3>2, <3>3
    <3>5. CASE outcome' = outcome  BY <1>3, <2>0, <3>4, <3>5
    <3>6. CASE outcome' = "bad" /\ outcome # "bad"
      <4>1. Shown = "RUNNING" /\ outcome = "none"
        BY <1>1, <2>0, <3>6 DEF InOrder, FailureMarked
      <4> QED  BY <2>0, <3>4, <3>6, <4>1 DEF Lifecycle!Decide, Lifecycle!Next
    <3> QED  BY <3>2, <3>5, <3>6 DEF ghostVars
  <2>9. CASE ShareOidsDone(r)
    <3>1. CASE ~run[r].anyFailed /\ Decide(r, TRUE, run[r].reached = Hosts)
      <4>1. outcome = "none"  BY <2>0, <3>1 DEF InOrder, FailureMarked
      <4> QED  BY <2>2, <3>1, <4>1 DEF Lifecycle!Next
    <3>2. CASE run[r].anyFailed /\ Becomes(r, Idle) /\ UNCHANGED ghostVars
      <4>1. step = "share-oids"  BY <2>9 DEF ShareOidsDone
      <4>2. Shown = "FAILED" /\ outcome = "bad" /\ outcome' = outcome
        BY <1>1, <2>0, <3>2, <4>1 DEF InOrder, FailureMarked, ghostVars
      <4>3. Phase = "cleared" /\ Phase' = "idle"
        BY <1>0, <1>5, <2>0, <3>2, PhaseOf DEF Idle
      <4> QED  BY <2>0, <4>2, <4>3 DEF Lifecycle!End, Lifecycle!Result, Lifecycle!Next
    <3> QED  BY <2>9, <3>1, <3>2 DEF ShareOidsDone
  <2> QED  BY <1>12, <2>4, <2>5, <2>6, <2>7, <2>8, <2>9
    DEF Work, SaveOldClusterConfig, StartNewCluster, SedAndMv, LocalSteps
<1>13. ASSUME NEW r \in Runners, RemoveInProgress(r) PROVE [Lifecycle!Next]_(Lifecycle!vars)
  <2>0. /\ run[r].pc = "unmark" /\ outcome' = outcome /\ InOrder(r) /\ run[r] \in Run
    BY <1>0, <1>13 DEF RemoveInProgress, ghostVars, SequentialInv
  <2>1. CASE CanUnmark(dir)
    <3>1. dir.files = {"in.progress"} /\ outcome \in {"ok", "bad"}
      BY <2>0, <2>1 DEF CanUnmark, InOrder, FailureMarked, OutcomeOf
    <3>2. dir'.files = {} /\ Goto(r, "create")
      BY <1>0, <1>13, <2>1, <3>1 DEF RemoveInProgress, Unmarked, StepDir
    <3>3. Phase = "cleared" /\ Phase' = "cleared"  BY <1>6, <2>0, <3>2
    <3> QED  BY <1>1, <1>2, <2>0, <3>1, <3>2, <3>3 DEF Lifecycle!Retract, Lifecycle!Next
  <2>2. CASE ~CanUnmark(dir)
    <3>1. step = "share-oids" /\ run[r].verdict = "failed"
      BY <2>0, <2>2 DEF CanUnmark, InOrder, FailureMarked
    <3>2. dir' = dir /\ Goto(r, "work")
      BY <1>13, <2>2, <3>1 DEF RemoveInProgress, AfterMark, Goto
    <3>3. Phase = "cleared" /\ Phase' = "cleared"  BY <1>6, <2>0, <3>2
    <3> QED  BY <1>3, <1>4, <2>0, <3>2, <3>3
  <2> QED  BY <2>1, <2>2
<1>14. ASSUME NEW r \in Runners, CreateVerdict(r) PROVE Lifecycle!Publish \/ Lifecycle!PublishAndEnd
  <2>0. /\ run[r].pc = "create" /\ outcome' = outcome /\ run[r] \in Run
        /\ dir.exists /\ dir.files = {} /\ outcome = OutcomeOf(run[r].verdict)
        /\ AfterMark(r)
    BY <1>0, <1>14 DEF CreateVerdict, ghostVars, SequentialInv, InOrder
  <2>1. dir'.files = {run[r].verdict}
    BY <1>0, <1>14, <2>0 DEF CreateVerdict, CanOpen, Opened, StepDir
  <2>2. run[r].verdict \in {"completed", "failed"}  BY <2>0 DEF Run
  <2>3. /\ Shown = "PENDING" /\ outcome # "none"
        /\ Shown' = IF outcome = "ok" THEN "COMPLETE" ELSE "FAILED"
    BY <1>1, <1>2, <2>0, <2>1, <2>2 DEF OutcomeOf
  <2>4. CASE step = "share-oids" /\ run[r].verdict = "failed"
    <3>1. Goto(r, "work")  BY <2>0, <2>4 DEF AfterMark, Goto
    <3>2. Phase = "cleared" /\ Phase' = "cleared"  BY <1>6, <2>0, <3>1
    <3> QED  BY <2>0, <2>3, <3>2 DEF Lifecycle!Publish, Lifecycle!Result
  <2>5. CASE ~(step = "share-oids" /\ run[r].verdict = "failed")
    <3>1. Becomes(r, Idle)  BY <2>0, <2>5 DEF AfterMark
    <3>2. Phase = "cleared" /\ Phase' = "idle"
      BY <1>0, <1>5, <2>0, <3>1, PhaseOf DEF Idle
    <3> QED  BY <2>0, <2>3, <3>2 DEF Lifecycle!PublishAndEnd, Lifecycle!Result
  <2> QED  BY <2>4, <2>5
<1>15. ASSUME NEW r \in Runners, IOError(r) PROVE FALSE
  BY <1>0, <1>15, NoFault
<1>16. ASSUME NEW h \in Hosts, AgentListens(h) PROVE [Lifecycle!Next]_(Lifecycle!vars)
  <2>1. dir' = dir /\ run' = run /\ outcome' = outcome
    BY <1>16 DEF AgentListens, ghostVars
  <2> QED  BY <1>3, <1>4, <2>1 DEF Phase, AllIdle
<1>17. CASE HubRestart
  <2>1. /\ dir' = dir /\ outcome' = outcome /\ \A r \in Runners : run'[r].pc = "idle"
    BY <1>17 DEF HubRestart, ghostVars, Idle
  <2>2. Phase' = "idle"  BY <2>1 DEF Phase, AllIdle
  <2> QED  BY <1>3, <1>4, <2>1, <2>2 DEF Lifecycle!Die, Lifecycle!Next
<1>18. CASE UNCHANGED vars
  <2>1. dir' = dir /\ run' = run /\ outcome' = outcome
    BY <1>18 DEF vars, ghostVars
  <2> QED  BY <1>3, <1>4, <2>1 DEF Phase, AllIdle
<1> QED
  BY <1>7, <1>8, <1>9, <1>10, <1>11, <1>12, <1>13, <1>14, <1>15, <1>16, <1>17, <1>18
  DEF Next, RunnerStep, Quiescent, Lifecycle!Next

\* One request at a time on a file system that works: the status of a step
\* lives the life StepLifecycle describes, for any number of hosts, requests
\* and hub restarts.
THEOREM RunnerImplementsLifecycle ==
  ASSUME KnownHosts = Hosts, ClientsAtStart = Hosts, ~Overlap, MaxFaults = 0
  PROVE  Spec => ImplementsLifecycle
<1>1. Spec => []SequentialInv  BY AlwaysInOrder
<1>2. Init => Lifecycle!Init
  <2> SUFFICES ASSUME Init PROVE Lifecycle!Init
    OBVIOUS
  <2>1. dir.files = {} /\ outcome = "none" /\ \A r \in Runners : run[r].pc = "idle"
    BY DEF Init, Absent, Idle
  <2> QED  BY <2>1 DEF Lifecycle!Init, Shown, GetStatus, Phase, AllIdle
<1>3. SequentialInv /\ SequentialInv' /\ [Next]_vars => [Lifecycle!Next]_(Lifecycle!vars)
  BY LifecycleStep
<1> QED  BY <1>1, <1>2, <1>3, PTL DEF Spec, ImplementsLifecycle, Lifecycle!Spec

=============================================================================
