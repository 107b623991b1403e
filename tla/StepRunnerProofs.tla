-------------------------- MODULE StepRunnerProofs --------------------------
(***************************************************************************)
(* Proofs about StepRunner, for any number of runners, hosts, requests,    *)
(* failing calls and restarts.                                             *)
(***************************************************************************)
EXTENDS StepRunner, TLAPS

\* An idle runner has the type of a runner.
LEMMA IdleType == Idle \in Run
  BY DEF Idle, Run, PC

\* What the steps of a runner do to its record stays within the type.
LEMMA RecordType ==
  ASSUME NEW x \in Run
  PROVE  /\ \A pc \in PC : [x EXCEPT !.pc = pc] \in Run
         /\ [x EXCEPT !.pc = "work", !.todo = {}, !.anyFailed = TRUE] \in Run
         /\ [x EXCEPT !.tries = @ + 1] \in Run
         /\ \A v \in {"completed", "failed"} : [x EXCEPT !.pc = "unmark", !.verdict = v] \in Run
         /\ \A h \in Hosts :
              /\ [x EXCEPT !.todo = @ \ {h}, !.reached = @ \cup {h}] \in Run
              /\ [x EXCEPT !.todo = @ \ {h}, !.anyFailed = TRUE] \in Run
              /\ [x EXCEPT !.pc = "unmark", !.todo = @ \ {h}, !.anyFailed = TRUE,
                           !.verdict = "failed"] \in Run
<1>1. \A pc \in PC : [x EXCEPT !.pc = pc] \in Run  BY DEF Run, PC
<1>2. [x EXCEPT !.pc = "work", !.todo = {}, !.anyFailed = TRUE] \in Run  BY DEF Run, PC
<1>3. [x EXCEPT !.tries = @ + 1] \in Run  BY DEF Run
<1>4. \A v \in {"completed", "failed"} : [x EXCEPT !.pc = "unmark", !.verdict = v] \in Run
  BY DEF Run, PC
<1>5. ASSUME NEW h \in Hosts
      PROVE  /\ [x EXCEPT !.todo = @ \ {h}, !.reached = @ \cup {h}] \in Run
             /\ [x EXCEPT !.todo = @ \ {h}, !.anyFailed = TRUE] \in Run
             /\ [x EXCEPT !.pc = "unmark", !.todo = @ \ {h}, !.anyFailed = TRUE,
                          !.verdict = "failed"] \in Run
  <2>1. [x EXCEPT !.todo = @ \ {h}, !.reached = @ \cup {h}] \in Run  BY DEF Run
  <2>2. [x EXCEPT !.todo = @ \ {h}, !.anyFailed = TRUE] \in Run  BY DEF Run
  <2>3. [x EXCEPT !.pc = "unmark", !.todo = @ \ {h}, !.anyFailed = TRUE,
                  !.verdict = "failed"] \in Run  BY DEF Run, PC
  <2> QED  BY <2>1, <2>2, <2>3
<1> QED  BY <1>1, <1>2, <1>3, <1>4, <1>5

\* Goto, AfterError and AfterMark change the record of one runner, within its
\* type.
LEMMA ControlType ==
  ASSUME run \in [Runners -> Run], NEW r \in Runners
  PROVE  /\ \A pc \in PC : Goto(r, pc) => run' \in [Runners -> Run]
         /\ \A next \in PC : AfterError(r, next) => run' \in [Runners -> Run]
         /\ AfterMark(r) => run' \in [Runners -> Run]
<1>0. Idle \in Run /\ run[r] \in Run  BY IdleType
<1>1. \A pc \in PC : Goto(r, pc) => run' \in [Runners -> Run]
  BY <1>0, RecordType DEF Goto, Becomes
<1>2. \A next \in PC : AfterError(r, next) => run' \in [Runners -> Run]
  BY <1>0, RecordType DEF AfterError, Becomes
<1>3. AfterMark(r) => run' \in [Runners -> Run]
  BY <1>0, RecordType DEF AfterMark, Becomes, PC
<1> QED  BY <1>1, <1>2, <1>3

\* Every step keeps the type invariant.
LEMMA TypeStep == TypeOK /\ [Next]_vars => TypeOK'
<1> USE StepsAssumption, HostsAssumption, BoundsAssumption
<1> SUFFICES ASSUME TypeOK, [Next]_vars PROVE TypeOK'
  OBVIOUS
<1> USE DEF TypeOK
<1>1. ASSUME NEW r \in Runners, Request(r) PROVE TypeOK'
  <2>1. Begin(r)
    BY <1>1 DEF Request, CheckConfig, CheckSeginstall, PrepareStartAgents,
      UpgradeShareOids, UpgradeValidateStartCluster, UpgradeReconfigurePorts
  <2>2. run' \in [Runners -> Run]
    BY <2>1 DEF Begin, Becomes, Idle, Run, PC
  <2> QED  BY <2>1, <2>2 DEF Begin, envVars, ghostVars
<1>2. ASSUME NEW r \in Runners, RemoveAllFiles(r) PROVE TypeOK'
  <2>1. dir' \in StepDir  BY <1>2 DEF RemoveAllFiles, Unlinked, StepDir
  <2>2. run' \in [Runners -> Run]  BY <1>2, ControlType DEF RemoveAllFiles, PC
  <2> QED  BY <1>2, <2>1, <2>2 DEF RemoveAllFiles, envVars, bounds
<1>3. ASSUME NEW r \in Runners, RemoveDir(r) PROVE TypeOK'
  <2>0. Absent \in StepDir  BY DEF Absent, StepDir
  <2>1. dir' \in StepDir  BY <1>3, <2>0 DEF RemoveDir
  <2>2. run' \in [Runners -> Run]  BY <1>3, ControlType DEF RemoveDir, PC
  <2> QED  BY <1>3, <2>1, <2>2 DEF RemoveDir, envVars, ghostVars, bounds
<1>4. ASSUME NEW r \in Runners, MakeDir(r) PROVE TypeOK'
  <2>1. dir' \in StepDir  BY <1>4 DEF MakeDir, MkdirAll, StepDir
  <2>2. run' \in [Runners -> Run]  BY <1>4, ControlType DEF MakeDir, PC
  <2> QED  BY <1>4, <2>1, <2>2 DEF MakeDir, envVars, ghostVars, bounds
<1>5. ASSUME NEW r \in Runners, MarkInProgress(r) PROVE TypeOK'
  <2>1. dir' \in StepDir  BY <1>5 DEF MarkInProgress, Opened, StepDir, Marker
  <2>2. run' \in [Runners -> Run]  BY <1>5, ControlType DEF MarkInProgress, PC
  <2> QED  BY <1>5, <2>1, <2>2 DEF MarkInProgress, envVars, ghostVars, bounds
<1>6. ASSUME NEW r \in Runners, Work(r) PROVE TypeOK'
  <2>0. ASSUME NEW ok, NEW truth, Decide(r, ok, truth)
        PROVE  /\ run' \in [Runners -> Run]
               /\ outcome' \in {"none", "ok", "bad"} /\ history' \subseteq {"ok", "bad"}
    <3>1. run[r] \in Run  OBVIOUS
    <3>2. PICK v \in {"completed", "failed"} :
            run' = [run EXCEPT ![r] = [run[r] EXCEPT !.pc = "unmark", !.verdict = v]]
      BY <2>0 DEF Decide, Becomes
    <3>3. run' \in [Runners -> Run]  BY <3>1, <3>2, RecordType
    <3> QED  BY <2>0, <3>3 DEF Decide
  <2>1. CASE RunCommand(r)
    <3>1. PICK ok \in BOOLEAN : Decide(r, ok, ok)  BY <2>1 DEF RunCommand
    <3> QED  BY <2>0, <2>1, <3>1 DEF RunCommand, envVars, bounds
  <2>2. CASE RemoteExec(r)
    <3>1. run' \in [Runners -> Run]  
      <4>1. run[r] \in Run /\ run[r].todo \subseteq Hosts  BY DEF Run
      <4>2. PICK x \in Run : run' = [run EXCEPT ![r] = x]
        <5>1. PICK h \in run[r].todo :
                \/ run' = [run EXCEPT ![r] = [run[r] EXCEPT
                     !.todo = @ \ {h}, !.reached = @ \cup {h}]]
                \/ run' = [run EXCEPT ![r] = [run[r] EXCEPT
                     !.todo = @ \ {h}, !.anyFailed = TRUE]]
          BY <2>2 DEF RemoteExec, Becomes
        <5>2. h \in Hosts  BY <4>1
        <5> QED  BY <4>1, <5>1, <5>2, RecordType
      <4> QED  BY <4>2
    <3>2. starting' \subseteq Hosts  BY <2>2 DEF RemoteExec, Run
    <3> QED  BY <2>2, <3>1, <3>2 DEF RemoteExec, ghostVars, bounds
  <2>3. CASE VerifySoftware(r)
    <3>1. PICK ok, truth : Decide(r, ok, truth)  BY <2>3 DEF VerifySoftware
    <3> QED  BY <2>0, <2>3, <3>1 DEF VerifySoftware, envVars, bounds
  <2>4. CASE PingPollAgents(r)
    <3>1. CASE \E ok, truth : Decide(r, ok, truth)
      <4>1. PICK ok, truth : Decide(r, ok, truth)  BY <3>1
      <4> QED  BY <2>0, <2>4, <4>1 DEF PingPollAgents, envVars, bounds
    <3>2. CASE run' = [run EXCEPT ![r] = [run[r] EXCEPT !.tries = @ + 1]] /\ UNCHANGED ghostVars
      <4>1. run[r] \in Run  OBVIOUS
      <4>2. [run[r] EXCEPT !.tries = @ + 1] \in Run  BY <4>1, RecordType
      <4>3. run' \in [Runners -> Run]  BY <3>2, <4>2
      <4> QED  BY <2>4, <3>2, <4>3 DEF PingPollAgents, envVars, ghostVars, bounds
    <3> QED  BY <2>4, <3>1, <3>2 DEF PingPollAgents, Becomes
  <2>5. CASE RsyncOids(r)
    <3>1. run' \in [Runners -> Run]  
      <4>1. run[r] \in Run /\ run[r].todo \subseteq Hosts  BY DEF Run
      <4>2. PICK x \in Run : run' = [run EXCEPT ![r] = x]
        <5>1. PICK h \in run[r].todo :
                \/ run' = [run EXCEPT ![r] = [run[r] EXCEPT
                     !.todo = @ \ {h}, !.reached = @ \cup {h}]]
                \/ run' = [run EXCEPT ![r] = [run[r] EXCEPT
                     !.pc = "unmark", !.todo = @ \ {h}, !.anyFailed = TRUE, !.verdict = "failed"]]
          BY <2>5 DEF RsyncOids, Becomes
        <5>2. h \in Hosts  BY <4>1
        <5> QED  BY <4>1, <5>1, <5>2, RecordType
      <4> QED  BY <4>2
    <3> QED  BY <2>5, <3>1 DEF RsyncOids, envVars, ghostVars, bounds
  <2>6. CASE ShareOidsDone(r)
    <3>1. CASE Decide(r, TRUE, run[r].reached = Hosts)
      BY <2>0, <2>6, <3>1 DEF ShareOidsDone, envVars, bounds
    <3>2. CASE run' = [run EXCEPT ![r] = Idle] /\ UNCHANGED ghostVars
      BY <2>6, <3>2, IdleType DEF ShareOidsDone, envVars, ghostVars, bounds
    <3> QED  BY <2>6, <3>1, <3>2 DEF ShareOidsDone, Becomes
  <2> QED  BY <1>6, <2>1, <2>2, <2>3, <2>4, <2>5, <2>6
    DEF Work, SaveOldClusterConfig, StartNewCluster, SedAndMv
<1>7. ASSUME NEW r \in Runners, RemoveInProgress(r) PROVE TypeOK'
  <2>1. dir' \in StepDir  BY <1>7 DEF RemoveInProgress, Unmarked, StepDir
  <2>2. run' \in [Runners -> Run]  BY <1>7, ControlType DEF RemoveInProgress, PC
  <2> QED  BY <1>7, <2>1, <2>2 DEF RemoveInProgress, envVars, ghostVars, bounds
<1>8. ASSUME NEW r \in Runners, CreateVerdict(r) PROVE TypeOK'
  <2>1. dir' \in StepDir  BY <1>8 DEF CreateVerdict, Opened, StepDir, Marker, Run
  <2>2. run' \in [Runners -> Run]  BY <1>8, ControlType DEF CreateVerdict
  <2> QED  BY <1>8, <2>1, <2>2 DEF CreateVerdict, envVars, ghostVars, bounds
<1>9. ASSUME NEW r \in Runners, IOError(r) PROVE TypeOK'
  <2>1. dir' \in StepDir  BY <1>9 DEF IOError, StepDir
  <2>2. run' \in [Runners -> Run]  BY <1>9, ControlType DEF IOError, PC
  <2>3. faults' \in 0..MaxFaults  BY <1>9 DEF IOError
  <2> QED  BY <1>9, <2>1, <2>2, <2>3 DEF IOError, envVars
<1>10. ASSUME NEW h \in Hosts, AgentListens(h) PROVE TypeOK'
  BY <1>10 DEF AgentListens, ghostVars, bounds
<1>11. CASE HubRestart
  BY <1>11, IdleType DEF HubRestart, ghostVars
<1>12. CASE Quiescent \/ UNCHANGED vars
  BY <1>12 DEF Quiescent, vars, envVars, ghostVars, bounds
<1> QED  BY <1>1, <1>2, <1>3, <1>4, <1>5, <1>6, <1>7, <1>8, <1>9, <1>10, <1>11, <1>12
  DEF Next, RunnerStep

\* The type invariant is inductive: no handler, error path or restart of a
\* step produces a marker, a control state or a count outside its type.
THEOREM TypeCorrect == Spec => []TypeOK
<1>1. Init => TypeOK
  BY IdleType, HostsAssumption, BoundsAssumption DEF Init, TypeOK, Absent, StepDir, Marker
<1> QED  BY <1>1, TypeStep, PTL DEF Spec

---------------------------------------------------------------------------
(* Markers are earned, whatever overlaps, fails or dies.                   *)

\* One runner moves and the others stay where they are.
LEMMA OthersStay ==
  ASSUME run \in [Runners -> Run], NEW r \in Runners, NEW x, Becomes(r, x)
  PROVE  /\ run'[r] = x
         /\ \A q \in Runners : q # r => run'[q] = run[q]
  BY DEF Becomes

\* A runner that does not move keeps its promise and its accounts.
LEMMA StayingKeeps ==
  ASSUME NEW q \in Runners, Promise(q), Accounts(q), step' = step,
         run'[q] = run[q], history \subseteq history'
  PROVE  Promise(q)' /\ Accounts(q)'
  BY DEF Promise, Accounts

\* The part of EarnedInv that a step of runner r can disturb.
LEMMA EarnedByRunner ==
  ASSUME EarnedInv, TypeOK', NEW r \in Runners, NEW x, Becomes(r, x),
         step' = step, clients' = clients, history \subseteq history',
         MarkersEarned', Promise(r)', Accounts(r)'
  PROVE  EarnedInv'
<1>1. \A q \in Runners : Promise(q)' /\ Accounts(q)'
  <2> SUFFICES ASSUME NEW q \in Runners PROVE Promise(q)' /\ Accounts(q)'
    OBVIOUS
  <2>1. CASE q = r  BY <2>1
  <2>2. CASE q # r
    <3>1. run'[q] = run[q]  BY <2>2, OthersStay DEF EarnedInv, TypeOK
    <3> QED  BY <3>1, StayingKeeps DEF EarnedInv
  <2> QED  BY <2>1, <2>2
<1> QED  BY <1>1 DEF EarnedInv

\* AfterError leads back to the work with everything accounted for: at that
\* point no host was reached yet.
LEMMA AfterErrorEarned ==
  ASSUME TypeOK, NEW r \in Runners, Accounts(r),
         NEW next \in {"mark", "work"}, AfterError(r, next),
         run[r].pc \in {"clear", "rmdir", "mkdir", "mark"},
         step' = step
  PROVE  Promise(r)' /\ Accounts(r)'
<1> USE DEF TypeOK, Promise, Accounts
<1>1. CASE step = "validate-start-cluster"
  BY <1>1 DEF AfterError, Becomes, Idle
<1>2. CASE step \in SshSteps
  <2>1. run'[r] = [run[r] EXCEPT !.pc = "work", !.todo = {}, !.anyFailed = TRUE]
    BY <1>2 DEF AfterError, Becomes, SshSteps
  <2>2. run[r].reached = {} /\ Hosts # {}  BY <1>2 DEF SshSteps, LocalSteps
  <2>3. /\ run'[r].pc = "work" /\ run'[r].todo = {}
        /\ run'[r].anyFailed = TRUE /\ run'[r].reached = {}
    BY <2>1, <2>2 DEF Run
  <2> QED  BY <2>2, <2>3
<1>3. CASE step # "validate-start-cluster" /\ step \notin SshSteps
  <2>1. run'[r] = [run[r] EXCEPT !.pc = next]
    BY <1>3 DEF AfterError, Becomes
  <2>2. /\ run'[r].pc = next /\ run'[r].todo = run[r].todo
        /\ run'[r].anyFailed = run[r].anyFailed /\ run'[r].reached = run[r].reached
    BY <2>1 DEF Run
  <2> QED  BY <2>2
<1> QED  BY <1>1, <1>2, <1>3

\* Goto keeps the accounts, and the promise if there was one already or none
\* is made.
LEMMA GotoEarned ==
  ASSUME TypeOK, NEW r \in Runners, Accounts(r), Promise(r), run[r].pc # "idle",
         NEW pc \in PC, Goto(r, pc),
         pc \in {"clear", "rmdir", "mkdir", "mark"} =>
           run[r].pc \in {"clear", "rmdir", "mkdir", "mark"},
         pc \in {"unmark", "create"} => run[r].pc \in {"unmark", "create"},
         step' = step, history' = history
  PROVE  Promise(r)' /\ Accounts(r)'
<1>1. run'[r] = [run[r] EXCEPT !.pc = pc]  BY DEF Goto, Becomes, TypeOK
<1>2. /\ run'[r].pc = pc /\ run'[r].todo = run[r].todo
      /\ run'[r].anyFailed = run[r].anyFailed /\ run'[r].reached = run[r].reached
      /\ run'[r].verdict = run[r].verdict
  BY <1>1 DEF Run, TypeOK
<1> QED  BY <1>2 DEF Promise, Accounts

\* Neither does the end of a mark disturb them.
LEMMA AfterMarkEarned ==
  ASSUME TypeOK, NEW r \in Runners, Accounts(r), run[r].pc # "idle",
         AfterMark(r), step' = step
  PROVE  Promise(r)' /\ Accounts(r)'
<1>1. CASE step = "share-oids" /\ run[r].verdict = "failed"
  <2>1. run'[r] = [run[r] EXCEPT !.pc = "work"]  BY <1>1 DEF AfterMark, Becomes, TypeOK
  <2>2. /\ run'[r].pc = "work" /\ run'[r].todo = run[r].todo
        /\ run'[r].anyFailed = run[r].anyFailed /\ run'[r].reached = run[r].reached
    BY <2>1 DEF Run, TypeOK
  <2> QED  BY <2>2 DEF Promise, Accounts
<1>2. CASE ~(step = "share-oids" /\ run[r].verdict = "failed")
  <2>1. run'[r].pc = "idle"  BY <1>2 DEF AfterMark, Becomes, TypeOK, Idle
  <2> QED  BY <2>1 DEF Promise, Accounts
<1> QED  BY <1>1, <1>2

\* A verdict that is the truth is a promise kept.
LEMMA DecideEarned ==
  ASSUME TypeOK, NEW r \in Runners, Accounts(r), run[r].pc # "idle",
         NEW ok \in BOOLEAN, Decide(r, ok, ok), step' = step
  PROVE  Promise(r)' /\ Accounts(r)' /\ history \subseteq history'
<1>1. run'[r] = [run[r] EXCEPT
        !.pc = "unmark", !.verdict = IF ok THEN "completed" ELSE "failed"]
  BY DEF Decide, Becomes, TypeOK
<1>2. /\ run'[r].pc = "unmark" /\ run'[r].todo = run[r].todo
      /\ run'[r].anyFailed = run[r].anyFailed /\ run'[r].reached = run[r].reached
      /\ run'[r].verdict = IF ok THEN "completed" ELSE "failed"
  BY <1>1 DEF Run, TypeOK
<1>3. history' = history \cup {IF ok THEN "ok" ELSE "bad"}  BY DEF Decide
<1>4. Promise(r)'  BY <1>2, <1>3 DEF Promise
<1>5. Accounts(r)'  BY <1>2 DEF Accounts
<1> QED  BY <1>3, <1>4, <1>5

\* Every step keeps EarnedInv when the hub knows all the hosts.
LEMMA EarnedStep ==
  ASSUME KnownHosts = Hosts, EarnedInv, [Next]_vars
  PROVE  EarnedInv'
<1>0. TypeOK /\ TypeOK' /\ run \in [Runners -> Run]
  BY TypeStep DEF EarnedInv, TypeOK
<1>1. ASSUME NEW r \in Runners, Request(r) PROVE EarnedInv'
  <2>1. Begin(r) /\ (step \in SshSteps => Hosts # {})
    BY <1>1 DEF Request, CheckConfig, CheckSeginstall, PrepareStartAgents,
      UpgradeShareOids, UpgradeValidateStartCluster, UpgradeReconfigurePorts, SshSteps
  <2>2. /\ step' = step /\ dir' = dir /\ clients' = clients /\ history' = history
    BY <2>1 DEF Begin, envVars, ghostVars
  <2>3. PICK x : Becomes(r, x)  BY <2>1 DEF Begin
  <2>4. run'[r] = [Idle EXCEPT
          !.pc = "clear", !.todo = IF step \in LocalSteps THEN {} ELSE KnownHosts]
    BY <1>0, <2>1 DEF Begin, Becomes
  <2>5. Promise(r)' /\ Accounts(r)'
    BY <2>1, <2>2, <2>4 DEF Promise, Accounts, Idle
  <2>6. MarkersEarned'  BY <2>2 DEF EarnedInv, MarkersEarned
  <2> QED  BY <1>0, <2>2, <2>3, <2>5, <2>6, EarnedByRunner
<1>2. ASSUME NEW r \in Runners, NEW next \in {"mark", "work"}, AfterError(r, next),
             run[r].pc \in {"clear", "rmdir", "mkdir", "mark"},
             step' = step, clients' = clients, history' = history,
             dir'.files \subseteq dir.files
      PROVE  EarnedInv'
  <2>1. PICK x : Becomes(r, x)  BY <1>2 DEF AfterError
  <2>2. Promise(r)' /\ Accounts(r)'
    BY <1>0, <1>2, AfterErrorEarned DEF EarnedInv
  <2>3. MarkersEarned'  BY <1>2 DEF EarnedInv, MarkersEarned
  <2> QED  BY <1>0, <1>2, <2>1, <2>2, <2>3, EarnedByRunner
<1>3. ASSUME NEW r \in Runners, AfterMark(r), run[r].pc # "idle",
             step' = step, clients' = clients, history' = history, MarkersEarned'
      PROVE  EarnedInv'
  <2>1. PICK x : Becomes(r, x)  BY <1>3 DEF AfterMark
  <2>2. Promise(r)' /\ Accounts(r)'
    BY <1>0, <1>3, AfterMarkEarned DEF EarnedInv
  <2> QED  BY <1>0, <1>3, <2>1, <2>2, EarnedByRunner
<1>4. ASSUME NEW r \in Runners, NEW pc \in PC, Goto(r, pc), run[r].pc # "idle",
             pc \in {"clear", "rmdir", "mkdir", "mark"} =>
               run[r].pc \in {"clear", "rmdir", "mkdir", "mark"},
             pc \in {"unmark", "create"} => run[r].pc \in {"unmark", "create"},
             step' = step, clients' = clients, history' = history, MarkersEarned'
      PROVE  EarnedInv'
  <2>1. PICK x : Becomes(r, x)  BY <1>4 DEF Goto
  <2>2. Promise(r)' /\ Accounts(r)'
    BY <1>0, <1>4, GotoEarned DEF EarnedInv
  <2> QED  BY <1>0, <1>4, <2>1, <2>2, EarnedByRunner
<1>5. ASSUME NEW r \in Runners, RemoveAllFiles(r) PROVE EarnedInv'
  <2>1. MarkersEarned'
    BY <1>0, <1>5 DEF RemoveAllFiles, Unlinked, MarkersEarned, TypeOK, StepDir
  <2> QED  BY <1>4, <1>5, <2>1 DEF RemoveAllFiles, envVars, PC
<1>6. ASSUME NEW r \in Runners, RemoveDir(r) PROVE EarnedInv'
  <2>0. step' = step /\ clients' = clients /\ history' = history /\ run[r].pc = "rmdir"
    BY <1>6 DEF RemoveDir, envVars, ghostVars
  <2>1. CASE dir' = Absent /\ Goto(r, "mkdir")
    <3>1. MarkersEarned'  BY <2>1 DEF Absent, MarkersEarned
    <3> QED  BY <1>4, <2>0, <2>1, <3>1 DEF PC
  <2>2. CASE dir' = dir /\ AfterError(r, "mark")
    BY <1>2, <2>0, <2>2
  <2> QED  BY <1>6, <2>1, <2>2 DEF RemoveDir
<1>7. ASSUME NEW r \in Runners, MakeDir(r) PROVE EarnedInv'
  <2>1. dir'.files = dir.files  BY <1>0, <1>7 DEF MakeDir, MkdirAll, TypeOK, StepDir
  <2>2. history' = history  BY <1>7 DEF MakeDir, ghostVars
  <2>3. MarkersEarned'  BY <2>1, <2>2 DEF EarnedInv, MarkersEarned
  <2> QED  BY <1>4, <1>7, <2>3 DEF MakeDir, envVars, ghostVars, PC
<1>8. ASSUME NEW r \in Runners, MarkInProgress(r) PROVE EarnedInv'
  <2>0. step' = step /\ clients' = clients /\ history' = history /\ run[r].pc = "mark"
    BY <1>8 DEF MarkInProgress, envVars, ghostVars
  <2>1. CASE dir' = Opened(dir, "in.progress") /\ Goto(r, "work")
    <3>1. dir'.files = dir.files \cup {"in.progress"}
      BY <1>0, <2>1 DEF Opened, TypeOK, StepDir
    <3>2. MarkersEarned'  BY <2>0, <3>1 DEF EarnedInv, MarkersEarned
    <3> QED  BY <1>4, <2>0, <2>1, <3>2 DEF PC
  <2>2. CASE dir' = dir /\ AfterError(r, "work")
    BY <1>2, <2>0, <2>2
  <2> QED  BY <1>8, <2>1, <2>2 DEF MarkInProgress
<1>9. ASSUME NEW r \in Runners, Work(r) PROVE EarnedInv'
  <2>0. run[r].pc = "work" /\ step' = step /\ dir' = dir /\ clients' = clients
    BY <1>9 DEF Work, SaveOldClusterConfig, StartNewCluster, SedAndMv, RunCommand,
      RemoteExec, VerifySoftware, PingPollAgents, RsyncOids, ShareOidsDone, envVars
  <2>1. ASSUME NEW ok \in BOOLEAN, Decide(r, ok, ok) PROVE EarnedInv'
    <3>1. PICK x : Becomes(r, x)  BY <2>1 DEF Decide
    <3>2. Promise(r)' /\ Accounts(r)' /\ history \subseteq history'
      BY <1>0, <2>0, <2>1, DecideEarned DEF EarnedInv
    <3>3. MarkersEarned'  BY <2>0, <3>2 DEF EarnedInv, MarkersEarned
    <3> QED  BY <1>0, <2>0, <3>1, <3>2, <3>3, EarnedByRunner
  <2>2. ASSUME history \subseteq history' PROVE MarkersEarned'
    BY <2>0, <2>2 DEF EarnedInv, MarkersEarned
  <2>3. ASSUME NEW h \in run[r].todo, step \notin LocalSteps, history' = history,
               Becomes(r, [run[r] EXCEPT !.todo = @ \ {h}, !.reached = @ \cup {h}])
        PROVE  EarnedInv'
    <3>1. run'[r] = [run[r] EXCEPT !.todo = @ \ {h}, !.reached = @ \cup {h}]
      BY <1>0, <2>3, OthersStay
    <3>2. /\ run'[r].pc = "work" /\ run'[r].todo = run[r].todo \ {h}
          /\ run'[r].anyFailed = run[r].anyFailed /\ run'[r].reached = run[r].reached \cup {h}
      BY <1>0, <2>0, <3>1 DEF Run
    <3>3. Accounts(r)  BY DEF EarnedInv
    <3>4. run'[r].reached \cup run'[r].todo = run[r].reached \cup run[r].todo
      BY <2>3, <3>2
    <3>5. Accounts(r)'
      BY <2>0, <2>3, <3>2, <3>3, <3>4 DEF Accounts
    <3>6. Promise(r)'  BY <3>2 DEF Promise
    <3> QED  BY <1>0, <2>0, <2>2, <2>3, <3>5, <3>6, EarnedByRunner
  <2>4. ASSUME NEW h \in run[r].todo, step \notin LocalSteps, NEW x, Becomes(r, x),
               history \subseteq history',
               x.todo = run[r].todo \ {h}, x.reached = run[r].reached, x.anyFailed = TRUE,
               x.pc \notin {"clear", "rmdir", "mkdir", "mark"},
               x.pc \in {"unmark", "create"} => x.verdict = "failed" /\ "bad" \in history'
        PROVE  EarnedInv'
    <3>1. run'[r] = x  BY <1>0, <2>4, OthersStay
    <3>2. Accounts(r) /\ run[r].todo \subseteq Hosts  BY <1>0 DEF EarnedInv, Run
    <3>3. h \notin x.reached \cup x.todo /\ h \in Hosts
      BY <2>0, <2>4, <3>2 DEF Accounts
    <3>4. Accounts(r)'  BY <2>0, <2>4, <3>1, <3>2, <3>3 DEF Accounts
    <3>5. Promise(r)'  BY <2>4, <3>1 DEF Promise
    <3> QED  BY <1>0, <2>0, <2>2, <2>4, <3>4, <3>5, EarnedByRunner
  <2>5. CASE RunCommand(r)
    BY <2>1, <2>5 DEF RunCommand
  <2>6. CASE RemoteExec(r)
    <3>1. step \notin LocalSteps /\ history' = history
      BY <2>6 DEF RemoteExec, SshSteps, LocalSteps, ghostVars
    <3>2. PICK h \in run[r].todo :
            \/ Becomes(r, [run[r] EXCEPT !.todo = @ \ {h}, !.reached = @ \cup {h}])
            \/ Becomes(r, [run[r] EXCEPT !.todo = @ \ {h}, !.anyFailed = TRUE])
      BY <2>6 DEF RemoteExec
    <3>3. CASE Becomes(r, [run[r] EXCEPT !.todo = @ \ {h}, !.anyFailed = TRUE])
      <4> DEFINE x == [run[r] EXCEPT !.todo = @ \ {h}, !.anyFailed = TRUE]
      <4>1. /\ x.todo = run[r].todo \ {h} /\ x.reached = run[r].reached
            /\ x.anyFailed = TRUE /\ x.pc = "work"
        BY <1>0, <2>0 DEF Run
      <4>2. Becomes(r, x)  BY <3>3
      <4> HIDE DEF x
      <4> QED  BY <2>4, <3>1, <4>1, <4>2
    <3> QED  BY <2>3, <3>1, <3>2, <3>3
  <2>7. CASE VerifySoftware(r)
    <3>1. ~run[r].anyFailed <=> run[r].reached = Hosts
      BY <1>0, <2>7 DEF VerifySoftware, EarnedInv, Accounts, LocalSteps, Run
    <3>2. PICK ok \in BOOLEAN : Decide(r, ok, ok)
      BY <2>7, <3>1 DEF VerifySoftware, Decide
    <3> QED  BY <2>1, <3>2
  <2>8. CASE PingPollAgents(r)
    <3>0. clients = Hosts  BY DEF EarnedInv
    <3>1. CASE \E ok \in BOOLEAN : Decide(r, ok, ok)
      BY <2>1, <3>1
    <3>2. CASE Becomes(r, [run[r] EXCEPT !.tries = @ + 1]) /\ UNCHANGED ghostVars
      <4>1. run'[r] = [run[r] EXCEPT !.tries = @ + 1]  BY <1>0, <3>2, OthersStay
      <4>2. /\ run'[r].pc = "work" /\ run'[r].todo = run[r].todo
            /\ run'[r].anyFailed = run[r].anyFailed /\ run'[r].reached = run[r].reached
        BY <1>0, <2>0, <4>1 DEF Run
      <4>3. Accounts(r)' /\ Promise(r)'
        BY <2>0, <4>2 DEF EarnedInv, Accounts, Promise
      <4> QED  BY <1>0, <2>0, <2>2, <3>2, <4>3, EarnedByRunner DEF ghostVars
    <3> QED  BY <2>8, <3>0, <3>1, <3>2 DEF PingPollAgents, Decide
  <2>9. CASE RsyncOids(r)
    <3>1. PICK h \in run[r].todo :
            \/ Becomes(r, [run[r] EXCEPT !.todo = @ \ {h}, !.reached = @ \cup {h}])
               /\ UNCHANGED ghostVars
            \/ Becomes(r, [run[r] EXCEPT !.pc = "unmark", !.todo = @ \ {h},
                                         !.anyFailed = TRUE, !.verdict = "failed"])
               /\ history' = history \cup {"bad"}
      BY <2>9 DEF RsyncOids
    <3>2. step \notin LocalSteps  BY <2>9 DEF RsyncOids, LocalSteps
    <3>3. CASE Becomes(r, [run[r] EXCEPT !.pc = "unmark", !.todo = @ \ {h},
                                         !.anyFailed = TRUE, !.verdict = "failed"])
               /\ history' = history \cup {"bad"}
      <4> DEFINE x == [run[r] EXCEPT !.pc = "unmark", !.todo = @ \ {h},
                                     !.anyFailed = TRUE, !.verdict = "failed"]
      <4>1. /\ x.todo = run[r].todo \ {h} /\ x.reached = run[r].reached
            /\ x.anyFailed = TRUE /\ x.pc = "unmark" /\ x.verdict = "failed"
        BY <1>0 DEF Run
      <4>2. Becomes(r, x) /\ history \subseteq history' /\ "bad" \in history'  BY <3>3
      <4> HIDE DEF x
      <4> QED  BY <2>4, <3>2, <4>1, <4>2
    <3> QED  BY <2>3, <3>1, <3>2, <3>3 DEF ghostVars
  <2>10. CASE ShareOidsDone(r)
    <3>1. CASE ~run[r].anyFailed /\ Decide(r, TRUE, run[r].reached = Hosts)
      <4>1. run[r].reached = Hosts
        BY <1>0, <2>10, <3>1 DEF ShareOidsDone, EarnedInv, Accounts, LocalSteps, Run
      <4>2. Decide(r, TRUE, TRUE)  BY <3>1, <4>1 DEF Decide
      <4> QED  BY <2>1, <4>2
    <3>2. CASE Becomes(r, Idle) /\ UNCHANGED ghostVars
      <4>1. run'[r].pc = "idle"  BY <1>0, <3>2, OthersStay DEF Idle
      <4>2. Accounts(r)' /\ Promise(r)'  BY <4>1 DEF Accounts, Promise
      <4> QED  BY <1>0, <2>0, <2>2, <3>2, <4>2, EarnedByRunner DEF ghostVars
    <3> QED  BY <2>10, <3>1, <3>2 DEF ShareOidsDone
  <2> QED  BY <1>9, <2>5, <2>6, <2>7, <2>8, <2>9, <2>10
    DEF Work, SaveOldClusterConfig, StartNewCluster, SedAndMv
<1>10. ASSUME NEW r \in Runners, RemoveInProgress(r) PROVE EarnedInv'
  <2>0. /\ step' = step /\ clients' = clients /\ history' = history /\ run[r].pc = "unmark"
        /\ dir'.files \subseteq dir.files
    BY <1>0, <1>10 DEF RemoveInProgress, Unmarked, envVars, ghostVars, TypeOK, StepDir
  <2>1. MarkersEarned'  BY <2>0 DEF EarnedInv, MarkersEarned
  <2> QED  BY <1>3, <1>4, <1>10, <2>0, <2>1 DEF RemoveInProgress, PC
<1>11. ASSUME NEW r \in Runners, CreateVerdict(r) PROVE EarnedInv'
  <2>0. step' = step /\ clients' = clients /\ history' = history /\ run[r].pc = "create"
    BY <1>11 DEF CreateVerdict, envVars, ghostVars
  <2>1. dir'.files \subseteq dir.files \cup {run[r].verdict}
    BY <1>0, <1>11 DEF CreateVerdict, Opened, TypeOK, StepDir
  <2>2. MarkersEarned'  BY <2>0, <2>1 DEF EarnedInv, MarkersEarned, Promise
  <2> QED  BY <1>3, <1>11, <2>0, <2>2 DEF CreateVerdict
<1>12. ASSUME NEW r \in Runners, IOError(r) PROVE EarnedInv'
  <2>0. step' = step /\ clients' = clients /\ history' = history
    BY <1>12 DEF IOError, envVars
  <2>1. dir'.files \subseteq dir.files
    BY <1>0, <1>12 DEF IOError, TypeOK, StepDir
  <2>2. MarkersEarned'  BY <2>0, <2>1 DEF EarnedInv, MarkersEarned
  <2> QED  BY <1>2, <1>3, <1>12, <2>0, <2>1, <2>2 DEF IOError
<1>13. ASSUME NEW h \in Hosts, AgentListens(h) PROVE EarnedInv'
  <2>1. /\ step' = step /\ dir' = dir /\ run' = run /\ clients' = clients /\ history' = history
    BY <1>13 DEF AgentListens, ghostVars
  <2> QED  BY <1>0, <2>1 DEF EarnedInv, MarkersEarned, Promise, Accounts
<1>14. CASE HubRestart
  <2>1. /\ step' = step /\ dir' = dir /\ history' = history /\ clients' = Hosts
        /\ \A r \in Runners : run'[r].pc = "idle"
    BY <1>14 DEF HubRestart, ghostVars, Idle
  <2> QED  BY <1>0, <2>1 DEF EarnedInv, MarkersEarned, Promise, Accounts
<1>15. CASE UNCHANGED vars
  <2>1. /\ step' = step /\ dir' = dir /\ run' = run /\ clients' = clients /\ history' = history
    BY <1>15 DEF vars, envVars, ghostVars
  <2> QED  BY <1>0, <2>1 DEF EarnedInv, MarkersEarned, Promise, Accounts
<1> QED  BY <1>1, <1>5, <1>6, <1>7, <1>8, <1>9, <1>10, <1>11, <1>12, <1>13, <1>14, <1>15
  DEF Next, RunnerStep, Quiescent

\* However requests overlap, calls fail and the hub dies: where the hub knows
\* every host from the start, a completed marker was earned by an attempt that
\* succeeded on all of them, and a failed one by an attempt that did not.
THEOREM MarkersAreEarned ==
  ASSUME KnownHosts = Hosts, ClientsAtStart = Hosts
  PROVE  Spec => []MarkersEarned
<1>1. Init => EarnedInv
  <2> SUFFICES ASSUME Init PROVE EarnedInv
    OBVIOUS
  <2>1. TypeOK
    BY IdleType, HostsAssumption, BoundsAssumption DEF Init, TypeOK, Absent, StepDir, Marker
  <2>2. MarkersEarned /\ clients = Hosts  BY DEF Init, MarkersEarned, Absent
  <2>3. \A r \in Runners : run[r].pc = "idle"  BY DEF Init, Idle
  <2> QED  BY <2>1, <2>2, <2>3 DEF EarnedInv, Promise, Accounts
<1>2. EarnedInv /\ [Next]_vars => EarnedInv'  BY EarnedStep
<1>3. EarnedInv => MarkersEarned  BY DEF EarnedInv
<1> QED  BY <1>1, <1>2, <1>3, PTL DEF Spec

=============================================================================
