# gpupgrade in TLA+

gpupgrade upgrades a Greenplum cluster. A command line talks to one *hub* on
the master's host, and the hub works on the hosts of the cluster through ssh,
rsync and an *agent* on each host. An upgrade is a list of steps; the hub keeps
what it knows about a step in files below its state directory, runs most steps
in goroutines, and answers `gpupgrade status upgrade` from the files, from
process lists and from the agents. This project models that: how a step is run
and recorded, how the hub keeps its connections, how the master and the primaries
are converted, how clusters are stopped, what becomes of the clusters'
configurations, what the commands and the hub processes do to each other, and
whether the status that is shown is true.

Paths in this file are relative to the repository's root.

## Inventory

| Part | State | Operations | Interacts with |
|---|---|---|---|
| checklist directories (`hub/upgradestatus/checklist_manager.go`, `state_checker.go`) | a directory per step with the files `in.progress`, `failed`, `completed` | ResetStateDir, MarkInProgress, MarkFailed, MarkComplete, GetStatus | every checklist step writes, status upgrade reads, no lock |
| checklist steps (`hub/services/hub_check_config.go`, `hub_check_seginstall.go`, `hub_prepare_startagents.go`, `hub_upgrade_share_oids.go`, `hub_upgrade_validate_start_cluster.go`, `hub_upgrade_reconfigure_ports.go`, `hub/cluster_ssher`) | locals of a goroutine: the hosts left, anyFailed | one RPC each | ssh, rsync, gpstart, sed, the agents (ping) |
| agent connections (`hub/services/hub.go`) | `h.agentConns` | AgentConns, ensureConnsAreReady, closeConns | shared by all handlers, no lock |
| conversion of the primaries (`hub/services/hub_upgrade_convert_primaries.go`, `agent/services/convert_primary.go`) | a directory `seg-N` per primary, pg_upgrade processes | UpgradeConvertPrimaries, UpgradeConvertPrimarySegments | connections, OID files of share-oids |
| conversion of the master (`hub/services/hub_upgrade_convert_master.go`) | directory `pg_upgrade`, a process | UpgradeConvertMaster | configuration reader |
| conversion status (`hub_status_conversion.go`, `agent/services/conversion_status.go`, `hub/upgradestatus/pg_upgrade_status_checker.go`) | none of its own | StatusConversion, CheckConversionStatus, GetStatus | agents, pgrep, done files |
| shutdown of the clusters (`hub_prepare_shutdown_clusters.go`, `hub/cluster/cluster_pair.go`, `hub/upgradestatus/shutdown_clusters.go`) | the hub's one `Pair` and its two flags, directories `gpstop/gpstop.old` and `gpstop.new` | PrepareShutdownClusters, StopEverything, GetStatus | gpstop, pgrep, configuration |
| status upgrade (`hub_status_upgrade.go`) | none | StatusUpgrade | all of the above |
| cluster configuration (`hub/configutils`, `hub_prepare_init_cluster.go`) | two JSON files, the reader's cache and its latch | check-config and init-cluster write, Reader reads | everything that needs hosts, ports or directories |
| servers (`hub/gpupgrade_hub_main.go`, `agent/services/agent_server.go`) | server, listener, `stopped` channel | Start, Stop | |
| command line (`cli`) | the state directory, the hub process | DoInit, StartHub, VerifyConnectivity, one request per command | hub |
| checks (`hub_check_version.go`, `hub_check_object_count.go`, `hub_check_disk_space.go`) | none | queries | database, agents |
| messages (`idl`) | none; generated from two `.proto` files | the stub of the client, the handler of the server | command line, hub, agents |
| process list parser (`shellparsers`) | none | IsPgUpgradeRunning | ps |

What is hard here, and what would make each part correct:

* A step can be requested again while it runs, and its directory is changed by
  several system calls without a lock. *Correct:* the status can be read, is
  what really came of the latest attempt, and is never lost.
* The hub can die between any two calls and keeps nothing in memory. *Correct:*
  what is shown after a restart was true.
* Work is done host by host and some hosts fail. *Correct:* one failure is
  enough for FAILED, and COMPLETE covers every host.
* The cache of connections is filled by whichever handler comes first.
  *Correct:* one connection per host, to all hosts.
* A status is put together from reads that are spread out over agents, files
  and process lists. *Correct:* COMPLETE and FAILED are true of some moment.
* Goroutines wait for agents, channels and processes. *Correct:* every request
  ends.
* Commands are given from several terminals, and each starts, finds or loses a
  hub. *Correct:* one hub serves, an exit status of 0 is earned, every command
  ends.
* Files and readers that are initialised once are used for the life of the hub.
  *Correct:* they are not stale.

`PROJECT.json` lists these hazards one by one, each at its line, with the
properties that are about it.

## Modules

| Module | What it is |
|---|---|
| `Checklist` | data: a step directory, the file system calls on it, GetStatus |
| `StepRunner` | one checklist step, requests in goroutines on its directory |
| `StepLifecycle` | abstract: the life of the status of a step |
| `StepRunnerProofs` | type correctness and MarkersEarned, for all constants |
| `StepLifecycleProofs` | the true status, what may erase it, and the refinement, for all constants |
| `AgentConns` | the cache of connections and the agents behind it |
| `AgentConnsProofs` | what a call gets from the cache |
| `ConvertPrimaries` | conversions and status queries; extends `AgentConns`, whose steps are its steps |
| `ConvertPrimariesProofs` | that the conversion implements `AgentConns`, and that its replies and COMPLETE are true; extends `AgentConnsProofs` |
| `ShutdownClusters` | the Pair, gpstop and the status query; uses `Checklist` |
| `ShutdownClustersProofs` | COMPLETE, and what overlapping requests leave behind |
| `ClusterConfig` | the configuration files, the hub's reader, ports and pairs |
| `ClusterConfigProofs` | a written configuration stays readable, and what the handlers see of it |
| `Pgrep` | an algorithm: what the argument that is given to pgrep matches; used by `ConvertPrimaries` and `MasterUpgrade` |
| `MasterUpgrade` | the conversion of the master, pg_upgrade and ConvertMaster.GetStatus |
| `StatusUpgrade` | status upgrade: extends `MasterUpgrade`, uses `Checklist` |
| `StatusUpgradeProofs` | COMPLETE of the master, and the one error of status upgrade |
| `HubServer` | hub processes, their port and the calls to them |
| `HubChecks` | the handlers of the checks; extends `HubServer` |
| `CommandLine` | the commands; extends `HubChecks`, whose steps are its steps |
| `CommandLineProofs` | the exit status, the one hub, the one init and the checks |
| `MC...` | instances for TLC |

### StepRunner

Six steps share one protocol and differ in the work and in what they make of an
error; `step`, chosen in Init, says which one a behaviour follows. Steps have
directories of their own, so they do not meet in what is modelled here.
`run[r]` is the goroutine (or the handler, where the code runs the step in it)
of one request:

| pc | code |
|---|---|
| clear, rmdir | `os.RemoveAll` in ResetStateDir: unlink what is found, then remove the directory, which fails if a file has appeared |
| mkdir | `os.MkdirAll` |
| mark | OpenFile of `in.progress` |
| work | RemoteExec and VerifySoftware (seginstall), RemoteExec and PingPollAgents (start-agents), RsyncOids and ShareOidsDone (share-oids), SaveOldClusterConfig, StartNewCluster, SedAndMv (one command each) |
| unmark, create | Remove of `in.progress`, OpenFile of the result |

Each pc is one system call, so others run and the hub dies in between. Errors
follow the code: most steps log an error of ResetStateDir and go on with
MarkInProgress, `validate-start-cluster` returns, `remoteExec` returns true
without an ssh, which seginstall takes for a failure and start-agents ignores.
share-oids calls MarkFailed inside its loop and goes on: `AfterMark` returns to
the work, and a second MarkFailed fails because `in.progress` is gone.

`IOError` lets any of the calls fail; `HubRestart` removes the goroutines,
keeps directory and agents, and gives the pinger the clients of the
configuration. `outcome` and `history` are history variables: what really came
of the latest attempt and of all. `KnownHosts` and `ClientsAtStart` are what the
configuration reader returns and what the pinger found at start; step_ping_nobody
makes the second one empty.

### AgentConns

A connection is its host, `agentConns` is the slice, and the empty sequence is
nil. An append is two steps (load, store), so overlapping calls interleave as
the unsynchronised code may. `linked`, the readiness that gRPC reports, follows
`listening` with a delay. A pass of ensureConnsAreReady over the connections
is one step, and a connection breaks only because its agent has stopped.
`configured` says whether check-config has saved a configuration with hosts. The
first call that finds nil asks the reader for the hosts: it gets all of them, or
an empty list without an error from the bare configuration (`bare`), or the error
of a file that cannot be read.

### ConvertPrimaries

A caller is a handler of the hub that converts or asks for the status. A
conversion starts one goroutine per connection; each goes through the agent's
handler (glob for the OID files, then for each primary mkdir, one cp for each file
of the glob, start) and ends with an answer or an error in the channel. share-oids
is beside it and brings the files one by one, so that the glob may find some of
them. A status query asks the agents in turn; each looks at its segments one after
the other, by a stat, pgrep, the glob of the in-progress files, the glob of the done
files and the scan of the one that is taken for the newest, and StatusUpgrade folds
the answers by searching them for one word after the other. Which of several done
files is the newest is left open here; MasterUpgrade has that.

`seg[s]` is the directory of a primary with what runs in it. The agent only starts a
shell: a pg_upgrade is `fresh` until it has deleted the files of an earlier one
(DeleteOldFiles; the code states that it does in
`pg_upgrade_status_checker.go:31-35`), then writes, finishes or dies. Several may be
at work in one directory. `getDataDirPairs` gives every primary or an error.

### ShutdownClusters

A request writes the two flags of the one `Pair`, one after the other, and its
goroutine reads them when it comes to each cluster. The check behind a flag
(PostmasterRunning) may fail for a cluster that is up, which the code takes for a
cluster that is not running; `misjudged` is a history variable of the clusters to
which that has happened. A marker that cannot be
written ends stopCluster. The status query takes a step for the stat, for pgrep
and for each directory of each glob. `gpstops` are processes nobody waits for:
those of the administrator and those that survived a hub. A gpstop that
succeeds leaves its cluster down; one that fails may have stopped it or not.

### ClusterConfig

`file[k]` is the configuration file of the old or the new cluster: whether it
exists, the configuration at its beginning and its length. OpenConfig and
SaveQueryResultToJSON are the two calls of check-config and init-cluster on it;
there is no O_TRUNC between them, so the length never goes down, and a file is
`Readable` if its length is that of what was written last. Any of the calls may
fail (`SaveFails`), the last one after part of the text (`torn`: the file is no JSON
then; that two texts of one length might be spliced into a third that can be parsed
is left out), and the hub may die between them. `damaged` are the files that were
written over by a shorter text or in part. Init is what `prepare init`
leaves: an old configuration without segments.

`reader` is the hub's `configutils.Reader`: `initialized` is the latch, `at` the
file it is pointed to, `config` the cache. Every look at the cache is four
steps (Lookup tests it, Read reads the file, Assign writes the cache, Take
uses it), because the code does all of them under a *read* lock and handlers
overlap. `hosts` stands for the handlers that need host names, `master` for
getMasterPorts and `primaries` for getDataDirPairs, which look twice. A segment
carries the cluster it belongs to, which no code reads and PairedWithNew does.

### Pgrep, MasterUpgrade and StatusUpgrade

`Pgrep` takes names and the two alternatives of the regular expression as
sequences of words and blanks; what is matched is computed from them.

In `MasterUpgrade`, `upgrade[u]` is a request to convert the master (mkdir,
start) and then the pg_upgrade it has started, which nobody waits for. A
pg_upgrade deletes the files of an earlier one, makes `i.inprogress` for a stage
and turns it into `i.done`; the last says "Upgrade complete". It is external and
modelled from what the code assumes (`pg_upgrade_status_checker.go:31-35` and
`hub_upgrade_convert_master.go:20`). It may die at any moment, two stages may end
in one tick of the file system's clock, and the last line may lack its newline.
`query` is GetStatus, one system call at a time: stat, pgrep, the glob of the
in-progress files, the glob of the done files, a stat for each of them, and the
scan of the one that is taken for the latest. `owner` is a history variable: the
pg_upgrade that has had the directory to itself.

`StatusUpgrade` asks the ten steps in the code's order and builds the reply. The
directories of the checklist steps (`Active` are those that change) see the
calls of `Checklist` in any order, which includes every order that overlapping
requests of StepRunner make. What it would be told of the shutdown and of the
primaries is any status of `FromOthers`.

### HubServer, HubChecks and CommandLine

`hub[h]` is a hub process (none, boot, listening, serving, dead) and `port` who
has the port. A hub that does not get it ends. `call[p]` is the one call a
command line has: `Invoke` is the client's stub, `Dispatch` the server that finds
the handler by the name of the method (both external: gRPC and generated code, of
which only the names of the methods are taken), and a hub that dies ends its calls
in an error. `ByHand` are hubs that somebody
has started with arguments; `HowManyHubsRunning` does not count them, because
the pattern it gives to grep ends at the name.

`HubChecks` has the handlers whose only result is the reply. The connection to
the database, the list of databases and the counts of each are steps of their
own, and the database may go away between them. A count that fails ends the hub:
`hub_check_object_count.go:47` calls Error of an error that is nil. check-config
is here with what it does to the state directory (ClusterConfig has its file and
StepRunner its markers), and the methods with modules of their own (`Elsewhere`)
reply or fail.

`CommandLine` is the tree of commands with the method each one calls and the
flags it requires, a commander for each as a function from the reply to the exit
status and what is shown, and the steps of a command: start-hub
(count, start, ping), init (mkdir, open, write) and all others (call, wait). The
name of a command is written parent.child.

## Runs

| Run | Shows |
|---|---|
| step_sequential | one request at a time, no failing call, two restarts, three attempts: TypeOK, OneMarker, ReportIsTrue, RunningIsTrue, ResultKept, OnlyResetErases, the refinement of StepLifecycle, and Settles (a request that is accepted ends with a result on display) |
| step_overlap | overlapping requests, a failing call, a restart: MarkersEarned, and every goroutine ends |
| conns | calls that may overlap, two outages, a configuration that is bare at first: one connection per host until calls overlap, all hosts until then or until a dial fails, nobody to talk to only for a call that read the bare configuration (NobodyOnlyIfBare), and every call returns |
| convert_with_status | two conversions, a query and share-oids interleaved, an outage: pg_upgrade starts with the OID files in its directory, all of them if share-oids was through (OidsInPlace); a COMPLETE that can be trusted is true (TrustedAnswer) |
| convert_agents_fail | two hosts whose agents fail or stop: the reply is true (OkMeansStarted) and comes (ConvertAnswered) |
| config | two handlers, a cluster that changes, a write that fails part way, a restart: a configuration stays readable through failures (FailureKeepsConfig), a hub older than its configuration sees it when it comes, whatever is in its reader (FreshHubSeesConfig), the handlers of one life agree (OneViewPerLife) |
| status | two conversions of the master, a checklist step and one query after the other: COMPLETE is true (MasterCompleteIsTrue), a finished pg_upgrade is seen (FinishedIsSeen), only two markers make the reply an error (ErrorOnlyIfCrowded), and the reply comes (StatusAnswered) |
| commands | two command lines, three hub processes, one fault: exit status 0 is earned, one hub serves after start-hub, one init succeeds, the checks leave nothing out, every command ends |
| shutdown | two requests, a failing call, two restarts, an administrator, a query: CompleteMeansStopped, NoneForgotten, NoneLeftInProgress |

The other runs are meant to be violated: each states what a document, a comment
or a test of the repository says, and TLC shows a behaviour of the code that
does otherwise (`findings` in `PROJECT.json` quotes the lines).

| Run | The behaviour |
|---|---|
| step_ping_nobody | start-agents is COMPLETE with no agent, on a hub older than its configuration |
| status_running | pg_upgrade runs and is shown as FAILED: what is given to pgrep matches no process |
| config_latch | the primaries of the old cluster are paired with themselves, since the reader stays at the old file |

Other limits of the code are visible in the conditions under which a property
holds:

* RunningIsTrue and ResultKept need file system calls that work: the handlers drop
  or log the errors of the marker calls, and one that fails at the removal of
  `in.progress` leaves RUNNING on display at rest. MarkersEarned, with failing
  calls, says no more than that no result is invented.
* OneMarker, ReportIsTrue and ResultKept need requests that do not overlap. Two
  requests for a step leave two markers, a status that is an error and that
  StatusUpgrade drops; or COMPLETE stays although the later attempt failed.
* StepLifecycle has the step Retract: between RUNNING and the result a reader is
  told PENDING.
* With `KnownHosts` empty share-oids is COMPLETE and has shared nothing.
* OneConnPerHost needs calls that do not overlap: two first calls both dial.
* AllHostsConnected needs dials that succeed: after one that failed, the next
  conversion finds the connections made before it, leaves the other hosts out
  and replies without an error. OkMeansStarted is about the hosts with a
  connection.
* NobodyOnlyIfBare: before check-config the list of hosts is empty and is no error;
  a conversion then asks nobody and replies without an error.
* OidsInPlace: one OID file is enough for the agent. A conversion during share-oids
  starts pg_upgrade with the files that are there.
* TrustedAnswer is about COMPLETE of a query that begins after a conversion that
  asked all hosts, when its pg_upgrades have deleted the files of earlier ones and
  none of an earlier request is left. Before that a pg_upgrade that was just started
  is COMPLETE by the files of the one before it, and one COMPLETE among the
  answers makes the step COMPLETE beside primaries that are PENDING; FAILED
  is shown of every pg_upgrade that runs (status_running) and of a directory
  whose pg_upgrade has not begun.
* MasterCompleteIsTrue means the right pg_upgrade only where one has the
  directory to itself. MkdirAll does not ensure the "pristine directory" of
  `hub_upgrade_convert_master.go:41`: a second pg_upgrade may start beside one
  that runs.
* FinishedIsSeen leaves out last files that are no newer than the others, and
  last lines without a newline: both are FAILED.
* ErrorOnlyIfCrowded: one step with two markers fails the status of all, since
  its error is dropped and the reply has a nil in it.
* init-cluster is COMPLETE from the opening of its file on, also if the query
  after it fails.
* ExitZeroIsEarned leaves out shutdown-clusters, which exits with 0 whatever
  happens; check version exits with 0 also for a version that is not compatible.
* InitOnce is about the first init. No init succeeds after a step of a hub has
  made the state directory, or after one that was killed behind its mkdir; and
  a check config between the opening and the writing of the file leaves a file
  that holds two texts (`mixed` in `file`).
* ChecksAreComplete allows a disk check that shows no host: with the bare
  configuration of init there is none.
* StartedHubServes ends with the death of a hub, and a hub dies of one failed
  count. A hub by hand is not counted: start-hub then starts one that dies at
  once, pings the other and exits with 0.
* FailureKeepsConfig and FreshHubSeesConfig leave out a file into which a shorter
  configuration was written: it cannot be parsed, although check-config was
  COMPLETE. So is one into which a write has put part of its text.
* OneViewPerLife leaves out the lives in which two handlers looked into the reader at
  once (`mixed`): one that has read the bare or an older configuration may put it
  back over the other's. FreshHubSeesConfig leaves out only the handlers to which
  that happens (`crossed`); the next one reads the file again.
* NoneForgotten leaves out clusters that a check has taken for stopped while they ran:
  the error of the check command clears the flag that an earlier request has set,
  and its goroutine passes the cluster over.
* A `Pair` that was read before the configurations were written (`known` is
  FALSE) finds no postmaster and stops nothing. FAILED is also shown by
  ShutDownClusters.GetStatus between the steps of a shutdown that goes well,
  and for good if only one cluster was running and has been stopped: COMPLETE
  needs two completed files.

**Bounds.** `MaxAttempts`, `MaxFaults`, `MaxCrashes`, `MaxOutages`,
`MaxConverts`, `MaxProcs`, `MaxOthers`, `MaxQueries`, `MaxWrites`, `MaxReads` and
`MaxChanges` bound how often something happens.
Two goroutines are enough for every race on a directory or a slice, since each
race is between two of them; three attempts let one be fresh after two that
overlapped. Two hosts are a host that fails and one that does not, in either
order. convert_with_status has one host with two primaries and two OID files, which
are alike (symmetry), two conversions and two pg_upgrades at work in a directory: an
earlier and a later one, or both at once; what it asks is about a host's directories,
and the query that goes on to a second host is in the proof. convert_agents_fail has
two hosts and one conversion; no pg_upgrade gets beyond its start there (`MaxProcs`
0), since the reply does not depend on it. `PingTries` and `Passes` are 2 or 3
where the code says 10 and 3: what matters is that there is a pass that is not
the last. Two restarts let the hub die in the attempt that follows a crash.
A hub of ShutdownClusters that begins without configurations
needs the first of its two to learn of them. Two writes, of configurations
with one and with two primaries in either order, are a file that grows or
shrinks, or the old and the new one; three reads are a look before and one after a
write, or two that overlap and one that follows. In the status run two requests are an earlier
pg_upgrade and a later one, or two at once; three `Stages` are a first, a middle
and a last file, and `MaxTime` 2 lets files be of one time or of two. `Together`
is FALSE there: checklist steps and conversions change in different behaviours,
since no property relates them; `FromOthers` is one status, because nothing
depends on which. In the commands run `Names` has one command for each kind of
commander and handler, `Attempts` is 1 where the code says 100 (one ping and one
retry), and three hubs are one for each of the two command lines and one by
hand. ShutdownClusters uses the symmetry of its runners and ClusterConfig that of its
callers; no temporal property is checked with a symmetry.

**Deadlock** is checked in all runs; `Quiescent` is the state in which nobody
asks for anything, or all commands have ended.

**Fairness.** Weak fairness of the steps of each goroutine: the Go scheduler
runs what can run, and ssh, rsync, gpstart, gpstop, the database and the file
system answer in the end (the code has no timeout around them). Nothing is
assumed of requests, of agents coming back, of the network or of pg_upgrade. A
dial has a timeout in the code, and so `DialTimeout` is a step of the call.
CommandLine has it for the steps of each command that has begun, of each handler
and of each hub that starts; StatusUpgrade for the request alone: whatever the
steps and pg_upgrade do, or leave undone, the reply comes.

## Proofs

Every safety property that a passing run checks is also a theorem, proved by
TLAPS for every value of the constants: runners, callers, command lines, hubs,
hosts, segments, databases and all bounds are arbitrary, also in number. What is
assumed of the constants is in the ASSUMEs of the modules (there is a host;
segments are on hosts; the runners of ShutdownClusters are a finite set, since
a process count is kept of them; there is a stage, and a tick of the clock after
the first). Where a theorem needs more it says so: the theorems about the truth
of a step's status assume that the hub knows every host (`KnownHosts = Hosts`,
`ClientsAtStart = Hosts`), and those of StepLifecycleProofs also that requests do
not overlap and that no file system call fails. The list of limits above shows
what happens without.

No property is inductive as it stands. Each module has its inductive invariant
at its end, in named parts; TLC has checked it on the constants of the module's
run before it was proved. A proof has a lemma for what the steps of one actor
have in common (the record of the actor changes, all others stay), then one lemma
for each action or group of actions, and one theorem for each property.

**StepRunner** (`StepRunnerProofs`)

* `TypeCorrect`, `MarkersAreEarned`: MarkersEarned with overlap, failing calls
  and restarts. The truth is decided long before the marker is written, so
  `EarnedInv` adds `Promise` (a runner about to write a marker has such an
  outcome in the history) and `Accounts` (the hosts a loop has left and has
  reached are all hosts, exactly if anyFailed is false), which says that the
  code's verdict is the truth when the loop ends.

**StepRunner against StepLifecycle** (`StepLifecycleProofs`)

* `ReportsAreTrue`, `StatusCanBeTold`, `RunningIsNow`, `ResultsAreKept`:
  ReportIsTrue, OneMarker, RunningIsTrue and ResultKept. `SequentialInv` adds
  what is in the directory at each pc (`InOrder`), what it can hold at all
  (`DirInOrder`), what it holds at rest (`RestInOrder`), and that there is one
  runner. share-oids needs a case of its own, `FailureMarked`: its loop goes on
  after it has exchanged the markers.
* `ResultsAreFinal`: the action property OnlyResetErases, from the same invariant.
* `RunnerImplementsLifecycle`: every step of StepRunner is a step of
  StepLifecycle or a stutter, from the same invariant.

**AgentConns** (`AgentConnsProofs`)

* `ConnTypeCorrect`, `NobodyOnlyFromBare` (NobodyOnlyIfBare), `NoHostTwice`
  (OneConnPerHost), `EveryHostAsked` (AllHostsConnected), from `ConnInv`.
  `SliceInUse` carries NobodyOnlyIfBare: a call that is past the test for nil works on
  a slice that is not nil again, with any overlap. The other two rest on
  `Accounts`: until calls overlap, the slice and what the dialing call has still
  to append are disjoint and together all hosts, and the slice it has loaded is
  the one that is there.

**ConvertPrimaries** (`ConvertPrimariesProofs`)

* `ConvertImplementsConns`: Spec => ConnSpec. The requests use the cache only
  through the steps of AgentConns, so the theorems above hold here, and ConnInv
  is part of the invariant.
* `OidsAlwaysInPlace` (OidsInPlace), `OkIsEarned` (OkMeansStarted): `HandlerInv`
  follows each goroutine: every primary of its host is started, under way or still to
  come until the agent has answered, the files of the glob are in the directory at
  hand or still to be copied, and an error it has met is counted when it is done.
* `CompleteCanBeTrusted` (TrustedAnswer): `ToldTrue` says that what a query was
  told of a primary stays true until it has asked the last host, because (`Calm`) no
  conversion is under way; `LookedAt`, that every primary was told of, is the one at
  hand or is still to come. `allStarted`, which a query has to find set to be
  trusted, is therefore set by a conversion that has no other beside it.

**ClusterConfig** (`ClusterConfigProofs`)

* `ConfigTypeCorrect`; `ConfigKept` (FailureKeepsConfig): `KeptInv` adds
  `FromDatabase`: what a handler is about to write is an answer of a database,
  and so has a segment and a length. The proof rests on the steps that do *not*
  happen: opening changes neither text nor length, and a writing that comes to its
  end replaces both at once.
* `OneView`, `FreshHubSees`, from `LookInv`: the reader
  stays at the file it was first pointed to (which is what config_latch shows,
  and here is proved of every behaviour); a handler that nobody has crossed looks
  alone (`LooksAlone`) and, if it asks after check-config, has segments in its hands
  at each point (`SeesConfig`); while all look alone, the cache is written only by one
  that has found it empty (`NothingThere`).

**ShutdownClusters** (`ShutdownClustersProofs`)

* `ShutdownTypeCorrect`; `CompleteIsTrue` (CompleteMeansStopped): `StoppedInv`
  adds that a completed marker, written or about to be, is about a cluster that
  is down and stays so (`MarkersTrue`), and that what a query has counted is
  still true when it comes to the second directory (`CountTrue`).
* `NobodyForgets`, `NothingLeftRunning`: `OwedInv` says that, while no call fails
  and no request dies, every cluster that was found running, and never misjudged, is
  down, has a failed marker or is *owed* one by a request that nobody can keep from it (`Owes`), and
  that every in.progress has a request between it and its removal (`Attends`).
  Overlapping requests take away each other's files; the proof shows that the one
  who does so owes the cluster itself.

**MasterUpgrade and StatusUpgrade** (`StatusUpgradeProofs`)

* `StatusTypeCorrect`; `MasterCompleteCanBeTrusted` (MasterCompleteIsTrue):
  `FilesInv` relates the files to the pg_upgrade that has the directory to itself
  (`OwnsFiles`: the last file is there exactly if that one has finished).
* `FinishedIsFound` (FinishedIsSeen): `OnTrack` is the loop invariant of the
  search for the latest file: the last stage's file is the candidate, or still in
  the list.
* `ErrorsAreCrowds` (ErrorOnlyIfCrowded): `CrowdedInv`, a request knows of every
  directory that has had two markers since it began.

**HubServer, HubChecks and CommandLine** (`CommandLineProofs`)

All from `CommandLineInv`, with any number of command lines, hubs and faults.

* `CommandTypeCorrect`; `SuccessIsEarned` (ExitZeroIsEarned): `CommandInv` relates
  a command line to its one call; `CommanderSays` is the lemma about all the
  commanders.
* `OneHubServes` (StartedHubServes): `PortInv` (whoever listens or serves has the
  port, a handler that has begun is one of a hub that serves), and some hub serves
  once a handler has replied, until one dies.
* `OneInitSucceeds` (InitOnce): `FileInv`, of the inits behind their mkdir there is
  one at most, and nothing takes the directory or the file away.
* `ChecksLeaveNothingOut` (ChecksAreComplete): `CountsInv` and `DiskInv`, the loop
  invariants of the two handlers: what has a line and what is still to do are
  together what was listed.

**Left to TLC:** liveness (Settles, EveryRequestEnds, CallsReturn,
ConvertAnswered, StatusAnswered, EveryCommandEnds), which the prover cannot do
under fairness; and what `Pgrep` computes from sequences, which would need
induction over data. The proofs use of `Pgrep` no more than that the answer is
one of two.

## Not modelled

* The other readers of the configuration: the `Pair` and the pinger read it once
  at start (`known` and `ClientsAtStart` are what they found). ConvertPrimaries
  and ClusterConfig are not composed: in the first, the pairing gives every
  primary or an error, by the model's choice, and AgentConns has the configuration as its hosts or none.
* Stop of the servers and closeConns: main calls Stop after Start, and Start does
  not return in the binaries, so that their lock and channel meet no other
  caller outside of the tests.
* The process list parser and the agent's CheckUpgradeStatus, which no request
  reaches outside of the tests.
* Whether pgrep finds gpstop: in ShutdownClusters it answers the question that
  the code puts to it. `Pgrep` is about pg_upgrade.
* `GPUPGRADE_HUB_PORT`, which the command line honours and the hub does not: in
  CommandLine both use the one port.
* What the database library does where the version of the database cannot be
  read: its source is not in the repository. A hub that is killed covers its
  death.
* Network faults between a hub and an agent that both live.
* Data races are interleavings of loads and stores; nothing is said of torn
  values.
* The text of messages, logs and commands; database queries; the generated code of
  `idl`, of which HubServer has the names of the methods from the `.proto` file.

## Plan

1. The composition of ConvertPrimaries and ClusterConfig: the pairing that a
   conversion gets is what the reader gives it, and OkMeansStarted then speaks of
   the primaries of the configuration.
2. Proofs about that composition; the shutdown against an abstract life of its
   status, as StepLifecycle is for the steps.
