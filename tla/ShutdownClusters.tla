-------------------------- MODULE ShutdownClusters --------------------------
(***************************************************************************)
(* `prepare shutdown-clusters': the handler asks whether the postmasters   *)
(* run and stores the answers in the hub's one cluster.Pair; a goroutine   *)
(* reads them there, later, and runs gpstop for one cluster after the      *)
(* other, with markers in gpstop/gpstop.old and gpstop/gpstop.new.  The    *)
(* status is made of what pgrep and three globs find, read one after the   *)
(* other while the goroutines go on.                                       *)
(***************************************************************************)
EXTENDS Naturals, Checklist, FiniteSetsExt

CONSTANTS
  Runners,      \* requests, each with its handler and goroutine
  InitiallyUp,  \* the clusters whose postmaster runs in the beginning
  ConfigFirst,  \* were the configurations there when the hub started?
  MaxAttempts,  \* bound on requests
  MaxFaults,    \* bound on failing file system calls
  MaxCrashes,   \* bound on hub restarts
  MaxOthers,    \* bound on what is done to the clusters by other means
  MaxQueries    \* bound on status queries

Clusters == {"old", "new"}

ASSUME ShutdownAssumption ==
  /\ InitiallyUp \subseteq Clusters /\ ConfigFirst \in BOOLEAN
  /\ {MaxAttempts, MaxFaults, MaxCrashes, MaxOthers, MaxQueries} \subseteq Nat
  /\ IsFiniteSet(Runners)

VARIABLES
  up,          \* clusters whose postmaster runs
  configured,  \* are both configuration files there?
  known,       \* does the Pair have the data directories?
  flag,        \* the clusters the Pair takes to be running
  base,        \* does the gpstop directory exist?
  dir,         \* dir[c]: the step directory of cluster c in it
  run,         \* run[r]: the control state of request r
  gpstops,     \* gpstops[c]: gpstop processes that no goroutine waits for
  reader,      \* a status query
  found,       \* history: clusters that a request has found running
  misjudged,   \* history: clusters that a request took for stopped though they ran
  died,        \* history: has the hub died while a request ran?
  restarted,   \* history: clusters that were started again
  attempts, faults, crashes, others, queries

world == <<up, configured, gpstops, restarted>>
pair == <<known, flag>>
files == <<base, dir>>
ghosts == <<found, died, misjudged>>
bounds == <<attempts, faults, crashes, others, queries>>
vars == <<world, pair, files, run, reader, ghosts, bounds>>

PC == {"idle", "checkold", "checknew", "either", "readflag", "clear", "rmdir",
       "mkdir", "mark", "gpstop", "wait", "unmark", "create"}

Run == [pc : PC, cur : Clusters, verdict : {"completed", "failed"}]

Idle == [pc |-> "idle", cur |-> "old", verdict |-> "failed"]

AllIdle == \A r \in Runners : run[r].pc = "idle"

Becomes(r, state) == run' = [run EXCEPT ![r] = state]

Goto(r, pc) == Becomes(r, [run[r] EXCEPT !.pc = pc])

Query == [pc : {"idle", "pgrep", "glob", "globagain", "count"}, at : Clusters,
          hits : 0..2, reply : Status \cup {"none"}]

NoQuery == [pc |-> "idle", at |-> "new", hits |-> 0, reply |-> "none"]

Init ==
  /\ up = InitiallyUp /\ configured = ConfigFirst /\ known = ConfigFirst
  /\ flag = {} /\ base = FALSE /\ dir = [c \in Clusters |-> Absent]
  /\ run = [r \in Runners |-> Idle] /\ gpstops = [c \in Clusters |-> 0]
  /\ reader = NoQuery
  /\ found = {} /\ died = FALSE /\ misjudged = {} /\ restarted = {}
  /\ attempts = 0 /\ faults = 0 /\ crashes = 0 /\ others = 0 /\ queries = 0

---------------------------------------------------------------------------
(* Hub.PrepareShutdownClusters and Pair.EitherPostmasterRunning.           *)

PrepareShutdownClusters(r) ==
  /\ run[r].pc = "idle" /\ attempts < MaxAttempts
  /\ Goto(r, "checkold") /\ attempts' = attempts + 1
  /\ UNCHANGED <<world, pair, files, reader, ghosts, faults, crashes, others, queries>>

\* Without a data directory, pgrep is given a pid file that does not exist.
CanTell(c) == known /\ c \in up

\* pgrep is asked; every error, of pgrep or of running it, means "not running".
PostmasterRunning(r, c, next) ==
  /\ \/ /\ CanTell(c)
        /\ flag' = flag \cup {c} /\ found' = found \cup {c} /\ UNCHANGED misjudged
     \/ /\ flag' = flag \ {c} /\ UNCHANGED found
        /\ misjudged' = IF CanTell(c) THEN misjudged \cup {c} ELSE misjudged
  /\ Goto(r, next)
  /\ UNCHANGED <<world, known, files, reader, died, bounds>>

CheckOld(r) == run[r].pc = "checkold" /\ PostmasterRunning(r, "old", "checknew")

CheckNew(r) == run[r].pc = "checknew" /\ PostmasterRunning(r, "new", "either")

\* The goroutine is started, or there is nothing to do.
EitherPostmasterRunning(r) ==
  /\ run[r].pc = "either"
  /\ \/ flag # {} /\ Becomes(r, [run[r] EXCEPT !.pc = "readflag", !.cur = "old"])
     \/ flag = {} /\ Becomes(r, Idle)
  /\ UNCHANGED <<world, pair, files, reader, ghosts, bounds>>

---------------------------------------------------------------------------
(* Pair.StopEverything: stopCluster for the old cluster, then for the new. *)

NextCluster(r) ==
  Becomes(r, IF run[r].cur = "old"
             THEN [run[r] EXCEPT !.pc = "readflag", !.cur = "new"] ELSE Idle)

\* A mutated StopEverything: the new cluster is looked at only if the old one
\* did not run.
StopEitherOne(r) ==
  /\ run[r].pc = "readflag"
  /\ \/ run[r].cur \in flag /\ (run[r].cur = "new" => "old" \notin flag) /\ Goto(r, "clear")
     \/ ~(run[r].cur \in flag /\ (run[r].cur = "new" => "old" \notin flag)) /\ NextCluster(r)
  /\ UNCHANGED <<world, pair, files, reader, ghosts, bounds>>

\* The flags are read when their turn comes; another request may have
\* written them meanwhile.
StopEverything(r) ==
  /\ run[r].pc = "readflag"
  /\ \/ run[r].cur \in flag /\ Goto(r, "clear")
     \/ run[r].cur \notin flag /\ NextCluster(r)
  /\ UNCHANGED <<world, pair, files, reader, ghosts, bounds>>

SetDir(r, value) == dir' = [dir EXCEPT ![run[r].cur] = value]

\* ResetStateDir, its error ignored.
RemoveAllFiles(r) ==
  /\ run[r].pc = "clear" /\ Goto(r, "rmdir")
  /\ SetDir(r, Unlinked(dir[run[r].cur]))
  /\ UNCHANGED <<world, pair, base, reader, ghosts, bounds>>

RemoveDir(r) ==
  /\ run[r].pc = "rmdir"
  /\ \/ CanRmdir(dir[run[r].cur]) /\ SetDir(r, Absent) /\ Goto(r, "mkdir")
     \/ ~CanRmdir(dir[run[r].cur]) /\ dir' = dir /\ Goto(r, "mark")
  /\ UNCHANGED <<world, pair, base, reader, ghosts, bounds>>

\* A mutated MakeDir: the checklist manager is given another parent directory.
WrongParent(r) ==
  /\ run[r].pc = "mkdir" /\ Goto(r, "mark")
  /\ base' = base /\ SetDir(r, MkdirAll(dir[run[r].cur]))
  /\ UNCHANGED <<world, pair, reader, ghosts, bounds>>

MakeDir(r) ==
  /\ run[r].pc = "mkdir" /\ Goto(r, "mark")
  /\ base' = TRUE /\ SetDir(r, MkdirAll(dir[run[r].cur]))
  /\ UNCHANGED <<world, pair, reader, ghosts, bounds>>

\* A marker that cannot be written ends stopCluster before gpstop.
MarkInProgress(r) ==
  /\ run[r].pc = "mark"
  /\ \/ /\ CanOpen(dir[run[r].cur]) /\ Goto(r, "gpstop")
        /\ SetDir(r, Opened(dir[run[r].cur], "in.progress"))
     \/ ~CanOpen(dir[run[r].cur]) /\ dir' = dir /\ NextCluster(r)
  /\ UNCHANGED <<world, pair, base, reader, ghosts, bounds>>

StartGpstop(r) ==
  /\ run[r].pc = "gpstop" /\ Goto(r, "wait")
  /\ UNCHANGED <<world, pair, files, reader, ghosts, bounds>>

\* gpstop succeeds only if the cluster is down then; it may fail either way.
GpstopEnds(r) ==
  /\ run[r].pc = "wait"
  /\ \E ok \in BOOLEAN :
       /\ Becomes(r, [run[r] EXCEPT
            !.pc = "unmark", !.verdict = IF ok THEN "completed" ELSE "failed"])
       /\ up' \in (IF ok THEN {up \ {run[r].cur}} ELSE {up, up \ {run[r].cur}})
  /\ UNCHANGED <<configured, gpstops, restarted, pair, files, reader, ghosts, bounds>>

\* A mutated RemoveInProgress: the verdict is written without removing it.
KeepInProgress(r) ==
  /\ run[r].pc = "unmark" /\ Goto(r, "create")
  /\ UNCHANGED <<world, pair, files, reader, ghosts, bounds>>

\* MarkComplete or MarkFailed, the error ignored.
RemoveInProgress(r) ==
  /\ run[r].pc = "unmark"
  /\ \/ CanUnmark(dir[run[r].cur]) /\ SetDir(r, Unmarked(dir[run[r].cur])) /\ Goto(r, "create")
     \/ ~CanUnmark(dir[run[r].cur]) /\ dir' = dir /\ NextCluster(r)
  /\ UNCHANGED <<world, pair, base, reader, ghosts, bounds>>

CreateVerdict(r) ==
  /\ run[r].pc = "create" /\ NextCluster(r)
  /\ \/ CanOpen(dir[run[r].cur]) /\ SetDir(r, Opened(dir[run[r].cur], run[r].verdict))
     \/ ~CanOpen(dir[run[r].cur]) /\ dir' = dir
  /\ UNCHANGED <<world, pair, base, reader, ghosts, bounds>>

---------------------------------------------------------------------------
(* ShutDownClusters.GetStatus, as seen by one query after the other.       *)

Reads(state) ==
  /\ reader' = state
  /\ UNCHANGED <<world, pair, files, run, ghosts, attempts, faults, crashes, others>>

Answer(status) ==
  Reads([NoQuery EXCEPT !.reply = status]) /\ UNCHANGED queries

Stat ==
  /\ reader.pc = "idle" /\ queries < MaxQueries /\ queries' = queries + 1
  /\ \/ ~base /\ Reads([NoQuery EXCEPT !.reply = "PENDING"])
     \/ base /\ Reads([NoQuery EXCEPT !.pc = "pgrep"])

\* pgrep finds every gpstop on the host, whoever started it.
GpstopRuns ==
  (\E r \in Runners : run[r].pc = "wait") \/ (\E c \in Clusters : gpstops[c] > 0)

IsGpstopRunning ==
  /\ reader.pc = "pgrep"
  /\ Reads([reader EXCEPT !.pc = IF GpstopRuns THEN "glob" ELSE "globagain"])
  /\ UNCHANGED queries

\* One directory of a glob for in.progress: gpstop.new comes before
\* gpstop.old.  RUNNING needs a file here, COMPLETE none in the second glob.
InProgressFilesExist ==
  /\ reader.pc \in {"glob", "globagain"}
  /\ LET hit == "in.progress" \in dir[reader.at].files
     IN \/ hit /\ reader.pc = "glob" /\ Answer("RUNNING")
        \/ hit /\ reader.pc = "globagain" /\ Answer("FAILED")
        \/ /\ ~hit /\ reader.at = "new" /\ UNCHANGED queries
           /\ Reads([reader EXCEPT !.at = "old"])
        \/ /\ ~hit /\ reader.at = "old" /\ UNCHANGED queries
           /\ Reads([reader EXCEPT !.at = "new",
                !.pc = IF reader.pc = "glob" THEN "globagain" ELSE "count"])

\* A mutated IsStopComplete: any completed file will do.
AnyCompleted ==
  LET n == reader.hits + (IF "completed" \in dir[reader.at].files THEN 1 ELSE 0) IN
  /\ reader.pc = "count"
  /\ \/ /\ reader.at = "new" /\ UNCHANGED queries
        /\ Reads([reader EXCEPT !.at = "old", !.hits = n])
     \/ reader.at = "old" /\ Answer(IF n > 0 THEN "COMPLETE" ELSE "FAILED")

\* The completed files are counted; there have to be two.
IsStopComplete ==
  LET n == reader.hits + (IF "completed" \in dir[reader.at].files THEN 1 ELSE 0) IN
  /\ reader.pc = "count"
  /\ \/ /\ reader.at = "new" /\ UNCHANGED queries
        /\ Reads([reader EXCEPT !.at = "old", !.hits = n])
     \/ reader.at = "old" /\ Answer(IF n = 2 THEN "COMPLETE" ELSE "FAILED")

---------------------------------------------------------------------------
(* What the environment does.                                              *)

\* A file system call fails; one that works on several files may have done
\* some of its work.
IOError(r) ==
  /\ faults < MaxFaults /\ faults' = faults + 1
  /\ \/ /\ run[r].pc = "clear" /\ Goto(r, "mark") /\ base' = base
        /\ \E left \in SUBSET dir[run[r].cur].files :
             SetDir(r, [dir[run[r].cur] EXCEPT !.files = left])
     \/ run[r].pc = "rmdir" /\ Goto(r, "mark") /\ UNCHANGED files
     \/ run[r].pc = "mkdir" /\ Goto(r, "mark") /\ base' \in {base, TRUE} /\ dir' = dir
     \/ run[r].pc \in {"mark", "unmark", "create"} /\ NextCluster(r) /\ UNCHANGED files
  /\ UNCHANGED <<world, pair, reader, ghosts, attempts, crashes, others, queries>>

\* check-config and init-cluster write the configurations.
ConfigsWritten ==
  /\ ~configured /\ configured' = TRUE
  /\ UNCHANGED <<up, gpstops, restarted, pair, files, run, reader, ghosts, bounds>>

\* The hub is started again: the goroutines are gone and with them the
\* query, a gpstop that runs goes on, and the Pair is read anew.
HubRestart ==
  /\ crashes < MaxCrashes /\ crashes' = crashes + 1
  /\ known' = configured /\ flag' = {}
  /\ gpstops' = [c \in Clusters |->
       gpstops[c] + Quantify(Runners, LAMBDA r : run[r].pc = "wait" /\ run[r].cur = c)]
  /\ run' = [r \in Runners |-> Idle] /\ reader' = NoQuery
  /\ died' = (died \/ ~AllIdle)
  /\ UNCHANGED <<up, configured, restarted, files, found, misjudged, attempts, faults, others, queries>>

OtherGpstopEnds(c) ==
  /\ gpstops[c] > 0 /\ gpstops' = [gpstops EXCEPT ![c] = @ - 1]
  /\ up' \in {up, up \ {c}}
  /\ UNCHANGED <<configured, restarted, pair, files, run, reader, ghosts, bounds>>

\* The administrator runs gpstop or gpstart.
Administrator(c) ==
  /\ others < MaxOthers /\ others' = others + 1
  /\ \/ gpstops' = [gpstops EXCEPT ![c] = @ + 1] /\ UNCHANGED <<up, restarted>>
     \/ c \notin up /\ up' = up \cup {c} /\ restarted' = restarted \cup {c} /\ UNCHANGED gpstops
  /\ UNCHANGED <<configured, pair, files, run, reader, ghosts, attempts, faults, crashes, queries>>

\* Nothing runs and nobody asks: the only way to rest.
Quiescent == AllIdle /\ reader.pc = "idle" /\ UNCHANGED vars

---------------------------------------------------------------------------
RunnerStep(r) ==
  \/ CheckOld(r) \/ CheckNew(r) \/ EitherPostmasterRunning(r) \/ StopEverything(r)
  \/ RemoveAllFiles(r) \/ RemoveDir(r) \/ MakeDir(r) \/ MarkInProgress(r)
  \/ StartGpstop(r) \/ GpstopEnds(r) \/ RemoveInProgress(r) \/ CreateVerdict(r)

GetStatusStep == IsGpstopRunning \/ InProgressFilesExist \/ IsStopComplete

Next ==
  \/ \E r \in Runners : PrepareShutdownClusters(r) \/ RunnerStep(r) \/ IOError(r)
  \/ Stat \/ GetStatusStep
  \/ ConfigsWritten \/ HubRestart
  \/ \E c \in Clusters : OtherGpstopEnds(c) \/ Administrator(c)
  \/ Quiescent

Spec == Init /\ [][Next]_vars

---------------------------------------------------------------------------
TypeOK ==
  /\ up \subseteq Clusters /\ flag \subseteq Clusters /\ {configured, known, base} \subseteq BOOLEAN
  /\ dir \in [Clusters -> StepDir]
  /\ (\E c \in Clusters : dir[c].exists) => base
  /\ run \in [Runners -> Run] /\ gpstops \in [Clusters -> Nat]
  /\ reader \in Query
  /\ {found, misjudged, restarted} \subseteq SUBSET Clusters
  /\ died \in BOOLEAN /\ faults \in Nat

\* A query that answers COMPLETE is right that both clusters were stopped: one
\* that is up now was started again.  Whatever requests overlap, calls fail,
\* the hub dies, and however the reads of the query are spread out.
CompleteMeansStopped ==
  reader.reply = "COMPLETE" => up \subseteq restarted

\* Unless a file system call has failed or the hub has died on a request, no
\* request forgets a cluster that one has found running and no other has taken
\* for stopped while it ran (for which an error of pgrep is enough), although
\* they all write the same flags: once all are done it is down, or its failure
\* is there to read.
NoneForgotten ==
  AllIdle /\ faults = 0 /\ ~died =>
    \A c \in found \ (restarted \cup misjudged) : c \notin up \/ "failed" \in dir[c].files

\* However requests overlap, and under the same conditions, none leaves
\* in.progress behind: the status is never stuck in RUNNING for a gpstop that
\* somebody else runs.
NoneLeftInProgress ==
  AllIdle /\ faults = 0 /\ ~died =>
    \A c \in Clusters : "in.progress" \notin dir[c].files

---------------------------------------------------------------------------
(* Inductive invariants for the proofs.                                    *)

\* Once a cluster is down it stays down, unless the administrator starts it.
Down(c) == c \notin up \/ c \in restarted

\* A completed marker, or one about to be written, is about a cluster that is
\* down; markers are in a directory that exists.
MarkersTrue ==
  /\ \A c \in Clusters : "completed" \in dir[c].files => Down(c)
  /\ \A c \in Clusters : dir[c].files # {} => dir[c].exists
  /\ \A r \in Runners :
       run[r].pc \in {"unmark", "create"} /\ run[r].verdict = "completed" => Down(run[r].cur)

\* What a query has counted is true, although it was counted a while ago.
CountTrue ==
  /\ reader.hits # 0 =>
       reader.pc = "count" /\ reader.at = "old" /\ reader.hits = 1 /\ Down("new")
  /\ reader.reply = "COMPLETE" => \A c \in Clusters : Down(c)

StoppedInv == TypeOK /\ MarkersTrue /\ CountTrue

\* Whoever has looked at a cluster that runs finds its flag set, by that look or
\* by one since then, unless one of them was mistaken.
PastCheck(r, c) ==
  run[r].pc \notin {"idle", "checkold"} /\ (c = "new" => run[r].pc # "checknew")

FlagsTrue ==
  /\ found # {} => known
  /\ known => configured
  /\ \A r \in Runners, c \in Clusters : PastCheck(r, c) /\ known /\ ~Down(c) => c \in flag \cup misjudged

\* The request has still to look at the cluster, or is on the way to a marker
\* for it and nobody has taken away what it needs for that.
Owes(r, c) ==
  \/ run[r].pc \in {"checkold", "checknew", "either"}
  \/ run[r].pc # "idle" /\ run[r].cur = "old" /\ c = "new"
  \/ /\ run[r].cur = c
     /\ \/ run[r].pc \in {"readflag", "clear", "rmdir", "mkdir"}
        \/ run[r].pc = "mark" /\ dir[c].exists
        \/ run[r].pc \in {"gpstop", "wait"} /\ "in.progress" \in dir[c].files
        \/ run[r].pc = "unmark" /\ run[r].verdict = "failed" /\ "in.progress" \in dir[c].files
        \/ run[r].pc = "create" /\ run[r].verdict = "failed" /\ dir[c].exists

\* While no call fails and no request dies with the hub: somebody owes every
\* cluster that was found running, and somebody is between each in.progress
\* and its removal.
SeenTo(c) == Down(c) \/ "failed" \in dir[c].files \/ \E r \in Runners : Owes(r, c)

Attends(r, c) == run[r].cur = c /\ run[r].pc \in {"gpstop", "wait", "unmark"}

Attended(c) == "in.progress" \in dir[c].files => \E r \in Runners : Attends(r, c)

OwedInv ==
  /\ StoppedInv /\ FlagsTrue
  /\ faults = 0 /\ ~died =>
       (\A c \in found \ misjudged : SeenTo(c)) /\ (\A c \in Clusters : Attended(c))

=============================================================================
