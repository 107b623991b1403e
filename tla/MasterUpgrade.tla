---------------------------- MODULE MasterUpgrade ----------------------------
(***************************************************************************)
(* The conversion of the master, and how its status is found out.          *)
(*   Hub.UpgradeConvertMaster makes a directory, starts pg_upgrade in it   *)
(*   and does not wait for it.                                             *)
(*   pg_upgrade, which is external, deletes the files of an earlier one,   *)
(*   and has a file i.inprogress for each of its stages that becomes       *)
(*   i.done; the last one says "Upgrade complete".                         *)
(*   ConvertMaster.GetStatus looks for the directory, the process and the  *)
(*   files, in one system call after the other.                            *)
(***************************************************************************)
EXTENDS Pgrep

CONSTANTS
  Upgrades,   \* requests to convert, each with the pg_upgrade it starts
  Stages,     \* the number of files a pg_upgrade writes
  MaxTime     \* bound on the clock of the file system

ASSUME UpgradeAssumption == Stages \in Nat \ {0} /\ MaxTime \in Nat \ {0}

VARIABLES
  dir,         \* does the pg_upgrade directory exist?
  inprogress,  \* the i for which there is a file i.inprogress
  done,        \* done[i]: the file i.done
  clock,       \* the time that is given to a file
  upgrade,     \* upgrade[u]: request u, then its pg_upgrade
  owner,       \* history: the upgrade that has had the directory to itself, or nobody
  query        \* one call of GetStatus after the other

upgradeVars == <<dir, inprogress, done, clock, upgrade, owner>>
masterVars == <<upgradeVars, query>>

Status == {"PENDING", "RUNNING", "COMPLETE", "FAILED"}

\* lines are the lines of a file; ended says that the last has its newline.
NoFile == [exists |-> FALSE, time |-> 0, lines |-> <<>>, ended |-> FALSE]

NoUpgrade == [pc |-> "none", stage |-> 0]

\* files are those that are still to be looked at and latest the newest so far,
\* of time time.  For the properties: alone is the upgrade that had the directory
\* to itself when the query began, with no other started since, and calm says that
\* no request was under way then or came since.
NoQuery == [pc |-> "idle", files |-> {}, latest |-> 0, time |-> 0, status |-> "none",
            alone |-> {}, calm |-> FALSE]

Running == {u \in Upgrades : upgrade[u].pc \in {"fresh", "between", "writing"}}

Busy == Running \cup {u \in Upgrades : upgrade[u].pc \in {"mkdir", "start"}}

Becomes(u, pc, stage) == upgrade' = [upgrade EXCEPT ![u] = [pc |-> pc, stage |-> stage]]

MasterInit ==
  /\ dir = FALSE /\ inprogress = {} /\ done = [i \in 1..Stages |-> NoFile] /\ clock = 1
  /\ upgrade = [u \in Upgrades |-> NoUpgrade] /\ owner = {}
  /\ query = NoQuery

---------------------------------------------------------------------------
(* Hub.UpgradeConvertMaster.                                               *)

UpgradeConvertMaster(u) ==
  /\ upgrade[u].pc = "none" /\ Becomes(u, "mkdir", 0)
  /\ query' = [query EXCEPT !.calm = FALSE]
  /\ UNCHANGED <<dir, inprogress, done, clock, owner>>

\* MkdirAll: a directory that is there will do, and so will one in which
\* another pg_upgrade runs.
MakeUpgradeDir(u) ==
  /\ upgrade[u].pc = "mkdir" /\ Becomes(u, "start", 0)
  /\ dir' = TRUE
  /\ UNCHANGED <<inprogress, done, clock, owner, query>>

\* The log is opened, the ports are read, and the process is left running.
StartPgUpgrade(u) ==
  /\ upgrade[u].pc = "start" /\ Becomes(u, "fresh", 0)
  /\ owner' = IF Running = {} THEN owner ELSE {}
  /\ query' = [query EXCEPT !.alone = {}]
  /\ UNCHANGED <<dir, inprogress, done, clock>>

\* The directory, the log, the ports or the start.
ConvertFails(u) ==
  /\ upgrade[u].pc \in {"mkdir", "start"} /\ Becomes(u, "refused", 0)
  /\ UNCHANGED <<dir, inprogress, done, clock, owner, query>>

---------------------------------------------------------------------------
(* pg_upgrade.                                                             *)

DeleteOldFiles(u) ==
  /\ upgrade[u].pc = "fresh" /\ Becomes(u, "between", 1)
  /\ inprogress' = {} /\ done' = [i \in 1..Stages |-> NoFile]
  /\ owner' = IF Running = {u} THEN {u} ELSE {}
  /\ UNCHANGED <<dir, clock, query>>

BeginStage(u) ==
  /\ upgrade[u].pc = "between" /\ Becomes(u, "writing", upgrade[u].stage)
  /\ inprogress' = inprogress \cup {upgrade[u].stage}
  /\ UNCHANGED <<dir, done, clock, owner, query>>

StageLines(i) == IF i = Stages THEN <<"other", "Upgrade complete">> ELSE <<"other">>

\* Two stages may end within one tick of the clock, and the last line of all may
\* lack its newline.
EndStage(u) ==
  LET i == upgrade[u].stage IN
  /\ upgrade[u].pc = "writing" /\ i \in inprogress
  /\ inprogress' = inprogress \ {i}
  /\ clock' \in {clock, clock + 1} /\ clock' <= MaxTime
  /\ \E ended \in {TRUE, i # Stages} :
       done' = [done EXCEPT ![i] = [exists |-> TRUE, time |-> clock',
         lines |-> StageLines(i), ended |-> ended]]
  /\ IF i = Stages THEN Becomes(u, "finished", i) ELSE Becomes(u, "between", i + 1)
  /\ UNCHANGED <<dir, owner, query>>

\* It fails or is killed; it cannot go on if another has deleted its file.
PgUpgradeDies(u) ==
  /\ u \in Running /\ Becomes(u, "dead", upgrade[u].stage)
  /\ UNCHANGED <<dir, inprogress, done, clock, owner, query>>

UpgradeStep(u) ==
  \/ UpgradeConvertMaster(u) \/ MakeUpgradeDir(u) \/ StartPgUpgrade(u) \/ ConvertFails(u)
  \/ DeleteOldFiles(u) \/ BeginStage(u) \/ EndStage(u) \/ PgUpgradeDies(u)

---------------------------------------------------------------------------
(* ConvertMaster.GetStatus.                                                *)

Reads(state) == query' = state /\ UNCHANGED upgradeVars

Answer(status) ==
  Reads([query EXCEPT !.pc = "answered", !.status = status, !.files = {}, !.latest = 0,
                      !.time = 0])

QueryBegins ==
  Reads([NoQuery EXCEPT !.pc = "stat", !.calm = (Busy = {}),
           !.alone = IF \E u \in Upgrades : upgrade[u].pc = "fresh" THEN {} ELSE owner])

StatDirectory ==
  /\ query.pc = "stat"
  /\ \/ ~dir /\ Answer("PENDING")
     \/ dir /\ Reads([query EXCEPT !.pc = "pgrep"])

LookForProcess ==
  /\ query.pc = "pgrep"
  /\ LET names == IF Running = {} THEN {} ELSE PgUpgradeNames IN
     \/ PgUpgradeRunning(names) /\ Answer("RUNNING")
     \/ ~PgUpgradeRunning(names) /\ Reads([query EXCEPT !.pc = "inprogress"])

InProgressFilesExist ==
  /\ query.pc = "inprogress"
  /\ \/ inprogress # {} /\ Answer("FAILED")
     \/ inprogress = {} /\ Reads([query EXCEPT !.pc = "glob"])

DoneFiles == {i \in 1..Stages : done[i].exists}

First(files) == CHOOSE i \in files : \A j \in files : i <= j

\* A mutated GlobDone: an empty list is not looked for, and its first file taken.
GlobUnchecked ==
  /\ query.pc = "glob"
  /\ Reads([query EXCEPT !.pc = "first", !.files = DoneFiles,
              !.latest = IF DoneFiles = {} THEN Stages + 1 ELSE First(DoneFiles)])

\* The files are listed in the order of their names.
GlobDone ==
  /\ query.pc = "glob"
  /\ \/ DoneFiles = {} /\ Answer("FAILED")
     \/ /\ DoneFiles # {}
        /\ Reads([query EXCEPT !.pc = "first", !.files = DoneFiles, !.latest = First(DoneFiles)])

StatFirst ==
  /\ query.pc = "first"
  /\ LET file == done[query.latest] IN
     \/ ~file.exists /\ Answer("FAILED")
     \/ /\ file.exists
        /\ Reads([query EXCEPT !.pc = "rest", !.files = @ \ {query.latest}, !.time = file.time])

\* A mutated StatRest: the oldest file is looked for.
StatRestOldest ==
  /\ query.pc = "rest"
  /\ \/ query.files = {} /\ Reads([query EXCEPT !.pc = "scan"])
     \/ /\ query.files # {}
        /\ LET i == First(query.files)
               found == done[i].exists /\ done[i].time < query.time
           IN Reads([query EXCEPT !.files = @ \ {i}, !.latest = IF found THEN i ELSE @,
                                  !.time = IF found THEN done[i].time ELSE @])

\* A file that is gone is passed over; one of the same time is not later.
StatRest ==
  /\ query.pc = "rest"
  /\ \/ query.files = {} /\ Reads([query EXCEPT !.pc = "scan"])
     \/ /\ query.files # {}
        /\ LET i == First(query.files)
               found == done[i].exists /\ done[i].time > query.time
           IN Reads([query EXCEPT !.files = @ \ {i}, !.latest = IF found THEN i ELSE @,
                                  !.time = IF found THEN done[i].time ELSE @])

\* ReadString returns a last line without a newline together with EOF, and the
\* loop ends before it is looked at.
LinesLookedAt(file) ==
  IF file.ended THEN file.lines ELSE SubSeq(file.lines, 1, Len(file.lines) - 1)

SaysComplete(lines) == \E i \in 1..Len(lines) : lines[i] = "Upgrade complete"

\* A mutated ScanLatest: a done file is enough, whatever it says.
ScanNothing ==
  /\ query.pc = "scan"
  /\ \/ done[query.latest].exists /\ Answer("COMPLETE")
     \/ ~done[query.latest].exists /\ Answer("FAILED")

\* A mutated ScanLatest: only the end of the file ends the loop, which never
\* comes if the file could not be opened.
ScanForever ==
  /\ query.pc = "scan"
  /\ \/ /\ done[query.latest].exists
        /\ Answer(IF SaysComplete(LinesLookedAt(done[query.latest])) THEN "COMPLETE" ELSE "FAILED")
     \/ /\ ~done[query.latest].exists
        /\ Reads([query EXCEPT !.time = IF @ = 0 THEN 1 ELSE 0])

\* If the file cannot be opened, the first read fails with another error than EOF.
ScanLatest ==
  /\ query.pc = "scan"
  /\ \/ /\ done[query.latest].exists
        /\ Answer(IF SaysComplete(LinesLookedAt(done[query.latest])) THEN "COMPLETE" ELSE "FAILED")
     \/ ~done[query.latest].exists /\ Answer("FAILED")

IsUpgradeComplete == GlobDone \/ StatFirst \/ StatRest \/ ScanLatest

QueryStep == StatDirectory \/ LookForProcess \/ InProgressFilesExist \/ IsUpgradeComplete

---------------------------------------------------------------------------
MasterTypeOK ==
  /\ dir \in BOOLEAN /\ inprogress \subseteq 1..Stages /\ clock \in 1..MaxTime
  /\ DOMAIN done = 1..Stages
  /\ (DoneFiles # {} \/ inprogress # {} => dir)
  /\ upgrade \in [Upgrades -> [pc : {"none", "mkdir", "start", "refused", "fresh", "between",
                                     "writing", "finished", "dead"}, stage : 0..Stages]]
  /\ owner \subseteq Upgrades /\ query.alone \subseteq Upgrades
  /\ query.files \subseteq 1..Stages /\ query.status \in Status \cup {"none"}
  /\ query.latest \in IF query.pc \in {"first", "rest", "scan"} THEN 1..Stages ELSE {0}

\* The query says COMPLETE only if a pg_upgrade has finished, and if one has the
\* directory to itself, with no other started since the query began, it is that
\* one, not an earlier one, although files come and go between the calls.
MasterCompleteIsTrue ==
  query.pc = "answered" /\ query.status = "COMPLETE" =>
    /\ \E u \in Upgrades : upgrade[u].pc = "finished"
    /\ \A u \in query.alone : upgrade[u].pc = "finished"

\* A pg_upgrade that had the directory to itself and has finished is shown as
\* COMPLETE to a query that comes after it, if its last file is newer than the
\* others and ends in a newline.
FinishedIsSeen ==
  query.pc = "answered" /\ query.calm
  /\ (\E u \in owner : upgrade[u].pc = "finished")
  /\ done[Stages].ended /\ (\A i \in 1..(Stages - 1) : done[i].time < done[Stages].time) =>
    query.status = "COMPLETE"

---------------------------------------------------------------------------
(* The inductive invariant for the proofs.                                 *)

File == [exists : BOOLEAN, time : Nat, lines : {<<>>} \cup {StageLines(i) : i \in 1..Stages},
         ended : BOOLEAN]

Query == [pc : {"idle", "stat", "pgrep", "inprogress", "glob", "first", "rest", "scan", "answered"},
          files : SUBSET (1..Stages), latest : 0..Stages, time : Nat,
          status : Status \cup {"none"}, alone : SUBSET Upgrades, calm : BOOLEAN]

Finished == {u \in Upgrades : upgrade[u].pc = "finished"}

\* The files are those of the upgrade that has the directory to itself: the others
\* that run have not yet deleted the files of an earlier one.
OwnsFiles(u) ==
  /\ owner = {u} /\ upgrade[u].pc \in {"between", "writing", "finished", "dead"}
  /\ \A v \in Upgrades \ {u} : upgrade[v].pc \notin {"between", "writing"}
  /\ inprogress \subseteq IF upgrade[u].pc \in {"writing", "dead"} THEN {upgrade[u].stage} ELSE {}
  /\ done[Stages].exists <=> u \in Finished

FilesInv ==
  /\ done \in [1..Stages -> File]
  /\ \A i \in 1..Stages : done[i].exists => done[i].lines = StageLines(i)
  /\ \A u \in Upgrades :
       /\ upgrade[u].pc \notin {"none", "mkdir", "refused"} => dir
       /\ upgrade[u].pc \in {"between", "writing"} => upgrade[u].stage \in 1..Stages
  /\ done[Stages].exists => Finished # {}
  /\ \A u \in owner : OwnsFiles(u)

\* The directory is that of a finished upgrade, whose last file is the newest.
Shows ==
  /\ \E u \in owner : u \in Finished
  /\ done[Stages].ended /\ \A i \in 1..(Stages - 1) : done[i].time < done[Stages].time

\* A query of such a directory is on its way to the last file.
OnTrack(q) ==
  /\ q.pc = "first" => q.latest \in DoneFiles /\ Stages \in q.files
  /\ q.pc = "rest" => (q.latest = Stages \/ Stages \in q.files) /\ q.time = done[q.latest].time
  /\ q.pc = "scan" => q.latest = Stages
  /\ q.pc = "answered" => q.status = "COMPLETE"

\* Nobody deletes the files under a query whose upgrade is alone, and while it is
\* calm nothing happens to them.
QueryInv ==
  /\ query \in Query
  /\ query.pc = "answered" => query.status \in Status
  /\ query.alone \subseteq owner
  /\ query.alone # {} => \A u \in Upgrades : upgrade[u].pc # "fresh"
  /\ query.calm => Busy = {} /\ (Shows => OnTrack(query))

MasterInv == MasterTypeOK /\ FilesInv /\ QueryInv /\ MasterCompleteIsTrue

---------------------------------------------------------------------------
(* What a test says, and what the code does not do.                        *)

\* "If pg_upgrade is running, return status of RUNNING": a query that looks for
\* the process while it runs says so.
RunningIsShown ==
  [][query.pc = "pgrep" /\ query'.pc # "pgrep" /\ Running # {} => query'.status = "RUNNING"]_masterVars

=============================================================================
