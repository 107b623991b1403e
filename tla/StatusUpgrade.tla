---------------------------- MODULE StatusUpgrade ----------------------------
(***************************************************************************)
(* Hub.StatusUpgrade: the statuses of the ten steps, read one after the    *)
(* other while the steps go on, in one reply.                              *)
(* The master's comes from MasterUpgrade and those of the checklist        *)
(* directories from Checklist.  The shutdown and the conversion of the     *)
(* primaries have modules of their own, and any status may come from them. *)
(***************************************************************************)
EXTENDS MasterUpgrade, FiniteSets

CONSTANTS
  Active,      \* the checklist steps that run meanwhile; the others never did
  FromOthers,  \* what is seen of the shutdown and of the primaries
  Together     \* do these steps and conversions of the master run together?

C == INSTANCE Checklist

VARIABLES
  dirs,       \* dirs[s]: the directory of checklist step s
  newConfig,  \* does the file with the configuration of the new cluster exist?
  reader      \* a request for the status

statusVars == <<dirs, newConfig, reader>>
vars == <<masterVars, statusVars>>

\* The order in which the steps are asked.
Steps == <<"check-config", "init-cluster", "seginstall", "gpstop", "pg_upgrade", "start-agents",
           "share-oids", "validate-start-cluster", "convert-primaries", "reconfigure-ports">>

Elsewhere == {"gpstop", "convert-primaries"}

ChecklistSteps ==
  {Steps[i] : i \in 1..Len(Steps)} \ (Elsewhere \cup {"init-cluster", "pg_upgrade"})

ASSUME StatusAssumption == Active \subseteq ChecklistSteps /\ FromOthers \subseteq Status /\ Together \in BOOLEAN

\* statuses are those read so far; reply is the list, or an error, of the last
\* request.  For the properties, crowded says that there was a directory with
\* more than one marker since it began.
NoRequest == [pc |-> "idle", statuses |-> <<>>, reply |-> <<>>, crowded |-> FALSE]

Crowded(s) == Cardinality(dirs[s].files) > 1

Init ==
  /\ MasterInit
  /\ dirs = [s \in ChecklistSteps |-> C!Absent] /\ newConfig = FALSE
  /\ reader = NoRequest

---------------------------------------------------------------------------
(* Hub.StatusUpgrade.                                                      *)

Begin ==
  /\ reader.pc = "idle"
  /\ reader' = [NoRequest EXCEPT !.pc = "next", !.crowded = \E s \in ChecklistSteps : Crowded(s)]
  /\ UNCHANGED <<masterVars, dirs, newConfig>>

NextStep == Steps[Len(reader.statuses) + 1]

AtStep(s) == reader.pc = "next" /\ Len(reader.statuses) < Len(Steps) /\ NextStep = s

Note(status) == reader' = [reader EXCEPT !.pc = "next", !.statuses = Append(@, status)]

AskChecklist(s) ==
  /\ AtStep(s) /\ Note(C!GetStatus(dirs[s]))
  /\ UNCHANGED <<masterVars, dirs, newConfig>>

\* Any failure of Stat is taken for a file that is not there.
GetPrepareNewClusterConfigStatus ==
  /\ AtStep("init-cluster") /\ Note(IF newConfig THEN "COMPLETE" ELSE "PENDING")
  /\ UNCHANGED <<masterVars, dirs, newConfig>>

AskElsewhere ==
  /\ \E s \in Elsewhere : AtStep(s)
  /\ \E status \in FromOthers : Note(status)
  /\ UNCHANGED <<masterVars, dirs, newConfig>>

AskMaster ==
  /\ AtStep("pg_upgrade") /\ reader' = [reader EXCEPT !.pc = "master"]
  /\ QueryBegins
  /\ UNCHANGED <<dirs, newConfig>>

MasterStep == reader.pc = "master" /\ QueryStep /\ UNCHANGED statusVars

NoteMaster ==
  /\ reader.pc = "master" /\ query.pc = "answered"
  /\ Note(query.status) /\ query' = NoQuery
  /\ UNCHANGED <<upgradeVars, dirs, newConfig>>

\* The errors are dropped, and a step whose status is one leaves nil in the
\* list: a list with nil in it cannot be sent.
Reply ==
  /\ reader.pc = "next" /\ Len(reader.statuses) = Len(Steps)
  /\ LET failed == \E i \in 1..Len(Steps) : reader.statuses[i] = "error"
     IN reader' = [reader EXCEPT !.pc = "idle", !.statuses = <<>>,
                     !.reply = IF failed THEN <<"error">> ELSE reader.statuses]
  /\ UNCHANGED <<masterVars, dirs, newConfig>>

RequestStep ==
  \/ \E s \in ChecklistSteps : AskChecklist(s)
  \/ GetPrepareNewClusterConfigStatus \/ AskElsewhere
  \/ AskMaster \/ MasterStep \/ NoteMaster
  \/ Reply

---------------------------------------------------------------------------
(* The steps themselves go on.                                             *)

\* The calls of a ChecklistManager, in any order, as overlapping requests make
\* them.
ChecklistCall(s) ==
  LET d == dirs[s] IN
  /\ Together \/ \A u \in Upgrades : upgrade[u].pc = "none"
  /\ \E after \in {C!Unlinked(d), C!MkdirAll(d)}
            \cup (IF C!CanRmdir(d) THEN {C!Absent} ELSE {})
            \cup (IF C!CanUnmark(d) THEN {C!Unmarked(d)} ELSE {})
            \cup (IF C!CanOpen(d) THEN {C!Opened(d, marker) : marker \in C!Marker} ELSE {}) :
       /\ dirs' = [dirs EXCEPT ![s] = after]
       /\ reader' = [reader EXCEPT !.crowded = @ \/ Cardinality(after.files) > 1]
  /\ UNCHANGED <<masterVars, newConfig>>

\* PrepareInitCluster opens the file before it has anything to write.
OpenNewConfig ==
  /\ ~newConfig /\ newConfig' = TRUE
  /\ UNCHANGED <<masterVars, dirs, reader>>

ConvertStep(u) ==
  /\ Together \/ \A s \in Active : dirs[s] = C!Absent
  /\ UpgradeStep(u) /\ UNCHANGED statusVars

Next ==
  \/ Begin \/ RequestStep
  \/ \E u \in Upgrades : ConvertStep(u)
  \/ \E s \in Active : ChecklistCall(s)
  \/ OpenNewConfig

Spec == Init /\ [][Next]_vars

\* The hub schedules the handler; nothing is said of pg_upgrade or the steps.
FairSpec == Spec /\ WF_vars(RequestStep)

---------------------------------------------------------------------------
TypeOK ==
  /\ MasterTypeOK
  /\ dirs \in [ChecklistSteps -> C!StepDir] /\ newConfig \in BOOLEAN
  /\ reader.pc \in {"idle", "next", "master"} /\ Len(reader.statuses) <= Len(Steps)
  /\ \A i \in 1..Len(reader.statuses) : reader.statuses[i] \in Status \cup {"error"}

\* The request for the status fails only if there was, at some moment of it, a
\* step with more than one marker; not while a step resets its directory or
\* exchanges its markers.
ErrorOnlyIfCrowded == reader.reply = <<"error">> => reader.crowded

\* Every request for the status is answered, whatever the steps do to the files
\* that it looks at.
StatusAnswered == (reader.pc # "idle") ~> (reader.pc = "idle")

---------------------------------------------------------------------------
(* The inductive invariant for the proofs.                                 *)

Request == [pc : {"idle", "next", "master"}, statuses : Seq(Status \cup {"error"}),
            reply : Seq(Status \cup {"error"}), crowded : BOOLEAN]

\* A directory that is not there has nothing in it, and a request knows of every
\* directory with more than one marker since it began.
CrowdedInv ==
  /\ \A s \in ChecklistSteps :
       /\ dirs[s].exists \/ dirs[s].files = {}
       /\ reader.pc # "idle" /\ Crowded(s) => reader.crowded
  /\ (\E i \in 1..Len(reader.statuses) : reader.statuses[i] = "error") => reader.crowded

StatusInv ==
  /\ MasterInv /\ TypeOK /\ CrowdedInv /\ ErrorOnlyIfCrowded
  /\ reader \in Request
  /\ reader.pc = "master" => Len(reader.statuses) < Len(Steps)

=============================================================================
