------------------------------ MODULE Checklist ------------------------------
(***************************************************************************)
(* The hub records the progress of an upgrade step as marker files in a    *)
(* directory of the step (hub/upgradestatus/checklist_manager.go) and      *)
(* derives the status it reports from the names it finds there             *)
(* (hub/upgradestatus/state_checker.go).  This module is the data: a step  *)
(* directory, the file system calls the manager makes on it, and the       *)
(* reading of it.  Each call is one operator, so that a module that uses   *)
(* them decides what may happen between two calls.                         *)
(***************************************************************************)

Marker == {"in.progress", "failed", "completed"}

\* A step directory: whether it is there, and the markers in it.
StepDir == [exists : BOOLEAN, files : SUBSET Marker]

Absent == [exists |-> FALSE, files |-> {}]

Status == {"PENDING", "RUNNING", "COMPLETE", "FAILED"}

---------------------------------------------------------------------------
\* os.RemoveAll unlinks what it finds in the directory, then removes the
\* directory itself; the second call fails when a file appeared in between.
Unlinked(dir) == [dir EXCEPT !.files = {}]

CanRmdir(dir) == dir.files = {}

\* os.MkdirAll leaves a directory that is there, with its files, alone.
MkdirAll(dir) == [dir EXCEPT !.exists = TRUE]

\* OpenFile with O_CREATE needs the directory, not the absence of the file.
CanOpen(dir) == dir.exists

Opened(dir, marker) == [dir EXCEPT !.files = @ \cup {marker}]

\* os.Remove of in.progress fails when there is no such file.
CanUnmark(dir) == "in.progress" \in dir.files

Unmarked(dir) == [dir EXCEPT !.files = @ \ {"in.progress"}]

---------------------------------------------------------------------------
\* A mutated GetStatus: the directory is empty while the markers are
\* exchanged, and that is read as a finished step.
EmptyIsComplete(dir) ==
  CASE dir.files = {"failed"}                -> "FAILED"
    [] dir.files = {"completed"}             -> "COMPLETE"
    [] dir.files = {"in.progress"}           -> "RUNNING"
    [] dir.exists /\ dir.files = {}          -> "COMPLETE"
    [] OTHER                                 -> "PENDING"

\* A mutated GetStatus: a directory without a marker is an error.
EmptyIsError(dir) ==
  CASE ~dir.exists                           -> "PENDING"
    [] dir.files = {"failed"}                -> "FAILED"
    [] dir.files = {"completed"}             -> "COMPLETE"
    [] dir.files = {"in.progress"}           -> "RUNNING"
    [] OTHER                                 -> "error"

\* What StateCheck.GetStatus answers: no directory or an empty one is
\* PENDING, one marker names the status, more than one is an error.
GetStatus(dir) ==
  CASE ~dir.exists \/ dir.files = {}         -> "PENDING"
    [] dir.files = {"failed"}                -> "FAILED"
    [] dir.files = {"completed"}             -> "COMPLETE"
    [] dir.files = {"in.progress"}           -> "RUNNING"
    [] OTHER                                 -> "error"

=============================================================================
