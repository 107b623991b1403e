--------------------------- MODULE StepLifecycle ---------------------------
(***************************************************************************)
(* What a checklist step promises to whoever runs `gpupgrade status        *)
(* upgrade': the life of the status that is shown, without directories,    *)
(* runners or hosts.  A status of COMPLETE or FAILED is published only     *)
(* after the truth is decided, is the truth, and stays until the next      *)
(* attempt clears it.  Between RUNNING and the result the status is        *)
(* PENDING for an instant.  StepRunner implements this while requests do   *)
(* not overlap and the file system works, hub restarts included.           *)
(***************************************************************************)

VARIABLES
  shown,  \* the status a reader is told
  truth,  \* what came of the attempt that the status is about
  phase   \* nothing runs, an attempt has begun, it has cleared the old status

vars == <<shown, truth, phase>>

Result == IF truth = "ok" THEN "COMPLETE" ELSE "FAILED"

Init == shown = "PENDING" /\ truth = "none" /\ phase = "idle"

Begin == phase = "idle" /\ phase' = "begun" /\ UNCHANGED <<shown, truth>>

Clear ==
  /\ phase = "begun" /\ phase' = "cleared"
  /\ shown' = "PENDING" /\ truth' = "none"

Announce ==
  /\ phase = "cleared" /\ truth = "none" /\ shown = "PENDING"
  /\ shown' = "RUNNING" /\ UNCHANGED <<truth, phase>>

Decide ==
  /\ phase = "cleared" /\ truth = "none" /\ shown = "RUNNING"
  /\ truth' \in {"ok", "bad"} /\ UNCHANGED <<shown, phase>>

Retract ==
  /\ phase = "cleared" /\ truth # "none" /\ shown = "RUNNING"
  /\ shown' = "PENDING" /\ UNCHANGED <<truth, phase>>

Publish ==
  /\ phase = "cleared" /\ truth # "none" /\ shown = "PENDING"
  /\ shown' = Result /\ UNCHANGED <<truth, phase>>

\* The step that publishes may be the last one of the attempt.
PublishAndEnd ==
  /\ phase = "cleared" /\ truth # "none" /\ shown = "PENDING"
  /\ shown' = Result /\ phase' = "idle" /\ UNCHANGED truth

End ==
  /\ phase = "cleared" /\ truth # "none" /\ shown = Result
  /\ phase' = "idle" /\ UNCHANGED <<shown, truth>>

\* The hub dies.
Die == phase # "idle" /\ phase' = "idle" /\ UNCHANGED <<shown, truth>>

Next ==
  \/ Begin \/ Clear \/ Announce \/ Decide \/ Retract \/ Publish
  \/ PublishAndEnd \/ End \/ Die

Spec == Init /\ [][Next]_vars

=============================================================================
