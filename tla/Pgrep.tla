--------------------------------- MODULE Pgrep ---------------------------------
(***************************************************************************)
(* How the hub and the agents find out that pg_upgrade is running: they    *)
(* give pgrep, as its one argument, the text                               *)
(*      pg_upgrade | grep --old-datadir=...                                *)
(* No shell sees the bar.  pgrep takes the text as an extended regular     *)
(* expression with two alternatives, blanks included, and looks for them   *)
(* in the names of the processes, not in their arguments.                  *)
(* Names and alternatives are sequences of words and blanks.               *)
(***************************************************************************)
EXTENDS Integers, Sequences

Blank == " "

\* The names of what UpgradeConvertMaster and UpgradeConvertPrimarySegments
\* start: the shell, and pg_upgrade under it.
PgUpgradeNames == {<<"bash">>, <<"pg_upgrade">>}

Alternatives == {<<"pg_upgrade", Blank>>, <<Blank, "grep", Blank, "--old-datadir">>}

Occurs(part, name) ==
  \E i \in 0..(Len(name) - Len(part)) :
    \A j \in 1..Len(part) : name[i + j] = part[j]

\* The names pgrep lists the processes of, none of them with exit status 1.
Matched(names) == {name \in names : \E part \in Alternatives : Occurs(part, name)}

\* ConvertMaster.pgUpgradeRunning, given the names of all processes.
PgUpgradeRunning(names) == Matched(names) # {}

=============================================================================
