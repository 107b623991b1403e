------------------------ MODULE ShutdownClustersProofs ------------------------
(***************************************************************************)
(* The shutdown of the clusters, for any number of requests that overlap,  *)
(* restarts and queries: what COMPLETE means, that no cluster is           *)
(* forgotten and that no in.progress is left behind.                       *)
(***************************************************************************)
EXTENDS ShutdownClusters, FiniteSetTheorems, TLAPS

\* The processes that outlive the hub can be counted.
LEMMA OrphansCounted ==
  ASSUME NEW c \in Clusters
  PROVE  Quantify(Runners, LAMBDA r : run[r].pc = "wait" /\ run[r].cur = c) \in Nat
<1> DEFINE S == {r \in Runners : run[r].pc = "wait" /\ run[r].cur = c}
<1>1. S \subseteq Runners /\ IsFiniteSet(Runners)
  BY ShutdownAssumption
<1>2. IsFiniteSet(S)  BY <1>1, FS_Subset
<1>3. Cardinality(S) \in Nat  BY <1>2, FS_CardinalityType
<1> QED  BY <1>3 DEF Quantify

\* One request moves, the others are where they were.
LEMMA OthersStay ==
  ASSUME TypeOK, NEW r \in Runners, NEW x \in Run, Becomes(r, x)
  PROVE  /\ run' \in [Runners -> Run] /\ run'[r] = x
         /\ \A q \in Runners : q # r => run'[q] = run[q]
BY DEF TypeOK, Becomes

\* The request goes on with the same cluster.
LEMMA GoesOn ==
  ASSUME TypeOK, NEW r \in Runners, NEW pc \in PC, Goto(r, pc)
  PROVE  /\ run' \in [Runners -> Run]
         /\ run'[r].pc = pc /\ run'[r].cur = run[r].cur /\ run'[r].verdict = run[r].verdict
         /\ \A q \in Runners : q # r => run'[q] = run[q]
<1> DEFINE x == [run[r] EXCEPT !.pc = pc]
<1>1. x \in Run /\ x.pc = pc /\ x.cur = run[r].cur /\ x.verdict = run[r].verdict /\ Becomes(r, x)
  BY DEF TypeOK, Run, Goto
<1> HIDE DEF x
<1> QED  BY <1>1, OthersStay

\* The request turns to the other cluster, or is done.
LEMMA TurnsToNext ==
  ASSUME TypeOK, NEW r \in Runners, NextCluster(r)
  PROVE  /\ run' \in [Runners -> Run]
         /\ run[r].cur = "old" => run'[r].pc = "readflag" /\ run'[r].cur = "new"
         /\ run[r].cur = "new" => run'[r].pc = "idle"
         /\ run'[r].pc \in {"readflag", "idle"}
         /\ \A q \in Runners : q # r => run'[q] = run[q]
<1> DEFINE x == [run[r] EXCEPT !.pc = "readflag", !.cur = "new"]
<1>1. /\ x \in Run /\ x.pc = "readflag" /\ x.cur = "new"
      /\ Idle \in Run /\ Idle.pc = "idle"
      /\ run[r].cur \in {"old", "new"}
  BY DEF TypeOK, Run, PC, Clusters, Idle
<1>2. /\ run[r].cur = "old" => Becomes(r, x)
      /\ run[r].cur = "new" => Becomes(r, Idle)
  BY DEF NextCluster
<1> HIDE DEF x
<1> QED  BY <1>1, <1>2, OthersStay

\* One directory changes, the other stays as it was.
LEMMA OneDirChanges ==
  ASSUME TypeOK, NEW r \in Runners, NEW d \in StepDir, SetDir(r, d)
  PROVE  /\ dir' \in [Clusters -> StepDir] /\ dir'[run[r].cur] = d
         /\ \A c \in Clusters : c # run[r].cur => dir'[c] = dir[c]
<1>1. run[r].cur \in Clusters /\ dir \in [Clusters -> StepDir]  BY DEF TypeOK, Run
<1> QED  BY <1>1 DEF SetDir

\* What the calls on a directory make of it.
LEMMA DirCalls ==
  ASSUME NEW d \in StepDir
  PROVE  /\ Unlinked(d) \in StepDir /\ Unlinked(d).files = {} /\ Unlinked(d).exists = d.exists
         /\ Absent \in StepDir /\ Absent.files = {} /\ Absent.exists = FALSE
         /\ MkdirAll(d) \in StepDir /\ MkdirAll(d).files = d.files /\ MkdirAll(d).exists = TRUE
         /\ Unmarked(d) \in StepDir /\ Unmarked(d).files = d.files \ {"in.progress"}
         /\ Unmarked(d).exists = d.exists
         /\ \A m \in Marker : Opened(d, m) \in StepDir /\ Opened(d, m).files = d.files \cup {m}
                              /\ Opened(d, m).exists = d.exists
BY DEF StepDir, Unlinked, Absent, MkdirAll, Unmarked, Opened, Marker

\* A request, its cluster being k, leaves these alone and can only stop clusters.
Frame(r) ==
  /\ run' \in [Runners -> Run] /\ \A q \in Runners : q # r => run'[q] = run[q]
  /\ dir' \in [Clusters -> StepDir]
  /\ \A c \in Clusters : c # run[r].cur => dir'[c] = dir[c]
  /\ up' \subseteq up /\ restarted' = restarted /\ reader' = reader
  /\ known' = known /\ configured' = configured /\ gpstops' = gpstops /\ died' = died
  /\ misjudged \subseteq misjudged'
  /\ faults' \in {faults, faults + 1}

\* Down(c) after the step, for a cluster that is named before it.
DownThen(c) == c \notin up' \/ c \in restarted'

\* A cluster that is down stays down in such a step.
LEMMA DownStays ==
  ASSUME NEW r, Frame(r)
  PROVE  \A c : (Down(c) => DownThen(c)) /\ (Down(c)' <=> DownThen(c))
BY DEF Frame, Down, DownThen

\* The types are kept by a request.
LEMMA TypedByRequest ==
  ASSUME TypeOK, NEW r \in Runners, Frame(r), flag' \subseteq Clusters, found' \subseteq Clusters,
         misjudged' \subseteq Clusters,         base' \in {base, TRUE},
         dir'[run[r].cur].exists => dir[run[r].cur].exists \/ base'
  PROVE  TypeOK'
<1>1. run[r].cur \in Clusters /\ base' \in BOOLEAN /\ faults \in Nat
  BY DEF TypeOK, Run
<1>2. (\E c \in Clusters : dir'[c].exists) => base'
  BY <1>1 DEF TypeOK, Frame
<1>3. faults' \in Nat  BY <1>1 DEF Frame
<1>4. up' \subseteq Clusters  BY DEF TypeOK, Frame
<1> QED  BY <1>1, <1>2, <1>3, <1>4 DEF TypeOK, Frame

\* The markers are true after a step that wrote none it could not vouch for.
LEMMA StoppedByRequest ==
  ASSUME StoppedInv, TypeOK', NEW r \in Runners, Frame(r),
         "completed" \in dir'[run[r].cur].files =>
            "completed" \in dir[run[r].cur].files \/ DownThen(run[r].cur),
         dir'[run[r].cur].files # {} => dir'[run[r].cur].exists,
         run'[r].pc \in {"unmark", "create"} /\ run'[r].verdict = "completed"
            => DownThen(run'[r].cur)
  PROVE  StoppedInv'
<1>1. \A c : (Down(c) => DownThen(c)) /\ (Down(c)' <=> DownThen(c))  BY DownStays
<1>2. MarkersTrue'
  <2>1. \A c \in Clusters : "completed" \in dir'[c].files => DownThen(c)
    BY <1>1 DEF StoppedInv, MarkersTrue, Frame
  <2>2. \A c \in Clusters : dir'[c].files # {} => dir'[c].exists
    BY DEF StoppedInv, MarkersTrue, Frame
  <2>3. \A q \in Runners : run'[q].pc \in {"unmark", "create"} /\ run'[q].verdict = "completed"
          => DownThen(run'[q].cur)
    BY <1>1 DEF StoppedInv, MarkersTrue, Frame
  <2> QED  BY <2>1, <2>2, <2>3 DEF MarkersTrue, Down, DownThen
<1>3. CountTrue'
  BY <1>1 DEF StoppedInv, CountTrue, Frame, Down, DownThen
<1> QED  BY <1>2, <1>3 DEF StoppedInv

\* The flags are true after a step that took none from a cluster that runs.
LEMMA FlagsByRequest ==
  ASSUME FlagsTrue, NEW r \in Runners, Frame(r),
         found' # {} => known,
         \A c \in Clusters :
           c \in flag \cup misjudged /\ known /\ ~DownThen(c) => c \in flag' \cup misjudged',
         \A c \in Clusters :
           PastCheck(r, c)' /\ known /\ ~DownThen(c) => c \in flag' \cup misjudged'
  PROVE  FlagsTrue'
<1>1. \A c : (Down(c) => DownThen(c)) /\ (Down(c)' <=> DownThen(c))  BY DownStays
<1>2. \A q \in Runners, c \in Clusters :
        PastCheck(q, c)' /\ known' /\ ~DownThen(c) => c \in flag' \cup misjudged'
  BY <1>1 DEF FlagsTrue, Frame, PastCheck
<1>3. (found' # {} => known') /\ (known' => configured')
  BY DEF FlagsTrue, Frame
<1> QED  BY <1>1, <1>2, <1>3 DEF FlagsTrue

\* Somebody still owes a cluster after a step in which the request that owed it
\* goes on owing it or has marked its failure, and in which one that takes
\* away what another needs owes it from then on.
LEMMA OwedByRequest ==
  ASSUME NEW c \in Clusters, SeenTo(c), NEW r \in Runners, Frame(r),
         Owes(r, c) /\ ~DownThen(c) => Owes(r, c)' \/ "failed" \in dir'[c].files,
         \/ Owes(r, c)' \/ DownThen(c)
         \/ /\ dir[c].exists => dir'[c].exists
            /\ dir[c].files \cap {"in.progress", "failed"} \subseteq dir'[c].files
  PROVE  SeenTo(c)'
<1>1. (Down(c) => DownThen(c)) /\ (Down(c)' <=> DownThen(c))  BY DownStays
<1>2. CASE Owes(r, c)' \/ DownThen(c)
  BY <1>1, <1>2 DEF SeenTo
<1>3. CASE /\ dir[c].exists => dir'[c].exists
           /\ dir[c].files \cap {"in.progress", "failed"} \subseteq dir'[c].files
  <2>1. CASE "failed" \in dir[c].files
    BY <1>3, <2>1 DEF SeenTo
  <2>2. ASSUME NEW q \in Runners, Owes(q, c) PROVE SeenTo(c)'
    <3>1. CASE q = r
      BY <1>1, <2>2, <3>1 DEF SeenTo
    <3>2. CASE q # r
      <4>1. run'[q] = run[q]  BY <3>2 DEF Frame
      <4>2. Owes(q, c)'  BY <1>3, <2>2, <4>1 DEF Owes
      <4> QED  BY <4>2 DEF SeenTo
    <3> QED  BY <3>1, <3>2
  <2> QED  BY <1>1, <2>1, <2>2 DEF SeenTo
<1> QED  BY <1>2, <1>3

\* Somebody is still there to remove in.progress.
LEMMA AttendedByRequest ==
  ASSUME NEW c \in Clusters, Attended(c), NEW r \in Runners, Frame(r),
         "in.progress" \in dir'[c].files => "in.progress" \in dir[c].files \/ Attends(r, c)',
         "in.progress" \in dir'[c].files /\ Attends(r, c) => Attends(r, c)'
  PROVE  Attended(c)'
<1>1. \A q \in Runners : q # r => (Attends(q, c) => Attends(q, c)')
  BY DEF Frame, Attends
<1> QED  BY <1>1 DEF Attended

\* What a step of a request has to show.
LEMMA KeptByRequest ==
  ASSUME OwedInv, StoppedInv', FlagsTrue', NEW r \in Runners, Frame(r), NEW k, k = run[r].cur,
         \/ faults' # faults
         \/ /\ \A c \in found' : c \in found \/ Owes(r, c)'
            /\ \A c \in found \ misjudged :
                 Owes(r, c) /\ ~DownThen(c) => Owes(r, c)' \/ "failed" \in dir'[c].files
            /\ \/ Owes(r, k)' \/ DownThen(k)
               \/ /\ dir[k].exists => dir'[k].exists
                  /\ dir[k].files \cap {"in.progress", "failed"} \subseteq dir'[k].files
            /\ "in.progress" \in dir'[k].files =>
                 "in.progress" \in dir[k].files \/ Attends(r, k)'
            /\ "in.progress" \in dir'[k].files /\ Attends(r, k) => Attends(r, k)'
  PROVE  OwedInv'
<1>0. k \in Clusters /\ faults \in Nat /\ found \subseteq Clusters /\ found' \subseteq Clusters
  BY DEF OwedInv, StoppedInv, TypeOK, Run
<1> SUFFICES ASSUME faults' = 0, ~died'
             PROVE  (\A c \in found' \ misjudged' : SeenTo(c)') /\ (\A c \in Clusters : Attended(c)')
  BY DEF OwedInv
<1>1. faults = 0 /\ faults' = faults /\ ~died
  BY <1>0 DEF Frame
<1>2. \A c \in Clusters : c # k => dir'[c] = dir[c]
  BY DEF Frame
<1>3. ASSUME NEW c \in found' \ misjudged' PROVE SeenTo(c)'
  <2>1. CASE Owes(r, c)'  BY <2>1 DEF SeenTo
  <2>2. CASE c \in found \ misjudged
    <3>1. c \in Clusters /\ SeenTo(c)  BY <1>0, <1>1, <2>2 DEF OwedInv
    <3>2. Owes(r, c) /\ ~DownThen(c) => Owes(r, c)' \/ "failed" \in dir'[c].files
      BY <1>1, <2>2
    <3>3. \/ Owes(r, c)' \/ DownThen(c)
          \/ /\ dir[c].exists => dir'[c].exists
             /\ dir[c].files \cap {"in.progress", "failed"} \subseteq dir'[c].files
      BY <1>1, <1>2, <3>1
    <3> QED  BY <3>1, <3>2, <3>3, OwedByRequest
  <2>3. c \notin misjudged  BY <1>3 DEF Frame
  <2> QED  BY <1>1, <1>3, <2>1, <2>2, <2>3
<1>4. ASSUME NEW c \in Clusters PROVE Attended(c)'
  <2>1. Attended(c)  BY <1>1 DEF OwedInv
  <2>2. CASE c = k  BY <1>1, <2>1, <2>2, AttendedByRequest
  <2>3. CASE c # k
    <3>1. Attends(r, c) => FALSE  BY <2>3 DEF Attends
    <3> QED  BY <1>2, <2>1, <2>3, <3>1, AttendedByRequest
  <2> QED  BY <2>2, <2>3
<1> QED  BY <1>3, <1>4

\* A request moves on without having touched anything.
LEMMA QuietStep ==
  ASSUME OwedInv, NEW r \in Runners, NEW k, k = run[r].cur,
         run' \in [Runners -> Run], \A q \in Runners : q # r => run'[q] = run[q],
         UNCHANGED <<world, pair, reader, ghosts>>, dir' = dir, base' \in {base, TRUE},
         faults' \in {faults, faults + 1},
         run'[r].pc \in {"unmark", "create"} /\ run'[r].verdict = "completed"
            => Down(run'[r].cur),
         \A c \in Clusters : PastCheck(r, c)' /\ known /\ ~Down(c) => c \in flag \cup misjudged,
         \/ faults' # faults
         \/ /\ \A c \in found \ misjudged :
                 Owes(r, c) /\ ~Down(c) => Owes(r, c)' \/ "failed" \in dir[c].files
            /\ "in.progress" \in dir[k].files /\ Attends(r, k) => Attends(r, k)'
  PROVE  OwedInv'
<1>1. /\ up' = up /\ configured' = configured /\ gpstops' = gpstops /\ restarted' = restarted
      /\ known' = known /\ flag' = flag /\ found' = found /\ reader' = reader
      /\ died' = died /\ misjudged' = misjudged
  BY DEF world, pair, ghosts
<1>2. k \in Clusters /\ TypeOK /\ dir \in [Clusters -> StepDir]
      /\ flag \subseteq Clusters /\ found \subseteq Clusters /\ misjudged \subseteq Clusters
      /\ base \in BOOLEAN
  BY DEF OwedInv, StoppedInv, TypeOK, Run
<1>3. Frame(r)  BY <1>1, <1>2 DEF Frame
<1>4. \A c : DownThen(c) <=> Down(c)  BY <1>1 DEF Down, DownThen
<1>5. TypeOK'  BY <1>1, <1>2, <1>3, TypedByRequest
<1>6. StoppedInv'
  BY <1>2, <1>3, <1>4, <1>5, StoppedByRequest DEF OwedInv, StoppedInv, MarkersTrue
<1>7. FlagsTrue'
  <2>1. found' # {} => known  BY <1>1 DEF OwedInv, FlagsTrue
  <2> QED  BY <1>1, <1>3, <1>4, <2>1, FlagsByRequest DEF OwedInv
<1> QED  BY <1>1, <1>3, <1>4, <1>6, <1>7, KeptByRequest

\* A request that has looked at both clusters found the flag of one that runs.
LEMMA LookedAtBoth ==
  ASSUME OwedInv, NEW r \in Runners, run[r].pc \notin {"idle", "checkold", "checknew"},
         NEW c \in Clusters, known, ~Down(c)
  PROVE  c \in flag \cup misjudged
BY DEF OwedInv, FlagsTrue, PastCheck

\* A request gives up on a cluster, or is done with it, and touches nothing.
LEMMA QuietTurn ==
  ASSUME OwedInv, NEW r \in Runners, NEW k, k = run[r].cur, NextCluster(r),
         run[r].pc \in {"readflag", "mark", "unmark", "create"},
         UNCHANGED <<world, pair, reader, ghosts>>, dir' = dir, base' = base,
         \/ faults' = faults + 1
         \/ /\ faults' = faults
            /\ Owes(r, k) /\ k \in found \ misjudged => Down(k) \/ "failed" \in dir[k].files
            /\ run[r].pc = "unmark" => "in.progress" \notin dir[k].files
  PROVE  OwedInv'
<1>1. TypeOK /\ k \in Clusters /\ faults \in Nat /\ found \subseteq Clusters
  BY DEF OwedInv, StoppedInv, TypeOK, Run
<1>2. /\ run' \in [Runners -> Run] /\ \A q \in Runners : q # r => run'[q] = run[q]
      /\ run'[r].pc \in {"readflag", "idle"}
      /\ k = "old" => run'[r].pc = "readflag" /\ run'[r].cur = "new"
  BY <1>1, TurnsToNext
<1>3. \A c \in Clusters : PastCheck(r, c)' /\ known /\ ~Down(c) => c \in flag \cup misjudged
  BY LookedAtBoth
<1>4. CASE faults' = faults + 1
  <2>1. faults' # faults  BY <1>1, <1>4
  <2> QED  BY <1>1, <1>2, <1>3, <1>4, <2>1, QuietStep
<1>5. CASE /\ faults' = faults
           /\ Owes(r, k) /\ k \in found \ misjudged => Down(k) \/ "failed" \in dir[k].files
           /\ run[r].pc = "unmark" => "in.progress" \notin dir[k].files
  <2>1. ASSUME NEW c \in found \ misjudged, Owes(r, c), ~Down(c)
        PROVE  Owes(r, c)' \/ "failed" \in dir[c].files
    <3>1. CASE c = k  BY <1>5, <2>1, <3>1
    <3>2. CASE c # k
      <4>1. k = "old" /\ c = "new"  BY <2>1, <3>2 DEF Owes
      <4> QED  BY <1>2, <4>1 DEF Owes
    <3> QED  BY <3>1, <3>2
  <2>2. "in.progress" \in dir[k].files /\ Attends(r, k) => FALSE
    BY <1>5 DEF Attends
  <2> QED  BY <1>1, <1>2, <1>3, <1>5, <2>1, <2>2, QuietStep
<1> QED  BY <1>4, <1>5

\* A request goes on to its next call and touches nothing.
LEMMA QuietGoto ==
  ASSUME OwedInv, NEW r \in Runners, NEW k, k = run[r].cur, NEW pc \in PC, Goto(r, pc),
         run[r].pc \notin {"idle", "checkold", "checknew"}, pc \notin {"idle", "unmark", "create"},
         UNCHANGED <<world, pair, reader, ghosts>>, dir' = dir, base' \in {base, TRUE},
         \/ faults' = faults + 1
         \/ /\ faults' = faults
            /\ Owes(r, k) => Owes(r, k)'
            /\ run[r].pc # "either"
            /\ Attends(r, k) => Attends(r, k)'
  PROVE  OwedInv'
<1>1. TypeOK /\ k \in Clusters /\ faults \in Nat /\ found \subseteq Clusters
  BY DEF OwedInv, StoppedInv, TypeOK, Run
<1>2. /\ run' \in [Runners -> Run] /\ \A q \in Runners : q # r => run'[q] = run[q]
      /\ run'[r].pc = pc /\ run'[r].cur = k
  BY <1>1, GoesOn
<1>3. \A c \in Clusters : PastCheck(r, c)' /\ known /\ ~Down(c) => c \in flag \cup misjudged
  BY LookedAtBoth
<1>4. CASE faults' = faults + 1
  <2>1. faults' # faults  BY <1>1, <1>4
  <2> QED  BY <1>1, <1>2, <1>3, <1>4, <2>1, QuietStep
<1>5. CASE /\ faults' = faults /\ run[r].pc # "either"
           /\ Owes(r, k) => Owes(r, k)'
           /\ Attends(r, k) => Attends(r, k)'
  <2>1. ASSUME NEW c \in found \ misjudged, Owes(r, c) PROVE Owes(r, c)'
    <3>1. CASE c = k  BY <1>5, <2>1, <3>1
    <3>2. CASE c # k
      <4>1. k = "old" /\ c = "new"  BY <1>5, <2>1, <3>2 DEF Owes
      <4> QED  BY <1>2, <4>1 DEF Owes
    <3> QED  BY <3>1, <3>2
  <2> QED  BY <1>1, <1>2, <1>3, <1>5, <2>1, QuietStep
<1> QED  BY <1>4, <1>5

\* A request makes one call on the directory of its cluster.
LEMMA DirStep ==
  ASSUME OwedInv, NEW r \in Runners, NEW k, k = run[r].cur, NEW d \in StepDir, SetDir(r, d),
         run' \in [Runners -> Run], \A q \in Runners : q # r => run'[q] = run[q],
         UNCHANGED <<world, pair, reader, ghosts>>, base' \in {base, TRUE},
         run[r].pc \notin {"idle", "checkold", "checknew", "either"},
         \/ run'[r].cur = k /\ run'[r].pc # "idle"
         \/ k = "old" => run'[r].pc = "readflag" /\ run'[r].cur = "new",
         d.exists => dir[k].exists \/ base',
         d.files # {} => d.exists,
         "completed" \in d.files => "completed" \in dir[k].files \/ Down(k),
         run'[r].pc \in {"unmark", "create"} /\ run'[r].verdict = "completed"
            => Down(run'[r].cur),
         \/ faults' = faults + 1
         \/ /\ faults' = faults
            /\ Owes(r, k) => Owes(r, k)' \/ "failed" \in d.files \/ Down(k)
            /\ \/ Owes(r, k)' \/ Down(k)
               \/ /\ dir[k].exists => d.exists
                  /\ dir[k].files \cap {"in.progress", "failed"} \subseteq d.files
            /\ "in.progress" \in d.files => "in.progress" \in dir[k].files \/ Attends(r, k)'
            /\ "in.progress" \in d.files /\ Attends(r, k) => Attends(r, k)'
  PROVE  OwedInv'
<1>1. /\ up' = up /\ configured' = configured /\ gpstops' = gpstops /\ restarted' = restarted
      /\ known' = known /\ flag' = flag /\ found' = found /\ reader' = reader
      /\ died' = died /\ misjudged' = misjudged
  BY DEF world, pair, ghosts
<1>2. /\ k \in Clusters /\ TypeOK /\ dir \in [Clusters -> StepDir] /\ faults \in Nat
      /\ flag \subseteq Clusters /\ found \subseteq Clusters /\ misjudged \subseteq Clusters
      /\ base \in BOOLEAN
  BY DEF OwedInv, StoppedInv, TypeOK, Run
<1>3. /\ dir' \in [Clusters -> StepDir] /\ dir'[k] = d
      /\ \A c \in Clusters : c # k => dir'[c] = dir[c]
  BY <1>2, OneDirChanges
<1>4. faults' \in {faults, faults + 1}  OBVIOUS
<1>5. Frame(r)  BY <1>1, <1>3, <1>4 DEF Frame
<1>6. \A c : DownThen(c) <=> Down(c)  BY <1>1 DEF Down, DownThen
<1>7. TypeOK'  BY <1>1, <1>2, <1>3, <1>5, TypedByRequest
<1>8. StoppedInv'
  BY <1>3, <1>5, <1>6, <1>7, StoppedByRequest DEF OwedInv
<1>9. FlagsTrue'
  <2>1. found' # {} => known  BY <1>1 DEF OwedInv, FlagsTrue
  <2>2. \A c \in Clusters : known /\ ~Down(c) => c \in flag \cup misjudged
    BY LookedAtBoth
  <2> QED  BY <1>1, <1>5, <1>6, <2>1, <2>2, FlagsByRequest DEF OwedInv
<1>10. CASE faults' = faults + 1
  <2>1. faults' # faults  BY <1>2, <1>10
  <2> QED  BY <1>5, <1>8, <1>9, <2>1, KeptByRequest
<1>11. CASE faults' = faults
  <2>0. faults' # faults + 1  BY <1>2, <1>11
  <2>1. ASSUME NEW c \in found \ misjudged, Owes(r, c), ~DownThen(c)
        PROVE  Owes(r, c)' \/ "failed" \in dir'[c].files
    <3>1. CASE c = k  BY <1>3, <1>6, <2>0, <2>1, <3>1
    <3>2. CASE c # k
      <4>1. k = "old" /\ c = "new"  BY <2>1, <3>2 DEF Owes
      <4> QED  BY <4>1 DEF Owes
    <3> QED  BY <3>1, <3>2
  <2>2. \A c \in found' : c \in found  BY <1>1
  <2>3. /\ \/ Owes(r, k)' \/ DownThen(k)
           \/ /\ dir[k].exists => dir'[k].exists
              /\ dir[k].files \cap {"in.progress", "failed"} \subseteq dir'[k].files
        /\ "in.progress" \in dir'[k].files => "in.progress" \in dir[k].files \/ Attends(r, k)'
        /\ "in.progress" \in dir'[k].files /\ Attends(r, k) => Attends(r, k)'
    BY <1>3, <1>6, <2>0
  <2> QED  BY <1>5, <1>8, <1>9, <2>1, <2>2, <2>3, KeptByRequest
<1> QED  BY <1>10, <1>11

\* The handler asks whether a postmaster runs and stores the answer.
LEMMA CheckKeeps ==
  ASSUME OwedInv, NEW r \in Runners, NEW c \in Clusters, NEW next \in PC,
         PostmasterRunning(r, c, next),
         \/ run[r].pc = "checkold" /\ c = "old" /\ next = "checknew"
         \/ run[r].pc = "checknew" /\ c = "new" /\ next = "either"
  PROVE  OwedInv'
<1>0. PICK k : k = run[r].cur  OBVIOUS
<1>1. /\ up' = up /\ configured' = configured /\ gpstops' = gpstops /\ restarted' = restarted
      /\ known' = known /\ died' = died /\ reader' = reader /\ faults' = faults
      /\ dir' = dir /\ base' = base
      /\ \/ /\ known /\ c \in up /\ flag' = flag \cup {c}
            /\ found' = found \cup {c} /\ misjudged' = misjudged
         \/ /\ flag' = flag \ {c} /\ found' = found
            /\ misjudged' = IF known /\ c \in up THEN misjudged \cup {c} ELSE misjudged
  BY DEF PostmasterRunning, CanTell, world, files, bounds
<1>2. /\ k \in Clusters /\ TypeOK /\ dir \in [Clusters -> StepDir]
      /\ flag \subseteq Clusters /\ found \subseteq Clusters /\ misjudged \subseteq Clusters
  BY <1>0 DEF OwedInv, StoppedInv, TypeOK, Run
<1>3. /\ run' \in [Runners -> Run] /\ \A q \in Runners : q # r => run'[q] = run[q]
      /\ run'[r].pc = next
  BY <1>2, GoesOn DEF PostmasterRunning
<1>4. Frame(r)  BY <1>0, <1>1, <1>2, <1>3 DEF Frame
<1>5. \A e : DownThen(e) <=> Down(e)  BY <1>1 DEF Down, DownThen
<1>6. flag' \subseteq Clusters /\ found' \subseteq Clusters /\ misjudged' \subseteq Clusters
  BY <1>1, <1>2
<1>7. TypeOK'  BY <1>1, <1>2, <1>4, <1>6, TypedByRequest
<1>8. StoppedInv'
  <2>1. run[r].cur \in Clusters  BY <1>0, <1>2
  <2> QED  BY <1>1, <1>3, <1>4, <1>7, <2>1, StoppedByRequest DEF OwedInv, StoppedInv, MarkersTrue
<1>9. FlagsTrue'
  <2>1. found' # {} => known  BY <1>1 DEF OwedInv, FlagsTrue
  <2>2. \A e \in Clusters :
          e \in flag \cup misjudged /\ known /\ ~DownThen(e) => e \in flag' \cup misjudged'
    BY <1>1 DEF DownThen
  <2>3. \A e \in Clusters : PastCheck(r, e)' /\ known /\ ~DownThen(e) => e \in flag' \cup misjudged'
    <3>1. ASSUME NEW e \in Clusters, PastCheck(r, e)', known, ~DownThen(e)
          PROVE  e \in flag' \cup misjudged'
      <4>1. CASE e = c  BY <1>1, <3>1, <4>1 DEF DownThen
      <4>2. CASE e # c
        <5>1. PastCheck(r, e)  BY <1>3, <3>1, <4>2 DEF PastCheck, Clusters
        <5> QED  BY <1>5, <2>2, <3>1, <5>1 DEF OwedInv, FlagsTrue
      <4> QED  BY <4>1, <4>2
    <3> QED  BY <3>1
  <2> QED  BY <1>4, <2>1, <2>2, <2>3, FlagsByRequest DEF OwedInv
<1>10. \A e : Owes(r, e)'  BY <1>3 DEF Owes
<1>11. ~Attends(r, k)  BY <1>0 DEF Attends
<1> QED  BY <1>0, <1>1, <1>4, <1>8, <1>9, <1>10, <1>11, KeptByRequest

\* gpstop ends: a success is one because the cluster is down.
LEMMA GpstopKeeps ==
  ASSUME OwedInv, NEW r \in Runners, GpstopEnds(r)
  PROVE  OwedInv'
<1>0. PICK k : k = run[r].cur  OBVIOUS
<1>1. PICK ok \in BOOLEAN :
        /\ Becomes(r, [run[r] EXCEPT
             !.pc = "unmark", !.verdict = IF ok THEN "completed" ELSE "failed"])
        /\ up' \in (IF ok THEN {up \ {k}} ELSE {up, up \ {k}})
  BY <1>0 DEF GpstopEnds
<1>2. /\ configured' = configured /\ gpstops' = gpstops /\ restarted' = restarted
      /\ known' = known /\ flag' = flag /\ found' = found /\ reader' = reader
      /\ died' = died /\ misjudged' = misjudged
      /\ faults' = faults /\ dir' = dir /\ base' = base /\ run[r].pc = "wait"
  BY DEF GpstopEnds, pair, files, ghosts, bounds
<1>3. /\ k \in Clusters /\ TypeOK /\ dir \in [Clusters -> StepDir]
      /\ flag \subseteq Clusters /\ found \subseteq Clusters /\ misjudged \subseteq Clusters
  BY <1>0 DEF OwedInv, StoppedInv, TypeOK, Run
<1> DEFINE x == [run[r] EXCEPT !.pc = "unmark", !.verdict = IF ok THEN "completed" ELSE "failed"]
<1>4. /\ Becomes(r, x) /\ x \in Run /\ x.pc = "unmark" /\ x.cur = k
      /\ x.verdict = IF ok THEN "completed" ELSE "failed"
  BY <1>0, <1>1, <1>3 DEF TypeOK, Run, PC
<1> HIDE DEF x
<1>5. /\ run' \in [Runners -> Run] /\ \A q \in Runners : q # r => run'[q] = run[q]
      /\ run'[r] = x
  BY <1>3, <1>4, OthersStay
<1>6. up' \subseteq up /\ (ok => k \notin up')  BY <1>1
<1>7. Frame(r)  BY <1>2, <1>3, <1>5, <1>6 DEF Frame
<1>8. TypeOK'  BY <1>0, <1>2, <1>3, <1>7, TypedByRequest
<1>9. StoppedInv'
  <2>1. x.verdict = "completed" => DownThen(k)  BY <1>4, <1>6 DEF DownThen
  <2>2. dir'[k].files # {} => dir'[k].exists
    BY <1>2, <1>3 DEF OwedInv, StoppedInv, MarkersTrue
  <2> QED  BY <1>0, <1>2, <1>4, <1>5, <1>7, <1>8, <2>1, <2>2, StoppedByRequest DEF OwedInv
<1>10. FlagsTrue'
  <2>1. found' # {} => known  BY <1>2 DEF OwedInv, FlagsTrue
  <2>2. \A c \in Clusters : known /\ ~DownThen(c) => c \in flag \cup misjudged
    BY <1>2, <1>7, LookedAtBoth, DownStays
  <2> QED  BY <1>2, <1>7, <2>1, <2>2, FlagsByRequest DEF OwedInv
<1>11. ASSUME NEW c, Owes(r, c), ~DownThen(c) PROVE Owes(r, c)'
  <2>1. CASE c = k
    <3>1. ~ok  BY <1>6, <1>11, <2>1 DEF DownThen
    <3>2. "in.progress" \in dir[c].files
      BY <1>0, <1>2, <1>11, <2>1 DEF Owes
    <3> QED  BY <1>2, <1>4, <1>5, <2>1, <3>1, <3>2 DEF Owes
  <2>2. CASE c # k
    <3>1. k = "old" /\ c = "new"  BY <1>0, <1>2, <1>11, <2>2 DEF Owes
    <3> QED  BY <1>4, <1>5, <3>1 DEF Owes
  <2> QED  BY <2>1, <2>2
<1>12. Attends(r, k)'  BY <1>4, <1>5 DEF Attends
<1> QED  BY <1>0, <1>2, <1>7, <1>9, <1>10, <1>11, <1>12, KeptByRequest

\* Every step of a request keeps the invariant, a failing call included.
LEMMA RequestKeeps ==
  ASSUME OwedInv, NEW r \in Runners,
         PrepareShutdownClusters(r) \/ RunnerStep(r) \/ IOError(r)
  PROVE  OwedInv'
<1>0. PICK k : k = run[r].cur  OBVIOUS
<1>1. /\ k \in Clusters /\ TypeOK /\ dir[k] \in StepDir /\ run[r] \in Run
      /\ dir[k].files \subseteq Marker /\ faults \in Nat /\ flag \subseteq Clusters
      /\ dir \in [Clusters -> StepDir] /\ found \subseteq Clusters /\ run[r].verdict \in Marker
      /\ base \in BOOLEAN
      /\ dir[k].files # {} => dir[k].exists
  BY <1>0 DEF OwedInv, StoppedInv, TypeOK, Run, StepDir, Marker, MarkersTrue
<1>2. ASSUME PrepareShutdownClusters(r) PROVE OwedInv'
  <2>1. /\ Goto(r, "checkold") /\ run[r].pc = "idle" /\ faults' = faults
        /\ UNCHANGED <<world, pair, reader, ghosts>> /\ dir' = dir /\ base' = base
    BY <1>2 DEF PrepareShutdownClusters, files
  <2>2. /\ run' \in [Runners -> Run] /\ \A q \in Runners : q # r => run'[q] = run[q]
        /\ run'[r].pc = "checkold"
    BY <1>1, <2>1, GoesOn DEF PC
  <2>3. /\ \A c : Owes(r, c)' /\ ~PastCheck(r, c)'
        /\ ~Attends(r, k)
    BY <2>1, <2>2 DEF Owes, PastCheck, Attends
  <2> QED  BY <1>0, <2>1, <2>2, <2>3, QuietStep
<1>3. ASSUME CheckOld(r) PROVE OwedInv'
  BY <1>3, CheckKeeps DEF CheckOld, Clusters, PC
<1>4. ASSUME CheckNew(r) PROVE OwedInv'
  BY <1>4, CheckKeeps DEF CheckNew, Clusters, PC
<1>5. ASSUME EitherPostmasterRunning(r) PROVE OwedInv'
  <2>1. /\ run[r].pc = "either" /\ faults' = faults
        /\ UNCHANGED <<world, pair, reader, ghosts>> /\ dir' = dir /\ base' = base
        /\ \/ flag # {} /\ Becomes(r, [run[r] EXCEPT !.pc = "readflag", !.cur = "old"])
           \/ flag = {} /\ Becomes(r, Idle)
    BY <1>5 DEF EitherPostmasterRunning, files, bounds
  <2> DEFINE x == [run[r] EXCEPT !.pc = "readflag", !.cur = "old"]
  <2>2. /\ x \in Run /\ x.pc = "readflag" /\ x.cur = "old"
        /\ Idle \in Run /\ Idle.pc = "idle"
    BY <1>1 DEF Run, PC, Clusters, Idle
  <2>3. (flag # {} /\ Becomes(r, x)) \/ (flag = {} /\ Becomes(r, Idle))  BY <2>1
  <2> HIDE DEF x
  <2>4. \A c \in Clusters : known /\ ~Down(c) => c \in flag \cup misjudged  BY <2>1, LookedAtBoth
  <2>5. found # {} => known  BY DEF OwedInv, FlagsTrue
  <2>6. ~Attends(r, k)  BY <2>1 DEF Attends
  <2>7. CASE flag # {} /\ Becomes(r, x)
    <3>1. /\ run' \in [Runners -> Run] /\ \A q \in Runners : q # r => run'[q] = run[q]
          /\ run'[r] = x
      BY <1>1, <2>2, <2>7, OthersStay
    <3>2. \A c \in Clusters : Owes(r, c)'  BY <2>2, <3>1 DEF Owes, Clusters
    <3> QED  BY <1>0, <1>1, <2>1, <2>2, <2>4, <2>6, <3>1, <3>2, QuietStep
  <2>8. CASE flag = {} /\ Becomes(r, Idle)
    <3>1. /\ run' \in [Runners -> Run] /\ \A q \in Runners : q # r => run'[q] = run[q]
          /\ run'[r].pc = "idle"
      BY <1>1, <2>2, <2>8, OthersStay
    <3>2. \A c \in found \ misjudged : Down(c)  BY <1>1, <2>4, <2>5, <2>8
    <3> QED  BY <1>0, <1>1, <2>1, <2>4, <2>6, <3>1, <3>2, QuietStep
  <2> QED  BY <2>3, <2>7, <2>8
<1>6. ASSUME StopEverything(r) PROVE OwedInv'
  <2>1. /\ run[r].pc = "readflag" /\ faults' = faults
        /\ UNCHANGED <<world, pair, reader, ghosts>> /\ dir' = dir /\ base' = base
    BY <1>6 DEF StopEverything, files, bounds
  <2>2. CASE k \in flag /\ Goto(r, "clear")
    <3>1. run'[r].pc = "clear" /\ run'[r].cur = k  BY <1>0, <1>1, <2>2, GoesOn DEF PC
    <3>2. Owes(r, k)'  BY <3>1 DEF Owes
    <3>3. ~Attends(r, k)  BY <2>1 DEF Attends
    <3> QED  BY <1>0, <2>1, <2>2, <3>2, <3>3, QuietGoto DEF PC
  <2>3. CASE k \notin flag /\ NextCluster(r)
    <3>1. k \in found \ misjudged => Down(k)
      <4>1. found # {} => known  BY DEF OwedInv, FlagsTrue
      <4>2. known /\ ~Down(k) => k \in flag \cup misjudged  BY <1>1, <2>1, LookedAtBoth
      <4> QED  BY <2>3, <4>1, <4>2
    <3> QED  BY <1>0, <2>1, <2>3, <3>1, QuietTurn
  <2> QED  BY <1>0, <1>6, <2>2, <2>3 DEF StopEverything
<1>7. ASSUME RemoveAllFiles(r) PROVE OwedInv'
  <2>1. /\ run[r].pc = "clear" /\ Goto(r, "rmdir") /\ SetDir(r, Unlinked(dir[k]))
        /\ faults' = faults /\ base' = base /\ UNCHANGED <<world, pair, reader, ghosts>>
    BY <1>0, <1>7 DEF RemoveAllFiles, bounds
  <2>2. /\ run' \in [Runners -> Run] /\ \A q \in Runners : q # r => run'[q] = run[q]
        /\ run'[r].pc = "rmdir" /\ run'[r].cur = k
    BY <1>0, <1>1, <2>1, GoesOn DEF PC
  <2>3. /\ Unlinked(dir[k]) \in StepDir /\ Unlinked(dir[k]).files = {}
        /\ Unlinked(dir[k]).exists = dir[k].exists
    BY <1>1, DirCalls
  <2>4. Owes(r, k)' /\ ~Attends(r, k)  BY <2>1, <2>2 DEF Owes, Attends
  <2> QED  BY <1>0, <2>1, <2>2, <2>3, <2>4, DirStep
<1>8. ASSUME RemoveDir(r) PROVE OwedInv'
  <2>1. /\ run[r].pc = "rmdir" /\ faults' = faults /\ base' = base
        /\ UNCHANGED <<world, pair, reader, ghosts>>
    BY <1>8 DEF RemoveDir, bounds
  <2>2. ~Attends(r, k)  BY <2>1 DEF Attends
  <2>3. CASE CanRmdir(dir[k]) /\ SetDir(r, Absent) /\ Goto(r, "mkdir")
    <3>1. /\ run' \in [Runners -> Run] /\ \A q \in Runners : q # r => run'[q] = run[q]
          /\ run'[r].pc = "mkdir" /\ run'[r].cur = k
      BY <1>0, <1>1, <2>3, GoesOn DEF PC
    <3>2. Absent \in StepDir /\ Absent.files = {} /\ Absent.exists = FALSE
      BY <1>1, DirCalls
    <3>3. Owes(r, k)'  BY <3>1 DEF Owes
    <3> QED  BY <1>0, <2>1, <2>2, <2>3, <3>1, <3>2, <3>3, DirStep
  <2>4. CASE ~CanRmdir(dir[k]) /\ dir' = dir /\ Goto(r, "mark")
    <3>1. run'[r].pc = "mark" /\ run'[r].cur = k  BY <1>0, <1>1, <2>4, GoesOn DEF PC
    <3>2. dir[k].exists  BY <1>1, <2>4 DEF CanRmdir
    <3>3. Owes(r, k)'  BY <2>4, <3>1, <3>2 DEF Owes
    <3> QED  BY <1>0, <2>1, <2>2, <2>4, <3>3, QuietGoto DEF PC
  <2> QED  BY <1>0, <1>8, <2>3, <2>4 DEF RemoveDir
<1>9. ASSUME MakeDir(r) PROVE OwedInv'
  <2>1. /\ run[r].pc = "mkdir" /\ Goto(r, "mark") /\ SetDir(r, MkdirAll(dir[k]))
        /\ faults' = faults /\ base' = TRUE /\ UNCHANGED <<world, pair, reader, ghosts>>
    BY <1>0, <1>9 DEF MakeDir, bounds
  <2>2. /\ run' \in [Runners -> Run] /\ \A q \in Runners : q # r => run'[q] = run[q]
        /\ run'[r].pc = "mark" /\ run'[r].cur = k
    BY <1>0, <1>1, <2>1, GoesOn DEF PC
  <2>3. /\ MkdirAll(dir[k]) \in StepDir /\ MkdirAll(dir[k]).files = dir[k].files
        /\ MkdirAll(dir[k]).exists = TRUE
    BY <1>1, DirCalls
  <2>4. dir'[k] = MkdirAll(dir[k])  BY <1>0, <1>1, <2>1, <2>3, OneDirChanges
  <2>5. Owes(r, k)' /\ ~Attends(r, k)  BY <2>1, <2>2, <2>3, <2>4 DEF Owes, Attends
  <2> QED  BY <1>0, <2>1, <2>2, <2>3, <2>5, DirStep
<1>10. ASSUME MarkInProgress(r) PROVE OwedInv'
  <2>1. /\ run[r].pc = "mark" /\ faults' = faults /\ base' = base
        /\ UNCHANGED <<world, pair, reader, ghosts>>
    BY <1>10 DEF MarkInProgress, bounds
  <2> DEFINE d == Opened(dir[k], "in.progress")
  <2>2. d \in StepDir /\ d.files = dir[k].files \cup {"in.progress"} /\ d.exists = dir[k].exists
    BY <1>1, DirCalls DEF Marker
  <2>3. \/ CanOpen(dir[k]) /\ Goto(r, "gpstop") /\ SetDir(r, d)
        \/ ~CanOpen(dir[k]) /\ dir' = dir /\ NextCluster(r)
    BY <1>0, <1>10 DEF MarkInProgress
  <2> HIDE DEF d
  <2>4. CASE CanOpen(dir[k]) /\ Goto(r, "gpstop") /\ SetDir(r, d)
    <3>1. /\ run' \in [Runners -> Run] /\ \A q \in Runners : q # r => run'[q] = run[q]
          /\ run'[r].pc = "gpstop" /\ run'[r].cur = k
      BY <1>0, <1>1, <2>4, GoesOn DEF PC
    <3>2. dir'[k] = d  BY <1>0, <1>1, <2>2, <2>4, OneDirChanges
    <3>3. Owes(r, k)' /\ Attends(r, k)'  BY <2>2, <3>1, <3>2 DEF Owes, Attends
    <3>4. d.exists  BY <2>2, <2>4 DEF CanOpen
    <3> QED  BY <1>0, <2>1, <2>2, <2>4, <3>1, <3>3, <3>4, DirStep
  <2>5. CASE ~CanOpen(dir[k]) /\ dir' = dir /\ NextCluster(r)
    <3>1. ~Owes(r, k)  BY <1>0, <2>1, <2>5 DEF Owes, CanOpen
    <3> QED  BY <1>0, <2>1, <2>5, <3>1, QuietTurn
  <2> QED  BY <2>3, <2>4, <2>5
<1>11. ASSUME StartGpstop(r) PROVE OwedInv'
  <2>1. /\ run[r].pc = "gpstop" /\ Goto(r, "wait") /\ faults' = faults
        /\ UNCHANGED <<world, pair, reader, ghosts>> /\ dir' = dir /\ base' = base
    BY <1>11 DEF StartGpstop, files, bounds
  <2>2. run'[r].pc = "wait" /\ run'[r].cur = k  BY <1>0, <1>1, <2>1, GoesOn DEF PC
  <2>3. (Owes(r, k) => Owes(r, k)') /\ (Attends(r, k) => Attends(r, k)')
    BY <1>0, <2>1, <2>2 DEF Owes, Attends
  <2> QED  BY <1>0, <2>1, <2>3, QuietGoto DEF PC
<1>12. ASSUME GpstopEnds(r) PROVE OwedInv'
  BY <1>12, GpstopKeeps
<1>13. ASSUME RemoveInProgress(r) PROVE OwedInv'
  <2>1. /\ run[r].pc = "unmark" /\ faults' = faults /\ base' = base
        /\ UNCHANGED <<world, pair, reader, ghosts>>
    BY <1>13 DEF RemoveInProgress, bounds
  <2> DEFINE d == Unmarked(dir[k])
  <2>2. d \in StepDir /\ d.files = dir[k].files \ {"in.progress"} /\ d.exists = dir[k].exists
    BY <1>1, DirCalls
  <2>3. \/ CanUnmark(dir[k]) /\ SetDir(r, d) /\ Goto(r, "create")
        \/ ~CanUnmark(dir[k]) /\ dir' = dir /\ NextCluster(r)
    BY <1>0, <1>13 DEF RemoveInProgress
  <2> HIDE DEF d
  <2>4. CASE CanUnmark(dir[k]) /\ SetDir(r, d) /\ Goto(r, "create")
    <3>1. /\ run' \in [Runners -> Run] /\ \A q \in Runners : q # r => run'[q] = run[q]
          /\ run'[r].pc = "create" /\ run'[r].cur = k /\ run'[r].verdict = run[r].verdict
      BY <1>0, <1>1, <2>4, GoesOn DEF PC
    <3>2. dir'[k] = d  BY <1>0, <1>1, <2>2, <2>4, OneDirChanges
    <3>3. d.exists  BY <1>1, <2>2, <2>4 DEF CanUnmark
    <3>4. run[r].verdict = "completed" => Down(k)
      BY <1>0, <2>1 DEF OwedInv, StoppedInv, MarkersTrue
    <3>5. run[r].verdict \in {"completed", "failed"}  BY <1>1 DEF Run
    <3>6. Owes(r, k)' \/ Down(k)
      BY <3>1, <3>2, <3>3, <3>4, <3>5 DEF Owes
    <3> QED  BY <1>0, <2>1, <2>2, <2>4, <3>1, <3>3, <3>4, <3>6, DirStep
  <2>5. CASE ~CanUnmark(dir[k]) /\ dir' = dir /\ NextCluster(r)
    <3>1. "in.progress" \notin dir[k].files  BY <2>5 DEF CanUnmark
    <3>2. ~Owes(r, k)  BY <1>0, <2>1, <3>1 DEF Owes
    <3> QED  BY <1>0, <2>1, <2>5, <3>1, <3>2, QuietTurn
  <2> QED  BY <2>3, <2>4, <2>5
<1>14. ASSUME CreateVerdict(r) PROVE OwedInv'
  <2>1. /\ run[r].pc = "create" /\ NextCluster(r) /\ faults' = faults /\ base' = base
        /\ UNCHANGED <<world, pair, reader, ghosts>>
    BY <1>14 DEF CreateVerdict, bounds
  <2> DEFINE d == Opened(dir[k], run[r].verdict)
  <2>2. d \in StepDir /\ d.files = dir[k].files \cup {run[r].verdict} /\ d.exists = dir[k].exists
    BY <1>1, DirCalls
  <2>3. \/ CanOpen(dir[k]) /\ SetDir(r, d)
        \/ ~CanOpen(dir[k]) /\ dir' = dir
    BY <1>0, <1>14 DEF CreateVerdict
  <2> HIDE DEF d
  <2>4. CASE CanOpen(dir[k]) /\ SetDir(r, d)
    <3>1. /\ run' \in [Runners -> Run] /\ \A q \in Runners : q # r => run'[q] = run[q]
          /\ run'[r].pc \in {"readflag", "idle"}
          /\ k = "old" => run'[r].pc = "readflag" /\ run'[r].cur = "new"
      BY <1>0, <1>1, <2>1, TurnsToNext
    <3>2. run[r].verdict = "completed" => Down(k)
      BY <1>0, <2>1 DEF OwedInv, StoppedInv, MarkersTrue
    <3>3. run[r].verdict \in {"completed", "failed"}  BY <1>1 DEF Run
    <3>4. d.exists  BY <2>2, <2>4 DEF CanOpen
    <3>5. ~Attends(r, k)  BY <2>1 DEF Attends
    <3>6. "failed" \in d.files \/ Down(k)  BY <2>2, <3>2, <3>3
    <3>7. "completed" \in d.files => "completed" \in dir[k].files \/ Down(k)
      BY <2>2, <3>2, <3>3
    <3>8. "in.progress" \in d.files => "in.progress" \in dir[k].files  BY <2>2, <3>3
    <3> QED  BY <1>0, <2>1, <2>2, <2>4, <3>1, <3>4, <3>5, <3>6, <3>7, <3>8, DirStep
  <2>5. CASE ~CanOpen(dir[k]) /\ dir' = dir
    <3>1. ~Owes(r, k)  BY <1>0, <2>1, <2>5 DEF Owes, CanOpen
    <3> QED  BY <1>0, <2>1, <2>5, <3>1, QuietTurn
  <2> QED  BY <2>3, <2>4, <2>5
<1>15. ASSUME IOError(r) PROVE OwedInv'
  <2>1. faults' = faults + 1 /\ UNCHANGED <<world, pair, reader, ghosts>>
    BY <1>15 DEF IOError
  <2>2. CASE /\ run[r].pc = "clear" /\ Goto(r, "mark") /\ base' = base
             /\ \E left \in SUBSET dir[k].files : SetDir(r, [dir[k] EXCEPT !.files = left])
    <3>1. PICK left \in SUBSET dir[k].files : SetDir(r, [dir[k] EXCEPT !.files = left])
      BY <2>2
    <3> DEFINE d == [dir[k] EXCEPT !.files = left]
    <3>2. SetDir(r, d) /\ d \in StepDir /\ d.files = left /\ d.exists = dir[k].exists
      BY <1>1, <3>1 DEF StepDir
    <3> HIDE DEF d
    <3>3. /\ run' \in [Runners -> Run] /\ \A q \in Runners : q # r => run'[q] = run[q]
          /\ run'[r].pc = "mark" /\ run'[r].cur = k
      BY <1>0, <1>1, <2>2, GoesOn DEF PC
    <3>4. /\ d.files # {} => d.exists
          /\ "completed" \in d.files => "completed" \in dir[k].files
      BY <1>1, <3>1, <3>2
    <3> QED  BY <1>0, <2>1, <2>2, <3>2, <3>3, <3>4, DirStep
  <2>3. CASE /\ run[r].pc \in {"rmdir", "mkdir"} /\ Goto(r, "mark")
             /\ base' \in {base, TRUE} /\ dir' = dir
    BY <1>0, <2>1, <2>3, QuietGoto DEF PC
  <2>4. CASE run[r].pc \in {"mark", "unmark", "create"} /\ NextCluster(r) /\ UNCHANGED files
    <3>1. dir' = dir /\ base' = base  BY <2>4 DEF files
    <3> QED  BY <1>0, <2>1, <2>4, <3>1, QuietTurn
  <2> QED  BY <1>0, <1>15, <2>2, <2>3, <2>4 DEF IOError, files
<1> QED  BY <1>2, <1>3, <1>4, <1>5, <1>6, <1>7, <1>8, <1>9, <1>10, <1>11, <1>12, <1>13, <1>14,
           <1>15 DEF RunnerStep

\* A query goes on; what it has counted and what it answers is true.
LEMMA QueryKeeps ==
  ASSUME OwedInv, NEW state \in Query, Reads(state),
         state.hits # 0 =>
           state.pc = "count" /\ state.at = "old" /\ state.hits = 1 /\ Down("new"),
         state.reply = "COMPLETE" => \A c \in Clusters : Down(c)
  PROVE  OwedInv'
<1>1. /\ reader' = state /\ UNCHANGED <<world, pair, files, run, ghosts>> /\ faults' = faults
  BY DEF Reads
<1>2. /\ up' = up /\ configured' = configured /\ gpstops' = gpstops /\ restarted' = restarted
      /\ known' = known /\ flag' = flag /\ found' = found /\ died' = died /\ misjudged' = misjudged
      /\ dir' = dir /\ base' = base /\ run' = run /\ reader' = state /\ faults' = faults
  BY <1>1 DEF world, pair, files, ghosts
<1>3. \A c : Down(c)' <=> Down(c)  BY <1>2 DEF Down
<1>4. TypeOK'  BY <1>2 DEF OwedInv, StoppedInv, TypeOK
<1>5. MarkersTrue'  BY <1>2, <1>3 DEF OwedInv, StoppedInv, MarkersTrue
<1>6. CountTrue'  BY <1>2, <1>3 DEF CountTrue
<1>7. FlagsTrue'  BY <1>2, <1>3 DEF OwedInv, FlagsTrue, PastCheck
<1>8. \A c : (SeenTo(c) => SeenTo(c)') /\ (Attended(c) => Attended(c)')
  BY <1>2, <1>3 DEF SeenTo, Owes, Attended, Attends
<1> QED  BY <1>2, <1>4, <1>5, <1>6, <1>7, <1>8 DEF OwedInv, StoppedInv

\* Every step of a query keeps the invariant.
LEMMA StatusKeeps ==
  ASSUME OwedInv, Stat \/ GetStatusStep
  PROVE  OwedInv'
<1>0. /\ reader \in Query /\ dir \in [Clusters -> StepDir] /\ NoQuery \in Query
      /\ NoQuery.hits = 0 /\ NoQuery.reply = "none" /\ reader.at \in Clusters
  BY DEF OwedInv, StoppedInv, TypeOK, Query, NoQuery, Clusters, Status
<1>1. ASSUME NEW status \in Status, Reads([NoQuery EXCEPT !.reply = status]),
             status = "COMPLETE" => \A c \in Clusters : Down(c)
      PROVE  OwedInv'
  <2> DEFINE x == [NoQuery EXCEPT !.reply = status]
  <2>1. x \in Query /\ x.hits = 0 /\ x.reply = status  BY <1>0 DEF Query, NoQuery
  <2>2. Reads(x)  BY <1>1
  <2> HIDE DEF x
  <2> QED  BY <1>1, <2>1, <2>2, QueryKeeps
<1>2. CASE Stat
  <2>1. CASE Reads([NoQuery EXCEPT !.reply = "PENDING"])
    BY <1>1, <2>1 DEF Status
  <2>2. CASE Reads([NoQuery EXCEPT !.pc = "pgrep"])
    <3> DEFINE x == [NoQuery EXCEPT !.pc = "pgrep"]
    <3>1. x \in Query /\ x.hits = 0 /\ x.reply = "none"  BY <1>0 DEF Query, NoQuery
    <3>2. Reads(x)  BY <2>2
    <3> HIDE DEF x
    <3> QED  BY <3>1, <3>2, QueryKeeps
  <2> QED  BY <1>2, <2>1, <2>2 DEF Stat
<1>3. ASSUME NEW pc \in {"glob", "globagain", "count"}, NEW at \in Clusters,
             reader.pc # "count", Reads([reader EXCEPT !.pc = pc, !.at = at])
      PROVE  OwedInv'
  <2> DEFINE x == [reader EXCEPT !.pc = pc, !.at = at]
  <2>1. x \in Query /\ x.hits = reader.hits /\ x.reply = reader.reply
    BY <1>0, <1>3 DEF Query
  <2>2. Reads(x)  BY <1>3
  <2>3. reader.hits = 0 /\ (reader.reply = "COMPLETE" => \A c \in Clusters : Down(c))
    BY <1>3 DEF OwedInv, StoppedInv, CountTrue
  <2> HIDE DEF x
  <2> QED  BY <2>1, <2>2, <2>3, QueryKeeps
<1>4. CASE IsGpstopRunning
  <2>1. PICK pc \in {"glob", "globagain"} : Reads([reader EXCEPT !.pc = pc])
    BY <1>4 DEF IsGpstopRunning
  <2>2. [reader EXCEPT !.pc = pc] = [reader EXCEPT !.pc = pc, !.at = reader.at]
    BY <1>0 DEF Query
  <2>3. reader.pc # "count"  BY <1>4 DEF IsGpstopRunning
  <2>4. Reads([reader EXCEPT !.pc = pc, !.at = reader.at])  BY <2>1, <2>2
  <2> QED  BY <1>0, <1>3, <2>1, <2>3, <2>4
<1>5. CASE InProgressFilesExist
  <2>1. reader.pc \in {"glob", "globagain"}  BY <1>5 DEF InProgressFilesExist
  <2>2. CASE Answer("RUNNING") \/ Answer("FAILED")
    BY <1>1, <2>2 DEF Answer, Status
  <2>3. CASE Reads([reader EXCEPT !.at = "old"])
    <3>1. [reader EXCEPT !.at = "old"] = [reader EXCEPT !.pc = reader.pc, !.at = "old"]
      BY <1>0 DEF Query
    <3>2. Reads([reader EXCEPT !.pc = reader.pc, !.at = "old"])  BY <2>3, <3>1
    <3> QED  BY <1>3, <2>1, <3>2 DEF Clusters
  <2>4. CASE Reads([reader EXCEPT !.at = "new",
               !.pc = IF reader.pc = "glob" THEN "globagain" ELSE "count"])
    <3>1. PICK pc \in {"globagain", "count"} : pc = IF reader.pc = "glob" THEN "globagain" ELSE "count"
      OBVIOUS
    <3>2. [reader EXCEPT !.at = "new", !.pc = pc] = [reader EXCEPT !.pc = pc, !.at = "new"]
      BY <1>0 DEF Query
    <3>3. Reads([reader EXCEPT !.pc = pc, !.at = "new"])  BY <2>4, <3>1, <3>2
    <3> QED  BY <1>3, <2>1, <3>1, <3>3 DEF Clusters
  <2> QED  BY <1>5, <2>2, <2>3, <2>4 DEF InProgressFilesExist
<1>6. CASE IsStopComplete
  <2>1. PICK n : n = reader.hits + (IF "completed" \in dir[reader.at].files THEN 1 ELSE 0)
    OBVIOUS
  <2>2. /\ reader.pc = "count"
        /\ \/ reader.at = "new" /\ Reads([reader EXCEPT !.at = "old", !.hits = n])
           \/ reader.at = "old" /\ Answer(IF n = 2 THEN "COMPLETE" ELSE "FAILED")
    BY <1>6, <2>1 DEF IsStopComplete
  <2>3. /\ reader.hits # 0 => reader.at = "old" /\ reader.hits = 1 /\ Down("new")
        /\ reader.reply = "COMPLETE" => \A c \in Clusters : Down(c)
        /\ \A c \in Clusters : "completed" \in dir[c].files => Down(c)
    BY DEF OwedInv, StoppedInv, CountTrue, MarkersTrue
  <2>4. CASE reader.at = "new" /\ Reads([reader EXCEPT !.at = "old", !.hits = n])
    <3> DEFINE x == [reader EXCEPT !.at = "old", !.hits = n]
    <3>1. n \in {0, 1} /\ (n = 1 => Down("new"))
      <4>1. reader.hits = 0  BY <2>3, <2>4
      <4>2. CASE "completed" \in dir["new"].files
        <5>1. n = 1  BY <2>1, <2>4, <4>1, <4>2
        <5> QED  BY <2>3, <4>2, <5>1 DEF Clusters
      <4>3. CASE "completed" \notin dir["new"].files
        <5>1. n = 0  BY <2>1, <2>4, <4>1, <4>3
        <5> QED  BY <5>1
      <4> QED  BY <4>2, <4>3
    <3>2. x \in Query /\ x.pc = "count" /\ x.at = "old" /\ x.hits = n /\ x.reply = reader.reply
      <4>1. n \in 0..2  BY <3>1
      <4>2. reader.pc = "count" /\ reader \in Query  BY <1>0, <2>2
      <4> QED  BY <4>1, <4>2 DEF Query, Clusters
    <3>3. Reads(x)  BY <2>4
    <3> HIDE DEF x
    <3> QED  BY <2>3, <3>1, <3>2, <3>3, QueryKeeps
  <2>5. CASE reader.at = "old" /\ Answer(IF n = 2 THEN "COMPLETE" ELSE "FAILED")
    <3>1. n = 2 => Down("new") /\ Down("old")
      <4>1. n = 2 => reader.hits # 0 /\ "completed" \in dir["old"].files
        <5>1. reader.hits \in {0, 1}  BY <1>0, <2>3 DEF Query
        <5> QED  BY <2>1, <2>5, <5>1
      <4> QED  BY <2>3, <4>1 DEF Clusters
    <3>2. CASE n = 2
      BY <1>1, <2>5, <3>1, <3>2 DEF Answer, Status, Clusters
    <3>3. CASE n # 2
      BY <1>1, <2>5, <3>3 DEF Answer, Status
    <3> QED  BY <3>2, <3>3
  <2> QED  BY <2>2, <2>4, <2>5
<1> QED  BY <1>2, <1>4, <1>5, <1>6 DEF GetStatusStep

\* Clusters are stopped and started by others; no request and no query moves.
LEMMA WorldKeeps ==
  ASSUME OwedInv, TypeOK', \A c \in Clusters : Down(c) => Down(c)', known => configured',
         UNCHANGED <<pair, files, run, reader, ghosts, faults>>
  PROVE  OwedInv'
<1>1. /\ known' = known /\ flag' = flag /\ found' = found /\ faults' = faults
      /\ died' = died /\ misjudged' = misjudged
      /\ dir' = dir /\ base' = base /\ run' = run /\ reader' = reader
  BY DEF pair, files, ghosts
<1>2. \A r \in Runners : run[r].cur \in Clusters
  BY DEF OwedInv, StoppedInv, TypeOK, Run
<1>3. MarkersTrue'
  <2>1. \A c \in Clusters : "completed" \in dir'[c].files => Down(c)'
    BY <1>1 DEF OwedInv, StoppedInv, MarkersTrue
  <2>2. \A c \in Clusters : dir'[c].files # {} => dir'[c].exists
    BY <1>1 DEF OwedInv, StoppedInv, MarkersTrue
  <2>3. \A r \in Runners : run'[r].pc \in {"unmark", "create"} /\ run'[r].verdict = "completed"
          => Down(run[r].cur)'
    <3>1. ASSUME NEW r \in Runners, NEW k \in Clusters, k = run[r].cur,
                 run[r].pc \in {"unmark", "create"}, run[r].verdict = "completed"
          PROVE  Down(k)'
      BY <3>1 DEF OwedInv, StoppedInv, MarkersTrue
    <3> QED  BY <1>1, <1>2, <3>1 DEF Down
  <2> QED  BY <2>1, <2>2, <2>3 DEF MarkersTrue
<1>4. CountTrue'  BY <1>1 DEF OwedInv, StoppedInv, CountTrue, Clusters
<1>5. FlagsTrue'  BY <1>1 DEF OwedInv, FlagsTrue, PastCheck
<1>6. \A c \in Clusters : (SeenTo(c) => SeenTo(c)') /\ (Attended(c) => Attended(c)')
  BY <1>1 DEF SeenTo, Owes, Attended, Attends
<1>7. found \subseteq Clusters  BY DEF OwedInv, StoppedInv, TypeOK
<1> QED  BY <1>1, <1>3, <1>4, <1>5, <1>6, <1>7 DEF OwedInv, StoppedInv

\* The hub starts: nothing is marked and nobody is asked.
LEMMA ShutdownStart == Init => OwedInv
<1> SUFFICES ASSUME Init PROVE OwedInv
  OBVIOUS
<1>1. /\ up \subseteq Clusters /\ configured \in BOOLEAN /\ known = configured
      /\ flag = {} /\ base = FALSE /\ found = {} /\ died = FALSE /\ restarted = {} /\ faults = 0
      /\ misjudged = {}
  BY ShutdownAssumption DEF Init
<1>2. Idle \in Run /\ Idle.pc = "idle" /\ Absent \in StepDir /\ Absent.files = {} /\ ~Absent.exists
  BY DEF Idle, Run, PC, Clusters, Absent, StepDir
<1>3. /\ run \in [Runners -> Run] /\ \A r \in Runners : run[r].pc = "idle"
      /\ dir \in [Clusters -> StepDir] /\ \A c \in Clusters : dir[c].files = {} /\ ~dir[c].exists
  BY <1>2 DEF Init
<1>4. reader \in Query /\ reader.hits = 0 /\ reader.reply = "none"
  BY DEF Init, NoQuery, Query, Clusters
<1>5. gpstops \in [Clusters -> Nat]  BY DEF Init
<1>6. TypeOK
  <2>1. {configured, known, base} \subseteq BOOLEAN  BY <1>1
  <2>2. faults \in Nat  BY <1>1
  <2>3. died \in BOOLEAN  BY <1>1
  <2> QED  BY <1>1, <1>3, <1>4, <1>5, <2>1, <2>2, <2>3 DEF TypeOK
<1>7. MarkersTrue  BY <1>3 DEF MarkersTrue
<1>8. CountTrue  BY <1>4 DEF CountTrue
<1>9. FlagsTrue  BY <1>1, <1>3 DEF FlagsTrue, PastCheck
<1>10. \A c \in Clusters : Attended(c)  BY <1>3 DEF Attended
<1> QED  BY <1>1, <1>6, <1>7, <1>8, <1>9, <1>10 DEF OwedInv, StoppedInv

\* The hub dies: what it has promised is written down, or a request dies too.
LEMMA RestartKeeps ==
  ASSUME OwedInv, HubRestart
  PROVE  OwedInv'
<1>0. TypeOK /\ found \subseteq Clusters  BY DEF OwedInv, StoppedInv, TypeOK
<1>1. /\ up' = up /\ configured' = configured /\ restarted' = restarted /\ found' = found
      /\ misjudged' = misjudged /\ known' = configured /\ flag' = {} /\ dir' = dir /\ base' = base /\ faults' = faults
      /\ reader' = NoQuery /\ died' = (died \/ ~AllIdle)
  BY DEF HubRestart, files
<1>2. Idle \in Run /\ Idle.pc = "idle"  BY DEF Idle, Run, PC, Clusters
<1>3. run' \in [Runners -> Run] /\ \A r \in Runners : run'[r].pc = "idle"
  BY <1>2 DEF HubRestart
<1>4. gpstops' \in [Clusters -> Nat]
  <2>1. \A c \in Clusters :
          gpstops[c] + Quantify(Runners, LAMBDA r : run[r].pc = "wait" /\ run[r].cur = c) \in Nat
    <3>1. ASSUME NEW c \in Clusters
          PROVE  gpstops[c] + Quantify(Runners, LAMBDA r : run[r].pc = "wait" /\ run[r].cur = c) \in Nat
      <4>1. gpstops[c] \in Nat  BY <1>0 DEF TypeOK
      <4>2. Quantify(Runners, LAMBDA r : run[r].pc = "wait" /\ run[r].cur = c) \in Nat
        BY OrphansCounted
      <4> QED  BY <4>1, <4>2
    <3> QED  BY <3>1
  <2> QED  BY <2>1 DEF HubRestart
<1>5. NoQuery \in Query /\ NoQuery.hits = 0 /\ NoQuery.reply = "none"
  BY DEF NoQuery, Query, Clusters
<1>6. TypeOK'
  <2>1. died' \in BOOLEAN  BY <1>0, <1>1 DEF TypeOK, AllIdle
  <2>2. {configured', known', base'} \subseteq BOOLEAN  BY <1>0, <1>1 DEF TypeOK
  <2> QED  BY <1>0, <1>1, <1>3, <1>4, <1>5, <2>1, <2>2 DEF TypeOK
<1>7. \A c : Down(c)' <=> Down(c)  BY <1>1 DEF Down
<1>8. MarkersTrue'  BY <1>1, <1>3, <1>7 DEF OwedInv, StoppedInv, MarkersTrue
<1>9. CountTrue'  BY <1>1, <1>5 DEF CountTrue
<1>10. FlagsTrue'  BY <1>1, <1>3 DEF OwedInv, FlagsTrue, PastCheck
<1>11. ASSUME faults' = 0, ~died'
       PROVE  (\A c \in found' \ misjudged' : SeenTo(c)') /\ (\A c \in Clusters : Attended(c)')
  <2>1. faults = 0 /\ ~died /\ AllIdle  BY <1>1, <1>11
  <2>2. \A r \in Runners, c \in Clusters : ~Owes(r, c) /\ ~Attends(r, c)
    BY <2>1 DEF AllIdle, Owes, Attends
  <2>3. \A c \in found \ misjudged : SeenTo(c)'
    BY <1>0, <1>1, <1>7, <2>1, <2>2 DEF OwedInv, SeenTo
  <2>4. \A c \in Clusters : Attended(c)'
    BY <1>1, <2>1, <2>2 DEF OwedInv, Attended
  <2> QED  BY <1>1, <2>3, <2>4
<1> QED  BY <1>6, <1>8, <1>9, <1>10, <1>11 DEF OwedInv, StoppedInv

\* Whatever happens, the invariant is kept.
LEMMA OwedStep ==
  ASSUME OwedInv, [Next]_vars
  PROVE  OwedInv'
<1>0. TypeOK  BY DEF OwedInv, StoppedInv
<1>1. CASE ConfigsWritten
  <2>1. /\ configured' = TRUE /\ up' = up /\ gpstops' = gpstops /\ restarted' = restarted
        /\ UNCHANGED <<pair, files, run, reader, ghosts, faults>>
    BY <1>1 DEF ConfigsWritten, bounds
  <2>2. TypeOK'  BY <1>0, <2>1 DEF TypeOK, pair, files, ghosts
  <2>3. \A c \in Clusters : Down(c) => Down(c)'  BY <2>1 DEF Down
  <2> QED  BY <2>1, <2>2, <2>3, WorldKeeps
<1>2. ASSUME NEW c \in Clusters, OtherGpstopEnds(c) \/ Administrator(c) PROVE OwedInv'
  <2>1. configured' = configured /\ UNCHANGED <<pair, files, run, reader, ghosts, faults>>
    BY <1>2 DEF OtherGpstopEnds, Administrator, bounds
  <2>2. /\ up' \subseteq Clusters /\ restarted' \subseteq Clusters
        /\ \A e \in Clusters : Down(e) => Down(e)'
    BY <1>0, <1>2 DEF OtherGpstopEnds, Administrator, TypeOK, Down
  <2>3. gpstops' \in [Clusters -> Nat]
    <3>1. gpstops \in [Clusters -> Nat]  BY <1>0 DEF TypeOK
    <3>2. \/ gpstops' = gpstops
          \/ gpstops[c] > 0 /\ gpstops' = [gpstops EXCEPT ![c] = gpstops[c] - 1]
          \/ gpstops' = [gpstops EXCEPT ![c] = gpstops[c] + 1]
      BY <1>2 DEF OtherGpstopEnds, Administrator
    <3> QED  BY <3>1, <3>2
  <2>4. TypeOK'  BY <1>0, <2>1, <2>2, <2>3 DEF TypeOK, pair, files, ghosts
  <2>5. known => configured'  BY <2>1 DEF OwedInv, FlagsTrue
  <2> QED  BY <2>1, <2>2, <2>4, <2>5, WorldKeeps
<1>3. CASE UNCHANGED vars
  <2>1. UNCHANGED <<world, pair, files, run, reader, ghosts, faults>>
    BY <1>3 DEF vars, bounds
  <2>2. TypeOK'  BY <1>0, <2>1 DEF TypeOK, world, pair, files, ghosts
  <2>3. (\A c \in Clusters : Down(c) => Down(c)') /\ (known => configured')
    BY <2>1 DEF Down, world, OwedInv, FlagsTrue
  <2> QED  BY <2>1, <2>2, <2>3, WorldKeeps
<1> QED  BY <1>1, <1>2, <1>3, RequestKeeps, StatusKeeps, RestartKeeps DEF Next, Quiescent

\* The invariant of the shutdown holds, whatever the hub goes through.
LEMMA OwedHolds == Spec => []OwedInv
<1>1. Init => OwedInv  BY ShutdownStart
<1>2. OwedInv /\ [Next]_vars => OwedInv'  BY OwedStep
<1> QED  BY <1>1, <1>2, PTL DEF Spec

\* Everything the shutdown keeps has its type: the count of completed files
\* never passes two, and a step directory is in a gpstop directory that exists.
THEOREM ShutdownTypeCorrect == Spec => []TypeOK
<1>1. OwedInv => TypeOK  BY DEF OwedInv, StoppedInv
<1> QED  BY <1>1, OwedHolds, PTL

\* COMPLETE is answered only when both clusters were stopped by then, however
\* requests overlap, calls fail, the hub dies, and the reads of the query are
\* spread over all that.
THEOREM CompleteIsTrue == Spec => []CompleteMeansStopped
<1>1. OwedInv => CompleteMeansStopped
  BY DEF OwedInv, StoppedInv, TypeOK, CountTrue, CompleteMeansStopped, Down
<1> QED  BY <1>1, OwedHolds, PTL

\* Unless a call fails or the hub dies on a request, any number of requests
\* that share the two flags of the Pair leave no cluster that one of them has
\* found running, and none has taken for stopped while it ran, without a stop or
\* a failed marker.
THEOREM NobodyForgets == Spec => []NoneForgotten
<1>1. OwedInv => NoneForgotten
  <2> SUFFICES ASSUME OwedInv, AllIdle, faults = 0, ~died, NEW c \in found \ (restarted \cup misjudged)
               PROVE  c \notin up \/ "failed" \in dir[c].files
    BY DEF NoneForgotten
  <2>1. SeenTo(c)  BY DEF OwedInv
  <2>2. \A r \in Runners : ~Owes(r, c)  BY DEF AllIdle, Owes
  <2> QED  BY <2>1, <2>2 DEF SeenTo, Down
<1> QED  BY <1>1, OwedHolds, PTL

\* Under the same conditions no request leaves in.progress behind, although each
\* removes and writes the markers of the others.
THEOREM NothingLeftRunning == Spec => []NoneLeftInProgress
<1>1. OwedInv => NoneLeftInProgress
  BY DEF OwedInv, AllIdle, Attended, Attends, NoneLeftInProgress
<1> QED  BY <1>1, OwedHolds, PTL

=============================================================================
