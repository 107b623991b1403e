-------------------------- MODULE StatusUpgradeProofs --------------------------
(***************************************************************************)
(* The status of the conversion of the master, and the request for all the *)
(* statuses: for any number of conversions, stages and ticks of the clock, *)
(* any steps that run meanwhile and anything that is seen of the others.   *)
(***************************************************************************)
EXTENDS StatusUpgrade, FiniteSetTheorems, SequenceTheorems, TLAPS

\* The first of some files is one of them.
LEMMA FirstIsIn ==
  ASSUME NEW files \in SUBSET (1..Stages), files # {}
  PROVE  First(files) \in files
<1>1. files \subseteq Nat
  BY UpgradeAssumption
<1> DEFINE Less == {ij \in Nat \X Nat : ij[1] < ij[2]}
<1>2. IsWellFoundedOn(Less, Nat)
  BY NatLessThanWellFounded, Zenon DEF OpToRel
<1>3. \A i, j \in Nat : <<j, i>> \in Less <=> j < i
  OBVIOUS
<1> HIDE DEF Less
<1>4. PICK i \in files : \A j \in files : ~(<<j, i>> \in Less)
  BY <1>1, <1>2, WFMin, Zenon
<1>5. \A j \in files : j \in Nat /\ i \in Nat /\ ~(j < i)
  BY <1>1, <1>3, <1>4, Zenon
<1>6. \A j \in files : i <= j
  BY <1>5
<1> QED
  BY <1>6 DEF First

---------------------------------------------------------------------------
(* GetStatus.                                                              *)

\* What a step of the query, to q, has to show: the files do not change.
LEMMA StepOfQuery ==
  ASSUME MasterInv, NEW q \in Query, query' = q, UNCHANGED upgradeVars,
         q.latest \in (IF q.pc \in {"first", "rest", "scan"} THEN 1..Stages ELSE {0}),
         q.pc = "answered" => q.status \in Status,
         q.alone \subseteq owner,
         q.alone # {} => \A u \in Upgrades : upgrade[u].pc # "fresh",
         q.calm => Busy = {},
         q.calm /\ Shows => OnTrack(q),
         q.pc = "answered" /\ q.status = "COMPLETE" => done[Stages].exists
  PROVE  MasterInv'
<1>1. /\ dir' = dir /\ inprogress' = inprogress /\ done' = done /\ clock' = clock
      /\ upgrade' = upgrade /\ owner' = owner
  BY DEF upgradeVars
<1>2. /\ Finished' = Finished /\ Running' = Running /\ DoneFiles' = DoneFiles
  BY <1>1 DEF Finished, Running, DoneFiles
<1>3. Busy' = Busy
  BY <1>1, <1>2 DEF Busy
<1>4. MasterTypeOK'
  BY <1>1, <1>2 DEF MasterInv, MasterTypeOK, Query
<1>5. FilesInv'
  BY <1>1, <1>2 DEF MasterInv, FilesInv, OwnsFiles
<1>6. Shows' = Shows
  BY <1>1, <1>2 DEF Shows
<1>7. QueryInv'
  <2>1. q.calm => Busy' = {} /\ (Shows' => OnTrack(q)')
    BY <1>1, <1>2, <1>3, <1>6 DEF OnTrack
  <2> QED
    BY <1>1, <2>1 DEF QueryInv
<1>8. MasterCompleteIsTrue'
  BY <1>1 DEF MasterInv, FilesInv, OwnsFiles, Finished, MasterCompleteIsTrue
<1> QED
  BY <1>4, <1>5, <1>7, <1>8 DEF MasterInv

\* The query ends.
LEMMA QueryAnswers ==
  ASSUME MasterInv, NEW status \in Status, Answer(status),
         status = "COMPLETE" => done[Stages].exists,
         query.calm /\ Shows => status = "COMPLETE"
  PROVE  MasterInv'
<1> DEFINE q == [query EXCEPT !.pc = "answered", !.status = status, !.files = {}, !.latest = 0,
                              !.time = 0]
<1>1. query \in Query /\ QueryInv
  BY DEF MasterInv, QueryInv
<1>2. /\ q \in Query /\ q.pc = "answered" /\ q.status = status /\ q.latest = 0
      /\ q.alone = query.alone /\ q.calm = query.calm
  <2>1. PICK zero \in 0..Stages : zero = 0 /\ zero \in Nat
    BY UpgradeAssumption
  <2>2. q = [query EXCEPT !.pc = "answered", !.status = status, !.files = {}, !.latest = zero,
                          !.time = zero]
    BY <2>1
  <2> HIDE DEF q
  <2>3. /\ q \in Query /\ q.pc = "answered" /\ q.status = status /\ q.latest = zero
        /\ q.alone = query.alone /\ q.calm = query.calm
    BY <1>1, <2>1, <2>2 DEF Query
  <2> QED
    BY <2>1, <2>3
<1>3. query' = q /\ UNCHANGED upgradeVars
  BY DEF Answer, Reads
<1> HIDE DEF q
<1>4. q.calm /\ Shows => OnTrack(q)
  BY <1>2 DEF OnTrack
<1> QED
  BY <1>1, <1>2, <1>3, <1>4, StepOfQuery DEF QueryInv

\* The query goes on and has not looked at files yet.
LEMMA QueryGoesOn ==
  ASSUME MasterInv, NEW pc \in {"pgrep", "inprogress", "glob"},
         Reads([query EXCEPT !.pc = pc]), query.pc \in {"stat", "pgrep", "inprogress"}
  PROVE  MasterInv'
<1> DEFINE q == [query EXCEPT !.pc = pc]
<1>1. query \in Query /\ QueryInv /\ query.latest = 0
  BY DEF MasterInv, QueryInv, MasterTypeOK
<1>2. /\ q \in Query /\ q.pc = pc /\ q.latest = query.latest
      /\ q.alone = query.alone /\ q.calm = query.calm
  BY <1>1 DEF Query
<1>3. query' = q /\ UNCHANGED upgradeVars
  BY DEF Reads
<1> HIDE DEF q
<1>4. OnTrack(q)
  BY <1>2 DEF OnTrack
<1> QED
  BY <1>1, <1>2, <1>3, <1>4, StepOfQuery DEF QueryInv

\* The query looks at one file more, or has looked at all.
LEMMA QueryLooks ==
  ASSUME MasterInv, NEW q \in Query, Reads(q), q.pc \in {"first", "rest", "scan"},
         q.latest \in 1..Stages, q.alone = query.alone, q.calm = query.calm,
         q.calm /\ Shows => OnTrack(q)
  PROVE  MasterInv'
<1>1. QueryInv /\ query' = q /\ UNCHANGED upgradeVars
  BY DEF MasterInv, Reads
<1>2. /\ q.latest \in (IF q.pc \in {"first", "rest", "scan"} THEN 1..Stages ELSE {0})
      /\ q.pc # "answered"
  OBVIOUS
<1>3. /\ q.alone \subseteq owner
      /\ q.calm => Busy = {}
      /\ q.alone # {} => \A u \in Upgrades : upgrade[u].pc # "fresh"
  BY <1>1 DEF QueryInv
<1> QED
  BY <1>1, <1>2, <1>3, StepOfQuery

\* What a directory that shows a finished upgrade holds, while nobody works in it.
LEMMA ShownFiles ==
  ASSUME MasterInv, Shows
  PROVE  /\ dir /\ inprogress = {} /\ done[Stages].exists /\ Stages \in DoneFiles
         /\ done[Stages].ended
<1>1. PICK u \in owner : u \in Finished
  BY DEF Shows
<1>2. u \in Upgrades /\ upgrade[u].pc = "finished" /\ OwnsFiles(u) /\ Stages \in 1..Stages
  BY <1>1, UpgradeAssumption DEF MasterInv, FilesInv, Finished
<1>3. dir
  BY <1>2 DEF MasterInv, FilesInv
<1> QED
  BY <1>1, <1>2, <1>3 DEF OwnsFiles, Shows, DoneFiles

\* A file says that the upgrade is complete only if it is the last one, and the last
\* one says so to whoever reads it to its end.
LEMMA WhatFilesSay ==
  ASSUME MasterInv, NEW i \in DoneFiles
  PROVE  /\ SaysComplete(LinesLookedAt(done[i])) => i = Stages
         /\ i = Stages /\ done[i].ended => SaysComplete(LinesLookedAt(done[i]))
<1> DEFINE file == done[i]
<1>1. i \in 1..Stages /\ file.exists /\ file.lines = StageLines(i) /\ file \in File
  BY DEF MasterInv, FilesInv, DoneFiles
<1> HIDE DEF file
<1>2. CASE i = Stages
  <2>1. file.lines = <<"other", "Upgrade complete">>
    BY <1>1, <1>2 DEF StageLines
  <2>2. file.ended => LinesLookedAt(file) = <<"other", "Upgrade complete">>
    BY <2>1 DEF LinesLookedAt
  <2>3. SaysComplete(<<"other", "Upgrade complete">>)
    <3>1. <<"other", "Upgrade complete">>[2] = "Upgrade complete"
          /\ 2 \in 1..Len(<<"other", "Upgrade complete">>)
      OBVIOUS
    <3> QED
      BY <3>1 DEF SaysComplete
  <2> QED
    BY <1>2, <2>2, <2>3 DEF file
<1>3. CASE i # Stages
  <2>1. file.lines = <<"other">>
    BY <1>1, <1>3 DEF StageLines
  <2>2. CASE file.ended
    <3>1. LinesLookedAt(file) = <<"other">>
      BY <2>1, <2>2 DEF LinesLookedAt
    <3>2. \A k \in 1..Len(<<"other">>) : <<"other">>[k] = "other"
      OBVIOUS
    <3>3. ~SaysComplete(<<"other">>)
      BY <3>2 DEF SaysComplete
    <3> QED
      BY <1>3, <3>1, <3>3 DEF file
  <2>3. CASE ~file.ended
    <3>1. LinesLookedAt(file) = SubSeq(<<"other">>, 1, 0)
      BY <2>1, <2>3 DEF LinesLookedAt
    <3>2. Len(SubSeq(<<"other">>, 1, 0)) = 0
      OBVIOUS
    <3>3. ~SaysComplete(SubSeq(<<"other">>, 1, 0))
      BY <3>2 DEF SaysComplete
    <3> QED
      BY <1>3, <3>1, <3>3 DEF file
  <2> QED
    BY <2>2, <2>3
<1> QED
  BY <1>2, <1>3

\* A step of the query.
LEMMA QueryKeeps ==
  ASSUME MasterInv, QueryStep
  PROVE  MasterInv'
<1>1. /\ query \in Query /\ QueryInv /\ FilesInv
      /\ query.calm /\ Shows => OnTrack(query) /\ Busy = {}
      /\ query.pc \in {"first", "rest", "scan"} => query.latest \in 1..Stages
      /\ Stages \in Nat \ {0}
  BY UpgradeAssumption DEF MasterInv, QueryInv, MasterTypeOK
<1>2. {"PENDING", "RUNNING", "COMPLETE", "FAILED"} = Status
  BY DEF Status
<1>3. CASE StatDirectory
  <2>1. CASE Answer("PENDING") /\ ~dir
    BY <1>2, <2>1, ShownFiles, QueryAnswers
  <2>2. CASE Reads([query EXCEPT !.pc = "pgrep"])
    BY <1>3, <2>2, QueryGoesOn DEF StatDirectory
  <2> QED
    BY <1>3, <2>1, <2>2 DEF StatDirectory
<1>4. CASE LookForProcess
  <2> DEFINE names == IF Running = {} THEN {} ELSE PgUpgradeNames
  <2>1. CASE PgUpgradeRunning(names) /\ Answer("RUNNING")
    <3>1. Running # {}
      BY <2>1 DEF PgUpgradeRunning, Matched
    <3>2. ~(query.calm /\ Shows)
      BY <1>1, <3>1 DEF Busy
    <3> QED
      BY <1>2, <2>1, <3>2, QueryAnswers
  <2>2. CASE Reads([query EXCEPT !.pc = "inprogress"])
    BY <1>4, <2>2, QueryGoesOn DEF LookForProcess
  <2> QED
    BY <1>4, <2>1, <2>2 DEF LookForProcess
<1>5. CASE InProgressFilesExist
  <2>1. CASE inprogress # {} /\ Answer("FAILED")
    BY <1>2, <2>1, ShownFiles, QueryAnswers
  <2>2. CASE Reads([query EXCEPT !.pc = "glob"])
    BY <1>5, <2>2, QueryGoesOn DEF InProgressFilesExist
  <2> QED
    BY <1>5, <2>1, <2>2 DEF InProgressFilesExist
<1>6. CASE GlobDone
  <2>1. CASE DoneFiles = {} /\ Answer("FAILED")
    BY <1>2, <2>1, ShownFiles, QueryAnswers
  <2>2. CASE DoneFiles # {} /\ Reads([query EXCEPT !.pc = "first", !.files = DoneFiles,
                                                   !.latest = First(DoneFiles)])
    <3>1. DoneFiles \in SUBSET (1..Stages)
      BY DEF DoneFiles
    <3>2. PICK i \in 0..Stages : i = First(DoneFiles) /\ i \in DoneFiles /\ i \in 1..Stages
      BY <2>2, <3>1, FirstIsIn
    <3> DEFINE q == [query EXCEPT !.pc = "first", !.files = DoneFiles, !.latest = i]
    <3>3. Reads(q)
      BY <2>2, <3>2
    <3>4. /\ q \in Query /\ q.pc = "first" /\ q.files = DoneFiles /\ q.latest = i
          /\ q.alone = query.alone /\ q.calm = query.calm
      BY <1>1, <3>1 DEF Query
    <3> HIDE DEF q
    <3>5. Shows => OnTrack(q)
      BY <3>2, <3>4, ShownFiles DEF OnTrack
    <3> QED
      BY <3>2, <3>3, <3>4, <3>5, QueryLooks
  <2> QED
    BY <1>6, <2>1, <2>2 DEF GlobDone
<1>7. CASE StatFirst
  <2>1. query.latest \in 1..Stages /\ query.pc = "first" /\ done[query.latest] \in File
    BY <1>1, <1>7 DEF StatFirst, FilesInv
  <2>2. CASE ~done[query.latest].exists /\ Answer("FAILED")
    <3>1. ~(query.calm /\ Shows)
      BY <1>1, <2>1, <2>2 DEF OnTrack, DoneFiles
    <3> QED
      BY <1>2, <2>2, <3>1, QueryAnswers
  <2>3. CASE Reads([query EXCEPT !.pc = "rest", !.files = @ \ {query.latest},
                                 !.time = done[query.latest].time])
    <3>1. PICK t \in Nat : t = done[query.latest].time
      BY <2>1 DEF File
    <3>2. PICK left \in SUBSET (1..Stages) : left = query.files \ {query.latest}
      BY <1>1 DEF Query
    <3> DEFINE q == [query EXCEPT !.pc = "rest", !.files = left, !.time = t]
    <3>3. Reads(q)
      BY <2>3, <3>1, <3>2
    <3>4. /\ q \in Query /\ q.pc = "rest" /\ q.files = left /\ q.latest = query.latest
          /\ q.time = t /\ q.alone = query.alone /\ q.calm = query.calm
      BY <1>1, <3>1, <3>2 DEF Query
    <3> HIDE DEF q
    <3>5. q.calm /\ Shows => OnTrack(q)
      BY <1>1, <2>1, <3>1, <3>2, <3>4 DEF OnTrack
    <3> QED
      BY <2>1, <3>3, <3>4, <3>5, QueryLooks
  <2> QED
    BY <1>7, <2>2, <2>3 DEF StatFirst
<1>8. CASE StatRest
  <2>1. query.latest \in 1..Stages /\ query.pc = "rest" /\ query.files \in SUBSET (1..Stages)
    BY <1>1, <1>8 DEF StatRest, Query
  <2>2. CASE query.files = {} /\ Reads([query EXCEPT !.pc = "scan"])
    <3> DEFINE q == [query EXCEPT !.pc = "scan"]
    <3>1. /\ q \in Query /\ q.pc = "scan" /\ q.latest = query.latest
          /\ q.alone = query.alone /\ q.calm = query.calm
      BY <1>1 DEF Query
    <3>2. Reads(q)
      BY <2>2
    <3> HIDE DEF q
    <3>3. q.calm /\ Shows => OnTrack(q)
      BY <1>1, <2>1, <2>2, <3>1 DEF OnTrack
    <3> QED
      BY <2>1, <3>1, <3>2, <3>3, QueryLooks
  <2>3. CASE query.files # {}
    <3>1. PICK i \in 1..Stages : i = First(query.files) /\ i \in query.files
      BY <2>1, <2>3, FirstIsIn
    <3>2. PICK found \in BOOLEAN : found = (done[i].exists /\ done[i].time > query.time)
      <4>1. SUFFICES (done[i].exists /\ done[i].time > query.time) \in BOOLEAN
        OBVIOUS
      <4> QED
        OBVIOUS
    <3>3. PICK latest \in 0..Stages : /\ latest = (IF found THEN i ELSE query.latest)
                                     /\ latest \in 1..Stages
      BY <1>1, <2>1
    <3>4. PICK t \in Nat : t = (IF found THEN done[i].time ELSE query.time)
      BY <1>1 DEF Query, FilesInv, File
    <3>5. PICK left \in SUBSET (1..Stages) : left = query.files \ {i}
      BY <2>1
    <3> DEFINE q == [query EXCEPT !.files = left, !.latest = latest, !.time = t]
    <3>6. Reads(q)
      BY <1>8, <2>3, <3>1, <3>2, <3>3, <3>4, <3>5 DEF StatRest
    <3>7. /\ q \in Query /\ q.pc = "rest" /\ q.files = left /\ q.latest = latest /\ q.time = t
          /\ q.alone = query.alone /\ q.calm = query.calm
      BY <1>1, <2>1, <3>3, <3>4, <3>5 DEF Query
    <3> HIDE DEF q
    <3>8. q.calm /\ Shows => OnTrack(q)
      <4> SUFFICES ASSUME q.calm, Shows
                   PROVE  (latest = Stages \/ Stages \in left) /\ t = done[latest].time
        BY <3>7 DEF OnTrack
      <4>1. /\ query.latest = Stages \/ Stages \in query.files
            /\ query.time = done[query.latest].time
        BY <1>1, <2>1, <3>7 DEF OnTrack
      <4>2. \A k \in 1..Stages : done[k].time \in Nat /\ (k # Stages => done[k].time < done[Stages].time)
        BY <1>1 DEF Shows, FilesInv, File
      <4>3. done[Stages].exists
        BY ShownFiles
      <4>4. t = done[latest].time
        BY <3>3, <3>4, <4>1
      <4>5. latest = Stages \/ Stages \in left
        <5>1. CASE query.latest = Stages
          <6>1. ~(done[i].time > query.time)
            BY <1>1, <4>1, <4>2, <5>1
          <6>2. ~found
            BY <3>2, <6>1
          <6> QED
            BY <3>3, <5>1, <6>2
        <5>2. CASE query.latest # Stages /\ i = Stages
          <6>1. found
            BY <1>1, <2>1, <3>2, <4>1, <4>2, <4>3, <5>2
          <6> QED
            BY <3>3, <5>2, <6>1
        <5>3. CASE query.latest # Stages /\ i # Stages
          BY <3>5, <4>1, <5>3
        <5> QED
          BY <5>1, <5>2, <5>3
      <4> QED
        BY <4>4, <4>5
    <3> QED
      BY <3>3, <3>6, <3>7, <3>8, QueryLooks
  <2> QED
    BY <1>8, <2>2, <2>3 DEF StatRest
<1>9. CASE ScanLatest
  <2>1. query.latest \in 1..Stages /\ query.pc = "scan"
    BY <1>1, <1>9 DEF ScanLatest
  <2>2. query.calm /\ Shows => query.latest = Stages /\ done[Stages].ended /\ done[Stages].exists
    BY <1>1, <2>1, ShownFiles DEF OnTrack
  <2>3. CASE ~done[query.latest].exists /\ Answer("FAILED")
    BY <1>2, <2>2, <2>3, QueryAnswers
  <2>4. CASE done[query.latest].exists
    <3>1. query.latest \in DoneFiles
      BY <2>1, <2>4 DEF DoneFiles
    <3> DEFINE says == SaysComplete(LinesLookedAt(done[query.latest]))
    <3>2. Answer(IF says THEN "COMPLETE" ELSE "FAILED")
      BY <1>9, <2>4 DEF ScanLatest
    <3>3. /\ says => query.latest = Stages
          /\ query.latest = Stages /\ done[query.latest].ended => says
      BY <3>1, WhatFilesSay
    <3> HIDE DEF says
    <3>4. CASE says
      BY <1>2, <2>4, <3>2, <3>3, <3>4, QueryAnswers
    <3>5. CASE ~says
      BY <1>2, <2>2, <3>2, <3>3, <3>5, QueryAnswers
    <3> QED
      BY <3>4, <3>5
  <2> QED
    BY <1>9, <2>3, <2>4 DEF ScanLatest
<1> QED
  BY <1>3, <1>4, <1>5, <1>6, <1>7, <1>8, <1>9 DEF QueryStep, IsUpgradeComplete

\* The query begins.
LEMMA QueryStarts ==
  ASSUME MasterInv, QueryBegins
  PROVE  MasterInv'
<1>1. PICK calm \in BOOLEAN : calm = (Busy = {})
  <2>1. SUFFICES (Busy = {}) \in BOOLEAN
    OBVIOUS
  <2> QED
    OBVIOUS
<1>2. PICK alone \in SUBSET Upgrades :
        alone = IF \E u \in Upgrades : upgrade[u].pc = "fresh" THEN {} ELSE owner
  BY DEF MasterInv, MasterTypeOK
<1>3. PICK zero \in 0..Stages : zero = 0 /\ zero \in Nat
  BY UpgradeAssumption
<1> DEFINE q == [pc |-> "stat", files |-> {}, latest |-> zero, time |-> zero, status |-> "none",
                 alone |-> alone, calm |-> calm]
<1>4. query' = q /\ UNCHANGED upgradeVars
  BY <1>1, <1>2, <1>3 DEF QueryBegins, Reads, NoQuery
<1>5. /\ q \in Query /\ q.pc = "stat" /\ q.latest = zero /\ q.alone = alone /\ q.calm = calm
  BY <1>1, <1>2, <1>3 DEF Query
<1> HIDE DEF q
<1>6. OnTrack(q)
  BY <1>5 DEF OnTrack
<1>7. alone \subseteq owner /\ (alone # {} => \A u \in Upgrades : upgrade[u].pc # "fresh")
  BY <1>2
<1> QED
  BY <1>1, <1>3, <1>4, <1>5, <1>6, <1>7, StepOfQuery

\* The answer has been taken.
LEMMA QueryIsOver ==
  ASSUME MasterInv, query' = NoQuery, UNCHANGED upgradeVars
  PROVE  MasterInv'
<1>1. PICK zero \in 0..Stages : zero = 0 /\ zero \in Nat
  BY UpgradeAssumption
<1> DEFINE q == [pc |-> "idle", files |-> {}, latest |-> zero, time |-> zero, status |-> "none",
                 alone |-> {}, calm |-> FALSE]
<1>2. query' = q
  BY <1>1 DEF NoQuery
<1>3. q \in Query /\ q.pc = "idle" /\ q.latest = zero /\ q.alone = {} /\ q.calm = FALSE
  BY <1>1 DEF Query
<1> HIDE DEF q
<1> QED
  BY <1>1, <1>2, <1>3, StepOfQuery

---------------------------------------------------------------------------
(* The conversions.                                                        *)

\* What a step of an upgrade, to x, has to show.
LEMMA StepOfUpgrade ==
  ASSUME MasterInv, NEW u \in Upgrades, upgrade[u].pc # "finished",
         NEW x \in [pc : {"none", "mkdir", "start", "refused", "fresh", "between", "writing",
                          "finished", "dead"}, stage : 0..Stages],
         upgrade' = [upgrade EXCEPT ![u] = x],
         query' \in Query, query'.pc = query.pc, query'.status = query.status,
         query'.files = query.files, query'.latest = query.latest, ~query'.calm,
         query'.alone \subseteq query.alone, query'.alone \subseteq owner',
         query'.alone # {} => x.pc # "fresh",
         dir' \in BOOLEAN, dir => dir', inprogress' \subseteq 1..Stages, clock' \in 1..MaxTime,
         done' \in [1..Stages -> File],
         \A i \in 1..Stages : done'[i].exists => done'[i].lines = StageLines(i),
         inprogress' # {} \/ (\E i \in 1..Stages : done'[i].exists) => dir',
         x.pc \notin {"none", "mkdir", "refused"} => dir',
         x.pc \in {"between", "writing"} => x.stage \in 1..Stages,
         done'[Stages].exists => done[Stages].exists \/ x.pc = "finished",
         owner' \subseteq Upgrades, \A v \in owner' : OwnsFiles(v)'
  PROVE  MasterInv'
<1>1. /\ upgrade'[u] = x
      /\ \A v \in Upgrades \ {u} : upgrade'[v] = upgrade[v]
      /\ upgrade' \in [Upgrades -> [pc : {"none", "mkdir", "start", "refused", "fresh", "between",
                                          "writing", "finished", "dead"}, stage : 0..Stages]]
  BY DEF MasterInv, MasterTypeOK
<1>2. \A v \in Upgrades : upgrade[v].pc = "finished" => upgrade'[v].pc = "finished"
  BY <1>1
<1>3. MasterTypeOK'
  <2>1. query'.status \in Status \cup {"none"} /\ query'.alone \subseteq Upgrades
    BY DEF MasterInv, MasterTypeOK
  <2>2. query'.files \subseteq 1..Stages
        /\ query'.latest \in IF query'.pc \in {"first", "rest", "scan"} THEN 1..Stages ELSE {0}
    BY DEF MasterInv, MasterTypeOK
  <2>3. DOMAIN done' = 1..Stages /\ (DoneFiles' # {} \/ inprogress' # {} => dir')
    BY DEF DoneFiles
  <2> QED
    BY <1>1, <2>1, <2>2, <2>3 DEF MasterTypeOK
<1>4. FilesInv'
  <2>1. ASSUME NEW v \in Upgrades
        PROVE  /\ upgrade'[v].pc \notin {"none", "mkdir", "refused"} => dir'
               /\ upgrade'[v].pc \in {"between", "writing"} => upgrade'[v].stage \in 1..Stages
    <3>1. CASE v = u
      BY <1>1, <3>1
    <3>2. CASE v # u
      BY <1>1, <3>2 DEF MasterInv, FilesInv
    <3> QED
      BY <3>1, <3>2
  <2>2. done'[Stages].exists => Finished' # {}
    <3>1. CASE x.pc = "finished"
      BY <1>1, <3>1 DEF Finished
    <3>2. CASE x.pc # "finished"
      BY <1>2, <3>2 DEF MasterInv, FilesInv, Finished
    <3> QED
      BY <3>1, <3>2
  <2> QED
    BY <2>1, <2>2 DEF FilesInv
<1>5. QueryInv'
  <2>1. query'.alone # {} => \A v \in Upgrades : upgrade'[v].pc # "fresh"
    BY <1>1 DEF MasterInv, QueryInv
  <2> QED
    BY <2>1 DEF MasterInv, QueryInv
<1>6. MasterCompleteIsTrue'
  BY <1>2 DEF MasterInv, QueryInv, MasterTypeOK, MasterCompleteIsTrue
<1> QED
  BY <1>3, <1>4, <1>5, <1>6 DEF MasterInv

\* Whoever has the directory to itself keeps it while another one that writes no
\* files yet, or dies, takes a step.
LEMMA OwnerKeeps ==
  ASSUME MasterInv, NEW u \in Upgrades, upgrade[u].pc # "finished",
         NEW x, x.pc \notin {"between", "writing", "finished"},
         upgrade[u].pc \in {"between", "writing"} => x.pc = "dead" /\ x.stage = upgrade[u].stage,
         upgrade[u].pc # "dead", upgrade' = [upgrade EXCEPT ![u] = x],
         inprogress' = inprogress, done' = done, NEW v \in owner, owner' = owner
  PROVE  OwnsFiles(v)'
<1>1. /\ v \in Upgrades /\ OwnsFiles(v)
      /\ upgrade'[u] = x /\ \A w \in Upgrades \ {u} : upgrade'[w] = upgrade[w]
  BY DEF MasterInv, MasterTypeOK, FilesInv
<1>2. upgrade'[v].pc \in {"between", "writing", "finished", "dead"}
  BY <1>1 DEF OwnsFiles
<1>3. \A w \in Upgrades \ {v} : upgrade'[w].pc \notin {"between", "writing"}
  BY <1>1 DEF OwnsFiles
<1>4. inprogress' \subseteq IF upgrade'[v].pc \in {"writing", "dead"} THEN {upgrade'[v].stage} ELSE {}
  BY <1>1 DEF OwnsFiles
<1>5. done'[Stages].exists <=> v \in Finished'
  BY <1>1 DEF OwnsFiles, Finished
<1> QED
  BY <1>1, <1>2, <1>3, <1>4, <1>5 DEF OwnsFiles

\* A step that leaves the files alone.
LEMMA StepWithoutFiles ==
  ASSUME MasterInv, NEW u \in Upgrades, upgrade[u].pc \notin {"finished", "dead"},
         NEW x \in [pc : {"mkdir", "start", "refused", "fresh", "dead"}, stage : 0..Stages],
         upgrade' = [upgrade EXCEPT ![u] = x],
         upgrade[u].pc \in {"between", "writing"} => x.pc = "dead" /\ x.stage = upgrade[u].stage,
         query' \in Query, query'.pc = query.pc, query'.status = query.status,
         query'.files = query.files, query'.latest = query.latest, ~query'.calm,
         query'.alone \subseteq query.alone, query'.alone # {} => x.pc # "fresh",
         dir' \in BOOLEAN, dir => dir', x.pc \notin {"none", "mkdir", "refused"} => dir',
         UNCHANGED <<inprogress, done, clock>>,
         owner' = owner \/ (owner' = {} /\ query'.alone = {})
  PROVE  MasterInv'
<1>1. /\ inprogress' = inprogress /\ done' = done /\ clock' = clock
      /\ x.pc \notin {"between", "writing", "finished"}
      /\ x \in [pc : {"none", "mkdir", "start", "refused", "fresh", "between", "writing",
                      "finished", "dead"}, stage : 0..Stages]
  OBVIOUS
<1>2. /\ inprogress \subseteq 1..Stages /\ clock \in 1..MaxTime /\ done \in [1..Stages -> File]
      /\ \A i \in 1..Stages : done[i].exists => done[i].lines = StageLines(i)
      /\ owner \subseteq Upgrades /\ query.alone \subseteq owner
      /\ inprogress # {} \/ (\E i \in 1..Stages : done[i].exists) => dir
  BY DEF MasterInv, MasterTypeOK, FilesInv, QueryInv, DoneFiles
<1>3. \A v \in owner' : OwnsFiles(v)'
  <2>1. CASE owner' = owner
    BY <1>1, <2>1, OwnerKeeps
  <2>2. CASE owner' = {}
    BY <2>2
  <2> QED
    BY <2>1, <2>2
<1>4. /\ owner' \subseteq Upgrades /\ query'.alone \subseteq owner'
      /\ inprogress' \subseteq 1..Stages /\ clock' \in 1..MaxTime /\ done' \in [1..Stages -> File]
      /\ \A i \in 1..Stages : done'[i].exists => done'[i].lines = StageLines(i)
      /\ inprogress' # {} \/ (\E i \in 1..Stages : done'[i].exists) => dir'
      /\ done'[Stages].exists => done[Stages].exists
  BY <1>1, <1>2
<1> QED
  BY <1>1, <1>3, <1>4, StepOfUpgrade

\* A step of pg_upgrade in its directory.
LEMMA StepWithFiles ==
  ASSUME MasterInv, NEW u \in Upgrades, u \in Running,
         NEW x \in [pc : {"between", "writing", "finished"}, stage : 0..Stages],
         upgrade' = [upgrade EXCEPT ![u] = x],
         x.pc \in {"between", "writing"} => x.stage \in 1..Stages,
         UNCHANGED <<dir, query>>, query.alone \subseteq owner',
         inprogress' \subseteq 1..Stages, clock' \in 1..MaxTime, done' \in [1..Stages -> File],
         \A i \in 1..Stages : done'[i].exists => done'[i].lines = StageLines(i),
         done'[Stages].exists => done[Stages].exists \/ x.pc = "finished",
         owner' \subseteq {u} \cup owner, \A v \in owner' : OwnsFiles(v)'
  PROVE  MasterInv'
<1>1. /\ dir' = dir /\ query' = query /\ query \in Query
      /\ x \in [pc : {"none", "mkdir", "start", "refused", "fresh", "between", "writing",
                      "finished", "dead"}, stage : 0..Stages]
      /\ x.pc # "fresh"
  BY DEF MasterInv, QueryInv
<1>2. dir /\ dir \in BOOLEAN /\ upgrade[u].pc # "finished" /\ owner' \subseteq Upgrades
  BY DEF MasterInv, MasterTypeOK, FilesInv, Running
<1>3. ~query.calm
  BY DEF MasterInv, QueryInv, Busy
<1>4. /\ query' \in Query /\ query'.pc = query.pc /\ query'.status = query.status
      /\ query'.files = query.files /\ query'.latest = query.latest /\ ~query'.calm
      /\ query'.alone = query.alone /\ query'.alone \subseteq owner'
  BY <1>1, <1>3
<1>5. dir' /\ dir' \in BOOLEAN /\ (dir => dir')
  BY <1>1, <1>2
<1>6. /\ inprogress' # {} \/ (\E i \in 1..Stages : done'[i].exists) => dir'
      /\ x.pc \notin {"none", "mkdir", "refused"} => dir'
      /\ query'.alone # {} => x.pc # "fresh"
      /\ query'.alone \subseteq query.alone
  BY <1>1, <1>4, <1>5
<1> QED
  BY <1>1, <1>2, <1>4, <1>5, <1>6, StepOfUpgrade

\* A request to convert, or its pg_upgrade, takes a step.
LEMMA UpgradeKeeps ==
  ASSUME MasterInv, NEW u \in Upgrades, UpgradeStep(u)
  PROVE  MasterInv'
<1>1. /\ upgrade \in [Upgrades -> [pc : {"none", "mkdir", "start", "refused", "fresh", "between",
                                     "writing", "finished", "dead"}, stage : 0..Stages]]
      /\ dir \in BOOLEAN /\ inprogress \subseteq 1..Stages /\ clock \in 1..MaxTime
      /\ done \in [1..Stages -> File] /\ owner \subseteq Upgrades
      /\ \A i \in 1..Stages : done[i].exists => done[i].lines = StageLines(i)
      /\ query \in Query /\ query.alone \subseteq owner /\ (u \in Busy => ~query.calm)
      /\ query.alone # {} => upgrade[u].pc # "fresh"
      /\ Stages \in Nat \ {0} /\ MaxTime \in Nat \ {0}
  BY UpgradeAssumption DEF MasterInv, MasterTypeOK, FilesInv, QueryInv
<1>2. PICK zero \in 0..Stages : zero = 0
  BY <1>1
<1> DEFINE To(pc, stage) == [pc |-> pc, stage |-> stage]
<1>3. CASE UpgradeConvertMaster(u)
  <2> DEFINE x == To("mkdir", zero)
             q == [query EXCEPT !.calm = FALSE]
  <2>1. upgrade' = [upgrade EXCEPT ![u] = x] /\ query' = q /\ UNCHANGED <<dir, inprogress, done, clock, owner>>
    BY <1>2, <1>3 DEF UpgradeConvertMaster, Becomes
  <2>2. x \in [pc : {"mkdir", "start", "refused", "fresh", "dead"}, stage : 0..Stages] /\ x.pc = "mkdir"
    OBVIOUS
  <2>3. /\ q \in Query /\ q.pc = query.pc /\ q.status = query.status /\ q.files = query.files
        /\ q.latest = query.latest /\ ~q.calm /\ q.alone = query.alone
    BY <1>1 DEF Query
  <2>4. upgrade[u].pc = "none"
    BY <1>3 DEF UpgradeConvertMaster
  <2> HIDE DEF x, q
  <2> QED
    BY <1>1, <2>1, <2>2, <2>3, <2>4, StepWithoutFiles
<1>4. CASE MakeUpgradeDir(u)
  <2> DEFINE x == To("start", zero)
  <2>1. upgrade' = [upgrade EXCEPT ![u] = x] /\ dir' = TRUE /\ UNCHANGED <<inprogress, done, clock, owner, query>>
    BY <1>2, <1>4 DEF MakeUpgradeDir, Becomes
  <2>2. x \in [pc : {"mkdir", "start", "refused", "fresh", "dead"}, stage : 0..Stages] /\ x.pc = "start"
    OBVIOUS
  <2>3. upgrade[u].pc = "mkdir" /\ ~query.calm
    BY <1>1, <1>4 DEF MakeUpgradeDir, Busy
  <2> HIDE DEF x
  <2> QED
    BY <1>1, <2>1, <2>2, <2>3, StepWithoutFiles
<1>5. CASE StartPgUpgrade(u)
  <2> DEFINE x == To("fresh", zero)
             q == [query EXCEPT !.alone = {}]
  <2>1. /\ upgrade' = [upgrade EXCEPT ![u] = x] /\ query' = q /\ UNCHANGED <<dir, inprogress, done, clock>>
        /\ owner' = owner \/ owner' = {}
    BY <1>2, <1>5 DEF StartPgUpgrade, Becomes
  <2>2. x \in [pc : {"mkdir", "start", "refused", "fresh", "dead"}, stage : 0..Stages] /\ x.pc = "fresh"
    OBVIOUS
  <2>3. upgrade[u].pc = "start" /\ ~query.calm /\ dir
    BY <1>1, <1>5 DEF StartPgUpgrade, Busy, MasterInv, FilesInv
  <2>4. /\ q \in Query /\ q.pc = query.pc /\ q.status = query.status /\ q.files = query.files
        /\ q.latest = query.latest /\ ~q.calm /\ q.alone = {}
    BY <1>1, <2>3 DEF Query
  <2> HIDE DEF x, q
  <2> QED
    BY <1>1, <2>1, <2>2, <2>3, <2>4, StepWithoutFiles
<1>6. CASE ConvertFails(u)
  <2> DEFINE x == To("refused", zero)
  <2>1. upgrade' = [upgrade EXCEPT ![u] = x] /\ UNCHANGED <<dir, inprogress, done, clock, owner, query>>
    BY <1>2, <1>6 DEF ConvertFails, Becomes
  <2>2. x \in [pc : {"mkdir", "start", "refused", "fresh", "dead"}, stage : 0..Stages] /\ x.pc = "refused"
    OBVIOUS
  <2>3. upgrade[u].pc \in {"mkdir", "start"} /\ ~query.calm
    BY <1>1, <1>6 DEF ConvertFails, Busy
  <2> HIDE DEF x
  <2> QED
    BY <1>1, <2>1, <2>2, <2>3, StepWithoutFiles
<1>7. CASE PgUpgradeDies(u)
  <2> DEFINE x == To("dead", upgrade[u].stage)
  <2>1. upgrade' = [upgrade EXCEPT ![u] = x] /\ UNCHANGED <<dir, inprogress, done, clock, owner, query>>
    BY <1>7 DEF PgUpgradeDies, Becomes
  <2>2. /\ x \in [pc : {"mkdir", "start", "refused", "fresh", "dead"}, stage : 0..Stages]
        /\ x.pc = "dead" /\ x.stage = upgrade[u].stage
    BY <1>1
  <2>3. upgrade[u].pc \in {"fresh", "between", "writing"} /\ ~query.calm /\ dir
    BY <1>1, <1>7 DEF PgUpgradeDies, Running, Busy, MasterInv, FilesInv
  <2> HIDE DEF x
  <2> QED
    BY <1>1, <2>1, <2>2, <2>3, StepWithoutFiles
<1>8. CASE DeleteOldFiles(u)
  <2>1. PICK one \in 0..Stages : one = 1 /\ one \in 1..Stages
    BY <1>1
  <2> DEFINE x == To("between", one)
  <2>2. /\ upgrade' = [upgrade EXCEPT ![u] = x] /\ dir' = dir /\ clock' = clock /\ query' = query
        /\ inprogress' = {} /\ done' = [i \in 1..Stages |-> NoFile]
        /\ owner' = (IF Running = {u} THEN {u} ELSE {})
    BY <1>8, <2>1 DEF DeleteOldFiles, Becomes
  <2>3. /\ x \in [pc : {"between", "writing", "finished"}, stage : 0..Stages]
        /\ x.pc = "between" /\ x.stage \in 1..Stages
    BY <2>1
  <2> HIDE DEF x
  <2>4. upgrade[u].pc = "fresh" /\ u \in Running /\ query.alone = {}
    BY <1>1, <1>8 DEF DeleteOldFiles, Running
  <2>5. NoFile \in File /\ ~NoFile.exists
    <3>1. PICK t \in Nat : t = 0
      OBVIOUS
    <3>2. PICK none \in {<<>>} \cup {StageLines(i) : i \in 1..Stages} : none = <<>>
      OBVIOUS
    <3>3. NoFile = [exists |-> FALSE, time |-> t, lines |-> none, ended |-> FALSE]
      BY <3>1, <3>2 DEF NoFile
    <3> QED
      BY <3>3 DEF File
  <2>6. done' \in [1..Stages -> File] /\ \A i \in 1..Stages : ~done'[i].exists
    BY <2>2, <2>5
  <2>7. \A v \in owner' : OwnsFiles(v)'
    <3>1. SUFFICES ASSUME Running = {u}
                   PROVE  OwnsFiles(u)'
      BY <2>2
    <3>2. /\ upgrade'[u] = x
          /\ \A v \in Upgrades \ {u} : upgrade'[v].pc \notin {"between", "writing"}
      BY <1>1, <2>2, <3>1 DEF Running
    <3>3. ~done'[Stages].exists /\ u \notin Finished'
      BY <1>1, <2>3, <2>6, <3>2 DEF Finished
    <3> QED
      BY <2>2, <2>3, <3>1, <3>2, <3>3 DEF OwnsFiles
  <2>8. /\ owner' \subseteq {u} \cup owner
        /\ inprogress' \subseteq 1..Stages
        /\ ~done'[Stages].exists
    <3>1. Stages \in 1..Stages
      BY <1>1
    <3> QED
      BY <2>2, <2>6, <3>1
  <2> QED
    BY <1>1, <2>2, <2>3, <2>4, <2>6, <2>7, <2>8, StepWithFiles
<1>9. CASE BeginStage(u)
  <2>1. upgrade[u].pc = "between" /\ upgrade[u].stage \in 1..Stages /\ u \in Running
    BY <1>9 DEF BeginStage, MasterInv, FilesInv, Running
  <2> DEFINE x == To("writing", upgrade[u].stage)
  <2>2. /\ upgrade' = [upgrade EXCEPT ![u] = x] /\ dir' = dir /\ clock' = clock /\ query' = query
        /\ inprogress' = inprogress \cup {upgrade[u].stage} /\ done' = done /\ owner' = owner
    BY <1>9 DEF BeginStage, Becomes
  <2>3. /\ x \in [pc : {"between", "writing", "finished"}, stage : 0..Stages]
        /\ x.pc = "writing" /\ x.stage \in 1..Stages /\ x.stage = upgrade[u].stage
    BY <1>1, <2>1
  <2> HIDE DEF x
  <2>4. ASSUME NEW v \in owner
        PROVE  OwnsFiles(v)'
    <3>1. OwnsFiles(v) /\ v = u
      BY <1>1, <2>1 DEF MasterInv, FilesInv, OwnsFiles
    <3>2. upgrade'[u] = x /\ \A w \in Upgrades \ {u} : upgrade'[w] = upgrade[w]
      BY <1>1, <2>2
    <3>3. inprogress' \subseteq {upgrade'[u].stage}
      BY <2>1, <2>2, <2>3, <3>1, <3>2 DEF OwnsFiles
    <3>4. u \notin Finished /\ u \notin Finished'
      BY <2>1, <2>3, <3>2 DEF Finished
    <3> QED
      BY <2>1, <2>2, <2>3, <3>1, <3>2, <3>3, <3>4 DEF OwnsFiles
  <2> QED
    BY <1>1, <2>1, <2>2, <2>3, <2>4, StepWithFiles
<1>10. CASE EndStage(u)
  <2>1. PICK i \in 1..Stages : i = upgrade[u].stage
    BY <1>10 DEF EndStage, MasterInv, FilesInv
  <2>2. upgrade[u].pc = "writing" /\ u \in Running
    BY <1>10 DEF EndStage, Running
  <2>3. PICK now \in Nat : now = clock' /\ now \in 1..MaxTime
    BY <1>1, <1>10 DEF EndStage
  <2>4. PICK ended \in BOOLEAN : done' = [done EXCEPT ![i] =
               [exists |-> TRUE, time |-> now, lines |-> StageLines(i), ended |-> ended]]
    <3>1. (i # Stages) \in BOOLEAN
      OBVIOUS
    <3> QED
      BY <1>10, <2>1, <2>3, <3>1 DEF EndStage
  <2> DEFINE file == [exists |-> TRUE, time |-> now, lines |-> StageLines(i), ended |-> ended]
  <2>5. file \in File /\ file.exists /\ file.lines = StageLines(i)
    BY DEF File
  <2>6. /\ done' \in [1..Stages -> File] /\ done'[i] = file
        /\ \A k \in 1..Stages \ {i} : done'[k] = done[k]
    <3> HIDE DEF file
    <3> QED
      BY <1>1, <2>4, <2>5 DEF file
  <2> HIDE DEF file
  <2>7. \A k \in 1..Stages : done'[k].exists => done'[k].lines = StageLines(k)
    BY <1>1, <2>5, <2>6
  <2>8. PICK x \in [pc : {"between", "writing", "finished"}, stage : 0..Stages] :
          /\ upgrade' = [upgrade EXCEPT ![u] = x]
          /\ x.pc \in {"between", "writing"} => x.stage \in 1..Stages
          /\ x.pc = "finished" \/ x.pc = "between"
          /\ x.pc = "finished" <=> i = Stages
    <3>1. CASE i = Stages
      <4> DEFINE y == To("finished", i)
      <4>1. upgrade' = [upgrade EXCEPT ![u] = y]
        BY <1>10, <2>1, <3>1 DEF EndStage, Becomes
      <4>2. y \in [pc : {"between", "writing", "finished"}, stage : 0..Stages] /\ y.pc = "finished"
        OBVIOUS
      <4> HIDE DEF y
      <4> QED
        BY <3>1, <4>1, <4>2
    <3>2. CASE i # Stages
      <4>1. PICK next \in 0..Stages : next = i + 1 /\ next \in 1..Stages
        BY <1>1, <3>2
      <4> DEFINE y == To("between", next)
      <4>2. upgrade' = [upgrade EXCEPT ![u] = y]
        BY <1>10, <2>1, <3>2, <4>1 DEF EndStage, Becomes
      <4>3. /\ y \in [pc : {"between", "writing", "finished"}, stage : 0..Stages]
            /\ y.pc = "between" /\ y.stage \in 1..Stages
        BY <4>1
      <4> HIDE DEF y
      <4> QED
        BY <3>2, <4>2, <4>3
    <3> QED
      BY <3>1, <3>2
  <2>9. /\ inprogress' = inprogress \ {i} /\ dir' = dir /\ query' = query /\ owner' = owner
    BY <1>10, <2>1 DEF EndStage
  <2>10. ASSUME NEW v \in owner
         PROVE  OwnsFiles(v)'
    <3>1. OwnsFiles(v) /\ v = u
      BY <1>1, <2>2 DEF MasterInv, FilesInv, OwnsFiles
    <3>2. upgrade'[u] = x /\ \A w \in Upgrades \ {u} : upgrade'[w] = upgrade[w]
      BY <1>1, <2>8
    <3>3. inprogress' = {}
      BY <2>1, <2>2, <2>9, <3>1 DEF OwnsFiles
    <3>4. u \notin Finished /\ (u \in Finished' <=> i = Stages)
      BY <2>2, <2>8, <3>2 DEF Finished
    <3>5. done'[Stages].exists <=> u \in Finished'
      BY <1>1, <2>5, <2>6, <3>1, <3>4 DEF OwnsFiles
    <3> QED
      BY <2>8, <2>9, <3>1, <3>2, <3>3, <3>5 DEF OwnsFiles
  <2>11. done'[Stages].exists => done[Stages].exists \/ x.pc = "finished"
    BY <1>1, <2>6, <2>8
  <2>12. inprogress' \subseteq 1..Stages /\ clock' \in 1..MaxTime /\ query.alone \subseteq owner'
         /\ owner' \subseteq {u} \cup owner
    BY <1>1, <2>3, <2>9
  <2> QED
    BY <2>2, <2>6, <2>7, <2>8, <2>9, <2>10, <2>11, <2>12, StepWithFiles
<1> QED
  BY <1>3, <1>4, <1>5, <1>6, <1>7, <1>8, <1>9, <1>10 DEF UpgradeStep

\* Nothing happens to the conversion of the master.
LEMMA MasterRests ==
  ASSUME MasterInv, UNCHANGED masterVars
  PROVE  MasterInv'
<1>1. query' = query /\ UNCHANGED upgradeVars /\ query \in Query
  BY DEF masterVars, MasterInv, QueryInv
<1>2. /\ query.latest \in (IF query.pc \in {"first", "rest", "scan"} THEN 1..Stages ELSE {0})
      /\ query.pc = "answered" => query.status \in Status
      /\ query.alone \subseteq owner
      /\ query.alone # {} => \A u \in Upgrades : upgrade[u].pc # "fresh"
      /\ query.calm => Busy = {}
      /\ query.calm /\ Shows => OnTrack(query)
  BY DEF MasterInv, QueryInv, MasterTypeOK
<1>3. /\ dir' = dir /\ inprogress' = inprogress /\ done' = done /\ clock' = clock
      /\ upgrade' = upgrade /\ owner' = owner
  BY <1>1 DEF upgradeVars
<1>4. /\ Finished' = Finished /\ Running' = Running /\ DoneFiles' = DoneFiles
  BY <1>3 DEF Finished, Running, DoneFiles
<1>5. Busy' = Busy /\ Shows' = Shows /\ (OnTrack(query)' <=> OnTrack(query))
  BY <1>1, <1>3, <1>4 DEF Busy, Shows, OnTrack
<1>6. MasterTypeOK' /\ FilesInv'
  BY <1>1, <1>3, <1>4 DEF MasterInv, MasterTypeOK, FilesInv, OwnsFiles
<1>7. QueryInv' /\ MasterCompleteIsTrue'
  BY <1>1, <1>3, <1>5 DEF MasterInv, QueryInv, MasterCompleteIsTrue
<1> QED
  BY <1>6, <1>7 DEF MasterInv

\* At the start there is no directory and no request.
LEMMA MasterStarts == MasterInit => MasterInv
<1> SUFFICES ASSUME MasterInit
             PROVE  MasterInv
  OBVIOUS
<1>1. PICK zero \in 0..Stages : zero = 0 /\ zero \in Nat
  BY UpgradeAssumption
<1>2. query \in Query /\ query.pc = "idle" /\ query.latest = 0 /\ query.alone = {} /\ ~query.calm
  <2>1. query = [pc |-> "idle", files |-> {}, latest |-> zero, time |-> zero, status |-> "none",
                 alone |-> {}, calm |-> FALSE]
    BY <1>1 DEF MasterInit, NoQuery
  <2> QED
    BY <1>1, <2>1 DEF Query
<1>3. NoFile \in File /\ ~NoFile.exists
  <2>1. PICK none \in {<<>>} \cup {StageLines(i) : i \in 1..Stages} : none = <<>>
    OBVIOUS
  <2>2. NoFile = [exists |-> FALSE, time |-> zero, lines |-> none, ended |-> FALSE]
    BY <1>1, <2>1 DEF NoFile
  <2> QED
    BY <1>1, <2>2 DEF File
<1>4. done \in [1..Stages -> File] /\ (\A i \in 1..Stages : ~done[i].exists) /\ Stages \in 1..Stages
  BY <1>3, UpgradeAssumption DEF MasterInit
<1>5. upgrade \in [Upgrades -> [pc : {"none"}, stage : 0..Stages]]
  <2>1. NoUpgrade = [pc |-> "none", stage |-> zero]
    BY <1>1 DEF NoUpgrade
  <2> QED
    BY <2>1 DEF MasterInit
<1>6. MasterTypeOK
  <2>1. inprogress = {} /\ owner = {} /\ dir \in BOOLEAN /\ clock = 1
    BY DEF MasterInit
  <2>2. clock \in 1..MaxTime
    BY <2>1, UpgradeAssumption
  <2>3. query.files \subseteq 1..Stages /\ query.status \in Status \cup {"none"}
    BY <1>2 DEF Query
  <2>4. upgrade \in [Upgrades -> [pc : {"none", "mkdir", "start", "refused", "fresh", "between",
                                     "writing", "finished", "dead"}, stage : 0..Stages]]
    BY <1>5
  <2>5. DoneFiles = {} /\ DOMAIN done = 1..Stages
    BY <1>4 DEF DoneFiles
  <2> QED
    BY <1>2, <2>1, <2>2, <2>3, <2>4, <2>5 DEF MasterTypeOK
<1>7. FilesInv
  BY <1>4, <1>5 DEF FilesInv, MasterInit
<1>8. QueryInv /\ MasterCompleteIsTrue
  BY <1>2 DEF QueryInv, MasterCompleteIsTrue
<1> QED
  BY <1>6, <1>7, <1>8 DEF MasterInv

---------------------------------------------------------------------------
(* StatusUpgrade.                                                          *)

\* A set of markers that is neither empty nor one marker holds more than one.
LEMMA MoreThanOne ==
  ASSUME NEW files \in SUBSET C!Marker, files # {}, \A m \in C!Marker : files # {m}
  PROVE  Cardinality(files) > 1
<1>1. IsFiniteSet(C!Marker)
  <2>1. IsFiniteSet({"in.progress"} \cup {"failed"})
    BY FS_Singleton, FS_AddElement
  <2>2. IsFiniteSet(({"in.progress"} \cup {"failed"}) \cup {"completed"})
    BY <2>1, FS_AddElement
  <2>3. C!Marker = ({"in.progress"} \cup {"failed"}) \cup {"completed"}
    BY DEF C!Marker
  <2> QED
    BY <2>2, <2>3
<1>2. IsFiniteSet(files)
  BY <1>1, FS_Subset
<1>3. Cardinality(files) \in Nat /\ Cardinality(files) # 0
  BY <1>2, FS_CardinalityType, FS_EmptySet
<1>4. Cardinality(files) # 1
  <2>1. \A x : files # {x}
    OBVIOUS
  <2> QED
    BY <1>2, <2>1, FS_Singleton
<1> QED
  BY <1>3, <1>4

\* What the status of a directory may be, and when it is an error.
LEMMA StatusOfDir ==
  ASSUME NEW d \in C!StepDir, d.exists \/ d.files = {}
  PROVE  /\ C!GetStatus(d) \in Status \cup {"error"}
         /\ C!GetStatus(d) = "error" => Cardinality(d.files) > 1
<1>1. d.files \in SUBSET C!Marker
  BY DEF C!StepDir
<1>2. CASE d.files = {}
  BY <1>2 DEF C!GetStatus, Status
<1>3. CASE d.files # {} /\ \E m \in C!Marker : d.files = {m}
  BY <1>3 DEF C!GetStatus, C!Marker, Status
<1>4. CASE d.files # {} /\ \A m \in C!Marker : d.files # {m}
  <2>1. Cardinality(d.files) > 1
    BY <1>1, <1>4, MoreThanOne
  <2>2. C!GetStatus(d) = "error"
    BY <1>4 DEF C!GetStatus, C!Marker
  <2> QED
    BY <2>1, <2>2
<1> QED
  BY <1>2, <1>3, <1>4

\* What a step of the request, to r, has to show: the directories do not change.
LEMMA StepOfRequest ==
  ASSUME StatusInv, MasterInv', NEW r \in Request, reader' = r, dirs' = dirs,
         newConfig' \in BOOLEAN, Len(r.statuses) <= Len(Steps),
         r.pc = "master" => Len(r.statuses) < Len(Steps),
         \A s \in ChecklistSteps : r.pc # "idle" /\ Crowded(s) => r.crowded,
         (\E i \in 1..Len(r.statuses) : r.statuses[i] = "error") => r.crowded,
         r.reply = <<"error">> => r.crowded
  PROVE  StatusInv'
<1>1. \A i \in 1..Len(r.statuses) : r.statuses[i] \in Status \cup {"error"}
  BY ElementOfSeq DEF Request
<1>2. r.pc \in {"idle", "next", "master"}
  BY DEF Request
<1>3. TypeOK'
  BY <1>1, <1>2 DEF StatusInv, TypeOK, MasterInv
<1>4. CrowdedInv'
  BY DEF StatusInv, CrowdedInv, Crowded
<1>5. ErrorOnlyIfCrowded'
  BY DEF ErrorOnlyIfCrowded
<1> QED
  BY <1>3, <1>4, <1>5 DEF StatusInv

\* One status more is noted.
LEMMA OneMore ==
  ASSUME StatusInv, MasterInv', NEW status \in Status \cup {"error"}, Note(status),
         reader.pc # "idle", Len(reader.statuses) < Len(Steps),
         status = "error" => reader.crowded, dirs' = dirs, newConfig' = newConfig
  PROVE  StatusInv'
<1>1. reader \in Request /\ newConfig \in BOOLEAN
  BY DEF StatusInv, TypeOK
<1>2. /\ reader.statuses \in Seq(Status \cup {"error"}) /\ Len(reader.statuses) \in Nat
  BY <1>1 DEF Request
<1>3. PICK sts \in Seq(Status \cup {"error"}) :
        /\ sts = Append(reader.statuses, status) /\ Len(sts) = Len(reader.statuses) + 1
        /\ sts[Len(reader.statuses) + 1] = status
        /\ \A i \in 1..Len(reader.statuses) : sts[i] = reader.statuses[i]
  <2> DEFINE S == Status \cup {"error"}
  <2>1. reader.statuses \in Seq(S) /\ status \in S
    BY <1>2
  <2> HIDE DEF S
  <2>2. PICK old \in Seq(S) : old = reader.statuses
    BY <2>1
  <2>3. Append(old, status) \in Seq(S)
    BY <2>1
  <2>4. Len(Append(old, status)) = Len(old) + 1
    OBVIOUS
  <2>5. Append(old, status)[Len(old) + 1] = status
    OBVIOUS
  <2>6. \A i \in 1..Len(old) : Append(old, status)[i] = old[i]
    OBVIOUS
  <2> QED
    BY <2>2, <2>3, <2>4, <2>5, <2>6, Zenon DEF S
<1> DEFINE r == [reader EXCEPT !.pc = "next", !.statuses = sts]
<1>4. reader' = r
  BY <1>3 DEF Note
<1>5. /\ r \in Request /\ r.pc = "next" /\ r.statuses = sts
      /\ r.crowded = reader.crowded /\ r.reply = reader.reply
  BY <1>1, <1>3 DEF Request
<1> HIDE DEF r
<1>6. (\E i \in 1..Len(sts) : sts[i] = "error") => reader.crowded
  BY <1>2, <1>3 DEF StatusInv, CrowdedInv
<1>7. Len(sts) <= Len(Steps)
  <2>1. Len(Steps) = 10
    BY DEF Steps
  <2> QED
    BY <1>2, <1>3, <2>1
<1>8. \A s \in ChecklistSteps : Crowded(s) => reader.crowded
  BY DEF StatusInv, CrowdedInv
<1>9. reader.reply = <<"error">> => reader.crowded
  BY DEF StatusInv, ErrorOnlyIfCrowded
<1> QED
  BY <1>1, <1>4, <1>5, <1>6, <1>7, <1>8, <1>9, StepOfRequest

\* A request comes.
LEMMA RequestBegins ==
  ASSUME StatusInv, Begin
  PROVE  StatusInv'
<1>1. MasterInv' /\ dirs' = dirs /\ newConfig' \in BOOLEAN
  BY MasterRests DEF StatusInv, TypeOK, Begin
<1>2. PICK crowded \in BOOLEAN : crowded = \E s \in ChecklistSteps : Crowded(s)
  <2>1. SUFFICES (\E s \in ChecklistSteps : Crowded(s)) \in BOOLEAN
    OBVIOUS
  <2> QED
    OBVIOUS
<1>3. PICK none \in Seq(Status \cup {"error"}) : none = <<>> /\ Len(none) = 0
  <2>1. <<>> \in Seq(Status \cup {"error"}) /\ Len(<<>>) = 0
    OBVIOUS
  <2> QED
    BY <2>1
<1> DEFINE r == [pc |-> "next", statuses |-> none, reply |-> none, crowded |-> crowded]
<1>4. reader' = r
  BY <1>2, <1>3 DEF Begin, NoRequest
<1>5. r \in Request /\ r.pc = "next" /\ r.statuses = none /\ r.reply = none /\ r.crowded = crowded
  BY DEF Request
<1> HIDE DEF r
<1>6. /\ Len(none) <= Len(Steps) /\ none # <<"error">> /\ ~(\E i \in 1..Len(none) : none[i] = "error")
  <2>1. Len(Steps) = 10 /\ <<>> # <<"error">>
    BY DEF Steps
  <2> QED
    BY <1>3, <2>1
<1>7. \A s \in ChecklistSteps : Crowded(s) => crowded
  BY <1>2
<1> QED
  BY <1>1, <1>4, <1>5, <1>6, <1>7, StepOfRequest

\* The reply goes out: a list with a status for every step, or an error.
LEMMA RequestEnds ==
  ASSUME StatusInv, Reply
  PROVE  StatusInv'
<1>1. MasterInv' /\ dirs' = dirs /\ newConfig' \in BOOLEAN /\ reader \in Request
  BY MasterRests DEF StatusInv, TypeOK, Reply
<1>2. PICK none \in Seq(Status \cup {"error"}) : none = <<>> /\ Len(none) = 0
  <2>1. <<>> \in Seq(Status \cup {"error"}) /\ Len(<<>>) = 0
    OBVIOUS
  <2> QED
    BY <2>1
<1>3. Len(Steps) = 10
  BY DEF Steps
<1> DEFINE failed == \E i \in 1..Len(Steps) : reader.statuses[i] = "error"
<1>4. PICK reply \in Seq(Status \cup {"error"}) :
        reply = (IF failed THEN <<"error">> ELSE reader.statuses)
  <2>1. <<"error">> \in Seq(Status \cup {"error"})
    OBVIOUS
  <2> QED
    BY <1>1, <2>1 DEF Request
<1>5. reply = <<"error">> => reader.crowded
  <2>1. CASE failed
    BY <2>1 DEF StatusInv, CrowdedInv, Reply
  <2>2. CASE ~failed
    <3>1. Len(<<"error">>) = 1
      OBVIOUS
    <3>2. Len(reply) = 10
      BY <1>3, <1>4, <2>2 DEF Reply
    <3> QED
      BY <3>1, <3>2
  <2> QED
    BY <2>1, <2>2
<1> DEFINE r == [reader EXCEPT !.pc = "idle", !.statuses = none, !.reply = reply]
<1>6. reader' = r
  BY <1>2, <1>4 DEF Reply
<1>7. /\ r \in Request /\ r.pc = "idle" /\ r.statuses = none /\ r.reply = reply
      /\ r.crowded = reader.crowded
  BY <1>1, <1>2, <1>4 DEF Request
<1> HIDE DEF r, failed
<1>8. Len(none) <= Len(Steps) /\ ~(\E i \in 1..Len(none) : none[i] = "error")
  BY <1>2, <1>3
<1> QED
  BY <1>1, <1>5, <1>6, <1>7, <1>8, StepOfRequest

\* Nothing but the conversion of the master, or the query of it, takes a step.
LEMMA RequestRests ==
  ASSUME StatusInv, MasterInv', dirs' = dirs, reader' = reader, newConfig' \in BOOLEAN
  PROVE  StatusInv'
<1>1. /\ reader \in Request /\ Len(reader.statuses) <= Len(Steps)
      /\ reader.pc = "master" => Len(reader.statuses) < Len(Steps)
      /\ \A s \in ChecklistSteps : reader.pc # "idle" /\ Crowded(s) => reader.crowded
      /\ (\E i \in 1..Len(reader.statuses) : reader.statuses[i] = "error") => reader.crowded
      /\ reader.reply = <<"error">> => reader.crowded
  BY DEF StatusInv, TypeOK, CrowdedInv, ErrorOnlyIfCrowded
<1> QED
  BY <1>1, StepOfRequest

\* A step of the request.
LEMMA RequestKeeps ==
  ASSUME StatusInv, RequestStep
  PROVE  StatusInv'
<1>1. MasterInv /\ newConfig \in BOOLEAN /\ dirs \in [ChecklistSteps -> C!StepDir] /\ reader \in Request
  BY DEF StatusInv, TypeOK
<1>2. ASSUME NEW s \in ChecklistSteps, AskChecklist(s)
      PROVE  StatusInv'
  <2>1. dirs[s] \in C!StepDir /\ (dirs[s].exists \/ dirs[s].files = {})
    BY <1>1 DEF StatusInv, CrowdedInv
  <2>2. /\ C!GetStatus(dirs[s]) \in Status \cup {"error"}
        /\ C!GetStatus(dirs[s]) = "error" => Crowded(s)
    BY <2>1, StatusOfDir DEF Crowded
  <2>3. /\ reader.pc # "idle" /\ Len(reader.statuses) < Len(Steps) /\ Note(C!GetStatus(dirs[s]))
        /\ UNCHANGED masterVars /\ dirs' = dirs /\ newConfig' = newConfig
    BY <1>2 DEF AskChecklist, AtStep
  <2>4. Crowded(s) => reader.crowded
    BY <2>3 DEF StatusInv, CrowdedInv
  <2> QED
    BY <1>1, <2>2, <2>3, <2>4, MasterRests, OneMore
<1>3. CASE GetPrepareNewClusterConfigStatus
  <2>1. PICK status \in Status \cup {"error"} :
          status = (IF newConfig THEN "COMPLETE" ELSE "PENDING") /\ status # "error"
    BY DEF Status
  <2>2. /\ reader.pc # "idle" /\ Len(reader.statuses) < Len(Steps) /\ Note(status)
        /\ UNCHANGED masterVars /\ dirs' = dirs /\ newConfig' = newConfig
    BY <1>3, <2>1 DEF GetPrepareNewClusterConfigStatus, AtStep
  <2> QED
    BY <1>1, <2>1, <2>2, MasterRests, OneMore
<1>4. CASE AskElsewhere
  <2>1. PICK status \in FromOthers : Note(status)
    BY <1>4 DEF AskElsewhere
  <2>2. status \in Status \cup {"error"} /\ status # "error"
    BY StatusAssumption DEF Status
  <2>3. /\ reader.pc # "idle" /\ Len(reader.statuses) < Len(Steps)
        /\ UNCHANGED masterVars /\ dirs' = dirs /\ newConfig' = newConfig
    BY <1>4 DEF AskElsewhere, AtStep
  <2> QED
    BY <1>1, <2>1, <2>2, <2>3, MasterRests, OneMore
<1>5. CASE AskMaster
  <2> DEFINE r == [reader EXCEPT !.pc = "master"]
  <2>1. /\ r \in Request /\ r.pc = "master" /\ r.statuses = reader.statuses
        /\ r.reply = reader.reply /\ r.crowded = reader.crowded
    BY <1>1 DEF Request
  <2>2. /\ reader' = r /\ QueryBegins /\ dirs' = dirs /\ newConfig' = newConfig
        /\ reader.pc = "next" /\ Len(reader.statuses) < Len(Steps)
    BY <1>5 DEF AskMaster, AtStep
  <2> HIDE DEF r
  <2>3. /\ Len(reader.statuses) <= Len(Steps)
        /\ \A s \in ChecklistSteps : Crowded(s) => reader.crowded
        /\ (\E i \in 1..Len(reader.statuses) : reader.statuses[i] = "error") => reader.crowded
        /\ reader.reply = <<"error">> => reader.crowded
    BY <2>2 DEF StatusInv, TypeOK, CrowdedInv, ErrorOnlyIfCrowded
  <2>4. MasterInv'
    BY <1>1, <2>2, QueryStarts
  <2> QED
    BY <1>1, <2>1, <2>2, <2>3, <2>4, StepOfRequest
<1>6. CASE MasterStep
  <2>1. MasterInv' /\ dirs' = dirs /\ newConfig' = newConfig /\ reader' = reader
    BY <1>1, <1>6, QueryKeeps DEF MasterStep, statusVars
  <2> QED
    BY <1>1, <2>1, RequestRests
<1>7. CASE NoteMaster
  <2>1. /\ reader.pc = "master" /\ Len(reader.statuses) < Len(Steps) /\ query' = NoQuery
        /\ UNCHANGED upgradeVars /\ dirs' = dirs /\ newConfig' = newConfig /\ Note(query.status)
    BY <1>7 DEF NoteMaster, StatusInv
  <2>2. query.status \in Status
    BY <1>1, <1>7 DEF NoteMaster, MasterInv, QueryInv
  <2>3. query.status \in Status \cup {"error"} /\ query.status # "error"
    BY <2>2 DEF Status
  <2>4. MasterInv'
    BY <1>1, <2>1, QueryIsOver
  <2> QED
    BY <2>1, <2>3, <2>4, OneMore
<1>8. CASE Reply
  BY <1>8, RequestEnds
<1> QED
  BY <1>2, <1>3, <1>4, <1>5, <1>6, <1>7, <1>8 DEF RequestStep

\* A call on the directory of a step: the request knows if it is crowded then.
LEMMA ChecklistKeeps ==
  ASSUME StatusInv, NEW s \in Active, ChecklistCall(s)
  PROVE  StatusInv'
<1>1. s \in ChecklistSteps /\ dirs \in [ChecklistSteps -> C!StepDir] /\ reader \in Request
  BY StatusAssumption DEF StatusInv, TypeOK
<1> DEFINE d == dirs[s]
<1>2. d \in C!StepDir /\ (d.exists \/ d.files = {})
  BY <1>1 DEF StatusInv, CrowdedInv
<1>3. PICK after :
        /\ after \in {C!Unlinked(d), C!MkdirAll(d)}
             \cup (IF C!CanRmdir(d) THEN {C!Absent} ELSE {})
             \cup (IF C!CanUnmark(d) THEN {C!Unmarked(d)} ELSE {})
             \cup (IF C!CanOpen(d) THEN {C!Opened(d, marker) : marker \in C!Marker} ELSE {})
        /\ dirs' = [dirs EXCEPT ![s] = after]
        /\ reader' = [reader EXCEPT !.crowded = @ \/ Cardinality(after.files) > 1]
  BY DEF ChecklistCall
<1>4. after \in C!StepDir /\ (after.exists \/ after.files = {})
  <2> HIDE DEF d
  <2>1. CASE after = C!Unlinked(d)
    BY <1>2, <2>1 DEF C!Unlinked, C!StepDir
  <2>2. CASE after = C!MkdirAll(d)
    BY <1>2, <2>2 DEF C!MkdirAll, C!StepDir
  <2>3. CASE after = C!Absent
    BY <2>3 DEF C!Absent, C!StepDir
  <2>4. CASE after = C!Unmarked(d) /\ C!CanUnmark(d)
    BY <1>2, <2>4 DEF C!Unmarked, C!CanUnmark, C!StepDir
  <2>5. CASE C!CanOpen(d) /\ \E marker \in C!Marker : after = C!Opened(d, marker)
    BY <1>2, <2>5 DEF C!Opened, C!CanOpen, C!StepDir
  <2> QED
    BY <1>3, <2>1, <2>2, <2>3, <2>4, <2>5
<1>5. PICK crowded \in BOOLEAN : crowded = (reader.crowded \/ Cardinality(after.files) > 1)
  <2>1. SUFFICES (reader.crowded \/ Cardinality(after.files) > 1) \in BOOLEAN
    OBVIOUS
  <2> QED
    OBVIOUS
<1> DEFINE r == [reader EXCEPT !.crowded = crowded]
<1>6. reader' = r
  BY <1>3, <1>5
<1>7. /\ r \in Request /\ r.pc = reader.pc /\ r.statuses = reader.statuses
      /\ r.reply = reader.reply /\ r.crowded = crowded
  BY <1>1, <1>5 DEF Request
<1> HIDE DEF r, d
<1>8. /\ dirs' \in [ChecklistSteps -> C!StepDir] /\ dirs'[s] = after
      /\ \A t \in ChecklistSteps \ {s} : dirs'[t] = dirs[t]
  BY <1>1, <1>3, <1>4
<1>9. MasterInv' /\ newConfig' \in BOOLEAN
  BY MasterRests DEF ChecklistCall, StatusInv, TypeOK
<1>10. TypeOK'
  <2>1. /\ r.pc \in {"idle", "next", "master"} /\ Len(r.statuses) <= Len(Steps)
        /\ \A i \in 1..Len(r.statuses) : r.statuses[i] \in Status \cup {"error"}
    BY <1>7 DEF StatusInv, TypeOK
  <2> QED
    BY <1>6, <1>8, <1>9, <2>1 DEF TypeOK, MasterInv
<1>11. CrowdedInv'
  <2>1. ASSUME NEW t \in ChecklistSteps
        PROVE  /\ dirs'[t].exists \/ dirs'[t].files = {}
               /\ r.pc # "idle" /\ Cardinality(dirs'[t].files) > 1 => crowded
    <3>1. CASE t = s
      BY <1>4, <1>5, <1>8, <3>1
    <3>2. CASE t # s
      BY <1>5, <1>7, <1>8, <3>2 DEF StatusInv, CrowdedInv, Crowded
    <3> QED
      BY <3>1, <3>2
  <2>2. (\E i \in 1..Len(r.statuses) : r.statuses[i] = "error") => crowded
    BY <1>5, <1>7 DEF StatusInv, CrowdedInv
  <2> QED
    BY <1>6, <1>7, <2>1, <2>2 DEF CrowdedInv, Crowded
<1>12. ErrorOnlyIfCrowded'
  BY <1>5, <1>6, <1>7 DEF StatusInv, ErrorOnlyIfCrowded
<1>13. reader' \in Request /\ (reader'.pc = "master" => Len(reader'.statuses) < Len(Steps))
  BY <1>6, <1>7 DEF StatusInv
<1> QED
  BY <1>9, <1>10, <1>11, <1>12, <1>13 DEF StatusInv

\* StatusInv holds at the start.
LEMMA StatusStarts == Init => StatusInv
<1> SUFFICES ASSUME Init
             PROVE  StatusInv
  OBVIOUS
<1>1. MasterInv
  BY MasterStarts DEF Init
<1>2. PICK none \in Seq(Status \cup {"error"}) : none = <<>> /\ Len(none) = 0
  <2>1. <<>> \in Seq(Status \cup {"error"}) /\ Len(<<>>) = 0
    OBVIOUS
  <2> QED
    BY <2>1
<1>3. /\ reader \in Request /\ reader.pc = "idle" /\ reader.statuses = none /\ reader.reply = none
  <2>1. reader = [pc |-> "idle", statuses |-> none, reply |-> none, crowded |-> FALSE]
    BY <1>2 DEF Init, NoRequest
  <2> QED
    BY <2>1 DEF Request
<1>4. Len(none) <= Len(Steps) /\ none # <<"error">> /\ 1..Len(none) = {}
  <2>1. Len(Steps) = 10 /\ <<>> # <<"error">>
    BY DEF Steps
  <2> QED
    BY <1>2, <2>1
<1>5. \A s \in ChecklistSteps : dirs[s] \in C!StepDir /\ dirs[s].files = {}
  BY DEF Init, C!Absent, C!StepDir
<1>6. dirs \in [ChecklistSteps -> C!StepDir] /\ newConfig \in BOOLEAN
  BY <1>5 DEF Init
<1>7. TypeOK
  BY <1>1, <1>3, <1>4, <1>6 DEF TypeOK, MasterInv
<1>8. CrowdedInv /\ ErrorOnlyIfCrowded
  BY <1>3, <1>4, <1>5 DEF CrowdedInv, ErrorOnlyIfCrowded
<1> QED
  BY <1>1, <1>3, <1>7, <1>8 DEF StatusInv

\* Every step keeps StatusInv.
LEMMA StatusStep ==
  ASSUME StatusInv, [Next]_vars
  PROVE  StatusInv'
<1>1. MasterInv /\ newConfig \in BOOLEAN
  BY DEF StatusInv, TypeOK
<1>2. CASE Begin
  BY <1>2, RequestBegins
<1>3. CASE RequestStep
  BY <1>3, RequestKeeps
<1>4. ASSUME NEW u \in Upgrades, ConvertStep(u)
      PROVE  StatusInv'
  <2>1. MasterInv' /\ dirs' = dirs /\ newConfig' = newConfig /\ reader' = reader
    BY <1>1, <1>4, UpgradeKeeps DEF ConvertStep, statusVars
  <2> QED
    BY <1>1, <2>1, RequestRests
<1>5. ASSUME NEW s \in Active, ChecklistCall(s)
      PROVE  StatusInv'
  BY <1>5, ChecklistKeeps
<1>6. CASE OpenNewConfig
  <2>1. MasterInv' /\ dirs' = dirs /\ newConfig' \in BOOLEAN /\ reader' = reader
    BY <1>1, <1>6, MasterRests DEF OpenNewConfig
  <2> QED
    BY <2>1, RequestRests
<1>7. CASE UNCHANGED vars
  <2>1. MasterInv' /\ dirs' = dirs /\ newConfig' = newConfig /\ reader' = reader
    BY <1>1, <1>7, MasterRests DEF vars, statusVars
  <2> QED
    BY <1>1, <2>1, RequestRests
<1> QED
  BY <1>2, <1>3, <1>4, <1>5, <1>6, <1>7 DEF Next

\* StatusInv is an invariant.
LEMMA StatusHolds == Spec => []StatusInv
<1>1. StatusInv /\ [Next]_vars => StatusInv'
  BY StatusStep
<1> QED
  BY <1>1, StatusStarts, PTL DEF Spec

---------------------------------------------------------------------------

\* The variables of StatusUpgrade and of MasterUpgrade keep their types: whatever comes
\* and goes between two calls of GetStatus, the file it takes for the latest is one
\* that pg_upgrade writes.
THEOREM StatusTypeCorrect == Spec => []TypeOK
<1>1. StatusInv => TypeOK
  BY DEF StatusInv
<1> QED
  BY <1>1, StatusHolds, PTL

\* GetStatus says COMPLETE only if a pg_upgrade has finished, and the one that has had
\* the directory to itself since the query began, if there is one: the files that an
\* earlier one left are not taken for its own.
THEOREM MasterCompleteCanBeTrusted == Spec => []MasterCompleteIsTrue
<1>1. StatusInv => MasterCompleteIsTrue
  BY DEF StatusInv, MasterInv
<1> QED
  BY <1>1, StatusHolds, PTL

\* GetStatus shows a pg_upgrade that has finished, if it had the directory to itself and
\* its last file is the newest: the scan of the files in the order of their names finds it.
THEOREM FinishedIsFound == Spec => []FinishedIsSeen
<1>1. StatusInv => FinishedIsSeen
  <2> SUFFICES ASSUME StatusInv, query.pc = "answered", query.calm,
                      \E u \in owner : upgrade[u].pc = "finished",
                      done[Stages].ended, \A i \in 1..(Stages - 1) : done[i].time < done[Stages].time
               PROVE  query.status = "COMPLETE"
    BY DEF FinishedIsSeen
  <2>1. MasterInv
    BY DEF StatusInv
  <2>2. Shows
    BY <2>1 DEF Shows, Finished, MasterInv, MasterTypeOK
  <2>3. OnTrack(query)
    BY <2>1, <2>2 DEF MasterInv, QueryInv
  <2> QED
    BY <2>3 DEF OnTrack
<1> QED
  BY <1>1, StatusHolds, PTL

\* StatusUpgrade fails only if some step had more than one marker at a moment of the
\* request, for any calls on the directories between its reads of them.
THEOREM ErrorsAreCrowds == Spec => []ErrorOnlyIfCrowded
<1>1. StatusInv => ErrorOnlyIfCrowded
  BY DEF StatusInv
<1> QED
  BY <1>1, StatusHolds, PTL

=============================================================================
