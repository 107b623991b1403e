------------------------ MODULE ConvertPrimariesProofs ------------------------
(***************************************************************************)
(* The conversion of the primaries, for any callers, hosts, primaries and  *)
(* bounds, whether calls for connections overlap or not.  Each of its      *)
(* steps is a step of the cache of connections or leaves that alone, so    *)
(* that the invariant of the cache is one of this specification too.       *)
(***************************************************************************)
EXTENDS ConvertPrimaries, AgentConnsProofs

\* The requests are with the cache of connections as its own specification says.
LEMMA ConnsGoOn ==
  ASSUME ConvInv, [Next]_vars
  PROVE  [ConnNext]_connVars
<1>1. ASSUME NEW c \in Callers, NEW reply, HandlerEnds(c, reply), call[c].pc \in {"got", "failed"}
      PROVE  ConnNext
  BY <1>1 DEF HandlerEnds, ConnNext, HandlerReturns, Becomes
<1>2. ASSUME NEW c \in Converters, BeginConvert(c) \/ ConvertStep(c) PROVE [ConnNext]_connVars
  <2>1. c \in Callers
    BY ConvertAssumption
  <2>2. CASE BeginConvert(c) \/ GetConns(c)
    BY <2>1, <2>2 DEF BeginConvert, GetConns, ConnNext
  <2>3. CASE ConvertFails(c)
    BY <1>1, <2>1, <2>3 DEF ConvertFails
  <2>4. CASE ReplyConvert(c)
    BY <1>1, <2>1, <2>4 DEF ReplyConvert, FannedOut
  <2>5. CASE FanOut(c)
    BY <2>5 DEF FanOut
  <2>6. ASSUME NEW i, CollectAnswer(c, i) \/ AgentStep(c, i) PROVE UNCHANGED connVars
    BY <2>6 DEF CollectAnswer, AgentStep, GlobOids, NextSegment, CopyOid, StartPgUpgrade,
                SegmentFails
  <2> QED
    BY <1>2, <2>2, <2>3, <2>4, <2>5, <2>6 DEF ConvertStep
<1>3. ASSUME NEW c \in Callers \ Converters, BeginStatus(c) \/ StatusStep(c)
      PROVE  [ConnNext]_connVars
  <2>1. CASE BeginStatus(c) \/ GetConns(c)
    BY <2>1 DEF BeginStatus, GetConns, ConnNext
  <2>2. CASE AskAgent(c) \/ CheckConversionStatus(c)
    BY <2>2 DEF AskAgent, CheckConversionStatus, StatSegment, LookForProcess,
                InProgressFilesExist, GlobDone, ScanLatest, AgentAnswers, Told, LookBecomes
  <2>3. CASE AnswerStatus(c) \/ StatusConversionFails(c)
    BY <1>1, <2>3 DEF AnswerStatus, StatusConversionFails
  <2> QED
    BY <1>3, <2>1, <2>2, <2>3 DEF StatusStep
<1>4. CASE \/ \E s \in Segments : PgUpgrade(s)
           \/ \E h \in Hosts, f \in OidFiles : OidFileArrives(h, f)
  BY <1>4 DEF PgUpgrade, DeleteOldFiles, PgUpgradeWrites, PgUpgradeFinishes, PgUpgradeDies,
              DirStep, OidFileArrives
<1>5. CASE Network
  BY <1>5 DEF Network, AgentStopsServing, ConnNext, NetStep
<1>6. CASE UNCHANGED vars
  BY <1>6 DEF vars
<1> QED
  BY <1>2, <1>3, <1>4, <1>5, <1>6 DEF Next, Quiescent

---------------------------------------------------------------------------
(* What may change beside a request without hurting it.                    *)

\* Directories are made and OID files are copied, never the other way round.
Grows(dirs, dirs2) == \A s \in Segments :
  (dirs[s].dir => dirs2[s].dir) /\ dirs[s].oids \subseteq dirs2[s].oids

\* A directory moves and the others do not.
LEMMA DirMoves ==
  ASSUME seg \in [Segments -> Directory], NEW s \in Segments, NEW g \in Directory,
         DirBecomes(s, g), seg[s].dir => g.dir, seg[s].oids \subseteq g.oids
  PROVE  /\ seg' \in [Segments -> Directory] /\ seg'[s] = g
         /\ \A t \in Segments : t # s => seg'[t] = seg[t]
         /\ Grows(seg, seg')
<1>1. /\ seg' \in [Segments -> Directory] /\ seg'[s] = g
      /\ \A t \in Segments : t # s => seg'[t] = seg[t]
  BY DEF DirBecomes
<1> QED
  BY <1>1 DEF Grows

\* More primaries started, errors counted, directories and files in them.
LEMMA HandlerInvGrows ==
  ASSUME NEW hd \in Handler, NEW h, NEW j \in Job, NEW y \in Job, NEW dirs, NEW dirs2,
         HandlerInv(hd, h, j, dirs), Grows(dirs, dirs2),
         j.started \subseteq y.started, j.errs <= y.errs, y.shared = j.shared
  PROVE  HandlerInv(hd, h, y, dirs2)
<1>1. j.errs > 0 => y.errs > 0
  BY DEF Job
<1>2. hd.cur \subseteq Segments
  BY DEF Handler
<1>3. \A s \in hd.cur : dirs[s].dir /\ hd.files \ hd.left \subseteq dirs[s].oids
                       => dirs2[s].dir /\ hd.files \ hd.left \subseteq dirs2[s].oids
  BY <1>2 DEF Grows
<1> QED
  BY <1>1, <1>3 DEF HandlerInv

\* The same for all the goroutines of a request, whatever files arrive.
LEMMA JobInvGrows ==
  ASSUME NEW c, NEW j \in Job, NEW k, NEW files, NEW files2, NEW dirs, NEW dirs2,
         JobInv(c, j, k, files, dirs), Grows(dirs, dirs2),
         \A h \in Hosts : files[h] \subseteq files2[h]
  PROVE  JobInv(c, j, k, files2, dirs2)
<1>1. ASSUME NEW i \in 1..Len(j.handlers)
      PROVE  HandlerInv(j.handlers[i], k.conns[i], j, dirs2)
  <2>1. j.handlers[i] \in Handler /\ j.errs <= j.errs
    BY DEF Job
  <2> QED
    BY <2>1, HandlerInvGrows DEF JobInv
<1>2. ASSUME NEW s \in j.started
      PROVE  dirs2[s].dir /\ dirs2[s].oids # {} /\ (j.shared => OidFiles \subseteq dirs2[s].oids)
  <2>1. s \in Segments
    BY DEF Job
  <2> QED
    BY <2>1 DEF JobInv, Grows
<1>3. j.shared => \A h \in Hosts : OidFiles \subseteq files2[h]
  BY DEF JobInv
<1> QED
  BY <1>1, <1>2, <1>3 DEF JobInv

\* Nothing shrinks when nothing happens.
LEMMA GrowsNot == \A dirs : Grows(dirs, dirs)
BY DEF Grows

\* One request moves, the others are where they were.
LEMMA JobsStay ==
  ASSUME TypeOK, NEW c \in Callers, NEW y \in Job, JobBecomes(c, y)
  PROVE  /\ job' \in [Callers -> Job]
         /\ job'[c] = y
         /\ \A d \in Callers : d # c => job'[d] = job[d]
BY DEF TypeOK, JobBecomes

\* The part of the type that follows from the rest.
LEMMA LengthsFit ==
  ASSUME NEW c, NEW j \in Job, NEW k, NEW files, NEW dirs, JobInv(c, j, k, files, dirs)
  PROVE  Len(j.handlers) \in {0, Len(k.conns)}
BY DEF JobInv

\* What a step of request c, from job[c] to y, has to show.
LEMMA StepOfRequest ==
  ASSUME ConvInv, ConnInv', NEW c \in Callers, NEW y \in Job, JobBecomes(c, y),
         \A d \in Callers : d # c => call'[d] = call[d],
         c \in Converters /\ call[c].pc = "idle" => call'[c].pc = "idle",
         oids' = oids, converts' = converts, allStarted' \in BOOLEAN,
         seg' \in [Segments -> Directory], Grows(seg, seg'),
         seg' = seg \/ job[c].handlers # <<>>,
         JobInv(c, y, call'[c], oids, seg'),
         y.trusted => job[c].trusted \/ (allStarted /\ \A s \in Segments : Alone(s)),
         allStarted' => allStarted \/ Calm',
         c \notin Converters => ToldTrue(y, call'[c], seg)
  PROVE  ConvInv'
<1>0. TypeOK
  BY DEF ConvInv
<1>1. /\ job' \in [Callers -> Job] /\ job'[c] = y
      /\ \A d \in Callers : d # c => job'[d] = job[d]
  BY <1>0, JobsStay
<1>2. ASSUME NEW d \in Callers PROVE JobInv(d, job'[d], call'[d], oids, seg')
  <2>1. CASE d = c
    BY <1>1, <2>1
  <2>2. CASE d # c
    <3>1. JobInv(d, job[d], call[d], oids, seg) /\ job[d] \in Job
      BY <1>0 DEF ConvInv, TypeOK
    <3>2. JobInv(d, job[d], call[d], oids, seg')
      BY <3>1, JobInvGrows
    <3> QED
      BY <1>1, <2>2, <3>2
  <2> QED
    BY <2>1, <2>2
<1>3. TypeOK'
  <2>1. \A d \in Callers : Len(job'[d].handlers) \in {0, Len(call'[d].conns)}
    BY <1>1, <1>2, LengthsFit
  <2> QED
    BY <1>0, <1>1, <2>1 DEF TypeOK, ConnInv
<1>4. Calm => Calm' /\ seg' = seg
  <2>1. Made = Segments => Made' = Segments
    BY DEF Made, Grows
  <2>2. job[c].handlers # <<>> => c \in Converters /\ call[c].pc = "got"
    BY DEF ConvInv, JobInv
  <2>3. Calm => \A d \in Converters : call'[d].pc = "idle"
    BY ConvertAssumption DEF Calm
  <2> QED
    BY <2>1, <2>2, <2>3 DEF Calm
<1>5. TrustInv'
  <2>1. allStarted' => Calm'
    BY <1>4 DEF ConvInv, TrustInv
  <2>2. ASSUME NEW d \in Callers, job'[d].trusted
        PROVE  Calm' /\ (\A s \in Segments : Alone(s)') /\ seg' = seg
    <3>1. Calm /\ \A s \in Segments : Alone(s)
      BY <1>1, <2>2 DEF ConvInv, TrustInv
    <3> QED
      BY <1>4, <3>1 DEF Alone
  <2>3. ASSUME NEW d \in Callers \ Converters PROVE ToldTrue(job'[d], call'[d], seg')
    <3>1. CASE job'[d].trusted
      <4>1. seg' = seg
        BY <2>2, <3>1
      <4> QED
        BY <1>1, <2>3, <4>1 DEF ConvInv, TrustInv
    <3>2. CASE ~job'[d].trusted
      BY <3>2 DEF ToldTrue
    <3> QED
      BY <3>1, <3>2
  <2> QED
    BY <2>1, <2>2, <2>3 DEF TrustInv
<1> QED
  BY <1>2, <1>3, <1>5 DEF ConvInv

---------------------------------------------------------------------------
(* The goroutines of a conversion.                                         *)

\* One goroutine of a request moves, the others are where they were.
LEMMA HandlersStay ==
  ASSUME NEW hs \in Seq(Handler), NEW i \in 1..Len(hs), NEW x \in Handler
  PROVE  LET new == [hs EXCEPT ![i] = x] IN
         /\ new \in Seq(Handler) /\ Len(new) = Len(hs) /\ new # <<>>
         /\ new[i] = x /\ \A k \in 1..Len(hs) : k # i => new[k] = hs[k]
OBVIOUS

\* What a step of goroutine i of request c has to show, from there to x.
LEMMA StepOfAgent ==
  ASSUME ConvInv, ConnInv', NEW c \in Converters, NEW i \in 1..Len(job[c].handlers),
         NEW x \in Handler, NEW y \in Job, JobBecomes(c, y),
         y.handlers = [job[c].handlers EXCEPT ![i] = x],
         job[c].started \subseteq y.started, job[c].errs <= y.errs,
         y.reply = job[c].reply, y.hosts = job[c].hosts, y.trusted = job[c].trusted,
         y.asked = job[c].asked, y.shared = job[c].shared,
         \A s \in y.started \ job[c].started :
           seg'[s].dir /\ seg'[s].oids # {} /\ (y.shared => OidFiles \subseteq seg'[s].oids),
         call' = call, oids' = oids, converts' = converts, allStarted' = allStarted,
         seg' \in [Segments -> Directory], Grows(seg, seg'),
         HandlerInv(x, call[c].conns[i], y, seg')
  PROVE  ConvInv'
<1> DEFINE hs == job[c].handlers
<1>0. TypeOK /\ c \in Callers /\ job[c] \in Job /\ JobInv(c, job[c], call[c], oids, seg)
  BY ConvertAssumption DEF ConvInv, TypeOK
<1>1. hs \in Seq(Handler) /\ hs # <<>>
  BY <1>0 DEF Job
<1>2. /\ Len(y.handlers) = Len(hs) /\ y.handlers # <<>> /\ y.handlers[i] = x
      /\ \A k \in 1..Len(hs) : k # i => y.handlers[k] = hs[k]
  BY <1>1, HandlersStay
<1>3. ASSUME NEW k \in 1..Len(y.handlers)
      PROVE  HandlerInv(y.handlers[k], call[c].conns[k], y, seg')
  <2>1. CASE k = i
    BY <1>2, <2>1
  <2>2. CASE k # i
    <3>1. y.handlers[k] = hs[k] /\ hs[k] \in Handler /\ k \in 1..Len(hs)
      BY <1>1, <1>2, <2>2
    <3>2. HandlerInv(hs[k], call[c].conns[k], job[c], seg)
      BY <1>0, <3>1 DEF JobInv
    <3> QED
      BY <1>0, <3>1, <3>2, HandlerInvGrows
  <2> QED
    BY <2>1, <2>2
<1>4. JobInv(c, y, call[c], oids, seg')
  <2>1. /\ call[c].pc = "got" /\ Len(hs) = Len(call[c].conns) /\ ~job[c].trusted
        /\ job[c].reply = "ok" => {s \in Segments : HostOf[s] \in job[c].hosts} \subseteq job[c].started
        /\ job[c].shared => \A h \in Hosts : OidFiles \subseteq oids[h]
    BY <1>0, <1>1 DEF JobInv
  <2>2. ASSUME NEW s \in job[c].started
        PROVE  seg'[s].dir /\ seg'[s].oids # {} /\ (y.shared => OidFiles \subseteq seg'[s].oids)
    <3>1. s \in Segments
      BY <1>0 DEF Job
    <3> QED
      BY <1>0, <3>1 DEF JobInv, Grows
  <2> QED
    BY <1>2, <1>3, <2>1, <2>2 DEF JobInv
<1>5. allStarted' \in BOOLEAN
  BY <1>0 DEF TypeOK
<1> QED
  BY <1>0, <1>1, <1>4, <1>5, StepOfRequest

\* The request j of c while one of its goroutines, hd, moves: what is known of it.
LEMMA AgentKnown ==
  ASSUME ConvInv, NEW c \in Converters, NEW i \in 1..Len(job[c].handlers)
  PROVE  /\ job[c] \in Job /\ job[c].handlers \in Seq(Handler) /\ job[c].handlers[i] \in Handler
         /\ HandlerInv(job[c].handlers[i], call[c].conns[i], job[c], seg)
         /\ call[c].conns[i] \in Hosts /\ seg \in [Segments -> Directory]
         /\ oids \in [Hosts -> SUBSET OidFiles]
         /\ job[c].shared => \A h \in Hosts : OidFiles \subseteq oids[h]
<1>1. c \in Callers
  BY ConvertAssumption
<1>2. job[c] \in Job /\ JobInv(c, job[c], call[c], oids, seg) /\ call[c] \in Call
  BY <1>1 DEF ConvInv, TypeOK, ConnTypeOK
<1>3. job[c].handlers \in Seq(Handler) /\ job[c].handlers[i] \in Handler
  BY <1>2 DEF Job
<1>4. Len(job[c].handlers) = Len(call[c].conns)
  BY <1>2, <1>3 DEF JobInv
<1>5. call[c].conns[i] \in Hosts
  BY <1>2, <1>4 DEF Call
<1> QED
  BY <1>2, <1>3, <1>5 DEF ConvInv, TypeOK, JobInv

\* A goroutine moves, and perhaps a directory, but nothing else in the request.
LEMMA HandlerMoves ==
  ASSUME ConvInv, ConnInv', NEW c \in Converters, NEW i \in 1..Len(job[c].handlers),
         NEW x \in Handler, SetHandler(c, i, x),
         call' = call, oids' = oids, converts' = converts, allStarted' = allStarted,
         seg' \in [Segments -> Directory], Grows(seg, seg'),
         HandlerInv(x, call[c].conns[i], job[c], seg')
  PROVE  ConvInv'
<1> DEFINE y == [job[c] EXCEPT !.handlers = [@ EXCEPT ![i] = x]]
<1>1. job[c] \in Job /\ job[c].handlers \in Seq(Handler)
  BY AgentKnown
<1>2. [job[c].handlers EXCEPT ![i] = x] \in Seq(Handler)
  BY <1>1, HandlersStay
<1>3. /\ y \in Job /\ y.handlers = [job[c].handlers EXCEPT ![i] = x]
      /\ y.started = job[c].started /\ y.errs = job[c].errs
      /\ y.reply = job[c].reply /\ y.hosts = job[c].hosts /\ y.trusted = job[c].trusted
      /\ y.asked = job[c].asked /\ y.shared = job[c].shared
  BY <1>1, <1>2 DEF Job
<1>4. JobBecomes(c, y)
  BY DEF SetHandler
<1> HIDE DEF y
<1>5. job[c].errs <= y.errs /\ y.started \ job[c].started = {}
  BY <1>1, <1>3 DEF Job
<1>6. HandlerInv(x, call[c].conns[i], y, seg')
  BY <1>3 DEF HandlerInv
<1> QED
  BY <1>3, <1>4, <1>5, <1>6, StepOfAgent

\* The agent's handler, and the goroutine that waits for it, keep the invariant.
LEMMA AgentGoesOn ==
  ASSUME ConvInv, ConnInv', NEW c \in Converters, NEW i \in 1..Len(job[c].handlers),
         CollectAnswer(c, i) \/ AgentStep(c, i)
  PROVE  ConvInv'
<1> DEFINE hd == job[c].handlers[i]
           h == call[c].conns[i]
           j == job[c]
<1>0. /\ j \in Job /\ j.handlers \in Seq(Handler) /\ hd \in Handler
      /\ HandlerInv(hd, h, j, seg) /\ h \in Hosts /\ seg \in [Segments -> Directory]
      /\ oids \in [Hosts -> SUBSET OidFiles]
      /\ j.shared => \A k \in Hosts : OidFiles \subseteq oids[k]
  BY AgentKnown
<1>1. call' = call /\ oids' = oids /\ converts' = converts /\ allStarted' = allStarted
  BY DEF CollectAnswer, AgentStep, GlobOids, NextSegment, CopyOid, StartPgUpgrade,
         SegmentFails, connVars
<1>2. ASSUME seg' = seg PROVE seg' \in [Segments -> Directory] /\ Grows(seg, seg')
  BY <1>0, <1>2, GrowsNot
<1>3. CASE CollectAnswer(c, i)
  <2> DEFINE x == [hd EXCEPT !.pc = "done"]
  <2>1. x \in Handler /\ x.pc = "done"
    BY <1>0 DEF Handler
  <2>2. seg' = seg
    BY <1>3 DEF CollectAnswer
  <2> HIDE DEF x
  <2>3. CASE hd.pc = "ok" /\ SetHandler(c, i, x)
    <3>1. HandlerInv(x, h, j, seg)
      BY <1>0, <2>1, <2>3 DEF HandlerInv
    <3> QED
      BY <1>1, <1>2, <2>1, <2>2, <2>3, <3>1, HandlerMoves
  <2>4. CASE JobBecomes(c, [j EXCEPT !.errs = @ + 1, !.handlers = [@ EXCEPT ![i] = x]])
    <3> DEFINE y == [j EXCEPT !.errs = @ + 1, !.handlers = [@ EXCEPT ![i] = x]]
    <3>1. [j.handlers EXCEPT ![i] = x] \in Seq(Handler)
      BY <1>0, <2>1, HandlersStay
    <3>2. /\ y \in Job /\ y.handlers = [j.handlers EXCEPT ![i] = x]
          /\ y.started = j.started /\ y.errs = j.errs + 1
          /\ y.reply = j.reply /\ y.hosts = j.hosts /\ y.trusted = j.trusted
          /\ y.asked = j.asked /\ y.shared = j.shared
      <4>1. PICK n \in Nat : n = j.errs + 1
        BY <1>0 DEF Job
      <4>2. y = [j EXCEPT !.errs = n, !.handlers = [j.handlers EXCEPT ![i] = x]]
        BY <4>1
      <4> HIDE DEF y
      <4> QED
        BY <1>0, <3>1, <4>1, <4>2 DEF Job
    <3>3. JobBecomes(c, y)
      BY <2>4
    <3> HIDE DEF y
    <3>4. j.errs <= y.errs /\ y.errs > 0
      BY <1>0, <3>2 DEF Job
    <3>5. HandlerInv(x, h, y, seg')
      BY <2>1, <3>4 DEF HandlerInv
    <3>6. y.started \ j.started = {}
      BY <3>2
    <3> QED
      BY <1>1, <1>2, <2>1, <2>2, <3>2, <3>3, <3>4, <3>5, <3>6, StepOfAgent
  <2> QED
    BY <1>3, <2>3, <2>4 DEF CollectAnswer, x
<1>4. ASSUME NEW x \in Handler, SetHandler(c, i, x), x.pc = "err", seg' = seg PROVE ConvInv'
  <2>1. HandlerInv(x, h, j, seg)
    BY <1>4 DEF HandlerInv
  <2> QED
    BY <1>1, <1>2, <1>4, <2>1, HandlerMoves
<1>5. CASE GlobOids(c, i)
  <2> DEFINE x == [hd EXCEPT !.pc = "next", !.todo = SegmentsOn(h), !.files = oids[h]]
             z == [hd EXCEPT !.pc = "err"]
  <2>0. SegmentsOn(h) \subseteq Segments /\ oids[h] \in SUBSET OidFiles
    BY <1>0 DEF SegmentsOn
  <2>1. /\ x \in Handler /\ x.pc = "next" /\ x.todo = SegmentsOn(h) /\ x.cur = hd.cur
        /\ x.files = oids[h] /\ z \in Handler /\ z.pc = "err"
    BY <1>0, <2>0 DEF Handler
  <2>2. seg' = seg /\ hd.pc = "glob"
    BY <1>5 DEF GlobOids
  <2>3. \/ oids[h] # {} /\ SetHandler(c, i, x)
        \/ SetHandler(c, i, z)
    BY <1>5 DEF GlobOids
  <2> HIDE DEF x, z
  <2>4. CASE oids[h] # {} /\ SetHandler(c, i, x)
    <3>1. HandlerInv(x, h, j, seg)
      BY <1>0, <2>1, <2>2, <2>4 DEF HandlerInv
    <3> QED
      BY <1>1, <1>2, <2>1, <2>2, <2>4, <3>1, HandlerMoves
  <2> QED
    BY <1>4, <2>1, <2>2, <2>3, <2>4
<1>6. CASE NextSegment(c, i)
  <2>1. hd.pc = "next"
    BY <1>6 DEF NextSegment
  <2>2. CASE hd.todo = {} /\ SetHandler(c, i, [hd EXCEPT !.pc = "ok"]) /\ seg' = seg
    <3> DEFINE x == [hd EXCEPT !.pc = "ok"]
    <3>1. x \in Handler /\ x.pc = "ok"
      BY <1>0 DEF Handler
    <3>2. SetHandler(c, i, x)
      BY <2>2
    <3> HIDE DEF x
    <3>3. HandlerInv(x, h, j, seg)
      BY <1>0, <2>1, <2>2, <3>1 DEF HandlerInv
    <3> QED
      BY <1>1, <1>2, <2>2, <3>1, <3>2, <3>3, HandlerMoves
  <2>3. ASSUME NEW s \in hd.todo,
               SetHandler(c, i, [hd EXCEPT !.pc = "cp", !.cur = {s}, !.todo = @ \ {s},
                                           !.left = hd.files]),
               DirBecomes(s, [seg[s] EXCEPT !.dir = TRUE])
        PROVE  ConvInv'
    <3> DEFINE x == [hd EXCEPT !.pc = "cp", !.cur = {s}, !.todo = @ \ {s}, !.left = hd.files]
               g == [seg[s] EXCEPT !.dir = TRUE]
    <3>0. s \in Segments /\ s \in SegmentsOn(h)
      BY <1>0, <2>1, <2>3 DEF HandlerInv, SegmentsOn
    <3>1. /\ x \in Handler /\ x.pc = "cp" /\ x.cur = {s} /\ x.todo = hd.todo \ {s}
          /\ x.left = hd.files /\ x.files = hd.files
      BY <1>0, <3>0 DEF Handler
    <3>2. SetHandler(c, i, x) /\ DirBecomes(s, g)
      BY <2>3
    <3>3. g \in Directory /\ g.dir /\ g.oids = seg[s].oids
      BY <1>0, <3>0 DEF Directory
    <3> HIDE DEF x, g
    <3>4. seg' \in [Segments -> Directory] /\ seg'[s] = g /\ Grows(seg, seg')
      BY <1>0, <3>0, <3>2, <3>3, DirMoves
    <3>5. HandlerInv(x, h, j, seg')
      BY <1>0, <2>1, <3>0, <3>1, <3>3, <3>4 DEF HandlerInv
    <3> QED
      BY <1>1, <3>1, <3>2, <3>4, <3>5, HandlerMoves
  <2> QED
    BY <1>6, <2>2, <2>3 DEF NextSegment
<1>7. CASE CopyOid(c, i)
  <2>1. PICK f \in hd.left, s \in hd.cur :
          /\ SetHandler(c, i, [hd EXCEPT !.left = @ \ {f}])
          /\ DirBecomes(s, [seg[s] EXCEPT !.oids = @ \cup {f}])
    BY <1>7 DEF CopyOid
  <2> DEFINE x == [hd EXCEPT !.left = @ \ {f}]
             g == [seg[s] EXCEPT !.oids = @ \cup {f}]
  <2>2. hd.pc = "cp" /\ s \in Segments /\ f \in OidFiles
    BY <1>0, <1>7 DEF CopyOid, Handler
  <2>3. /\ x \in Handler /\ x.pc = hd.pc /\ x.cur = hd.cur /\ x.todo = hd.todo
        /\ x.left = hd.left \ {f} /\ x.files = hd.files
    BY <1>0, <2>2 DEF Handler
  <2>4. g \in Directory /\ g.dir = seg[s].dir /\ g.oids = seg[s].oids \cup {f}
    BY <1>0, <2>2 DEF Directory
  <2>5. SetHandler(c, i, x) /\ DirBecomes(s, g)
    BY <2>1
  <2> HIDE DEF x, g
  <2>6. seg' \in [Segments -> Directory] /\ seg'[s] = g /\ Grows(seg, seg')
    BY <1>0, <2>2, <2>4, <2>5, DirMoves
  <2>7. hd.cur = {s}
    BY <1>0, <2>2 DEF HandlerInv
  <2>8. HandlerInv(x, h, j, seg')
    BY <1>0, <2>2, <2>3, <2>4, <2>6, <2>7 DEF HandlerInv
  <2> QED
    BY <1>1, <2>3, <2>5, <2>6, <2>8, HandlerMoves
<1>8. CASE StartPgUpgrade(c, i)
  <2> DEFINE x == [hd EXCEPT !.pc = "next", !.cur = {}]
  <2>1. PICK s \in hd.cur :
          /\ JobBecomes(c, [j EXCEPT !.started = @ \cup {s}, !.handlers = [@ EXCEPT ![i] = x]])
          /\ DirBecomes(s, [seg[s] EXCEPT !.fresh = @ + 1])
    BY <1>8 DEF StartPgUpgrade
  <2> DEFINE y == [j EXCEPT !.started = @ \cup {s}, !.handlers = [@ EXCEPT ![i] = x]]
             g == [seg[s] EXCEPT !.fresh = @ + 1]
  <2>2. x \in Handler /\ x.pc = "next" /\ x.cur = {} /\ x.todo = hd.todo /\ x.files = hd.files
    BY <1>0 DEF Handler
  <2>3. hd.pc = "cp" /\ hd.left = {} /\ JobBecomes(c, y) /\ DirBecomes(s, g)
    BY <1>8, <2>1 DEF StartPgUpgrade
  <2>4. [j.handlers EXCEPT ![i] = x] \in Seq(Handler)
    BY <1>0, <2>2, HandlersStay
  <2> HIDE DEF x
  <2>5. s \in Segments /\ hd.cur = {s}
    BY <1>0, <2>3 DEF Handler, HandlerInv
  <2>6. /\ y \in Job /\ y.handlers = [j.handlers EXCEPT ![i] = x]
        /\ y.started = j.started \cup {s} /\ y.errs = j.errs
        /\ y.reply = j.reply /\ y.hosts = j.hosts /\ y.trusted = j.trusted
        /\ y.asked = j.asked /\ y.shared = j.shared
    BY <1>0, <2>4, <2>5 DEF Job
  <2>7. g \in Directory /\ g.dir = seg[s].dir /\ g.oids = seg[s].oids
    <3>1. seg[s] \in Directory
      BY <1>0, <2>5
    <3>2. PICK n \in Nat : n = seg[s].fresh + 1
      BY <3>1 DEF Directory
    <3>3. g = [seg[s] EXCEPT !.fresh = n]
      BY <3>2
    <3> HIDE DEF g
    <3> QED
      BY <3>1, <3>3 DEF Directory
  <2> HIDE DEF y, g
  <2>8. seg' \in [Segments -> Directory] /\ seg'[s] = g /\ Grows(seg, seg')
    BY <1>0, <2>3, <2>5, <2>7, DirMoves
  <2>9. seg[s].dir /\ hd.files # {} /\ hd.files \subseteq seg[s].oids
        /\ (j.shared => OidFiles \subseteq hd.files)
    BY <1>0, <2>3, <2>5 DEF HandlerInv
  <2>10. \A t \in y.started \ j.started :
           seg'[t].dir /\ seg'[t].oids # {} /\ (y.shared => OidFiles \subseteq seg'[t].oids)
    BY <2>6, <2>7, <2>8, <2>9
  <2>11. HandlerInv(x, h, y, seg')
    BY <1>0, <2>2, <2>3, <2>5, <2>6 DEF HandlerInv
  <2>12. j.errs <= y.errs /\ j.started \subseteq y.started
    BY <1>0, <2>6 DEF Job
  <2> QED
    BY <1>1, <2>2, <2>3, <2>6, <2>8, <2>10, <2>11, <2>12, StepOfAgent
<1>9. CASE SegmentFails(c, i)
  <2> DEFINE x == [hd EXCEPT !.pc = "err"]
  <2>1. x \in Handler /\ x.pc = "err"
    BY <1>0 DEF Handler
  <2>2. seg' = seg /\ SetHandler(c, i, x)
    BY <1>9 DEF SegmentFails
  <2> HIDE DEF x
  <2> QED
    BY <1>4, <2>1, <2>2
<1> QED
  BY <1>3, <1>5, <1>6, <1>7, <1>8, <1>9 DEF AgentStep

---------------------------------------------------------------------------
(* The requests.                                                           *)

\* A request before it has connections, and one that has none any more.
LEMMA NoJobTyped ==
  /\ NoLook \in Look /\ NoLook.pc = "none" /\ NoLook.cur = {}
  /\ NoJob \in Job /\ NoJob.handlers = <<>> /\ NoJob.asked = 0 /\ NoJob.started = {}
  /\ NoJob.look = NoLook /\ NoJob.shared = FALSE
  /\ NoJob.trusted = FALSE /\ NoJob.reply = "none" /\ NoCall.pc = "idle"
<1>1. NoLook \in Look /\ NoLook.pc = "none" /\ NoLook.cur = {}
  BY DEF NoLook, Look
<1> QED
  BY <1>1 DEF NoJob, Job, NoCall

\* Such a request has been told nothing.
LEMMA NothingTold ==
  ASSUME NEW j \in Job, j.asked = 0, j.look = NoLook, NEW k, NEW dirs,
         j.trusted /\ j.hosts = Hosts /\ j.reply = "COMPLETE" => \A s \in Segments : Converted(dirs[s])
  PROVE  ToldTrue(j, k, dirs)
<1>1. 1..j.asked = {}
  OBVIOUS
<1>2. LookedAt(j, k) = {}
  BY <1>1, NoJobTyped DEF LookedAt
<1> QED
  BY <1>2, NoJobTyped DEF ToldTrue

\* A handler of the hub returns; its answer is true if it says that a conversion
\* was started or is complete.
LEMMA RequestEnds ==
  ASSUME ConvInv, ConnInv', NEW c \in Callers,
         NEW reply \in {"none", "ok", "error"} \cup {"PENDING", "RUNNING", "COMPLETE", "FAILED"},
         HandlerEnds(c, reply), allStarted' \in BOOLEAN, allStarted' => allStarted \/ Calm',
         c \in Converters /\ reply = "ok" =>
           {s \in Segments : HostOf[s] \in Connected(call[c].conns)} \subseteq job[c].started,
         c \notin Converters /\ job[c].trusted /\ Connected(call[c].conns) = Hosts /\ reply = "COMPLETE"
           => \A s \in Segments : Converted(seg[s])
  PROVE  ConvInv'
<1> DEFINE asked == Connected(call[c].conns)
           y == [job[c] EXCEPT !.reply = reply, !.handlers = <<>>, !.errs = 0, !.asked = 0,
                   !.look = NoLook, !.seen = {}, !.shared = FALSE, !.hosts = asked]
<1>0. job[c] \in Job /\ call[c] \in Call /\ JobInv(c, job[c], call[c], oids, seg)
  BY DEF ConvInv, TypeOK, ConnTypeOK
<1>1. asked \in SUBSET Hosts
  BY <1>0 DEF Call, Connected
<1>2. /\ y \in Job /\ y.reply = reply /\ y.handlers = <<>> /\ y.asked = 0 /\ y.hosts = asked
      /\ y.started = job[c].started /\ y.trusted = job[c].trusted
      /\ y.look = NoLook /\ y.shared = FALSE
  <2> HIDE DEF asked
  <2>1. PICK none \in Seq(Handler) : none = <<>>
    <3>1. <<>> \in Seq(Handler)
      OBVIOUS
    <3> QED
      BY <3>1
  <2>2. PICK zero \in Nat : zero = 0
    OBVIOUS
  <2>3. y = [job[c] EXCEPT !.reply = reply, !.handlers = none, !.errs = zero, !.asked = zero,
               !.look = NoLook, !.seen = {}, !.shared = FALSE, !.hosts = asked]
    BY <2>1, <2>2
  <2> HIDE DEF y
  <2>4. /\ y \in Job /\ y.reply = reply /\ y.handlers = none /\ y.asked = zero /\ y.hosts = asked
        /\ y.started = job[c].started /\ y.trusted = job[c].trusted
        /\ y.look = NoLook /\ y.shared = FALSE
    BY <1>0, <1>1, <2>3, NoJobTyped DEF Job
  <2> QED
    BY <2>1, <2>2, <2>4
<1>3. JobBecomes(c, y) /\ oids' = oids /\ seg' = seg /\ converts' = converts
  BY DEF HandlerEnds
<1>4. call' = [call EXCEPT ![c] = NoCall]
  BY DEF HandlerEnds
<1>5. call'[c] = NoCall /\ \A d \in Callers : d # c => call'[d] = call[d]
  BY <1>4 DEF ConvInv, TypeOK, ConnTypeOK
<1>6. seg' \in [Segments -> Directory] /\ Grows(seg, seg')
  BY <1>3, GrowsNot DEF ConvInv, TypeOK
<1> HIDE DEF y
<1>7. JobInv(c, y, call'[c], oids, seg')
  <2>1. Len(y.handlers) = 0
    BY <1>2
  <2> QED
    BY <1>0, <1>2, <1>3, <2>1 DEF JobInv
<1>8. c \notin Converters => ToldTrue(y, call'[c], seg)
  BY <1>2, NothingTold
<1> QED
  BY <1>2, <1>3, <1>5, <1>6, <1>7, <1>8, NoJobTyped, StepOfRequest

\* Both kinds of requests get their connections.
LEMMA GetsConns ==
  ASSUME ConvInv, ConnInv', NEW c \in Callers, GetConns(c)
  PROVE  ConvInv'
<1>0. job[c] \in Job /\ JobInv(c, job[c], call[c], oids, seg) /\ TypeOK
  BY DEF ConvInv, TypeOK
<1>1. call[c].pc \in {"enter", "dial", "load", "store", "ensure"} /\ \E x : Becomes(c, x)
  BY DEF GetConns, ConnStep, Enter, Dial, DialTimeout, LoadConns, StoreConns, AllDialed,
         EnsureConnsAreReady, Return, ReturnError
<1>2. \A d \in Callers : d # c => call'[d] = call[d]
  BY <1>0, <1>1 DEF Becomes, TypeOK, ConnTypeOK
<1>3. job' = job /\ oids' = oids /\ seg' = seg /\ converts' = converts /\ allStarted' = allStarted
  BY DEF GetConns, convVars
<1>4. JobBecomes(c, job[c])
  BY <1>0, <1>3 DEF JobBecomes, TypeOK
<1>5. seg' \in [Segments -> Directory] /\ Grows(seg, seg') /\ allStarted' \in BOOLEAN
  BY <1>3, GrowsNot DEF ConvInv, TypeOK
<1>6. job[c].handlers = <<>> /\ job[c].asked = 0 /\ job[c].look = NoLook
  BY <1>0, <1>1 DEF JobInv
<1>7. JobInv(c, job[c], call'[c], oids, seg')
  <2>1. Len(job[c].handlers) = 0
    BY <1>6
  <2> QED
    BY <1>0, <1>3, <1>6, <2>1 DEF JobInv
<1>8. c \notin Converters => ToldTrue(job[c], call'[c], seg)
  <2>1. c \notin Converters => ToldTrue(job[c], call[c], seg)
    BY DEF ConvInv, TrustInv
  <2>2. c \notin Converters /\ job[c].trusted /\ job[c].hosts = Hosts /\ job[c].reply = "COMPLETE"
          => \A s \in Segments : Converted(seg[s])
    BY <2>1 DEF ToldTrue
  <2> QED
    BY <1>0, <1>6, <2>2, NothingTold
<1> QED
  BY <1>0, <1>1, <1>2, <1>3, <1>4, <1>5, <1>7, <1>8, StepOfRequest

\* UpgradeConvertPrimaries once it has its connections: the reply waits for all
\* the goroutines, and there is one for each connection.
LEMMA ConvertGoesOn ==
  ASSUME ConvInv, ConnInv', NEW c \in Converters, ConvertStep(c)
  PROVE  ConvInv'
<1>0. c \in Callers /\ job[c] \in Job /\ call[c] \in Call /\ JobInv(c, job[c], call[c], oids, seg)
  BY ConvertAssumption DEF ConvInv, TypeOK, ConnTypeOK
<1>1. CASE ConvertFails(c)
  <2>1. HandlerEnds(c, "error") /\ allStarted' = allStarted
    BY <1>1 DEF ConvertFails
  <2>2. allStarted' \in BOOLEAN
    BY <2>1 DEF ConvInv, TypeOK
  <2> QED
    BY <1>0, <2>1, <2>2, RequestEnds
<1>2. CASE FanOut(c)
  <2> DEFINE n == Len(call[c].conns)
             hs == [i \in 1..n |-> NewHandler]
             y == [job[c] EXCEPT !.handlers = hs]
  <2>1. /\ call[c].pc = "got" /\ JobBecomes(c, y) /\ call' = call /\ seg' = seg
        /\ oids' = oids /\ converts' = converts /\ allStarted' = allStarted
    BY <1>2 DEF FanOut, connVars
  <2>2. NewHandler \in Handler /\ NewHandler.pc = "glob" /\ NewHandler.cur = {} /\ n \in Nat
    BY <1>0 DEF NewHandler, Handler, Call
  <2> HIDE DEF n
  <2>3. hs \in Seq(Handler) /\ Len(hs) = n /\ \A i \in 1..n : hs[i] = NewHandler
    BY <2>2
  <2> HIDE DEF hs
  <2>4. /\ y \in Job /\ y.handlers = hs /\ y.started = job[c].started /\ y.reply = job[c].reply
        /\ y.trusted = job[c].trusted /\ y.hosts = job[c].hosts /\ y.shared = job[c].shared
    BY <1>0, <2>3 DEF Job
  <2> HIDE DEF y
  <2>5. seg' \in [Segments -> Directory] /\ Grows(seg, seg') /\ allStarted' \in BOOLEAN
    BY <2>1, GrowsNot DEF ConvInv, TypeOK
  <2>6. \A i \in 1..n : HandlerInv(hs[i], call[c].conns[i], y, seg)
    BY <2>2, <2>3 DEF HandlerInv
  <2>7. JobInv(c, y, call'[c], oids, seg')
    BY <1>0, <2>1, <2>3, <2>4, <2>5, <2>6 DEF JobInv, n
  <2> QED
    BY <1>0, <2>1, <2>4, <2>5, <2>7, StepOfRequest
<1>3. CASE ReplyConvert(c)
  <2> DEFINE reply == IF job[c].errs = 0 THEN "ok" ELSE "error"
  <2>1. /\ Len(job[c].handlers) = Len(call[c].conns) /\ HandlerEnds(c, reply)
        /\ allStarted' = AllAsked(c)
        /\ \A i \in 1..Len(job[c].handlers) : job[c].handlers[i].pc = "done"
    BY <1>3 DEF ReplyConvert, FannedOut
  <2>2. ASSUME job[c].errs = 0, NEW s \in Segments, HostOf[s] \in Connected(call[c].conns)
        PROVE  s \in job[c].started
    <3>1. PICK i \in 1..Len(call[c].conns) : HostOf[s] = call[c].conns[i]
      BY <2>2 DEF Connected
    <3>2. i \in 1..Len(job[c].handlers)
      BY <2>1, <3>1
    <3>3. HandlerInv(job[c].handlers[i], call[c].conns[i], job[c], seg)
      BY <1>0, <3>2 DEF JobInv
    <3>4. SegmentsOn(call[c].conns[i]) \subseteq job[c].started
      BY <2>1, <2>2, <3>2, <3>3 DEF HandlerInv
    <3> QED
      BY <3>1, <3>4 DEF SegmentsOn
  <2>3. AllAsked(c) => Calm'
    <3> SUFFICES ASSUME AllAsked(c) PROVE Calm'
      OBVIOUS
    <3>1. \A s \in Segments : HostOf[s] \in Connected(call[c].conns)
      BY ConvertAssumption DEF AllAsked
    <3>2. Segments \subseteq job[c].started
      BY <2>2, <3>1 DEF AllAsked
    <3>3. Made' = Segments
      BY <1>0, <2>1, <3>2 DEF HandlerEnds, JobInv, Made
    <3>4. \A d \in Converters : call'[d].pc = "idle"
      <4>1. call' = [call EXCEPT ![c] = NoCall] /\ call \in [Callers -> Call]
        BY <2>1 DEF HandlerEnds, ConvInv, TypeOK, ConnTypeOK
      <4> QED
        BY <1>0, <4>1, NoJobTyped, ConvertAssumption DEF AllAsked
    <3> QED
      BY <3>3, <3>4 DEF Calm
  <2>4. allStarted' \in BOOLEAN
    BY <2>1 DEF AllAsked
  <2> QED
    BY <1>0, <2>1, <2>2, <2>3, <2>4, RequestEnds
<1> QED
  BY <1>0, <1>1, <1>2, <1>3, GetsConns, AgentGoesOn DEF ConvertStep

---------------------------------------------------------------------------
(* The status queries.                                                     *)

\* The one status that is made of the answers is COMPLETE only if none of them
\* says that pg_upgrade has failed or runs.
LEMMA OverallTells ==
  ASSUME NEW seen
  PROVE  /\ Overall(seen) \in {"PENDING", "RUNNING", "COMPLETE", "FAILED"}
         /\ Overall(seen) = "COMPLETE" => "FAILED" \notin seen /\ "RUNNING" \notin seen
BY DEF Overall

\* What an agent's look at its primaries leaves alone in the query.
SameQuery(j, y) ==
  /\ y.handlers = j.handlers /\ y.started = j.started /\ y.reply = j.reply
  /\ y.trusted = j.trusted /\ y.hosts = j.hosts /\ y.shared = j.shared

\* A query with an agent that looks, and what is known if it is trusted.
LEMMA QueryKnown ==
  ASSUME ConvInv, NEW c \in Callers \ Converters
  PROVE  /\ job[c] \in Job /\ job[c].look \in Look /\ job[c].asked \in Nat
         /\ call[c] \in Call /\ call[c].conns \in Seq(Hosts)
         /\ JobInv(c, job[c], call[c], oids, seg) /\ job[c].handlers = <<>>
         /\ job[c].look.pc # "none" => call[c].pc = "got"
         /\ job[c].trusted =>
              /\ \A s \in Segments : seg[s].dir /\ Alone(s)
              /\ ToldTrue(job[c], call[c], seg)
<1>1. job[c] \in Job /\ call[c] \in Call /\ JobInv(c, job[c], call[c], oids, seg)
  BY DEF ConvInv, TypeOK, ConnTypeOK
<1>2. job[c].look \in Look /\ job[c].asked \in Nat /\ call[c].conns \in Seq(Hosts)
  BY <1>1 DEF Job, Call
<1>3. job[c].handlers = <<>>
  BY <1>1 DEF JobInv
<1>4. job[c].look.pc # "none" => call[c].pc = "got"
  BY <1>1, NoJobTyped DEF JobInv
<1>5. job[c].trusted =>
        /\ \A s \in Segments : seg[s].dir /\ Alone(s)
        /\ ToldTrue(job[c], call[c], seg)
  BY DEF ConvInv, TrustInv, Calm, Made
<1> QED
  BY <1>1, <1>2, <1>3, <1>4, <1>5

\* What a step of query c, while it holds its connections, has to show.
LEMMA StepOfQuery ==
  ASSUME ConvInv, ConnInv', NEW c \in Callers \ Converters, NEW y \in Job, JobBecomes(c, y),
         call[c].pc = "got", SameQuery(job[c], y), job[c].seen \subseteq y.seen,
         UNCHANGED <<connVars, oids, seg, allStarted, converts>>,
         job[c].trusted =>
           /\ y.look.pc = "next" => y.look.cur = {}
           /\ \A s, t \in y.look.cur : s = t
           /\ \A s \in LookedAt(y, call[c]) :
                \/ s \in LookedAt(job[c], call[c]) \/ Converted(seg[s])
                \/ "FAILED" \in y.seen \/ "RUNNING" \in y.seen
  PROVE  ConvInv'
<1>0. /\ JobInv(c, job[c], call[c], oids, seg) /\ job[c].handlers = <<>>
      /\ job[c].trusted => ToldTrue(job[c], call[c], seg)
  BY QueryKnown
<1>1. call' = call /\ oids' = oids /\ seg' = seg /\ allStarted' = allStarted /\ converts' = converts
  BY DEF connVars
<1>2. seg' \in [Segments -> Directory] /\ Grows(seg, seg') /\ allStarted' \in BOOLEAN
  BY <1>1, GrowsNot DEF ConvInv, TypeOK
<1>3. JobInv(c, y, call[c], oids, seg)
  <2>1. y.handlers = <<>> /\ Len(y.handlers) = 0
    BY <1>0 DEF SameQuery
  <2> QED
    BY <1>0, <2>1 DEF JobInv, SameQuery
<1>4. ToldTrue(y, call[c], seg)
  <2> SUFFICES ASSUME y.trusted PROVE ToldTrue(y, call[c], seg)
    BY DEF ToldTrue
  <2>1. job[c].trusted /\ ToldTrue(job[c], call[c], seg)
    BY <1>0 DEF SameQuery
  <2>2. \A s \in LookedAt(y, call[c]) :
          Converted(seg[s]) \/ "FAILED" \in y.seen \/ "RUNNING" \in y.seen
    BY <2>1 DEF ToldTrue
  <2> QED
    BY <2>1, <2>2 DEF ToldTrue, SameQuery
<1>5. y.trusted => job[c].trusted
  BY DEF SameQuery
<1> QED
  BY <1>1, <1>2, <1>3, <1>4, <1>5, StepOfRequest

\* The agent goes on with the primary that it is at, or to the next one.
LEMMA LookGoesOn ==
  ASSUME ConvInv, ConnInv', NEW c \in Callers \ Converters, NEW x \in Look, LookBecomes(c, x),
         job[c].look.pc \notin {"none", "err"}, x.pc \notin {"none", "err", "next"},
         job[c].look.pc = "next" =>
           \E s \in job[c].look.todo : x.cur = {s} /\ x.todo = job[c].look.todo \ {s},
         job[c].look.pc # "next" => x.cur = job[c].look.cur /\ x.todo = job[c].look.todo
  PROVE  ConvInv'
<1> DEFINE y == [job[c] EXCEPT !.look = x]
<1>0. /\ job[c] \in Job /\ call[c].pc = "got"
      /\ job[c].trusted => ToldTrue(job[c], call[c], seg)
  BY QueryKnown
<1>1. /\ y \in Job /\ y.look = x /\ y.asked = job[c].asked /\ SameQuery(job[c], y)
      /\ y.seen = job[c].seen
  BY <1>0 DEF Job, SameQuery
<1>2. JobBecomes(c, y) /\ UNCHANGED <<connVars, oids, seg, allStarted, converts>>
  BY DEF LookBecomes
<1> HIDE DEF y
<1>3. ASSUME job[c].trusted
      PROVE  (\A s, t \in x.cur : s = t) /\ LookedAt(y, call[c]) \subseteq LookedAt(job[c], call[c])
  <2>1. /\ job[c].look.pc = "next" => job[c].look.cur = {}
        /\ \A s, t \in job[c].look.cur : s = t
    BY <1>0, <1>3 DEF ToldTrue
  <2>2. job[c].look.todo \cup job[c].look.cur \subseteq x.todo \cup x.cur
    BY <2>1
  <2>3. LookedAt(y, call[c]) \subseteq LookedAt(job[c], call[c])
    BY <1>1, <2>2 DEF LookedAt
  <2> QED
    BY <2>1, <2>3
<1> QED
  BY <1>0, <1>1, <1>2, <1>3, StepOfQuery

\* The agent has a status for the primary that it is at.
LEMMA ToldSo ==
  ASSUME ConvInv, ConnInv', NEW c \in Callers \ Converters,
         NEW status \in {"PENDING", "RUNNING", "COMPLETE", "FAILED"}, Told(c, status),
         job[c].look.pc \notin {"none", "err"},
         \/ status \in {"RUNNING", "FAILED"}
         \/ job[c].trusted => \A s \in job[c].look.cur : Converted(seg[s])
  PROVE  ConvInv'
<1> DEFINE x == [job[c].look EXCEPT !.pc = "next", !.cur = {}]
           y == [job[c] EXCEPT !.seen = @ \cup {status}, !.look = x]
<1>0. job[c] \in Job /\ job[c].look \in Look /\ call[c].pc = "got"
  BY QueryKnown
<1>1. x \in Look /\ x.pc = "next" /\ x.cur = {} /\ x.todo = job[c].look.todo
  BY <1>0 DEF Look
<1>2. JobBecomes(c, y) /\ UNCHANGED <<connVars, oids, seg, allStarted, converts>>
  BY DEF Told
<1> HIDE DEF x
<1>3. /\ y \in Job /\ y.look = x /\ y.asked = job[c].asked /\ SameQuery(job[c], y)
      /\ y.seen = job[c].seen \cup {status}
  BY <1>0, <1>1 DEF Job, SameQuery
<1> HIDE DEF y
<1>4. \A s \in LookedAt(y, call[c]) : s \in LookedAt(job[c], call[c]) \/ s \in job[c].look.cur
  BY <1>1, <1>3 DEF LookedAt
<1>5. status \in {"RUNNING", "FAILED"} => "FAILED" \in y.seen \/ "RUNNING" \in y.seen
  BY <1>3
<1>6. job[c].trusted => \A s \in LookedAt(y, call[c]) :
        \/ s \in LookedAt(job[c], call[c]) \/ Converted(seg[s])
        \/ "FAILED" \in y.seen \/ "RUNNING" \in y.seen
  BY <1>4, <1>5
<1> QED
  BY <1>0, <1>1, <1>2, <1>3, <1>6, StepOfQuery

\* The next agent is asked for its segments.
LEMMA AgentAsked ==
  ASSUME ConvInv, ConnInv', NEW c \in Callers \ Converters, AskAgent(c)
  PROVE  ConvInv'
<1> DEFINE h == NextAgent(c)
           told == IF h = MasterHost THEN {"PENDING"} ELSE {}
           x == [pc |-> "next", todo |-> SegmentsOn(h), cur |-> {}]
           y == [job[c] EXCEPT !.look = x, !.seen = @ \cup told]
<1>0. job[c] \in Job
  BY QueryKnown
<1>1. /\ call[c].pc = "got" /\ JobBecomes(c, y)
      /\ UNCHANGED <<connVars, oids, seg, allStarted, converts>>
  BY DEF AskAgent
<1>2. x \in Look /\ x.pc = "next" /\ x.cur = {} /\ x.todo = SegmentsOn(h)
  BY DEF Look, SegmentsOn
<1>3. told \subseteq {"PENDING"}
  OBVIOUS
<1> HIDE DEF x, told
<1>4. /\ y \in Job /\ y.look = x /\ y.asked = job[c].asked /\ SameQuery(job[c], y)
      /\ y.seen = job[c].seen \cup told
  BY <1>0, <1>2, <1>3 DEF Job, SameQuery
<1> HIDE DEF y
<1>5. LookedAt(y, call[c]) \subseteq LookedAt(job[c], call[c])
  BY <1>2, <1>4 DEF LookedAt, SegmentsOn, NextAgent
<1> QED
  BY <1>1, <1>2, <1>4, <1>5, StepOfQuery

\* It answers: all its primaries have been looked at.
LEMMA AgentHasAnswered ==
  ASSUME ConvInv, ConnInv', NEW c \in Callers \ Converters, AgentAnswers(c)
  PROVE  ConvInv'
<1> DEFINE y == [job[c] EXCEPT !.asked = @ + 1, !.look = NoLook]
<1>0. /\ job[c] \in Job /\ job[c].asked \in Nat /\ job[c].look.pc = "next"
      /\ job[c].look.todo = {} /\ call[c].pc = "got"
      /\ job[c].trusted => ToldTrue(job[c], call[c], seg)
  BY QueryKnown DEF AgentAnswers
<1>1. JobBecomes(c, y) /\ UNCHANGED <<connVars, oids, seg, allStarted, converts>>
  BY DEF AgentAnswers
<1>2. PICK m \in Nat : m = job[c].asked + 1
  BY <1>0
<1>3. y = [job[c] EXCEPT !.asked = m, !.look = NoLook]
  BY <1>2
<1> HIDE DEF y
<1>4. /\ y \in Job /\ y.look = NoLook /\ y.asked = m /\ SameQuery(job[c], y)
      /\ y.seen = job[c].seen
  BY <1>0, <1>3, NoJobTyped DEF Job, SameQuery
<1>5. ASSUME job[c].trusted, NEW s \in LookedAt(y, call[c]) PROVE s \in LookedAt(job[c], call[c])
  <2>1. s \in Segments /\ \E i \in 1..m : HostOf[s] = call[c].conns[i]
    BY <1>4, <1>5, NoJobTyped DEF LookedAt
  <2>2. PICK i \in 1..m : HostOf[s] = call[c].conns[i]
    BY <2>1
  <2>3. i \in 1..job[c].asked \/ i = job[c].asked + 1
    BY <1>0, <1>2
  <2>4. job[c].look.cur = {}
    BY <1>0, <1>5 DEF ToldTrue
  <2> QED
    BY <1>0, <2>1, <2>2, <2>3, <2>4 DEF LookedAt
<1> QED
  BY <1>0, <1>1, <1>4, <1>5, NoJobTyped, StepOfQuery

\* CheckConversionStatus, one call after the other: a status that a trusted
\* query takes for good is that of a primary whose pg_upgrade has ended.
LEMMA AgentLooks ==
  ASSUME ConvInv, ConnInv', NEW c \in Callers \ Converters, CheckConversionStatus(c)
  PROVE  ConvInv'
<1> DEFINE look == job[c].look
<1>0. /\ job[c] \in Job /\ look \in Look
      /\ job[c].trusted => \A s \in Segments : seg[s].dir /\ Alone(s)
      /\ job[c].trusted => ToldTrue(job[c], call[c], seg)
  BY QueryKnown
<1>00. look.todo \subseteq Segments /\ look.cur \subseteq Segments
  BY <1>0 DEF Look
<1>1. CASE StatSegment(c)
  <2>0. look.pc = "next"
    BY <1>1 DEF StatSegment
  <2>1. ASSUME NEW s \in look.todo, seg[s].dir,
               LookBecomes(c, [pc |-> "pgrep", todo |-> look.todo \ {s}, cur |-> {s}])
        PROVE  ConvInv'
    <3> DEFINE x == [pc |-> "pgrep", todo |-> look.todo \ {s}, cur |-> {s}]
    <3>1. x \in Look /\ x.pc = "pgrep" /\ x.todo = look.todo \ {s} /\ x.cur = {s}
      BY <1>00 DEF Look
    <3>2. LookBecomes(c, x)
      BY <2>1
    <3> HIDE DEF x
    <3> QED
      BY <2>0, <2>1, <3>1, <3>2, LookGoesOn
  <2>2. ASSUME NEW s \in look.todo, ~seg[s].dir,
               JobBecomes(c, [job[c] EXCEPT !.seen = @ \cup {"PENDING"},
                                !.look = [look EXCEPT !.todo = @ \ {s}]]),
               UNCHANGED <<connVars, oids, seg, allStarted, converts>>
        PROVE  ConvInv'
    <3> DEFINE x == [look EXCEPT !.todo = @ \ {s}]
               y == [job[c] EXCEPT !.seen = @ \cup {"PENDING"}, !.look = x]
    <3>1. x \in Look
      BY <1>0, <1>00 DEF Look
    <3>2. JobBecomes(c, y)
      BY <2>2
    <3> HIDE DEF x
    <3>3. y \in Job /\ SameQuery(job[c], y) /\ y.seen = job[c].seen \cup {"PENDING"}
      BY <1>0, <3>1 DEF Job, SameQuery
    <3> HIDE DEF y
    <3>4. ~job[c].trusted
      BY <1>0, <1>00, <2>2
    <3>5. call[c].pc = "got"
      BY <2>0, QueryKnown
    <3> QED
      BY <2>2, <3>2, <3>3, <3>4, <3>5, StepOfQuery
  <2> QED
    BY <1>1, <2>1, <2>2 DEF StatSegment
<1>2. ASSUME look.pc \in {"pgrep", "inprogress", "glob"}, NEW pc \in {"inprogress", "glob", "scan"},
             LookBecomes(c, [look EXCEPT !.pc = pc])
      PROVE  ConvInv'
  <2> DEFINE x == [look EXCEPT !.pc = pc]
  <2>1. x \in Look /\ x.pc = pc /\ x.todo = look.todo /\ x.cur = look.cur
    BY <1>0 DEF Look
  <2>2. LookBecomes(c, x)
    BY <1>2
  <2> HIDE DEF x
  <2> QED
    BY <1>2, <2>1, <2>2, LookGoesOn
<1>3. CASE LookForProcess(c)
  BY <1>2, <1>3, ToldSo DEF LookForProcess
<1>4. CASE InProgressFilesExist(c)
  BY <1>2, <1>4, ToldSo DEF InProgressFilesExist
<1>5. CASE GlobDone(c)
  BY <1>2, <1>5, ToldSo DEF GlobDone
<1>6. CASE ScanLatest(c)
  <2>1. ASSUME NEW s \in look.cur, seg[s].complete, Told(c, "COMPLETE") PROVE ConvInv'
    <3>1. ASSUME job[c].trusted, NEW t \in look.cur PROVE Converted(seg[t])
      <4>1. t = s /\ Alone(s)
        BY <1>0, <1>00, <3>1 DEF ToldTrue
      <4> QED
        BY <2>1, <4>1 DEF Alone, Converted
    <3> QED
      BY <1>6, <2>1, <3>1, ToldSo DEF ScanLatest
  <2> QED
    BY <1>6, <2>1, ToldSo DEF ScanLatest
<1> QED
  BY <1>1, <1>3, <1>4, <1>5, <1>6, AgentHasAnswered DEF CheckConversionStatus

\* StatusUpgrade, as far as it asks the agents.
LEMMA StatusGoesOn ==
  ASSUME ConvInv, ConnInv', NEW c \in Callers \ Converters, BeginStatus(c) \/ StatusStep(c)
  PROVE  ConvInv'
<1>0. job[c] \in Job /\ call[c] \in Call /\ JobInv(c, job[c], call[c], oids, seg) /\ TypeOK
  BY DEF ConvInv, TypeOK, ConnTypeOK
<1>1. CASE BeginStatus(c)
  <2>1. PICK b \in BOOLEAN : b = (allStarted /\ \A s \in Segments : Alone(s))
    <3> SUFFICES (allStarted /\ \A s \in Segments : Alone(s)) \in BOOLEAN
      OBVIOUS
    <3> QED
      OBVIOUS
  <2> DEFINE y == [NoJob EXCEPT !.trusted = b]
  <2>2. JobBecomes(c, y) /\ CallAgentConns(c)
    BY <1>1, <2>1 DEF BeginStatus
  <2>3. /\ y \in Job /\ y.trusted = b /\ y.handlers = <<>> /\ y.asked = 0 /\ y.started = {}
        /\ y.reply = "none" /\ y.look = NoLook /\ y.shared = FALSE
    BY NoJobTyped DEF Job
  <2> HIDE DEF y
  <2>4. seg' = seg /\ oids' = oids /\ allStarted' = allStarted /\ converts' = converts
    BY <1>1 DEF BeginStatus
  <2>5. \A d \in Callers : d # c => call'[d] = call[d]
    BY <1>0, <2>2 DEF CallAgentConns, Becomes, TypeOK, ConnTypeOK
  <2>6. Len(y.handlers) = 0
    BY <2>3
  <2>7. JobInv(c, y, call'[c], oids, seg')
    BY <2>3, <2>6 DEF JobInv
  <2>8. ToldTrue(y, call'[c], seg)
    BY <2>3, NothingTold
  <2>9. seg' \in [Segments -> Directory] /\ Grows(seg, seg') /\ allStarted' \in BOOLEAN
    BY <2>4, GrowsNot DEF ConvInv, TypeOK
  <2> QED
    BY <2>1, <2>2, <2>3, <2>4, <2>5, <2>7, <2>8, <2>9, StepOfRequest
<1>2. CASE AnswerStatus(c)
  <2> DEFINE reply == Overall(job[c].seen)
  <2>1. HandlerEnds(c, reply) /\ allStarted' = allStarted /\ job[c].asked = Len(call[c].conns)
    BY <1>2 DEF AnswerStatus
  <2>2. /\ reply \in {"PENDING", "RUNNING", "COMPLETE", "FAILED"}
        /\ reply = "COMPLETE" => "FAILED" \notin job[c].seen /\ "RUNNING" \notin job[c].seen
    BY OverallTells
  <2> HIDE DEF reply
  <2>3. ASSUME job[c].trusted, Connected(call[c].conns) = Hosts, reply = "COMPLETE",
               NEW s \in Segments
        PROVE  Converted(seg[s])
    <3>1. HostOf[s] \in Connected(call[c].conns)
      BY <2>3, ConvertAssumption
    <3>2. PICK i \in 1..Len(call[c].conns) : HostOf[s] = call[c].conns[i]
      BY <3>1 DEF Connected
    <3>3. s \in LookedAt(job[c], call[c])
      BY <2>1, <3>2 DEF LookedAt
    <3>4. ToldTrue(job[c], call[c], seg)
      BY DEF ConvInv, TrustInv
    <3> QED
      BY <2>2, <2>3, <3>3, <3>4 DEF ToldTrue
  <2>4. allStarted' \in BOOLEAN
    BY <2>1 DEF ConvInv, TypeOK
  <2> QED
    BY <2>1, <2>2, <2>3, <2>4, RequestEnds
<1>3. CASE StatusConversionFails(c)
  <2>0. Overall({}) = "PENDING"
    BY DEF Overall
  <2>1. HandlerEnds(c, "PENDING") /\ allStarted' = allStarted
    BY <1>3, <2>0 DEF StatusConversionFails
  <2>2. allStarted' \in BOOLEAN
    BY <2>1 DEF ConvInv, TypeOK
  <2> QED
    BY <2>1, <2>2, RequestEnds
<1> QED
  BY <1>1, <1>2, <1>3, GetsConns, AgentAsked, AgentLooks DEF StatusStep

\* A conversion begins: from now on no query of before is to be trusted.
LEMMA ConvertBegins ==
  ASSUME ConvInv, ConnInv', NEW c \in Converters, BeginConvert(c)
  PROVE  ConvInv'
<1>1. PICK b \in BOOLEAN : b = AllShared
  <2> SUFFICES AllShared \in BOOLEAN
    OBVIOUS
  <2> QED
    BY DEF AllShared
<1> DEFINE other(d) == [job[d] EXCEPT !.trusted = FALSE]
           mine == [NoJob EXCEPT !.shared = b]
<1>0. TypeOK /\ c \in Callers
  BY ConvertAssumption DEF ConvInv
<1>2. /\ converts < MaxConverts /\ converts' = converts + 1 /\ CallAgentConns(c)
      /\ job' = [d \in Callers |-> IF d = c THEN mine ELSE other(d)]
      /\ allStarted' = FALSE /\ oids' = oids /\ seg' = seg
  BY <1>1 DEF BeginConvert
<1>3. /\ mine \in Job /\ mine.shared = b /\ mine.handlers = <<>> /\ Len(mine.handlers) = 0
      /\ mine.started = {} /\ mine.trusted = FALSE /\ mine.reply = "none"
      /\ mine.asked = 0 /\ mine.look = NoLook
  BY NoJobTyped DEF Job
<1> HIDE DEF mine
<1>4. \A d \in Callers : d # c => call'[d] = call[d]
  BY <1>0, <1>2 DEF CallAgentConns, Becomes, TypeOK, ConnTypeOK
<1>5. ASSUME NEW d \in Callers
      PROVE  job'[d] \in Job /\ ~job'[d].trusted /\ JobInv(d, job'[d], call'[d], oids, seg)
  <2>1. CASE d = c
    <3>1. job'[d] = mine
      BY <1>2, <2>1
    <3>2. mine.shared => \A h \in Hosts : OidFiles \subseteq oids[h]
      BY <1>1, <1>3 DEF AllShared
    <3> QED
      BY <1>3, <3>1, <3>2 DEF JobInv
  <2>2. CASE d # c
    <3>1. job[d] \in Job /\ JobInv(d, job[d], call[d], oids, seg)
      BY <1>0 DEF ConvInv, TypeOK
    <3>2. /\ other(d) \in Job /\ other(d).trusted = FALSE /\ other(d).handlers = job[d].handlers
          /\ other(d).errs = job[d].errs /\ other(d).started = job[d].started
          /\ other(d).reply = job[d].reply /\ other(d).asked = job[d].asked
          /\ other(d).hosts = job[d].hosts /\ other(d).look = job[d].look
          /\ other(d).shared = job[d].shared
      BY <3>1 DEF Job
    <3>3. job'[d] = other(d)
      BY <1>2, <2>2
    <3> HIDE DEF other
    <3>4. \A i : HandlerInv(job[d].handlers[i], call[d].conns[i], job[d], seg)
                  => HandlerInv(job[d].handlers[i], call[d].conns[i], other(d), seg)
      BY <3>2 DEF HandlerInv
    <3>5. JobInv(d, other(d), call[d], oids, seg)
      BY <3>1, <3>2, <3>4 DEF JobInv
    <3> QED
      BY <1>4, <2>2, <3>2, <3>3, <3>5
  <2> QED
    BY <2>1, <2>2
<1>6. TypeOK'
  <2>1. job' \in [Callers -> Job]
    <3>1. job' = [d \in Callers |-> job'[d]]
      BY <1>2
    <3> QED
      BY <1>5, <3>1
  <2>2. \A d \in Callers : Len(job'[d].handlers) \in {0, Len(call'[d].conns)}
    BY <1>5, LengthsFit
  <2>3. converts' \in 0..MaxConverts
    <3>1. converts \in 0..MaxConverts /\ MaxConverts \in Nat
      BY <1>0, ConvertAssumption DEF TypeOK
    <3> QED
      BY <1>2, <3>1
  <2> QED
    BY <1>0, <1>2, <2>1, <2>2, <2>3 DEF TypeOK, ConnInv
<1>7. TrustInv'
  BY <1>2, <1>5 DEF TrustInv, ToldTrue
<1> QED
  BY <1>2, <1>5, <1>6, <1>7 DEF ConvInv

---------------------------------------------------------------------------
(* What happens around the requests.                                       *)

\* The pg_upgrades of a primary, whose directory becomes g: one that is the last
\* there does not undo what a trusted query was told.
LEMMA UpgradeMoves ==
  ASSUME ConvInv, ConnInv', NEW s \in Segments, NEW g \in Directory, DirStep(s, g),
         g.dir = seg[s].dir, g.oids = seg[s].oids,
         Alone(s) => g.fresh = 0 /\ (g.procs = 0 \/ (g.procs = 1 /\ ~g.complete)),
         ~Alone(s) \/ ~Converted(seg[s]) \/ Converted(g)
  PROVE  ConvInv'
<1>0. TypeOK
  BY DEF ConvInv
<1>1. /\ call' = call /\ job' = job /\ oids' = oids /\ allStarted' = allStarted
      /\ converts' = converts /\ DirBecomes(s, g)
  BY DEF DirStep, connVars
<1>2. /\ seg' \in [Segments -> Directory] /\ seg'[s] = g
      /\ \A t \in Segments : t # s => seg'[t] = seg[t]
      /\ Grows(seg, seg')
  BY <1>0, <1>1, DirMoves DEF TypeOK
<1>3. TypeOK'
  BY <1>0, <1>1, <1>2 DEF TypeOK, ConnInv
<1>4. ASSUME NEW c \in Callers PROVE JobInv(c, job[c], call[c], oids, seg')
  <2>1. job[c] \in Job /\ JobInv(c, job[c], call[c], oids, seg)
    BY <1>0 DEF ConvInv, TypeOK
  <2> QED
    BY <1>2, <2>1, JobInvGrows
<1>5. Calm => Calm'
  <2>1. Made' = Made
    BY <1>2 DEF Made
  <2> QED
    BY <1>1, <2>1 DEF Calm
<1>6. \A t \in Segments : Alone(t) => Alone(t)'
  BY <1>2 DEF Alone
<1>7. \A t \in Segments : Alone(t) /\ Converted(seg[t]) => Converted(seg'[t])
  BY <1>2
<1>8. TrustInv'
  <2>1. allStarted' => Calm'
    BY <1>1, <1>5 DEF ConvInv, TrustInv
  <2>2. \A c \in Callers : job'[c].trusted => Calm' /\ \A t \in Segments : Alone(t)'
    BY <1>1, <1>5, <1>6 DEF ConvInv, TrustInv
  <2>3. ASSUME NEW c \in Callers \ Converters PROVE ToldTrue(job'[c], call'[c], seg')
    <3>1. ToldTrue(job[c], call[c], seg) /\ (job[c].trusted => \A t \in Segments : Alone(t))
      BY DEF ConvInv, TrustInv
    <3>2. LookedAt(job[c], call[c]) \subseteq Segments
      BY DEF LookedAt
    <3> QED
      BY <1>1, <1>7, <3>1, <3>2 DEF ToldTrue
  <2> QED
    BY <2>1, <2>2, <2>3 DEF TrustInv
<1> QED
  BY <1>1, <1>3, <1>4, <1>8 DEF ConvInv

\* pg_upgrade deletes, writes and ends; a trusted query has nobody but the last one.
LEMMA UpgradeGoesOn ==
  ASSUME ConvInv, ConnInv', NEW s \in Segments, PgUpgrade(s)
  PROVE  ConvInv'
<1> DEFINE d == seg[s]
<1>0. d \in Directory /\ d.fresh \in Nat /\ d.procs \in Nat /\ d.complete \in BOOLEAN
  BY DEF ConvInv, TypeOK, Directory
<1>1. ASSUME NEW f \in Nat, NEW n \in Nat, NEW inp \in BOOLEAN, NEW comp \in BOOLEAN,
             DirStep(s, [d EXCEPT !.fresh = f, !.procs = n, !.inprogress = inp, !.complete = comp]),
             Alone(s) => f = 0 /\ (n = 0 \/ (n = 1 /\ ~comp)),
             ~Alone(s) \/ ~Converted(d)
      PROVE  ConvInv'
  <2> DEFINE g == [d EXCEPT !.fresh = f, !.procs = n, !.inprogress = inp, !.complete = comp]
  <2>1. /\ g \in Directory /\ g.dir = d.dir /\ g.oids = d.oids /\ g.fresh = f
        /\ g.procs = n /\ g.complete = comp
    BY <1>0 DEF Directory
  <2>2. DirStep(s, g)
    BY <1>1
  <2> HIDE DEF g
  <2> QED
    BY <1>1, <2>1, <2>2, UpgradeMoves
<1>2. CASE DeleteOldFiles(s)
  <2>1. d.fresh > 0 /\ ~Alone(s)
    BY <1>0, <1>2 DEF DeleteOldFiles, Alone
  <2>2. PICK f \in Nat : f = d.fresh - 1
    BY <1>0, <2>1
  <2>3. PICK n \in Nat : n = d.procs + 1
    BY <1>0
  <2>4. DirStep(s, [d EXCEPT !.fresh = f, !.procs = n, !.inprogress = FALSE, !.complete = FALSE])
    BY <1>2, <2>2, <2>3 DEF DeleteOldFiles
  <2> QED
    BY <1>1, <2>1, <2>4
<1>3. ASSUME d.procs > 0
      PROVE  ~Converted(d) /\ (Alone(s) => d.fresh = 0 /\ d.procs = 1 /\ ~d.complete)
  BY <1>0, <1>3 DEF Converted, Alone
<1>4. CASE PgUpgradeWrites(s)
  <2>1. PICK inp \in BOOLEAN : DirStep(s, [d EXCEPT !.inprogress = inp])
    BY <1>4 DEF PgUpgradeWrites
  <2>2. [d EXCEPT !.inprogress = inp] =
          [d EXCEPT !.fresh = d.fresh, !.procs = d.procs, !.inprogress = inp, !.complete = d.complete]
    BY <1>0 DEF Directory
  <2>3. d.procs > 0
    BY <1>4 DEF PgUpgradeWrites
  <2>4. DirStep(s, [d EXCEPT !.fresh = d.fresh, !.procs = d.procs, !.inprogress = inp,
                              !.complete = d.complete])
    BY <2>1, <2>2
  <2>5. ~Converted(d)
    BY <1>3, <2>3
  <2>6. Alone(s) => d.fresh = 0 /\ (d.procs = 0 \/ (d.procs = 1 /\ ~d.complete))
    BY <1>3, <2>3
  <2> QED
    BY <1>0, <1>1, <2>4, <2>5, <2>6
<1>5. CASE PgUpgradeFinishes(s)
  <2>1. d.procs > 0
    BY <1>5 DEF PgUpgradeFinishes
  <2>2. PICK n \in Nat : n = d.procs - 1
    BY <1>0, <2>1
  <2>3. PICK inp \in BOOLEAN :
          DirStep(s, [d EXCEPT !.procs = n, !.inprogress = inp, !.complete = TRUE])
    BY <1>5, <2>2 DEF PgUpgradeFinishes
  <2>4. [d EXCEPT !.procs = n, !.inprogress = inp, !.complete = TRUE] =
          [d EXCEPT !.fresh = d.fresh, !.procs = n, !.inprogress = inp, !.complete = TRUE]
    BY <1>0 DEF Directory
  <2>5. Alone(s) => d.fresh = 0 /\ n = 0
    BY <1>3, <2>1, <2>2
  <2>6. ~Converted(d)
    BY <1>3, <2>1
  <2> QED
    BY <1>0, <1>1, <2>3, <2>4, <2>5, <2>6
<1>6. CASE d.fresh > 0 /\ DirStep(s, [d EXCEPT !.fresh = @ - 1])
  <2>1. PICK f \in Nat : f = d.fresh - 1
    BY <1>0, <1>6
  <2>2. DirStep(s, [d EXCEPT !.fresh = f])
    BY <1>6, <2>1
  <2>3. [d EXCEPT !.fresh = f] = [d EXCEPT !.fresh = f, !.procs = d.procs,
                                    !.inprogress = d.inprogress, !.complete = d.complete]
    BY <1>0 DEF Directory
  <2>4. ~Alone(s) /\ d.inprogress \in BOOLEAN
    BY <1>0, <1>6 DEF Alone, Directory
  <2> QED
    BY <1>0, <1>1, <2>2, <2>3, <2>4
<1>7. CASE d.procs > 0 /\ DirStep(s, [d EXCEPT !.procs = @ - 1])
  <2>1. PICK n \in Nat : n = d.procs - 1
    BY <1>0, <1>7
  <2>2. DirStep(s, [d EXCEPT !.procs = n])
    BY <1>7, <2>1
  <2>3. [d EXCEPT !.procs = n] = [d EXCEPT !.fresh = d.fresh, !.procs = n,
                                    !.inprogress = d.inprogress, !.complete = d.complete]
    BY <1>0 DEF Directory
  <2>4. d.inprogress \in BOOLEAN
    BY <1>0 DEF Directory
  <2>5. Alone(s) => d.fresh = 0 /\ n = 0
    BY <1>3, <1>7, <2>1
  <2>6. DirStep(s, [d EXCEPT !.fresh = d.fresh, !.procs = n, !.inprogress = d.inprogress,
                              !.complete = d.complete])
    BY <2>2, <2>3
  <2>7. ~Converted(d)
    BY <1>3, <1>7
  <2> QED
    BY <1>0, <1>1, <2>4, <2>5, <2>6, <2>7
<1> QED
  BY <1>2, <1>4, <1>5, <1>6, <1>7 DEF PgUpgrade, PgUpgradeDies

\* Nothing but the cache's variables, or the OID files that a host has, change.
LEMMA AroundKeeps ==
  ASSUME ConvInv, ConnInv', call' = call, job' = job, seg' = seg, allStarted' = allStarted,
         converts' = converts, oids' \in [Hosts -> SUBSET OidFiles],
         \A h \in Hosts : oids[h] \subseteq oids'[h]
  PROVE  ConvInv'
<1>0. TypeOK
  BY DEF ConvInv
<1>1. TypeOK'
  BY <1>0 DEF TypeOK, ConnInv
<1>2. ASSUME NEW c \in Callers PROVE JobInv(c, job[c], call[c], oids', seg)
  <2>1. job[c] \in Job /\ JobInv(c, job[c], call[c], oids, seg)
    BY <1>0 DEF ConvInv, TypeOK
  <2> QED
    BY <2>1, JobInvGrows, GrowsNot
<1>3. Calm' = Calm /\ \A s \in Segments : Alone(s)' = Alone(s)
  BY DEF Calm, Alone, Made
<1>4. TrustInv'
  BY <1>3 DEF ConvInv, TrustInv
<1> QED
  BY <1>1, <1>2, <1>4 DEF ConvInv

\* An agent stops: the goroutines that wait for it, and the query that has asked
\* it, are told so.
LEMMA AgentLost ==
  ASSUME ConvInv, ConnInv', NEW h \in Hosts, AgentStopsServing(h)
  PROVE  ConvInv'
<1> DEFINE lost(c, i) == IF call[c].conns[i] = h /\ job[c].handlers[i].pc \in InFlight
                         THEN [job[c].handlers[i] EXCEPT !.pc = "err"] ELSE job[c].handlers[i]
           hs(c) == [i \in 1..Len(job[c].handlers) |-> lost(c, i)]
           look(c) == IF job[c].look.pc # "none" /\ NextAgent(c) = h
                      THEN [job[c].look EXCEPT !.pc = "err"] ELSE job[c].look
           y(c) == [job[c] EXCEPT !.handlers = hs(c), !.look = look(c)]
<1>0. TypeOK
  BY DEF ConvInv
<1>1. /\ job' = [c \in Callers |-> y(c)] /\ call' = call /\ oids' = oids /\ seg' = seg
      /\ allStarted' = allStarted /\ converts' = converts
  BY DEF AgentStopsServing, AgentStops
<1>2. Calm' = Calm /\ \A s \in Segments : Alone(s)' = Alone(s)
  BY <1>1 DEF Made, Calm, Alone
<1>3. ASSUME NEW c \in Callers
      PROVE  /\ job'[c] \in Job /\ JobInv(c, job'[c], call[c], oids, seg)
             /\ job'[c].trusted = job[c].trusted
             /\ ToldTrue(job[c], call[c], seg) => ToldTrue(job'[c], call[c], seg)
  <2>1. job[c] \in Job /\ JobInv(c, job[c], call[c], oids, seg)
    BY <1>0 DEF ConvInv, TypeOK
  <2>2. job[c].handlers \in Seq(Handler) /\ job[c].look \in Look
    BY <2>1 DEF Job
  <2>3. ASSUME NEW i \in 1..Len(job[c].handlers)
        PROVE  /\ lost(c, i) \in Handler
               /\ HandlerInv(lost(c, i), call[c].conns[i], job[c], seg)
    <3> DEFINE hd == job[c].handlers[i]
               x == [hd EXCEPT !.pc = "err"]
    <3>1. hd \in Handler /\ HandlerInv(hd, call[c].conns[i], job[c], seg)
      BY <2>1, <2>2 DEF JobInv
    <3>2. x \in Handler /\ x.pc = "err"
      BY <3>1 DEF Handler
    <3>3. lost(c, i) = x \/ lost(c, i) = hd
      OBVIOUS
    <3> HIDE DEF x, lost
    <3>4. HandlerInv(x, call[c].conns[i], job[c], seg)
      BY <3>2 DEF HandlerInv
    <3> QED
      BY <3>1, <3>2, <3>3, <3>4
  <2> HIDE DEF lost
  <2>4. /\ hs(c) \in Seq(Handler) /\ Len(hs(c)) = Len(job[c].handlers)
        /\ \A i \in 1..Len(job[c].handlers) : hs(c)[i] = lost(c, i)
    BY <2>2, <2>3
  <2>5. /\ look(c) \in Look /\ look(c).cur = job[c].look.cur
        /\ look(c) = job[c].look \/ (look(c).pc = "err" /\ job[c].look.pc # "none")
    BY <2>2 DEF Look
  <2> HIDE DEF hs, look
  <2>6. /\ y(c) \in Job /\ y(c).handlers = hs(c) /\ y(c).errs = job[c].errs
        /\ y(c).started = job[c].started /\ y(c).reply = job[c].reply
        /\ y(c).asked = job[c].asked /\ y(c).hosts = job[c].hosts
        /\ y(c).trusted = job[c].trusted /\ y(c).seen = job[c].seen
        /\ y(c).look = look(c) /\ y(c).shared = job[c].shared
    BY <2>1, <2>4, <2>5 DEF Job
  <2>7. job'[c] = y(c)
    BY <1>1
  <2> HIDE DEF y
  <2>8. \A i \in 1..Len(hs(c)) : HandlerInv(hs(c)[i], call[c].conns[i], y(c), seg)
    BY <2>3, <2>4, <2>6 DEF HandlerInv
  <2>9. hs(c) # <<>> => job[c].handlers # <<>>
    BY <2>2, <2>4
  <2>10. call[c].pc # "got" => look(c) = NoLook
    BY <2>1, <2>5, NoJobTyped DEF JobInv
  <2>11. JobInv(c, y(c), call[c], oids, seg)
    BY <2>1, <2>4, <2>6, <2>8, <2>9, <2>10 DEF JobInv
  <2>12. LookedAt(y(c), call[c]) \subseteq LookedAt(job[c], call[c])
    BY <2>5, <2>6 DEF LookedAt
  <2>13. ToldTrue(job[c], call[c], seg) => ToldTrue(y(c), call[c], seg)
    BY <2>5, <2>6, <2>12 DEF ToldTrue
  <2> QED
    BY <2>6, <2>7, <2>11, <2>13
<1>4. TypeOK'
  <2>1. job' \in [Callers -> Job]
    <3>1. job' = [c \in Callers |-> job'[c]]
      BY <1>1
    <3> QED
      BY <1>3, <3>1
  <2>2. \A c \in Callers : Len(job'[c].handlers) \in {0, Len(call[c].conns)}
    BY <1>3, LengthsFit
  <2> QED
    BY <1>0, <1>1, <2>1, <2>2 DEF TypeOK, ConnInv
<1>5. TrustInv'
  <2>1. allStarted' => Calm'
    BY <1>1, <1>2 DEF ConvInv, TrustInv
  <2>2. \A c \in Callers : job'[c].trusted => Calm' /\ \A s \in Segments : Alone(s)'
    BY <1>2, <1>3 DEF ConvInv, TrustInv
  <2>3. \A c \in Callers \ Converters : ToldTrue(job'[c], call'[c], seg')
    BY <1>1, <1>3 DEF ConvInv, TrustInv
  <2> QED
    BY <2>1, <2>2, <2>3 DEF TrustInv
<1> QED
  BY <1>1, <1>3, <1>4, <1>5 DEF ConvInv

---------------------------------------------------------------------------
\* Whatever happens, the invariant is kept.
LEMMA ConvInvStep ==
  ASSUME ConvInv, [Next]_vars
  PROVE  ConvInv'
<1>1. ConnInv'
  BY ConnsGoOn, ConnInvStep DEF ConvInv
<1>2. ASSUME NEW c \in Converters, BeginConvert(c) \/ ConvertStep(c) PROVE ConvInv'
  BY <1>1, <1>2, ConvertBegins, ConvertGoesOn
<1>3. ASSUME NEW c \in Callers \ Converters, BeginStatus(c) \/ StatusStep(c) PROVE ConvInv'
  BY <1>1, <1>3, StatusGoesOn
<1>4. ASSUME NEW s \in Segments, PgUpgrade(s) PROVE ConvInv'
  BY <1>1, <1>4, UpgradeGoesOn
<1>5. ASSUME NEW h \in Hosts, NEW f \in OidFiles, OidFileArrives(h, f) PROVE ConvInv'
  <2>1. /\ call' = call /\ job' = job /\ seg' = seg /\ allStarted' = allStarted
        /\ converts' = converts /\ oids' = [oids EXCEPT ![h] = @ \cup {f}]
    BY <1>5 DEF OidFileArrives, connVars
  <2>2. oids \in [Hosts -> SUBSET OidFiles]
    BY DEF ConvInv, TypeOK
  <2>3. oids' \in [Hosts -> SUBSET OidFiles] /\ \A g \in Hosts : oids[g] \subseteq oids'[g]
    BY <2>1, <2>2
  <2> QED
    BY <1>1, <2>1, <2>3, AroundKeeps
<1>6. ASSUME NEW h \in Hosts, AgentStopsServing(h) PROVE ConvInv'
  BY <1>1, <1>6, AgentLost
<1>7. ASSUME UNCHANGED convVars, call' = call PROVE ConvInv'
  <2>1. /\ job' = job /\ seg' = seg /\ allStarted' = allStarted
        /\ converts' = converts /\ oids' = oids
    BY <1>7 DEF convVars
  <2>2. oids' \in [Hosts -> SUBSET OidFiles] /\ \A g \in Hosts : oids[g] \subseteq oids'[g]
    BY <2>1 DEF ConvInv, TypeOK
  <2> QED
    BY <1>1, <1>7, <2>1, <2>2, AroundKeeps
<1>8. CASE Network
  BY <1>6, <1>7, <1>8 DEF Network, AgentStarts, LinkBreaks, LinkMends, ConfigSaved
<1>9. CASE UNCHANGED vars
  BY <1>7, <1>9 DEF vars, connVars
<1> QED
  BY <1>2, <1>3, <1>4, <1>5, <1>8, <1>9 DEF Next, Quiescent

\* The hub, the agents and the disks keep the invariant from the start.
LEMMA ConvInvHolds == Spec => []ConvInv
<1>1. Init => ConvInv
  <2> SUFFICES ASSUME Init PROVE ConvInv
    OBVIOUS
  <2>1. ConnInv
    BY ConnStart DEF Init
  <2>2. \A c \in Callers : job[c] = NoJob /\ call[c] = NoCall
    BY DEF Init, ConnInit
  <2>3. Len(NoJob.handlers) = 0
    BY NoJobTyped
  <2>4. ASSUME NEW c \in Callers PROVE JobInv(c, job[c], call[c], oids, seg)
    <3>1. JobInv(c, NoJob, NoCall, oids, seg)
      BY <2>3, NoJobTyped DEF JobInv
    <3> QED
      BY <2>2, <3>1
  <2>5. seg \in [Segments -> Directory]
    <3>1. NoDirectory \in Directory
      BY DEF NoDirectory, Directory
    <3> QED
      BY <3>1 DEF Init
  <2>6. converts \in 0..MaxConverts
    BY ConvertAssumption DEF Init
  <2>7. job \in [Callers -> Job] /\ \A c \in Callers : Len(job[c].handlers) = 0
    BY <2>2, <2>3, NoJobTyped DEF Init
  <2>8. oids \in [Hosts -> SUBSET OidFiles] /\ allStarted \in BOOLEAN
    BY DEF Init
  <2>9. TypeOK
    BY <2>1, <2>5, <2>6, <2>7, <2>8 DEF TypeOK, ConnInv
  <2>10. TrustInv
    BY <2>2, NoJobTyped DEF Init, TrustInv, ToldTrue
  <2> QED
    BY <2>1, <2>4, <2>9, <2>10 DEF ConvInv
<1>2. ConvInv /\ [Next]_vars => ConvInv'
  BY ConvInvStep
<1> QED
  BY <1>1, <1>2, PTL DEF Spec

\* The conversion of the primaries uses the cache of connections as the cache's
\* own specification says: all that is proved of AgentConns holds here.
THEOREM ConvertImplementsConns == Spec => ConnSpec
<1>1. Init => ConnInit
  BY DEF Init
<1>2. ConvInv /\ [Next]_vars => [ConnNext]_connVars
  BY ConnsGoOn
<1> QED
  BY <1>1, <1>2, ConvInvHolds, PTL DEF Spec, ConnSpec

\* The requests, their goroutines and the agents' directories have their types:
\* there are no goroutines, or as many as connections.
THEOREM ConvertTypeCorrect == Spec => []TypeOK
<1>1. ConvInv => TypeOK
  BY DEF ConvInv
<1> QED
  BY <1>1, ConvInvHolds, PTL

\* A conversion starts pg_upgrade for a primary only after it has copied an OID
\* file, and one that came when share-oids was through all of them, however many
\* conversions overlap, whichever agents stop and whatever is in the directory.
THEOREM OidsAlwaysInPlace == Spec => []OidsInPlace
<1>1. ConvInv => OidsInPlace
  BY ConvertAssumption DEF ConvInv, JobInv, OidsInPlace
<1> QED
  BY <1>1, ConvInvHolds, PTL

\* UpgradeConvertPrimaries replies without an error only if pg_upgrade was started
\* for each primary of each host it had a connection to.
THEOREM OkIsEarned == Spec => []OkMeansStarted
<1>1. ConvInv => OkMeansStarted
  BY ConvertAssumption DEF ConvInv, JobInv, OkMeansStarted
<1> QED
  BY <1>1, ConvInvHolds, PTL

\* A status query that began after a complete conversion, with no other since and
\* each pg_upgrade past the deletion of an earlier one's files, says COMPLETE only
\* when all primaries are converted, although the directory, the process and the
\* files of one after the other are looked at while the pg_upgrades go on.
THEOREM CompleteCanBeTrusted == Spec => []TrustedAnswer
<1>1. ConvInv => TrustedAnswer
  BY DEF ConvInv, TrustInv, ToldTrue, Converted, TrustedAnswer
<1> QED
  BY <1>1, ConvInvHolds, PTL

=============================================================================
