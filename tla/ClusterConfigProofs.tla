------------------------ MODULE ClusterConfigProofs ------------------------
(***************************************************************************)
(* A configuration that was written stays readable, whatever requests,     *)
(* failures and restarts follow, until a shorter one is written over it or *)
(* a write fails part way: for any segments, database answers, lengths,    *)
(* callers and bounds.                                                     *)
(***************************************************************************)
EXTENDS ClusterConfig, TLAPS

\* The hub starts with the bare configuration of `prepare init'.
LEMMA KeptInit == Init => KeptInv
<1> SUFFICES ASSUME Init PROVE KeptInv
  OBVIOUS
<1> USE ConfigAssumption
<1>1. PICK o \in Answers["old"], n \in Answers["new"] :
        db = [k \in Kinds |-> IF k = "old" THEN o ELSE n]
  BY DEF Init
<1>2. db \in [Kinds -> Config] /\ \A k \in Kinds : db[k] \in Answers[k]
  BY <1>1 DEF Kinds, Config
<1>3. Written(NoFile, Bare) \in ConfigFile
  BY DEF Written, Longer, NoFile, Bare, Config, ConfigFile
<1>4. NoFile \in ConfigFile
  BY DEF NoFile, Bare, Config, ConfigFile
<1>5. file \in [Kinds -> ConfigFile]
  BY <1>3, <1>4 DEF Init
<1>6. reader \in [initialized : {TRUE}, at : Kinds, config : Config]
  BY DEF Init, OfClusterConfig, NewReader, Kinds, Config, Bare
<1>7. job \in [Callers -> Job] /\ \A c \in Callers : job[c].pc = "idle"
  BY DEF Init, Idle, Job, Kinds, Config, Bare
<1>8. TypeOK
  <2>1. /\ writes \in 0..MaxWrites /\ reads \in 0..MaxReads
        /\ changes \in 0..MaxChanges /\ crashes \in 0..MaxCrashes
    <3>1. /\ MaxWrites \in Nat /\ MaxReads \in Nat /\ MaxChanges \in Nat /\ MaxCrashes \in Nat
      OBVIOUS
    <3> HIDE ConfigAssumption
    <3> QED
      BY <3>1 DEF Init
  <2>2. saved \subseteq Kinds /\ damaged \subseteq Kinds /\ used \subseteq Config
    BY DEF Init
  <2>3. mixed \in BOOLEAN /\ crossed \subseteq Callers
    BY DEF Init
  <2> QED
    BY <1>2, <1>5, <1>6, <1>7, <2>1, <2>2, <2>3 DEF TypeOK
<1>9. FromDatabase
  BY <1>2, <1>7 DEF FromDatabase
<1>10. FailureKeepsConfig
  BY DEF Init, FailureKeepsConfig
<1> QED
  BY <1>8, <1>9, <1>10 DEF KeptInv

\* The reader stays well formed whatever it is pointed to.
LEMMA PointedReader ==
  ASSUME NEW rd \in [initialized : BOOLEAN, at : Kinds, config : Config], NEW k \in Kinds
  PROVE  OfClusterConfig(rd, k) \in [initialized : {TRUE}, at : Kinds, config : Config]
BY DEF OfClusterConfig, Bare, Config

\* A handler's next state, where it differs from this one in a few fields.
LEMMA JobTyped ==
  ASSUME TypeOK, NEW c \in Callers, NEW state \in Job, Becomes(c, state)
  PROVE  /\ job' \in [Callers -> Job]
         /\ job'[c] = state
         /\ \A d \in Callers : d # c => job'[d] = job[d]
BY DEF TypeOK, Becomes

\* No step of a handler that reads touches the files or what is written next.
LEMMA LookKeeps ==
  ASSUME KeptInv, NEW c \in Callers, Look(c)
  PROVE  KeptInv'
<1> USE DEF KeptInv
<1>1. UNCHANGED <<db, file, saved, damaged, writes, changes, crashes>>
  BY DEF Look, ReadRequest, Lookup, Read, Assign, Take, LookAgain, ReplyHosts, ReplyPairs,
         ReplyPorts, ghosts, bounds
<1>2. job[c] \in Job /\ reader \in [initialized : {TRUE}, at : Kinds, config : Config]
  BY DEF TypeOK
<1>3. \A k \in Kinds : file[k].text \in Config
  BY DEF TypeOK, ConfigFile
<1>4. \E state \in Job : Becomes(c, state) /\ state.pc # "write"
  <2>1. CASE ReadRequest(c)
    <3>1. PICK op \in {"hosts", "master", "primaries"} :
            Becomes(c, [Idle EXCEPT !.pc = "lookup", !.op = op, !.due = "old" \in saved])
      BY <2>1 DEF ReadRequest
    <3> DEFINE with(b) == [Idle EXCEPT !.pc = "lookup", !.op = op, !.due = b]
    <3>2. \A b \in BOOLEAN : with(b) \in Job /\ with(b).pc # "write"
      BY DEF Idle, Job, Looking, Kinds, Config, Bare
    <3>3. ("old" \in saved) \in BOOLEAN
      OBVIOUS
    <3> QED
      BY <3>1, <3>2, <3>3
  <2>2. CASE Lookup(c)
    <3> DEFINE state == [job[c] EXCEPT !.pc = IF reader.config # Bare THEN "take" ELSE "read"]
    <3>1. state \in Job /\ state.pc # "write"
      BY <1>2 DEF Job, Looking
    <3>2. Becomes(c, state)
      BY <2>2 DEF Lookup
    <3> HIDE DEF state
    <3> QED
      BY <3>1, <3>2
  <2>3. CASE Read(c)
    <3> DEFINE here == [job[c] EXCEPT !.pc = "assign", !.config = file[reader.at].text]
               none == [job[c] EXCEPT !.pc = "looked", !.config = Bare]
               fail == [job[c] EXCEPT !.pc = "idle", !.reply = "error"]
    <3>1. here \in Job /\ here.pc # "write"
      BY <1>2, <1>3 DEF Job, Looking
    <3>2. none \in Job /\ none.pc # "write"
      BY <1>2 DEF Job, Config, Bare
    <3>3. fail \in Job /\ fail.pc # "write"
      BY <1>2 DEF Job
    <3>4. Becomes(c, here) \/ Becomes(c, none) \/ Becomes(c, fail)
      BY <2>3 DEF Read, Replies
    <3> QED
      BY <3>1, <3>2, <3>3, <3>4
  <2>4. CASE Assign(c)
    <3> DEFINE state == [job[c] EXCEPT !.pc = "take"]
    <3>1. state \in Job /\ state.pc # "write"
      BY <1>2 DEF Job, Looking
    <3>2. Becomes(c, state)
      BY <2>4 DEF Assign
    <3> QED
      BY <3>1, <3>2
  <2>5. CASE Take(c)
    <3> DEFINE state == [job[c] EXCEPT !.pc = "looked", !.config = reader.config]
    <3>1. state \in Job /\ state.pc # "write"
      BY <1>2 DEF Job, Looking
    <3>2. Becomes(c, state)
      BY <2>5 DEF Take
    <3> QED
      BY <3>1, <3>2
  <2>6. CASE LookAgain(c)
    <3> DEFINE state == [job[c] EXCEPT !.pc = "lookup", !.k = "new", !.first = job[c].config]
    <3>1. state \in Job /\ state.pc # "write"
      BY <1>2 DEF Job, Looking, Kinds
    <3>2. Becomes(c, state)
      BY <2>6 DEF LookAgain
    <3> QED
      BY <3>1, <3>2
  <2>7. CASE ReplyHosts(c)
    <3> DEFINE state == [job[c] EXCEPT !.pc = "idle", !.reply = "ok", !.first = job[c].config]
    <3>1. state \in Job /\ state.pc # "write"
      BY <1>2 DEF Job, Looking
    <3>2. Becomes(c, state)
      BY <2>7 DEF ReplyHosts
    <3> QED
      BY <3>1, <3>2
  <2>8. CASE ReplyPairs(c)
    <3> DEFINE state == [job[c] EXCEPT !.pc = "idle", !.second = job[c].config,
                   !.reply = IF CanPair(job[c].first, job[c].config) THEN "ok" ELSE "error"]
    <3>1. state \in Job /\ state.pc # "write"
      BY <1>2 DEF Job, Looking
    <3>2. Becomes(c, state)
      BY <2>8 DEF ReplyPairs
    <3> QED
      BY <3>1, <3>2
  <2>9. CASE ReplyPorts(c)
    <3> DEFINE done == [job[c] EXCEPT !.pc = "idle", !.second = job[c].config, !.reply = "ok"]
               fail == [job[c] EXCEPT !.pc = "idle", !.reply = "error"]
    <3>1. done \in Job /\ done.pc # "write"
      BY <1>2 DEF Job
    <3>2. fail \in Job /\ fail.pc # "write"
      BY <1>2 DEF Job
    <3>3. Becomes(c, done) \/ Becomes(c, fail)
      BY <2>9 DEF ReplyPorts, Replies
    <3> QED
      BY <3>1, <3>2, <3>3
  <2> QED
    BY <2>1, <2>2, <2>3, <2>4, <2>5, <2>6, <2>7, <2>8, <2>9 DEF Look
<1>5. PICK state \in Job : Becomes(c, state) /\ state.pc # "write"
  BY <1>4
<1>6. /\ job' \in [Callers -> Job]
      /\ job'[c] = state
      /\ \A d \in Callers : d # c => job'[d] = job[d]
  BY <1>5, JobTyped
<1>7. reader' \in [initialized : {TRUE}, at : Kinds, config : Config]
  <2>1. CASE ReadRequest(c) \/ LookAgain(c)
    <3>1. reader \in [initialized : BOOLEAN, at : Kinds, config : Config]
      BY <1>2
    <3>2. reader' \in {reader, OfClusterConfig(reader, "old"), OfClusterConfig(reader, "new")}
      BY <2>1 DEF ReadRequest, LookAgain
    <3> QED
      BY <1>2, <3>1, <3>2, PointedReader DEF Kinds
  <2>2. CASE Assign(c)
    BY <1>2, <2>2 DEF Assign, Job
  <2>3. CASE UNCHANGED reader
    BY <1>2, <2>3
  <2> QED
    BY <2>1, <2>2, <2>3
    DEF Look, Lookup, Read, Take, ReplyHosts, ReplyPairs, ReplyPorts
<1>8. used' \subseteq Config
  BY <1>2 DEF TypeOK, Look, ReadRequest, Lookup, Read, Assign, Take, LookAgain, ReplyHosts,
         ReplyPairs, ReplyPorts, ghosts, bounds
<1>9. mixed' \in BOOLEAN
  <2>1. mixed' \in {mixed, mixed \/ SomebodyLooks}
    BY DEF Look, ReadRequest, Lookup, Read, Assign, Take, LookAgain, ReplyHosts,
           ReplyPairs, ReplyPorts, ghosts, bounds
  <2> QED
    BY <2>1 DEF TypeOK, SomebodyLooks
<1>9a. crossed' \subseteq Callers
  BY DEF TypeOK, Look, ReadRequest, Lookup, Read, Assign, Take, LookAgain, ReplyHosts,
         ReplyPairs, ReplyPorts, Crosses, ghosts, bounds
<1>10. reads' \in 0..MaxReads
  BY ConfigAssumption DEF TypeOK, Look, ReadRequest, Lookup, Read, Assign, Take, LookAgain, ReplyHosts,
         ReplyPairs, ReplyPorts, ghosts, bounds
<1>11. TypeOK'
  BY <1>1, <1>6, <1>7, <1>8, <1>9, <1>9a, <1>10 DEF TypeOK
<1>12. FromDatabase'
  BY <1>1, <1>5, <1>6 DEF FromDatabase
<1>13. FailureKeepsConfig'
  BY <1>1 DEF FailureKeepsConfig, Readable
<1> QED
  BY <1>11, <1>12, <1>13

\* The step that writes makes the file hold what the database answered.
LEMMA WriteKeeps ==
  ASSUME KeptInv, NEW c \in Callers, SaveQueryResultToJSON(c)
  PROVE  KeptInv'
<1> USE DEF KeptInv
<1> DEFINE k == job[c].k
           d == job[c].config
<1>1. job[c] \in Job /\ k \in Kinds /\ d \in Config
  BY DEF TypeOK, Job
<1>2. d \in Answers[k] /\ d # Bare /\ Size(d) \in Nat \ {0}
  <2>1. d \in Answers[k]
    BY DEF FromDatabase, SaveQueryResultToJSON
  <2>2. Answers[k] \subseteq Config \ {Bare}
    BY <1>1, ConfigAssumption
  <2>3. d \in Answers["old"] \cup Answers["new"]
    BY <1>1, <2>1 DEF Kinds
  <2> QED
    BY <2>1, <2>2, <2>3, ConfigAssumption
<1>3. file \in [Kinds -> ConfigFile] /\ file[k] \in ConfigFile /\ file[k].len \in Nat
  BY <1>1 DEF TypeOK, ConfigFile
<1>4. /\ job[c].pc = "write"
      /\ file' = [file EXCEPT ![k] = Written(file[k], d)]
      /\ saved' = saved \cup {k}
      /\ damaged' = IF Size(d) < file[k].len THEN damaged \cup {k} ELSE damaged
      /\ Becomes(c, [job[c] EXCEPT !.pc = "idle", !.reply = "ok"])
      /\ UNCHANGED <<db, reader, used, mixed, crossed, bounds>>
  BY DEF SaveQueryResultToJSON, Replies
<1>5. /\ Written(file[k], d) \in ConfigFile
      /\ Written(file[k], d).exists /\ Written(file[k], d).text = d /\ ~Written(file[k], d).torn
      /\ Size(d) >= file[k].len => Written(file[k], d).len = Size(d)
  BY <1>1, <1>2, <1>3 DEF Written, Longer, ConfigFile
<1>6. [job[c] EXCEPT !.pc = "idle", !.reply = "ok"] \in Job
  BY <1>1 DEF Job
<1>7. /\ job' \in [Callers -> Job]
      /\ job'[c].pc = "idle"
      /\ \A e \in Callers : e # c => job'[e] = job[e]
  <2>1. [job[c] EXCEPT !.pc = "idle", !.reply = "ok"].pc = "idle"
    BY <1>1 DEF Job
  <2> QED
    BY <1>4, <1>6, <2>1, JobTyped
<1>8. TypeOK'
  <2>1. file' \in [Kinds -> ConfigFile]
    BY <1>3, <1>4, <1>5
  <2>2. saved' \subseteq Kinds /\ damaged' \subseteq Kinds
    BY <1>1, <1>4 DEF TypeOK
  <2> QED
    BY <1>4, <1>7, <2>1, <2>2 DEF TypeOK, bounds
<1>9. FromDatabase'
  BY <1>4, <1>7 DEF FromDatabase
<1>10. FailureKeepsConfig'
  <2> SUFFICES ASSUME NEW j \in saved' \ damaged'
               PROVE  Readable(file'[j]) /\ file'[j].text # Bare
    BY DEF FailureKeepsConfig, Readable
  <2>1. CASE j = k
    <3>1. ~(Size(d) < file[k].len)
      BY <1>4, <2>1
    <3>2. file'[j] = Written(file[k], d)
      BY <1>1, <1>3, <1>4, <2>1
    <3>3. Size(d) >= file[k].len
      BY <1>2, <1>3, <3>1
    <3> QED
      BY <1>2, <1>5, <3>2, <3>3 DEF Readable
  <2>2. CASE j # k
    <3>1. j \in saved \ damaged /\ j \in Kinds
      BY <1>4, <2>2 DEF TypeOK
    <3>2. file'[j] = file[j]
      BY <1>3, <1>4, <2>2, <3>1
    <3> QED
      BY <3>1, <3>2 DEF FailureKeepsConfig
  <2> QED
    BY <2>1, <2>2
<1> QED
  BY <1>8, <1>9, <1>10

\* Until it writes, a request only makes sure that the file exists.
LEMMA SaveKeeps ==
  ASSUME KeptInv, NEW c \in Callers, Save(c)
  PROVE  KeptInv'
<1> USE DEF KeptInv
<1> DEFINE quiet == UNCHANGED <<db, reader, saved, used, mixed, crossed, reads, changes, crashes>>
<1>1. job[c] \in Job /\ job[c].k \in Kinds /\ db \in [Kinds -> Config] /\ file \in [Kinds -> ConfigFile]
  BY DEF TypeOK, Job
<1>2. ASSUME NEW state \in Job, Becomes(c, state), quiet, UNCHANGED writes,
             state.pc = "write" => state.config \in Answers[state.k],
             file' \in [Kinds -> ConfigFile],
             damaged \subseteq damaged', damaged' \subseteq Kinds,
             \A k \in Kinds \ damaged' : Readable(file[k]) => Readable(file'[k]),
             \A k \in Kinds \ damaged' : file'[k].text = file[k].text
      PROVE  KeptInv'
  <2>1. /\ job' \in [Callers -> Job]
        /\ job'[c] = state
        /\ \A e \in Callers : e # c => job'[e] = job[e]
    BY <1>2, JobTyped
  <2>2. TypeOK'
    BY <1>2, <2>1 DEF TypeOK
  <2>3. FromDatabase'
    BY <1>2, <2>1 DEF FromDatabase
  <2>4. FailureKeepsConfig'
    BY <1>2 DEF TypeOK, FailureKeepsConfig
  <2> QED
    BY <2>2, <2>3, <2>4
<1>3. CASE SaveRequest(c)
  <2>1. PICK k \in Kinds : Becomes(c, [Idle EXCEPT !.pc = "open", !.op = "save", !.k = k])
    BY <1>3 DEF SaveRequest
  <2> DEFINE state == [Idle EXCEPT !.pc = "open", !.op = "save", !.k = k]
  <2>2. state \in Job /\ state.pc # "write"
    BY DEF Idle, Job, Kinds, Config, Bare
  <2>3. quiet /\ file' = file /\ damaged' = damaged /\ writes < MaxWrites /\ writes' = writes + 1
    BY <1>3 DEF SaveRequest, ghosts
  <2>4. Becomes(c, state)
    BY <2>1
  <2> HIDE DEF state
  <2>5. /\ job' \in [Callers -> Job]
        /\ job'[c] = state
        /\ \A e \in Callers : e # c => job'[e] = job[e]
    BY <2>2, <2>4, JobTyped
  <2>6. writes' \in 0..MaxWrites
    <3>1. MaxWrites \in Nat /\ writes \in 0..MaxWrites
      BY ConfigAssumption DEF TypeOK
    <3> QED
      BY <2>3, <3>1
  <2>7. TypeOK'
    BY <2>3, <2>5, <2>6 DEF TypeOK
  <2>8. FromDatabase'
    BY <2>2, <2>3, <2>5 DEF FromDatabase
  <2>9. FailureKeepsConfig'
    BY <2>3 DEF FailureKeepsConfig
  <2> QED
    BY <2>7, <2>8, <2>9
<1>4. CASE OpenConfig(c)
  <2> DEFINE state == [job[c] EXCEPT !.pc = "select"]
             opened == [file[job[c].k] EXCEPT !.exists = TRUE]
  <2>1. state \in Job /\ state.pc # "write"
    BY <1>1 DEF Job
  <2>2. opened \in ConfigFile /\ opened.text = file[job[c].k].text /\ opened.len = file[job[c].k].len
                    /\ opened.exists /\ opened.torn = file[job[c].k].torn
    BY <1>1 DEF ConfigFile
  <2>3. Becomes(c, state) /\ quiet /\ UNCHANGED <<writes, damaged>>
        /\ file' = [file EXCEPT ![job[c].k] = opened]
    BY <1>4 DEF OpenConfig, ghosts, bounds
  <2> HIDE DEF state, opened
  <2>4. file' \in [Kinds -> ConfigFile]
    BY <1>1, <2>2, <2>3
  <2>5. \A k \in Kinds : /\ Readable(file[k]) => Readable(file'[k])
                         /\ file'[k].text = file[k].text
    BY <1>1, <2>2, <2>3 DEF Readable
  <2>6. damaged \subseteq damaged' /\ damaged' \subseteq Kinds
    BY <2>3 DEF TypeOK
  <2> QED
    BY <1>2, <2>1, <2>3, <2>4, <2>5, <2>6
<1>5. CASE SelectConfig(c)
  <2> DEFINE state == [job[c] EXCEPT !.pc = "write", !.config = db[job[c].k]]
  <2>1. state \in Job /\ state.config = db[job[c].k] /\ state.k = job[c].k
    BY <1>1 DEF Job
  <2>2. Becomes(c, state) /\ quiet /\ UNCHANGED <<writes, file, damaged>>
    BY <1>5 DEF SelectConfig, ghosts, bounds
  <2> HIDE DEF state
  <2>3. state.config \in Answers[state.k]
    BY <1>1, <2>1 DEF FromDatabase
  <2>4. damaged \subseteq damaged' /\ damaged' \subseteq Kinds
    BY <2>2 DEF TypeOK
  <2> QED
    BY <1>1, <1>2, <2>1, <2>2, <2>3, <2>4
<1>6. CASE SaveQueryResultToJSON(c)
  BY <1>6, WriteKeeps
<1>7. CASE SaveFails(c)
  <2> DEFINE state == [job[c] EXCEPT !.pc = "idle", !.reply = "error"]
             k == job[c].k
  <2>1. state \in Job /\ state.pc # "write"
    BY <1>1 DEF Job
  <2>2. Becomes(c, state) /\ quiet /\ UNCHANGED writes
    BY <1>7 DEF SaveFails, Replies, bounds
  <2> HIDE DEF state
  <2>3. CASE UNCHANGED <<file, damaged>>
    <3>1. damaged \subseteq damaged' /\ damaged' \subseteq Kinds
      BY <2>3 DEF TypeOK
    <3> QED
      BY <1>1, <1>2, <2>1, <2>2, <2>3, <3>1
  <2>4. CASE damaged' = damaged \cup {k} /\ job[c].pc = "write"
             /\ \E n \in 1..(Size(job[c].config) - 1) :
                  file' = [file EXCEPT ![k] = WrittenInPart(file[k], n)]
    <3>1. PICK n \in 1..(Size(job[c].config) - 1) :
            file' = [file EXCEPT ![k] = WrittenInPart(file[k], n)]
      BY <2>4
    <3>2. n \in Nat
      <4>1. job[c].config \in Answers[k]
        BY <2>4 DEF FromDatabase
      <4>2. job[c].config \in Answers["old"] \cup Answers["new"]
        BY <1>1, <4>1 DEF Kinds
      <4>3. Size(job[c].config) \in Nat
        BY <4>2, ConfigAssumption
      <4> QED
        BY <3>1, <4>3
    <3>3. file[k] \in ConfigFile
      BY <1>1
    <3>4. WrittenInPart(file[k], n) \in ConfigFile
      <4>1. Longer(n, file[k].len) \in Nat
        BY <3>2, <3>3 DEF Longer, ConfigFile
      <4> QED
        BY <3>3, <4>1 DEF WrittenInPart, ConfigFile
    <3>5. file' \in [Kinds -> ConfigFile] /\ \A j \in Kinds : j # k => file'[j] = file[j]
      BY <1>1, <3>1, <3>4
    <3>6. damaged \subseteq damaged' /\ damaged' \subseteq Kinds /\ k \in damaged'
      BY <1>1, <2>4 DEF TypeOK
    <3>7. \A j \in Kinds \ damaged' : file'[j] = file[j]
      BY <3>5, <3>6
    <3> QED
      BY <1>2, <2>1, <2>2, <3>5, <3>6, <3>7
  <2> QED
    BY <1>7, <2>3, <2>4 DEF SaveFails
<1> QED
  BY <1>3, <1>4, <1>5, <1>6, <1>7 DEF Save

\* The cluster changes under the hub, or the hub is restarted: the files stay.
LEMMA OutsideKeeps ==
  ASSUME KeptInv, (\E k \in Kinds : ClusterChanges(k)) \/ HubRestart
  PROVE  KeptInv'
<1> USE DEF KeptInv
<1>1. CASE \E k \in Kinds : ClusterChanges(k)
  <2>0. PICK k \in Kinds : ClusterChanges(k)
    BY <1>1
  <2>1. PICK d \in Answers[k] : db' = [db EXCEPT ![k] = d]
    BY <2>0 DEF ClusterChanges
  <2>2. UNCHANGED <<file, reader, job, saved, damaged, used, mixed, crossed, writes, reads, crashes>>
    BY <2>0 DEF ClusterChanges, ghosts
  <2>3. d \in Config
    BY ConfigAssumption
  <2>4. changes' \in 0..MaxChanges
    <3>1. MaxChanges \in Nat /\ changes \in 0..MaxChanges
      BY ConfigAssumption DEF TypeOK
    <3>2. changes < MaxChanges /\ changes' = changes + 1
      BY <2>0 DEF ClusterChanges
    <3> QED
      BY <3>1, <3>2
  <2>5. db' \in [Kinds -> Config] /\ \A j \in Kinds : db'[j] \in Answers[j]
    BY <2>1, <2>3 DEF TypeOK, FromDatabase
  <2>6. TypeOK'
    BY <2>2, <2>4, <2>5 DEF TypeOK
  <2>7. FromDatabase'
    BY <2>2, <2>5 DEF FromDatabase
  <2>8. FailureKeepsConfig'
    BY <2>2 DEF FailureKeepsConfig
  <2> QED
    BY <2>6, <2>7, <2>8
<1>2. CASE HubRestart
  <2>1. job' \in [Callers -> Job] /\ \A c \in Callers : job'[c].pc = "idle"
    BY <1>2 DEF HubRestart, Idle, Job, Kinds, Config, Bare
  <2>2. reader' \in [initialized : {TRUE}, at : Kinds, config : Config]
    BY <1>2 DEF HubRestart, OfClusterConfig, NewReader, Kinds, Config, Bare
  <2>3. used' \subseteq Config /\ mixed' \in BOOLEAN /\ crossed' \subseteq Callers
    BY <1>2 DEF HubRestart
  <2>4. crashes' \in 0..MaxCrashes
    <3>1. MaxCrashes \in Nat /\ crashes \in 0..MaxCrashes
      BY ConfigAssumption DEF TypeOK
    <3>2. crashes < MaxCrashes /\ crashes' = crashes + 1
      BY <1>2 DEF HubRestart
    <3> QED
      BY <3>1, <3>2
  <2>5. UNCHANGED <<db, file, saved, damaged, writes, reads, changes>>
    BY <1>2 DEF HubRestart
  <2>6. TypeOK'
    BY <2>1, <2>2, <2>3, <2>4, <2>5 DEF TypeOK
  <2>7. FromDatabase'
    BY <2>1, <2>5 DEF FromDatabase
  <2>8. FailureKeepsConfig'
    BY <2>5 DEF FailureKeepsConfig
  <2> QED
    BY <2>6, <2>7, <2>8
<1> QED
  BY <1>1, <1>2

\* No step loses what is written.
LEMMA KeptStep == ASSUME KeptInv, [Next]_vars PROVE KeptInv'
<1>1. ASSUME NEW c \in Callers, Save(c) PROVE KeptInv'
  BY <1>1, SaveKeeps
<1>2. ASSUME NEW c \in Callers, Look(c) PROVE KeptInv'
  BY <1>2, LookKeeps
<1>3. CASE (\E k \in Kinds : ClusterChanges(k)) \/ HubRestart
  BY <1>3, OutsideKeeps
<1>4. CASE UNCHANGED vars
  BY <1>4 DEF KeptInv, TypeOK, FromDatabase, FailureKeepsConfig, Readable, vars, ghosts, bounds
<1> QED
  BY <1>1, <1>2, <1>3, <1>4 DEF Next, Quiescent

\* A configuration that check-config or init-cluster has written can be read at
\* every moment after it, through failures and deaths of the hub between the
\* opening and the writing of the file, until a shorter one is written over it or a
\* write fails part way.
THEOREM ConfigKept == Spec => []FailureKeepsConfig
<1>1. Init => KeptInv
  BY KeptInit
<1>2. KeptInv /\ [Next]_vars => KeptInv'
  BY KeptStep
<1>3. KeptInv => FailureKeepsConfig
  BY DEF KeptInv
<1> QED
  BY <1>1, <1>2, <1>3, PTL DEF Spec

\* The files, the reader and the handlers' locals keep their form.
THEOREM ConfigTypeCorrect == Spec => []TypeOK
<1>1. Init => KeptInv
  BY KeptInit
<1>2. KeptInv /\ [Next]_vars => KeptInv'
  BY KeptStep
<1>3. KeptInv => TypeOK
  BY DEF KeptInv
<1> QED
  BY <1>1, <1>2, <1>3, PTL DEF Spec

---------------------------------------------------------------------------
(* What the handlers see.                                                  *)

\* The reader has been pointed to a file when the hub starts: pointing it to
\* another one does nothing.
LEMMA ReaderLatched ==
  ASSUME TypeOK, NEW k \in Kinds
  PROVE  OfClusterConfig(reader, k) = reader
BY DEF TypeOK, OfClusterConfig

\* What a step of handler c, from job[c] to x, has to show.
LEMMA StepOfHandler ==
  ASSUME LookInv, KeptInv', NEW c \in Callers, NEW x \in Job, Becomes(c, x),
         reader'.at = "old", saved \subseteq saved', damaged \subseteq damaged',
         InItsPart(x), x.due => "old" \in saved',
         mixed => mixed', ~mixed' => crossed' = {}, crossed \ {c} \subseteq crossed',
         x.pc \in Looking =>
           \/ job[c].pc \in Looking /\ crossed' = crossed
           \/ ~SomebodyLooks
           \/ c \in crossed' /\ \A d \in Callers : job[d].pc \in Looking => d \in crossed',
         reader'.config = reader.config \/ job[c].pc = "assign",
         ~mixed' => used' \subseteq {Bare, reader'.config},
         ~mixed' => NothingThere(x, reader'),
         c \notin crossed' /\ "old" \notin damaged' => SeesConfig(x, reader')
  PROVE  LookInv'
<1>1. /\ job' \in [Callers -> Job]
      /\ job'[c] = x
      /\ \A d \in Callers : d # c => job'[d] = job[d]
  BY JobTyped DEF LookInv, KeptInv
<1>2. \A d \in Callers : InItsPart(job'[d]) /\ (job'[d].due => "old" \in saved')
  BY <1>1 DEF LookInv
<1>3. LooksAlone'
  <2> SUFFICES ASSUME NEW a \in Callers \ crossed', NEW b \in Callers,
                      job'[a].pc \in Looking, job'[b].pc \in Looking
               PROVE  a = b
    BY DEF LooksAlone
  <2>1. LooksAlone
    BY DEF LookInv
  <2>2. CASE a # c /\ b # c
    BY <1>1, <2>1, <2>2 DEF LooksAlone
  <2>3. CASE a = c /\ b # c
    BY <1>1, <2>1, <2>3 DEF LooksAlone, SomebodyLooks
  <2>4. CASE a # c /\ b = c
    BY <1>1, <2>1, <2>4 DEF LooksAlone, SomebodyLooks
  <2> QED
    BY <2>2, <2>3, <2>4
<1>4. ASSUME NEW d \in Callers \ crossed', d # c
      PROVE  \/ reader'.config = reader.config
             \/ job[d].pc \notin Looking
  BY <1>4 DEF LookInv, LooksAlone, Looking
<1>5. ASSUME ~mixed', NEW d \in Callers PROVE NothingThere(job'[d], reader')
  <2>1. CASE d = c
    BY <1>1, <1>5, <2>1
  <2>2. CASE d # c
    <3>1. NothingThere(job[d], reader) /\ job'[d] = job[d]
      BY <1>1, <1>5, <2>2 DEF LookInv
    <3> QED
      BY <1>4, <1>5, <2>2, <3>1 DEF NothingThere, Looking
  <2> QED
    BY <2>1, <2>2
<1>6. ASSUME "old" \notin damaged', NEW d \in Callers \ crossed'
      PROVE  SeesConfig(job'[d], reader')
  <2>1. CASE d = c
    BY <1>1, <1>6, <2>1
  <2>2. CASE d # c
    <3>1. SeesConfig(job[d], reader) /\ job'[d] = job[d]
      BY <1>1, <1>6, <2>2 DEF LookInv
    <3> QED
      BY <1>4, <1>6, <2>2, <3>1 DEF SeesConfig, Looking
  <2> QED
    BY <2>1, <2>2
<1> QED
  BY <1>2, <1>3, <1>5, <1>6 DEF LookInv

\* A step that does not look, and leaves the reader alone.
LEMMA QuietStep ==
  ASSUME LookInv, KeptInv', NEW c \in Callers, NEW x \in Job, Becomes(c, x),
         UNCHANGED <<reader, used, mixed, crossed>>,
         saved \subseteq saved', damaged \subseteq damaged',
         InItsPart(x), x.due => "old" \in saved',
         x.pc \notin Looking,
         c \notin crossed /\ "old" \notin damaged => SeesConfig(x, reader)
  PROVE  LookInv'
<1>1. /\ reader'.at = "old" /\ (~mixed' => used' \subseteq {Bare, reader'.config})
      /\ ~mixed' => crossed' = {}
  BY DEF LookInv
<1>2. NothingThere(x, reader')
  BY DEF NothingThere, Looking
<1>3. c \notin crossed' /\ "old" \notin damaged' => SeesConfig(x, reader')
  OBVIOUS
<1> QED
  BY <1>1, <1>2, <1>3, StepOfHandler

\* A request that writes does not look, and the database it reads leaves the
\* reader alone.
LEMMA SaveSees ==
  ASSUME LookInv, KeptInv', NEW c \in Callers, Save(c)
  PROVE  LookInv'
<1> DEFINE j == job[c]
<1>1. j \in Job /\ InItsPart(j) /\ (j.due => "old" \in saved)
  BY DEF LookInv, KeptInv, TypeOK
<1>2. UNCHANGED <<reader, used, mixed, crossed>> /\ saved \subseteq saved' /\ damaged \subseteq damaged'
  BY DEF Save, SaveRequest, OpenConfig, SelectConfig, SaveQueryResultToJSON, SaveFails,
         ghosts, bounds
<1>3. ASSUME NEW x \in Job, Becomes(c, x), x.op = "save", x.due => j.due,
             x.pc \in {"open", "select", "write", "idle"}, x.pc # "idle" => x.reply = "none"
      PROVE  LookInv'
  <2>1. InItsPart(x) /\ x.pc \notin Looking /\ SeesConfig(x, reader)
    BY <1>3 DEF InItsPart, Looking, SeesConfig
  <2> QED
    BY <1>1, <1>2, <1>3, <2>1, QuietStep
<1>4. CASE SaveRequest(c)
  <2>1. PICK k \in Kinds : Becomes(c, [Idle EXCEPT !.pc = "open", !.op = "save", !.k = k])
    BY <1>4 DEF SaveRequest
  <2> DEFINE x == [Idle EXCEPT !.pc = "open", !.op = "save", !.k = k]
  <2>2. x \in Job /\ x.op = "save" /\ x.due = FALSE /\ x.pc = "open" /\ x.reply = "none"
    BY DEF Idle, Job, Kinds, Config, Bare
  <2>3. Becomes(c, x)
    BY <2>1
  <2> HIDE DEF x
  <2> QED
    BY <1>3, <2>2, <2>3
<1>5. CASE OpenConfig(c)
  <2> DEFINE x == [j EXCEPT !.pc = "select"]
  <2>1. x \in Job /\ x.op = "save" /\ x.due = j.due /\ x.pc = "select" /\ x.reply = "none"
    BY <1>1, <1>5 DEF OpenConfig, InItsPart, Job
  <2>2. Becomes(c, x)
    BY <1>5 DEF OpenConfig
  <2> HIDE DEF x
  <2> QED
    BY <1>3, <2>1, <2>2
<1>6. CASE SelectConfig(c)
  <2> DEFINE x == [j EXCEPT !.pc = "write", !.config = db[j.k]]
  <2>0. db[j.k] \in Config
    BY <1>1 DEF LookInv, KeptInv, TypeOK, Job
  <2>1. x \in Job /\ x.op = "save" /\ x.due = j.due /\ x.pc = "write" /\ x.reply = "none"
    BY <1>1, <1>6, <2>0 DEF SelectConfig, InItsPart, Job
  <2>2. Becomes(c, x)
    BY <1>6 DEF SelectConfig
  <2> HIDE DEF x
  <2> QED
    BY <1>3, <2>1, <2>2
<1>7. CASE SaveQueryResultToJSON(c)
  <2> DEFINE x == [j EXCEPT !.pc = "idle", !.reply = "ok"]
  <2>1. x \in Job /\ x.op = "save" /\ x.due = j.due /\ x.pc = "idle"
    BY <1>1, <1>7 DEF SaveQueryResultToJSON, InItsPart, Job
  <2>2. Becomes(c, x)
    BY <1>7 DEF SaveQueryResultToJSON, Replies
  <2> HIDE DEF x
  <2> QED
    BY <1>3, <2>1, <2>2
<1>8. CASE SaveFails(c)
  <2> DEFINE x == [j EXCEPT !.pc = "idle", !.reply = "error"]
  <2>1. x \in Job /\ x.op = "save" /\ x.due = j.due /\ x.pc = "idle"
    BY <1>1, <1>8 DEF SaveFails, InItsPart, Job
  <2>2. Becomes(c, x)
    BY <1>8 DEF SaveFails, Replies
  <2> HIDE DEF x
  <2> QED
    BY <1>3, <2>1, <2>2
<1> QED
  BY <1>4, <1>5, <1>6, <1>7, <1>8 DEF Save

\* A request that reads: the one that looks alone finds the reader as it was left,
\* or fills it from the file.
LEMMA LookSees ==
  ASSUME LookInv, KeptInv', NEW c \in Callers, Look(c)
  PROVE  LookInv'
<1> DEFINE j == job[c]
           R == [initialized : {TRUE}, at : Kinds, config : Config]
<1>1. /\ j \in Job /\ InItsPart(j) /\ (j.due => "old" \in saved) /\ reader \in R
      /\ reader.at = "old" /\ file["old"].text \in Config
  BY DEF LookInv, KeptInv, TypeOK, Kinds, ConfigFile
<1>2. saved' = saved /\ damaged' = damaged
  BY DEF Look, ReadRequest, Lookup, Read, Assign, Take, LookAgain, ReplyHosts, ReplyPairs,
         ReplyPorts, ghosts, bounds
<1>3. /\ ~mixed => /\ used \subseteq {Bare, reader.config} /\ NothingThere(j, reader)
                   /\ crossed = {}
      /\ c \notin crossed /\ "old" \notin damaged => SeesConfig(j, reader)
  BY DEF LookInv
<1>4. j.due /\ "old" \notin damaged => Readable(file["old"]) /\ file["old"].text # Bare
  BY <1>1 DEF LookInv, KeptInv, FailureKeepsConfig
\* The handler begins to look.
<1>5. ASSUME NEW x \in Job, Becomes(c, x), x.pc = "lookup", x.due => "old" \in saved,
             x.op \in {"hosts", "master", "primaries"}, x.reply = "none",
             reader' = reader, used' = used, mixed' = (mixed \/ SomebodyLooks),
             crossed' \in {Crosses(c, crossed \ {c}), Crosses(c, crossed)}
      PROVE  LookInv'
  <2>1. InItsPart(x) /\ NothingThere(x, reader') /\ SeesConfig(x, reader')
    BY <1>5 DEF InItsPart, NothingThere, SeesConfig
  <2>2. /\ mixed => mixed'
        /\ ~mixed' => ~mixed /\ ~SomebodyLooks
        /\ ~mixed' => used' \subseteq {Bare, reader'.config}
    BY <1>3, <1>5
  <2>2a. /\ ~mixed' => crossed' = {}
         /\ crossed \ {c} \subseteq crossed'
         /\ SomebodyLooks =>
              c \in crossed' /\ \A d \in Callers : job[d].pc \in Looking => d \in crossed'
    BY <1>3, <1>5, <2>2 DEF Crosses
  <2>3. reader'.at = "old" /\ reader'.config = reader.config
    BY <1>1, <1>5
  <2> QED
    BY <1>2, <1>5, <2>1, <2>2, <2>2a, <2>3, StepOfHandler
\* It goes on looking.
<1>6. ASSUME NEW x \in Job, Becomes(c, x), j.pc \in Looking, x.pc \in Looking,
             x.op = j.op, x.due = j.due, x.reply = j.reply,
             reader' = reader, used' = used, mixed' = mixed, crossed' = crossed,
             ~mixed => NothingThere(x, reader),
             c \notin crossed /\ "old" \notin damaged => SeesConfig(x, reader)
      PROVE  LookInv'
  <2>1. InItsPart(x)
    BY <1>1, <1>6 DEF InItsPart, Looking
  <2>2. reader'.at = "old" /\ reader'.config = reader.config
    BY <1>1, <1>6
  <2> QED
    BY <1>1, <1>2, <1>3, <1>6, <2>1, <2>2, StepOfHandler
<1>7. CASE ReadRequest(c)
  <2>1. PICK op \in {"hosts", "master", "primaries"} :
          /\ Becomes(c, [Idle EXCEPT !.pc = "lookup", !.op = op, !.due = "old" \in saved])
          /\ reader' = IF op = "hosts" THEN reader ELSE OfClusterConfig(reader, "old")
    BY <1>7 DEF ReadRequest
  <2>2. PICK b \in BOOLEAN : b = ("old" \in saved)
    <3> SUFFICES ("old" \in saved) \in BOOLEAN
      OBVIOUS
    <3> QED
      OBVIOUS
  <2> DEFINE x == [Idle EXCEPT !.pc = "lookup", !.op = op, !.due = b]
  <2>3. x \in Job /\ x.pc = "lookup" /\ x.due = b /\ x.op = op /\ x.reply = "none"
    BY DEF Idle, Job, Looking, Kinds, Config, Bare
  <2>4. Becomes(c, x)
    BY <2>1, <2>2
  <2>5. reader' = reader
    BY <2>1, ReaderLatched DEF Kinds, LookInv, KeptInv
  <2>6. /\ used' = used /\ mixed' = (mixed \/ SomebodyLooks)
        /\ crossed' = Crosses(c, crossed \ {c})
    BY <1>7 DEF ReadRequest
  <2> HIDE DEF x
  <2> QED
    BY <1>5, <2>2, <2>3, <2>4, <2>5, <2>6
<1>8. CASE LookAgain(c)
  <2> DEFINE x == [j EXCEPT !.pc = "lookup", !.k = "new", !.first = j.config]
  <2>1. x \in Job /\ x.pc = "lookup" /\ x.due = j.due /\ x.op = j.op /\ x.reply = j.reply
    BY <1>1 DEF Job, Looking, Kinds
  <2>2. j.op \in {"hosts", "master", "primaries"} /\ j.reply = "none"
    BY <1>1, <1>8 DEF LookAgain, InItsPart
  <2>3. /\ Becomes(c, x) /\ used' = used /\ mixed' = (mixed \/ SomebodyLooks)
        /\ crossed' = Crosses(c, crossed)
    BY <1>8 DEF LookAgain
  <2>4. reader' = reader
    BY <1>8, ReaderLatched DEF LookAgain, Kinds, LookInv, KeptInv
  <2> HIDE DEF x
  <2> QED
    BY <1>1, <1>5, <2>1, <2>2, <2>3, <2>4
<1>9. CASE Lookup(c)
  <2> DEFINE x == [j EXCEPT !.pc = IF reader.config # Bare THEN "take" ELSE "read"]
  <2>1. /\ x \in Job /\ x.op = j.op /\ x.due = j.due /\ x.reply = j.reply
        /\ x.pc = IF reader.config # Bare THEN "take" ELSE "read"
    BY <1>1 DEF Job, Looking
  <2>2. /\ Becomes(c, x) /\ UNCHANGED <<reader, used, mixed, crossed>> /\ j.pc = "lookup"
    BY <1>9 DEF Lookup, ghosts
  <2> HIDE DEF x
  <2>3. NothingThere(x, reader) /\ SeesConfig(x, reader) /\ j.pc \in Looking /\ x.pc \in Looking
    BY <2>1, <2>2 DEF NothingThere, SeesConfig, Looking
  <2> QED
    BY <1>6, <2>1, <2>2, <2>3
<1>10. CASE Read(c)
  <2>1. UNCHANGED <<reader, used, mixed, crossed>> /\ j.pc = "read"
    BY <1>10 DEF Read, ghosts
  <2>2. CASE Readable(file["old"])
    <3> DEFINE x == [j EXCEPT !.pc = "assign", !.config = file["old"].text]
    <3>1. /\ x \in Job /\ x.op = j.op /\ x.due = j.due /\ x.reply = j.reply
          /\ x.pc = "assign" /\ x.config = file["old"].text
      BY <1>1 DEF Job, Looking
    <3>2. Becomes(c, x)
      BY <1>1, <1>10, <2>2 DEF Read
    <3> HIDE DEF x
    <3>3. ~mixed => NothingThere(x, reader)
      BY <1>3, <2>1 DEF NothingThere
    <3>4. "old" \notin damaged => SeesConfig(x, reader)
      BY <1>4, <3>1 DEF SeesConfig
    <3>5. j.pc \in Looking /\ x.pc \in Looking
      BY <2>1, <3>1 DEF Looking
    <3> QED
      BY <1>6, <2>1, <3>1, <3>2, <3>3, <3>4, <3>5
  <2>3. CASE ~Readable(file["old"]) /\ j.op = "primaries"
    <3> DEFINE x == [j EXCEPT !.pc = "looked", !.config = Bare]
    <3>1. x \in Job /\ x.op = j.op /\ x.due = j.due /\ x.reply = j.reply /\ x.pc = "looked"
      BY <1>1 DEF Job, Config, Bare
    <3>2. Becomes(c, x)
      BY <1>1, <1>10, <2>3 DEF Read
    <3> HIDE DEF x
    <3>3. InItsPart(x) /\ x.pc \notin Looking /\ SeesConfig(x, reader)
      BY <1>1, <2>1, <2>3, <3>1 DEF InItsPart, Looking, SeesConfig
    <3> QED
      BY <1>1, <1>2, <2>1, <3>1, <3>2, <3>3, QuietStep
  <2>4. CASE ~Readable(file["old"]) /\ j.op # "primaries"
    <3> DEFINE x == [j EXCEPT !.pc = "idle", !.reply = "error"]
    <3>1. x \in Job /\ x.op = j.op /\ x.due = j.due /\ x.reply = "error" /\ x.pc = "idle"
      BY <1>1 DEF Job
    <3>2. Becomes(c, x)
      BY <1>1, <1>10, <2>4 DEF Read, Replies
    <3> HIDE DEF x
    <3>3. InItsPart(x) /\ x.pc \notin Looking
      BY <3>1 DEF InItsPart, Looking
    <3>4. "old" \notin damaged => SeesConfig(x, reader)
      BY <1>4, <2>4, <3>1 DEF SeesConfig
    <3> QED
      BY <1>1, <1>2, <2>1, <3>1, <3>2, <3>3, <3>4, QuietStep
  <2> QED
    BY <2>2, <2>3, <2>4
<1>11. CASE Assign(c)
  <2> DEFINE x == [j EXCEPT !.pc = "take"]
  <2>1. /\ x \in Job /\ x.op = j.op /\ x.due = j.due /\ x.reply = j.reply /\ x.pc = "take"
        /\ j.config \in Config
    BY <1>1 DEF Job, Looking
  <2>2. /\ Becomes(c, x) /\ used' = used /\ UNCHANGED <<mixed, crossed>> /\ j.pc = "assign"
        /\ reader' = [reader EXCEPT !.config = j.config]
    BY <1>11 DEF Assign, ghosts
  <2>3. reader'.at = "old" /\ reader'.config = j.config
    BY <1>1, <2>2
  <2> HIDE DEF x
  <2>4. InItsPart(x) /\ NothingThere(x, reader') /\ x.pc \in Looking /\ j.pc \in Looking
    BY <1>1, <2>1, <2>2 DEF InItsPart, NothingThere, Looking
  <2>5. c \notin crossed /\ "old" \notin damaged => SeesConfig(x, reader')
    BY <1>3, <2>1, <2>2, <2>3 DEF SeesConfig
  <2>6. ~mixed => used' \subseteq {Bare, reader'.config}
    BY <1>3, <2>2 DEF NothingThere
  <2> QED
    BY <1>1, <1>2, <1>3, <2>1, <2>2, <2>3, <2>4, <2>5, <2>6, StepOfHandler
<1>12. CASE Take(c)
  <2> DEFINE x == [j EXCEPT !.pc = "looked", !.config = reader.config]
  <2>1. /\ x \in Job /\ x.op = j.op /\ x.due = j.due /\ x.reply = j.reply
        /\ x.pc = "looked" /\ x.config = reader.config
    BY <1>1 DEF Job
  <2>2. /\ Becomes(c, x) /\ used' = used \cup {reader.config} /\ j.pc = "take"
        /\ UNCHANGED <<reader, mixed, crossed>>
    BY <1>12 DEF Take
  <2>3. reader'.at = "old" /\ reader'.config = reader.config
    BY <1>1, <2>2
  <2> HIDE DEF x
  <2>4. InItsPart(x) /\ NothingThere(x, reader') /\ x.pc \notin Looking
    BY <1>1, <2>1, <2>2 DEF InItsPart, NothingThere, Looking
  <2>5. c \notin crossed /\ "old" \notin damaged => SeesConfig(x, reader')
    BY <1>3, <2>1, <2>2, <2>3 DEF SeesConfig
  <2>6. ~mixed => used' \subseteq {Bare, reader'.config}
    BY <1>3, <2>2, <2>3
  <2> QED
    BY <1>1, <1>2, <1>3, <2>1, <2>2, <2>3, <2>4, <2>5, <2>6, StepOfHandler
<1>13. CASE ReplyHosts(c)
  <2> DEFINE x == [j EXCEPT !.pc = "idle", !.reply = "ok", !.first = j.config]
  <2>1. /\ x \in Job /\ x.op = j.op /\ x.due = j.due /\ x.reply = "ok" /\ x.pc = "idle"
        /\ x.first = j.config
    BY <1>1 DEF Job
  <2>2. /\ Becomes(c, x) /\ UNCHANGED <<reader, used, mixed, crossed>>
        /\ j.pc = "looked" /\ j.op = "hosts"
    BY <1>13 DEF ReplyHosts, ghosts
  <2> HIDE DEF x
  <2>3. InItsPart(x) /\ x.pc \notin Looking
    BY <2>1, <2>2 DEF InItsPart, Looking
  <2>4. c \notin crossed /\ "old" \notin damaged => SeesConfig(x, reader)
    BY <1>3, <2>1, <2>2 DEF SeesConfig
  <2> QED
    BY <1>1, <1>2, <2>1, <2>2, <2>3, <2>4, QuietStep
<1>14. CASE ReplyPairs(c)
  <2> DEFINE answer == IF CanPair(j.first, j.config) THEN "ok" ELSE "error"
             x == [j EXCEPT !.pc = "idle", !.second = j.config, !.reply = answer]
  <2>1. /\ x \in Job /\ x.op = j.op /\ x.due = j.due /\ x.reply = answer /\ x.pc = "idle"
        /\ x.first = j.first /\ x.second = j.config
    BY <1>1 DEF Job
  <2>2. /\ Becomes(c, x) /\ UNCHANGED <<reader, used, mixed, crossed>>
        /\ j.pc = "looked" /\ j.op = "primaries"
    BY <1>14 DEF ReplyPairs, ghosts
  <2> HIDE DEF x
  <2>3. InItsPart(x) /\ x.pc \notin Looking /\ SeesConfig(x, reader)
    BY <2>1, <2>2 DEF InItsPart, Looking, SeesConfig
  <2> QED
    BY <1>1, <1>2, <2>1, <2>2, <2>3, QuietStep
<1>15. CASE ReplyPorts(c)
  <2>1. j.pc = "looked" /\ j.op = "master" /\ UNCHANGED <<reader, used, mixed, crossed>>
    BY <1>15 DEF ReplyPorts, ghosts
  <2>2. ASSUME NEW x \in Job, Becomes(c, x), x.op = j.op, x.due = j.due, x.pc = "idle"
        PROVE  LookInv'
    <3>1. InItsPart(x) /\ x.pc \notin Looking /\ SeesConfig(x, reader)
      BY <2>1, <2>2 DEF InItsPart, Looking, SeesConfig
    <3> QED
      BY <1>1, <1>2, <2>1, <2>2, <3>1, QuietStep
  <2> DEFINE done == [j EXCEPT !.pc = "idle", !.second = j.config, !.reply = "ok"]
             fail == [j EXCEPT !.pc = "idle", !.reply = "error"]
  <2>3. /\ done \in Job /\ done.op = j.op /\ done.due = j.due /\ done.pc = "idle"
        /\ fail \in Job /\ fail.op = j.op /\ fail.due = j.due /\ fail.pc = "idle"
    BY <1>1 DEF Job
  <2>4. Becomes(c, done) \/ Becomes(c, fail)
    BY <1>15 DEF ReplyPorts, Replies
  <2> HIDE DEF done, fail
  <2> QED
    BY <2>2, <2>3, <2>4
<1> QED
  BY <1>7, <1>8, <1>9, <1>10, <1>11, <1>12, <1>13, <1>14, <1>15 DEF Look

\* What the handlers see is as LookInv says, at every moment.
LEMMA LookHolds == Spec => []LookInv
<1>1. Init => LookInv
  <2> SUFFICES ASSUME Init PROVE LookInv
    OBVIOUS
  <2>1. KeptInv
    BY KeptInit
  <2>2. reader.at = "old"
    BY DEF Init, OfClusterConfig, NewReader
  <2>3. \A c \in Callers : job[c] = Idle
    BY DEF Init
  <2>4. InItsPart(Idle) /\ NothingThere(Idle, reader) /\ SeesConfig(Idle, reader)
        /\ Idle.due = FALSE /\ Idle.pc \notin Looking
    BY DEF Idle, InItsPart, NothingThere, SeesConfig, Looking
  <2>5. LooksAlone
    BY <2>3, <2>4 DEF LooksAlone
  <2>6. used = {} /\ crossed = {}
    BY DEF Init
  <2> QED
    BY <2>1, <2>2, <2>3, <2>4, <2>5, <2>6 DEF LookInv
<1>2. LookInv /\ [Next]_vars => LookInv'
  <2> SUFFICES ASSUME LookInv, [Next]_vars PROVE LookInv'
    OBVIOUS
  <2>1. KeptInv'
    BY KeptStep DEF LookInv
  <2>2. ASSUME NEW c \in Callers, Save(c) PROVE LookInv'
    BY <2>1, <2>2, SaveSees
  <2>3. ASSUME NEW c \in Callers, Look(c) PROVE LookInv'
    BY <2>1, <2>3, LookSees
  <2>4. ASSUME NEW k \in Kinds, ClusterChanges(k) PROVE LookInv'
    <3>1. UNCHANGED <<reader, job, saved, damaged, used, mixed, crossed>>
      BY <2>4 DEF ClusterChanges, ghosts
    <3> QED
      BY <2>1, <3>1 DEF LookInv, LooksAlone
  <2>5. CASE HubRestart
    <3>1. reader'.at = "old" /\ used' = {} /\ crossed' = {}
      BY <2>5 DEF HubRestart, OfClusterConfig, NewReader
    <3>2. \A c \in Callers : job'[c] = Idle
      BY <2>5 DEF HubRestart
    <3>3. InItsPart(Idle) /\ NothingThere(Idle, reader') /\ SeesConfig(Idle, reader')
          /\ Idle.due = FALSE /\ Idle.pc \notin Looking
      BY DEF Idle, InItsPart, NothingThere, SeesConfig, Looking
    <3>4. LooksAlone'
      BY <3>2, <3>3 DEF LooksAlone
    <3> QED
      BY <2>1, <3>1, <3>2, <3>3, <3>4 DEF LookInv
  <2>6. CASE UNCHANGED vars
    <3>1. UNCHANGED <<reader, job, saved, damaged, used, mixed, crossed>>
      BY <2>6 DEF vars, ghosts
    <3> QED
      BY <2>1, <3>1 DEF LookInv, LooksAlone
  <2> QED
    BY <2>2, <2>3, <2>4, <2>5, <2>6 DEF Next, Quiescent
<1> QED
  BY <1>1, <1>2, PTL DEF Spec

\* The handlers of one life of the hub work with one configuration, however often
\* check-config writes another meanwhile, unless two of them have looked into the
\* reader at once.
THEOREM OneView == Spec => []OneViewPerLife
<1>1. LookInv => OneViewPerLife
  BY DEF LookInv, OneViewPerLife
<1> QED
  BY <1>1, LookHolds, PTL

\* A handler that asks for the hosts after check-config has written them gets
\* segments, although the hub was started with the bare configuration and whatever
\* the handlers before it have left in the reader, unless the file is damaged or
\* another handler looks into the reader during the request itself.
THEOREM FreshHubSees == Spec => []FreshHubSeesConfig
<1>1. LookInv => FreshHubSeesConfig
  BY DEF LookInv, FreshHubSeesConfig, SeesConfig
<1> QED
  BY <1>1, LookHolds, PTL

=============================================================================
