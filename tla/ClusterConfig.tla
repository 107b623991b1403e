--------------------------- MODULE ClusterConfig ---------------------------
(***************************************************************************)
(* The configurations of the two clusters: files in the state directory    *)
(* that check-config and init-cluster write from what the database says,   *)
(* and the hub's one reader, which all handlers share.                     *)
(*   file    It is opened without being truncated, so a configuration that *)
(*           is shorter than the one before leaves the end of that one     *)
(*           behind, and the text is no JSON any more; nor is it where a   *)
(*           write that fails has put down the beginning of another one.   *)
(*   reader  It keeps the first file it is pointed to (isInitialized) and  *)
(*           the first configuration with a segment it reads there.  Reads *)
(*           that overlap write the cache under a read lock.               *)
(* A configuration is its set of segments.                                 *)
(***************************************************************************)
EXTENDS Integers, FiniteSets

CONSTANTS
  Callers,     \* handlers of the hub
  Segment,     \* segments, records with cluster, content, dbid, host, pref
  Answers,     \* Answers[k]: what the database of cluster k may answer
  Size(_),     \* the length of a configuration as JSON
  MaxWrites,   \* bound on requests that write a configuration
  MaxReads,    \* bound on requests that read one
  MaxChanges,  \* bound on changes of a cluster
  MaxCrashes   \* bound on hub restarts

Kinds == {"old", "new"}

Config == SUBSET Segment

\* The configuration `prepare init' writes: it has no segments.
Bare == {}

ASSUME ConfigAssumption ==
  /\ Answers \in [Kinds -> SUBSET (Config \ {Bare})]
  /\ \A k \in Kinds : Answers[k] # {} /\ \A d \in Answers[k] : \A s \in d : s.cluster = k
  /\ \A d \in {Bare} \cup Answers["old"] \cup Answers["new"] : Size(d) \in Nat \ {0}
  /\ {MaxWrites, MaxReads, MaxChanges, MaxCrashes} \subseteq Nat

VARIABLES
  db,      \* db[k]: what the database of cluster k answers now
  file,    \* file[k]: the configuration file of cluster k
  reader,  \* the hub's configuration reader
  job,     \* job[c]: what caller c does
  saved,   \* history: kinds of which a configuration with segments was written
  damaged, \* history: kinds of which one was written over a longer one, or in part
  used,    \* history: the configurations handlers have worked with in this life
  mixed,   \* history: have two handlers looked into the reader at once?
  crossed, \* history: handlers during whose request another one looked as well
  writes, reads, changes, crashes

ghosts == <<saved, damaged, used, mixed, crossed>>
bounds == <<writes, reads, changes, crashes>>
vars == <<db, file, reader, job, ghosts, bounds>>

\* text is what was written last, from the beginning of the file; torn, that part
\* of another text was written over it.
NoFile == [exists |-> FALSE, text |-> Bare, len |-> 0, torn |-> FALSE]

Longer(m, n) == IF m > n THEN m ELSE n

Written(f, d) == [exists |-> TRUE, text |-> d, len |-> Longer(Size(d), f.len), torn |-> FALSE]

WrittenInPart(f, n) == [f EXCEPT !.len = Longer(n, f.len), !.torn = TRUE]

\* json.Unmarshal refuses an empty file, anything after the object, and a text of
\* which the beginning belongs to another one.
Readable(f) == f.exists /\ ~f.torn /\ f.len = Size(f.text)

---------------------------------------------------------------------------
(* configutils.Reader.                                                     *)

NewReader == [initialized |-> FALSE, at |-> "old", config |-> Bare]

\* A mutated OfClusterConfig: the reader is pointed to a file by every call.
PointAnew(rd, k) == [initialized |-> TRUE, at |-> k, config |-> Bare]

\* A mutated OfClusterConfig: isInitialized is not set.
NeverLatched(rd, k) ==
  IF rd.initialized THEN rd ELSE [initialized |-> FALSE, at |-> k, config |-> Bare]

\* OfOldClusterConfig and OfNewClusterConfig.
OfClusterConfig(rd, k) ==
  IF rd.initialized THEN rd ELSE [initialized |-> TRUE, at |-> k, config |-> Bare]

\* The hub has just been started, after `prepare init' (DoInit).
Idle == [pc |-> "idle", op |-> "none", k |-> "old", config |-> Bare,
         first |-> Bare, second |-> Bare, reply |-> "none", due |-> FALSE]

Init ==
  /\ \E o \in Answers["old"], n \in Answers["new"] :
       db = [k \in Kinds |-> IF k = "old" THEN o ELSE n]
  /\ file = [k \in Kinds |-> IF k = "old" THEN Written(NoFile, Bare) ELSE NoFile]
  /\ reader = OfClusterConfig(NewReader, "old")
  /\ job = [c \in Callers |-> Idle]
  /\ saved = {} /\ damaged = {} /\ used = {} /\ mixed = FALSE /\ crossed = {}
  /\ writes = 0 /\ reads = 0 /\ changes = 0 /\ crashes = 0

Becomes(c, state) == job' = [job EXCEPT ![c] = state]

\* The handler replies; what it has worked with stays on record.
Replies(c, reply) == Becomes(c, [job[c] EXCEPT !.pc = "idle", !.reply = reply])

---------------------------------------------------------------------------
(* CheckConfig (old) and PrepareInitCluster (new).  Either may fail to     *)
(* connect, to open, to select or to write.                                *)

SaveRequest(c) ==
  /\ job[c].pc = "idle" /\ writes < MaxWrites /\ writes' = writes + 1
  /\ \E k \in Kinds : Becomes(c, [Idle EXCEPT !.pc = "open", !.op = "save", !.k = k])
  /\ UNCHANGED <<db, file, reader, ghosts, reads, changes, crashes>>

\* A mutated OpenConfig: the file is opened with O_TRUNC.
OpenTruncated(c) ==
  /\ job[c].pc = "open"
  /\ file' = [file EXCEPT ![job[c].k] = [NoFile EXCEPT !.exists = TRUE]]
  /\ Becomes(c, [job[c] EXCEPT !.pc = "select"])
  /\ UNCHANGED <<db, reader, ghosts, bounds>>

OpenConfig(c) ==
  /\ job[c].pc = "open"
  /\ file' = [file EXCEPT ![job[c].k] = [file[job[c].k] EXCEPT !.exists = TRUE]]
  /\ Becomes(c, [job[c] EXCEPT !.pc = "select"])
  /\ UNCHANGED <<db, reader, ghosts, bounds>>

SelectConfig(c) ==
  /\ job[c].pc = "select"
  /\ Becomes(c, [job[c] EXCEPT !.pc = "write", !.config = db[job[c].k]])
  /\ UNCHANGED <<db, file, reader, ghosts, bounds>>

SaveQueryResultToJSON(c) ==
  LET k == job[c].k
      d == job[c].config
  IN /\ job[c].pc = "write"
     /\ file' = [file EXCEPT ![k] = Written(file[k], d)]
     /\ saved' = saved \cup {k}
     /\ damaged' = IF Size(d) < file[k].len THEN damaged \cup {k} ELSE damaged
     /\ Replies(c, "ok")
     /\ UNCHANGED <<db, reader, used, mixed, crossed, bounds>>

\* Write may have put down n bytes of the text before it fails.
SaveFails(c) ==
  LET k == job[c].k
  IN /\ job[c].pc \in {"open", "select", "write"} /\ Replies(c, "error")
     /\ \/ UNCHANGED <<file, damaged>>
        \/ /\ job[c].pc = "write" /\ damaged' = damaged \cup {k}
           /\ \E n \in 1..(Size(job[c].config) - 1) :
                file' = [file EXCEPT ![k] = WrittenInPart(file[k], n)]
     /\ UNCHANGED <<db, reader, saved, used, mixed, crossed, bounds>>

---------------------------------------------------------------------------
(* The handlers that read.  hosts: the steps that need the host names;     *)
(* master and primaries: getMasterPorts and getDataDirPairs, which point   *)
(* the reader to the old file, look, point it to the new one and look      *)
(* again.                                                                  *)

Looking == {"lookup", "read", "assign", "take"}

SomebodyLooks == \E c \in Callers : job[c].pc \in Looking

\* Handler c begins to look.  If others do, they and c look at once.
Crosses(c, before) ==
  IF SomebodyLooks THEN before \cup {c} \cup {d \in Callers : job[d].pc \in Looking} ELSE before

\* due, for the properties: an old configuration was saved before.
ReadRequest(c) ==
  /\ job[c].pc = "idle" /\ reads < MaxReads /\ reads' = reads + 1
  /\ \E op \in {"hosts", "master", "primaries"} :
       /\ Becomes(c, [Idle EXCEPT !.pc = "lookup", !.op = op, !.due = "old" \in saved])
       /\ reader' = IF op = "hosts" THEN reader ELSE OfClusterConfig(reader, "old")
  /\ mixed' = (mixed \/ SomebodyLooks)
  /\ crossed' = Crosses(c, crossed \ {c})
  /\ UNCHANGED <<db, file, saved, damaged, used, writes, changes, crashes>>

\* A mutated Lookup: a configuration is read once, with segments or without.
LookupOnce(c) ==
  /\ job[c].pc = "lookup"
  /\ Becomes(c, [job[c] EXCEPT !.pc =
       IF reader.config # Bare \/ used # {} THEN "take" ELSE "read"])
  /\ UNCHANGED <<db, file, reader, ghosts, bounds>>

\* The cache is good if it has a segment.
Lookup(c) ==
  /\ job[c].pc = "lookup"
  /\ Becomes(c, [job[c] EXCEPT !.pc = IF reader.config # Bare THEN "take" ELSE "read"])
  /\ UNCHANGED <<db, file, reader, ghosts, bounds>>

\* Without a configuration there are no host names and no port, but a nil
\* configuration goes into the pairing as an empty one.
Read(c) ==
  /\ job[c].pc = "read"
  /\ \/ /\ Readable(file[reader.at])
        /\ Becomes(c, [job[c] EXCEPT !.pc = "assign", !.config = file[reader.at].text])
     \/ /\ ~Readable(file[reader.at]) /\ job[c].op = "primaries"
        /\ Becomes(c, [job[c] EXCEPT !.pc = "looked", !.config = Bare])
     \/ ~Readable(file[reader.at]) /\ job[c].op # "primaries" /\ Replies(c, "error")
  /\ UNCHANGED <<db, file, reader, ghosts, bounds>>

Assign(c) ==
  /\ job[c].pc = "assign"
  /\ reader' = [reader EXCEPT !.config = job[c].config]
  /\ Becomes(c, [job[c] EXCEPT !.pc = "take"])
  /\ UNCHANGED <<db, file, ghosts, bounds>>

\* What is taken is what is in the reader now.
Take(c) ==
  /\ job[c].pc = "take"
  /\ used' = used \cup {reader.config}
  /\ Becomes(c, [job[c] EXCEPT !.pc = "looked", !.config = reader.config])
  /\ UNCHANGED <<db, file, reader, saved, damaged, mixed, crossed, bounds>>

ReplyHosts(c) ==
  /\ job[c].pc = "looked" /\ job[c].op = "hosts"
  /\ Becomes(c, [job[c] EXCEPT !.pc = "idle", !.reply = "ok", !.first = job[c].config])
  /\ UNCHANGED <<db, file, reader, ghosts, bounds>>

\* GetPortForSegment(1) finds a port.
HasPort(d) == \E s \in d : s.dbid = 1

\* The first look is done; the reader is pointed to the new cluster.
LookAgain(c) ==
  /\ job[c].pc = "looked" /\ job[c].k = "old"
  /\ \/ job[c].op = "primaries"
     \/ job[c].op = "master" /\ HasPort(job[c].config)
  /\ Becomes(c, [job[c] EXCEPT !.pc = "lookup", !.k = "new", !.first = job[c].config])
  /\ reader' = OfClusterConfig(reader, "new")
  /\ mixed' = (mixed \/ SomebodyLooks)
  /\ crossed' = Crosses(c, crossed)
  /\ UNCHANGED <<db, file, saved, damaged, used, bounds>>

Primaries(d) == {s \in d : s.pref = "p" /\ s.content # -1}

\* An old and a new primary that go together.
Match(s, t) == s.content = t.content /\ s.host = t.host

Pairs(old, new) ==
  {p \in Primaries(old) \X Primaries(new) : Match(p[1], p[2])}

CanPair(old, new) ==
  \A s \in Primaries(old) : \E t \in Primaries(new) : Match(s, t)

ReplyPairs(c) ==
  /\ job[c].pc = "looked" /\ job[c].op = "primaries" /\ job[c].k = "new"
  /\ Becomes(c, [job[c] EXCEPT !.pc = "idle", !.second = job[c].config,
       !.reply = IF CanPair(job[c].first, job[c].config) THEN "ok" ELSE "error"])
  /\ UNCHANGED <<db, file, reader, ghosts, bounds>>

ReplyPorts(c) ==
  /\ job[c].pc = "looked" /\ job[c].op = "master"
  /\ \/ ~HasPort(job[c].config) /\ Replies(c, "error")
     \/ /\ HasPort(job[c].config) /\ job[c].k = "new"
        /\ Becomes(c, [job[c] EXCEPT !.pc = "idle", !.second = job[c].config, !.reply = "ok"])
  /\ UNCHANGED <<db, file, reader, ghosts, bounds>>

---------------------------------------------------------------------------
\* Segments fail over, or the cluster is expanded.
ClusterChanges(k) ==
  /\ changes < MaxChanges /\ changes' = changes + 1
  /\ \E d \in Answers[k] \ {db[k]} : db' = [db EXCEPT ![k] = d]
  /\ UNCHANGED <<file, reader, job, ghosts, writes, reads, crashes>>

HubRestart ==
  /\ crashes < MaxCrashes /\ crashes' = crashes + 1
  /\ reader' = OfClusterConfig(NewReader, "old")
  /\ job' = [c \in Callers |-> Idle]
  /\ used' = {} /\ mixed' = FALSE /\ crossed' = {}
  /\ UNCHANGED <<db, file, saved, damaged, writes, reads, changes>>

\* Nobody asks: the only way to rest.
Quiescent == (\A c \in Callers : job[c].pc = "idle") /\ UNCHANGED vars

Save(c) ==
  SaveRequest(c) \/ OpenConfig(c) \/ SelectConfig(c) \/ SaveQueryResultToJSON(c) \/ SaveFails(c)

Look(c) ==
  \/ ReadRequest(c) \/ Lookup(c) \/ Read(c) \/ Assign(c) \/ Take(c) \/ LookAgain(c)
  \/ ReplyHosts(c) \/ ReplyPairs(c) \/ ReplyPorts(c)

Next ==
  \/ \E c \in Callers : Save(c) \/ Look(c)
  \/ \E k \in Kinds : ClusterChanges(k)
  \/ HubRestart
  \/ Quiescent

Spec == Init /\ [][Next]_vars

---------------------------------------------------------------------------
Job == [pc : {"idle", "open", "select", "write", "looked"} \cup Looking,
        op : {"none", "save", "hosts", "master", "primaries"}, k : Kinds,
        config : Config, first : Config, second : Config,
        reply : {"none", "ok", "error"}, due : BOOLEAN]

ConfigFile == [exists : BOOLEAN, text : Config, len : Nat, torn : BOOLEAN]

TypeOK ==
  /\ db \in [Kinds -> Config]
  /\ file \in [Kinds -> ConfigFile]
  /\ reader \in [initialized : {TRUE}, at : Kinds, config : Config]
  /\ job \in [Callers -> Job]
  /\ saved \subseteq Kinds /\ damaged \subseteq Kinds /\ used \subseteq Config
  /\ mixed \in BOOLEAN /\ crossed \subseteq Callers
  /\ writes \in 0..MaxWrites /\ reads \in 0..MaxReads
  /\ changes \in 0..MaxChanges /\ crashes \in 0..MaxCrashes

\* A configuration that was written can be read at every moment from then on:
\* a later request that fails, or dies with the hub, between the opening of the
\* file and the writing of it leaves it whole.  Unless a shorter one was written
\* over it, or a write put down only part of its text.
FailureKeepsConfig == \A k \in saved \ damaged : Readable(file[k]) /\ file[k].text # Bare

\* A hub that was started, and asked, when there was only the bare configuration
\* of `prepare init' is not stuck with it: once check-config has written one,
\* whoever asks gets segments, also if handlers that looked at once before have put
\* the bare one back over the other in the reader.  Only a handler during whose own
\* request another one looks may get the bare one.
FreshHubSeesConfig == \A c \in Callers \ crossed :
  job[c].due /\ job[c].op = "hosts" /\ job[c].pc = "idle" /\ "old" \notin damaged
    => job[c].reply = "ok" /\ job[c].first # Bare

\* All the handlers of one life of the hub work with one configuration, however
\* often check-config is run meanwhile, unless two of them looked at once.
OneViewPerLife ==
  ~mixed => \A d, e \in used \ {Bare} : d = e

---------------------------------------------------------------------------
(* The inductive invariant of FailureKeepsConfig.                          *)

\* What is written comes from a database, and so has segments and a length.
FromDatabase ==
  /\ \A k \in Kinds : db[k] \in Answers[k]
  /\ \A c \in Callers : job[c].pc = "write" => job[c].config \in Answers[job[c].k]

KeptInv == TypeOK /\ FromDatabase /\ FailureKeepsConfig

(* The inductive invariant of what the handlers see.                       *)

\* A handler is in the part of the code that its request is for, and replies
\* once.
InItsPart(j) ==
  /\ j.pc \in {"open", "select", "write"} => j.op = "save"
  /\ j.pc \in Looking \cup {"looked"} => j.op \in {"hosts", "master", "primaries"}
  /\ j.pc # "idle" => j.reply = "none"

\* A handler that has not crossed another one looks alone; while all do, the reader
\* is written only by the one that has found nothing in it.
LooksAlone == \A c \in Callers \ crossed, d \in Callers :
  job[c].pc \in Looking /\ job[d].pc \in Looking => c = d

NothingThere(j, rd) == j.pc \in {"read", "assign"} => rd.config = Bare

\* A handler that asks after check-config has segments in its hands at each
\* point, as long as the file is not damaged.
SeesConfig(j, rd) ==
  j.due /\ j.op = "hosts" =>
    /\ j.pc \in {"assign", "looked"} => j.config # Bare
    /\ j.pc = "take" => rd.config # Bare
    /\ j.pc = "idle" => j.reply = "ok" /\ j.first # Bare

\* The reader never leaves the file it was first pointed to.
LookInv ==
  /\ KeptInv /\ reader.at = "old"
  /\ \A c \in Callers : InItsPart(job[c]) /\ (job[c].due => "old" \in saved)
  /\ LooksAlone
  /\ "old" \notin damaged => \A c \in Callers \ crossed : SeesConfig(job[c], reader)
  /\ ~mixed =>
       /\ crossed = {} /\ used \subseteq {Bare, reader.config}
       /\ \A c \in Callers : NothingThere(job[c], reader)

---------------------------------------------------------------------------
(* What the repository says, and what the code does not do.                *)

\* "returns an error if new config does not contain all the same content as the
\* old config": without an error, the primaries are paired with the new ones.
PairedWithNew == \A c \in Callers :
  job[c].op = "primaries" /\ job[c].reply = "ok" =>
    \A p \in Pairs(job[c].first, job[c].second) : p[2].cluster = "new"

=============================================================================
