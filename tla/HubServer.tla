------------------------------ MODULE HubServer ------------------------------
(***************************************************************************)
(* Hub processes and the calls that command lines make to them.            *)
(* A hub listens on its one port or dies (Hub.Start), and serves every     *)
(* call in a goroutine of its own.  A call of a generated client stub goes *)
(* to whichever hub has the port, waits in the backlog while that hub      *)
(* listens and does not serve yet, and ends in a reply or in an error; a   *)
(* hub that dies ends all of its calls in an error.                        *)
(***************************************************************************)
EXTENDS Naturals

CONSTANTS
  Procs,     \* command lines, each with one call at a time
  Hubs,      \* hub processes there may be, each living once
  ByHand,    \* those that are not started by gpupgrade, and with arguments
  MaxFaults  \* bound on hubs and command lines that are killed, and on outages

ASSUME ServerAssumption == ByHand \subseteq Hubs /\ MaxFaults \in Nat

VARIABLES
  hub,     \* hub[h]: what hub process h is doing
  port,    \* the hub that has the port, in a set of one, or nobody
  call,    \* call[p]: the call of command line p, on both sides
  died,    \* history: has a hub been killed, or died in a handler?
  faults

serverVars == <<hub, port, call, died, faults>>

Alive == {h \in Hubs : hub[h] \in {"boot", "listening", "serving"}}

\* What both sides agree on: the service descriptor of the hub.
Methods ==
  {"Ping", "StatusUpgrade", "StatusConversion", "CheckConfig", "CheckSeginstall",
   "CheckObjectCount", "CheckVersion", "CheckDiskSpace", "PrepareInitCluster",
   "PrepareShutdownClusters", "UpgradeConvertMaster", "PrepareStartAgents",
   "UpgradeShareOids", "UpgradeValidateStartCluster", "UpgradeConvertPrimaries",
   "UpgradeReconfigurePorts"}

\* at is the hub that was called; todo, cur and lines are locals of the handlers:
\* the hosts or databases left, the one they are at, and the lines of the reply
\* so far.  For the properties, told is what the handler was told from outside.
NoCall == [pc |-> "none", method |-> "Ping", at |-> {},
           todo |-> {}, cur |-> {}, lines |-> {}, told |-> {}]

CallBecomes(p, state) == call' = [call EXCEPT ![p] = state]

Over(p) == call[p].pc \in {"none", "ok", "error"}

\* No hub yet, or one that was started by hand and has been serving for some time.
ServerInit ==
  /\ \E up \in SUBSET ByHand :
       /\ up = {} \/ \E h \in Hubs : up = {h}
       /\ hub = [h \in Hubs |-> IF h \in up THEN "serving" ELSE "none"] /\ port = up
  /\ call = [p \in Procs |-> NoCall]
  /\ died = FALSE /\ faults = 0

---------------------------------------------------------------------------
(* Hub.Start.                                                              *)

\* A mutated Listen: the error of net.Listen is logged, and the hub goes on.
ListenAnyway(h) ==
  /\ hub[h] = "boot"
  /\ hub' = [hub EXCEPT ![h] = "listening"]
  /\ port' = IF port = {} THEN {h} ELSE port
  /\ UNCHANGED <<call, died, faults>>

\* gplog.Fatal ends the process that does not get the port.
Listen(h) ==
  /\ hub[h] = "boot"
  /\ \/ port = {} /\ port' = {h} /\ hub' = [hub EXCEPT ![h] = "listening"]
     \/ port # {} /\ port' = port /\ hub' = [hub EXCEPT ![h] = "dead"]
  /\ UNCHANGED <<call, died, faults>>

Serve(h) ==
  /\ hub[h] = "listening"
  /\ hub' = [hub EXCEPT ![h] = "serving"]
  /\ UNCHANGED <<port, call, died, faults>>

\* The end of a process, whatever ends it: its calls fail, the port is free.
HubDies(h) ==
  /\ hub' = [hub EXCEPT ![h] = "dead"]
  /\ port' = port \ {h}
  /\ call' = [p \in Procs |-> IF call[p].at = {h} /\ ~Over(p)
                              THEN [NoCall EXCEPT !.pc = "error"] ELSE call[p]]
  /\ died' = TRUE

Fault == faults < MaxFaults /\ faults' = faults + 1

HubIsKilled(h) == h \in Alive /\ Fault /\ HubDies(h)

---------------------------------------------------------------------------
(* The stubs of the client and the handlers of the service.                *)

\* grpc.Dial does not wait for a connection; the call does, and fails if
\* nobody listens.
Invoke(p, method) ==
  CallBecomes(p, IF port = {} THEN [NoCall EXCEPT !.pc = "error"]
                 ELSE [NoCall EXCEPT !.pc = "sent", !.method = method, !.at = port])

Registered(method) == method \in Methods

\* The handler of the method begins.
Dispatch(p) ==
  /\ call[p].pc = "sent" /\ \A h \in call[p].at : hub[h] = "serving"
  /\ CallBecomes(p, [call[p] EXCEPT !.pc = IF Registered(call[p].method) THEN "begin" ELSE "error"])
  /\ UNCHANGED <<hub, port, died, faults>>

Handling(p, method, pc) == call[p].pc = pc /\ call[p].method = method

ReplyOK(p, lines) == CallBecomes(p, [call[p] EXCEPT !.pc = "ok", !.lines = lines])

ReplyError(p) == CallBecomes(p, [NoCall EXCEPT !.pc = "error"])

HubStep(h) == Listen(h) \/ Serve(h)

ServerTypeOK ==
  /\ hub \in [Hubs -> {"none", "boot", "listening", "serving", "dead"}]
  /\ port \subseteq {h \in Hubs : hub[h] \in {"listening", "serving"}}
  /\ \A h, g \in port : h = g
  /\ DOMAIN call = Procs /\ \A p \in Procs : call[p].at \subseteq Hubs
  /\ died \in BOOLEAN /\ faults \in 0..MaxFaults

---------------------------------------------------------------------------
(* For the inductive invariant of CommandLine.                             *)

\* Whoever listens or serves has the port, a call that is not over is with it, and
\* one whose handler has begun with a hub that serves.
PortInv ==
  /\ \A h \in Hubs : hub[h] \in {"listening", "serving"} <=> h \in port
  /\ \A p \in Procs :
       /\ ~Over(p) => port # {} /\ call[p].at = port
       /\ call[p].pc \notin {"none", "sent", "ok", "error"} => \A h \in port : hub[h] = "serving"

=============================================================================
