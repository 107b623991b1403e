----------------------------- MODULE AgentConns -----------------------------
(***************************************************************************)
(* The hub's cache of connections to the agents (hub/services/hub.go).     *)
(* Every RPC handler that talks to agents calls Hub.AgentConns, each in a  *)
(* goroutine of its own and without a lock: the first call dials the       *)
(* hosts one by one and appends each connection to h.agentConns, a later   *)
(* call finds the slice non-nil and only waits for what is in it.  An      *)
(* append is a load of the slice and a store of a longer one.              *)
(*                                                                         *)
(* A connection is represented by its host.  gRPC keeps the state of a     *)
(* connection up to date behind the hub's back, so `linked' follows        *)
(* `listening' with a delay.  The hosts come from the configuration        *)
(* reader, which has none until check-config has saved the configuration   *)
(* of the cluster in place of the bare one that prepare init writes.       *)
(***************************************************************************)
EXTENDS Naturals, Sequences

CONSTANTS
  Callers,    \* goroutines that may call AgentConns
  Hosts,      \* the hosts of the cluster
  Overlap,    \* may a call begin while another one has not returned?
  Passes,     \* passes of ensureConnsAreReady (3 in the code)
  MaxOutages  \* bound on how often an agent stops

ASSUME ConnsAssumption ==
  Hosts # {} /\ Overlap \in BOOLEAN /\ Passes \in Nat \ {0} /\ MaxOutages \in Nat

VARIABLES
  agentConns,  \* h.agentConns, the empty sequence being nil
  call,        \* call[c]: where caller c is in AgentConns, and its locals
  listening,   \* hosts whose agent serves
  linked,      \* hosts to which connections are in state Ready
  configured,  \* does the configuration the reader gets name the hosts?
  dialFailed,  \* history: has a dial ever failed?
  overlapped,  \* history: has a call ever begun while another one ran?
  outages

netVars == <<listening, linked, configured, outages>>
connGhosts == <<dialFailed, overlapped>>
connVars == <<agentConns, call, netVars, connGhosts>>

CallPC == {"idle", "enter", "dial", "load", "store", "ensure", "got", "failed"}

\* host and loaded are the connection being appended and the slice that was
\* read for it; conns is the slice that was returned.  For the properties, bare
\* says that the call got no host from GetHostnames.
Call == [pc : CallPC, todo : SUBSET Hosts, host : Hosts, loaded : Seq(Hosts),
         pass : 0..(Passes - 1), conns : Seq(Hosts), bare : BOOLEAN]

AnyHost == CHOOSE h \in Hosts : TRUE

NoCall == [pc |-> "idle", todo |-> {}, host |-> AnyHost, loaded |-> <<>>,
           pass |-> 0, conns |-> <<>>, bare |-> FALSE]

Connected(conns) == {conns[i] : i \in 1..Len(conns)}

ConnInit ==
  /\ agentConns = <<>>
  /\ call = [c \in Callers |-> NoCall]
  /\ listening = Hosts /\ linked = {} /\ outages = 0 /\ configured = FALSE
  /\ dialFailed = FALSE /\ overlapped = FALSE

---------------------------------------------------------------------------
(* Hub.AgentConns.                                                         *)

Becomes(c, state) == call' = [call EXCEPT ![c] = state]

Return(c, conns) == Becomes(c,
  [NoCall EXCEPT !.pc = "got", !.conns = conns, !.bare = call[c].bare])

ReturnError(c) == Becomes(c, [NoCall EXCEPT !.pc = "failed"])

\* A call is between its first and its last instruction.
Busy == \E c \in Callers : call[c].pc \notin {"idle", "got", "failed"}

CallAgentConns(c) ==
  /\ call[c].pc = "idle"
  /\ Overlap \/ ~Busy
  /\ Becomes(c, [NoCall EXCEPT !.pc = "enter"])
  /\ overlapped' = (overlapped \/ Busy)
  /\ UNCHANGED <<agentConns, netVars, dialFailed>>

\* A mutated Enter: the cache is never used, every call dials again.
AlwaysDial(c) ==
  /\ call[c].pc = "enter"
  /\ Becomes(c, [call[c] EXCEPT !.pc = "dial", !.todo = Hosts])
  /\ UNCHANGED <<agentConns, netVars, connGhosts>>

\* Is h.agentConns nil?  If so, GetHostnames returns the hosts, or none and no
\* error from the bare configuration, or the error of a file it cannot read.
Enter(c) ==
  /\ call[c].pc = "enter"
  /\ \/ /\ agentConns # <<>>
        /\ Becomes(c, [call[c] EXCEPT !.pc = "ensure"])
     \/ /\ agentConns = <<>> /\ configured
        /\ Becomes(c, [call[c] EXCEPT !.pc = "dial", !.todo = Hosts])
     \/ /\ agentConns = <<>> /\ ~configured
        /\ Becomes(c, [call[c] EXCEPT !.pc = "dial", !.bare = TRUE])
     \/ agentConns = <<>> /\ ReturnError(c)
  /\ UNCHANGED <<agentConns, netVars, connGhosts>>

\* A blocking dial ends with the connection Ready.
Dial(c) ==
  /\ call[c].pc = "dial"
  /\ \E h \in call[c].todo \cap listening :
       /\ Becomes(c, [call[c] EXCEPT
            !.pc = "load", !.host = h, !.todo = @ \ {h}])
       /\ linked' = linked \cup {h}
  /\ UNCHANGED <<agentConns, listening, configured, outages, connGhosts>>

\* A mutated DialTimeout: a host that cannot be dialed is skipped.
SkipHost(c) ==
  /\ call[c].pc = "dial"
  /\ \E h \in call[c].todo \ listening :
       Becomes(c, [call[c] EXCEPT !.todo = @ \ {h}])
  /\ UNCHANGED <<agentConns, netVars, connGhosts>>

\* It times out on a host that does not serve, and the call ends; what was
\* appended before stays in h.agentConns.
DialTimeout(c) ==
  /\ call[c].pc = "dial"
  /\ call[c].todo \ listening # {}
  /\ ReturnError(c)
  /\ dialFailed' = TRUE
  /\ UNCHANGED <<agentConns, netVars, overlapped>>

LoadConns(c) ==
  /\ call[c].pc = "load"
  /\ Becomes(c, [call[c] EXCEPT !.pc = "store", !.loaded = agentConns])
  /\ UNCHANGED <<agentConns, netVars, connGhosts>>

StoreConns(c) ==
  /\ call[c].pc = "store"
  /\ agentConns' = Append(call[c].loaded, call[c].host)
  /\ Becomes(c, [call[c] EXCEPT !.pc = "dial", !.loaded = <<>>])
  /\ UNCHANGED <<netVars, connGhosts>>

AllDialed(c) ==
  /\ call[c].pc = "dial" /\ call[c].todo = {}
  /\ Return(c, agentConns)
  /\ UNCHANGED <<agentConns, netVars, connGhosts>>

\* A mutated EnsureConnsAreReady: it sleeps and tries again without end.
EnsureForever(c) ==
  /\ call[c].pc = "ensure"
  /\ IF Connected(agentConns) \subseteq linked
     THEN Return(c, agentConns)
     ELSE call' = call
  /\ UNCHANGED <<agentConns, netVars, connGhosts>>

\* A mutated EnsureConnsAreReady: one pass too many.
EnsureOnceMore(c) ==
  /\ call[c].pc = "ensure"
  /\ \/ Connected(agentConns) \subseteq linked /\ Return(c, agentConns)
     \/ /\ ~(Connected(agentConns) \subseteq linked)
        /\ \/ /\ call[c].pass < Passes
              /\ Becomes(c, [call[c] EXCEPT !.pass = @ + 1])
           \/ call[c].pass = Passes /\ ReturnError(c)
  /\ UNCHANGED <<agentConns, netVars, connGhosts>>

\* One pass over the connections, then a pause or the end.
EnsureConnsAreReady(c) ==
  /\ call[c].pc = "ensure"
  /\ \/ Connected(agentConns) \subseteq linked /\ Return(c, agentConns)
     \/ /\ ~(Connected(agentConns) \subseteq linked)
        /\ \/ /\ call[c].pass + 1 < Passes
              /\ Becomes(c, [call[c] EXCEPT !.pass = @ + 1])
           \/ call[c].pass + 1 = Passes /\ ReturnError(c)
  /\ UNCHANGED <<agentConns, netVars, connGhosts>>

\* The steps of a call once it is under way.
ConnStep(c) ==
  \/ Enter(c) \/ Dial(c) \/ DialTimeout(c) \/ LoadConns(c) \/ StoreConns(c)
  \/ AllDialed(c) \/ EnsureConnsAreReady(c)

---------------------------------------------------------------------------
(* The agents and the connections, as the hub sees them.                   *)

AgentStops(h) ==
  /\ h \in listening /\ outages < MaxOutages
  /\ listening' = listening \ {h} /\ outages' = outages + 1
  /\ UNCHANGED <<agentConns, call, linked, configured, connGhosts>>

AgentStarts(h) ==
  /\ h \notin listening /\ listening' = listening \cup {h}
  /\ UNCHANGED <<agentConns, call, linked, configured, connGhosts, outages>>

LinkBreaks(h) ==
  /\ h \in linked \ listening /\ linked' = linked \ {h}
  /\ UNCHANGED <<agentConns, call, listening, configured, connGhosts, outages>>

\* gRPC reconnects the connections it has.
LinkMends(h) ==
  /\ h \in (listening \ linked) \cap Connected(agentConns) /\ linked' = linked \cup {h}
  /\ UNCHANGED <<agentConns, call, listening, configured, connGhosts, outages>>

\* check-config saves what the database says of the cluster; the reader reads
\* the file again as long as it has found nothing there.
ConfigSaved ==
  /\ ~configured /\ configured' = TRUE
  /\ UNCHANGED <<agentConns, call, listening, linked, outages, connGhosts>>

NetStep ==
  \/ \E h \in Hosts : AgentStops(h) \/ AgentStarts(h) \/ LinkBreaks(h) \/ LinkMends(h)
  \/ ConfigSaved

---------------------------------------------------------------------------
(* The cache by itself: a handler that does nothing with the connections.  *)

HandlerReturns(c) ==
  /\ call[c].pc \in {"got", "failed"} /\ Becomes(c, NoCall)
  /\ UNCHANGED <<agentConns, netVars, connGhosts>>

ConnNext ==
  \/ \E c \in Callers : CallAgentConns(c) \/ ConnStep(c) \/ HandlerReturns(c)
  \/ NetStep

ConnSpec == ConnInit /\ [][ConnNext]_connVars

\* The goroutine of a call is scheduled; nobody promises that agents come back.
ConnFairSpec == ConnSpec /\ \A c \in Callers : WF_connVars(ConnStep(c))

---------------------------------------------------------------------------
ConnTypeOK ==
  /\ agentConns \in Seq(Hosts)
  /\ call \in [Callers -> Call]
  /\ listening \subseteq Hosts /\ linked \subseteq Hosts /\ configured \in BOOLEAN
  /\ dialFailed \in BOOLEAN /\ overlapped \in BOOLEAN /\ outages \in 0..MaxOutages

\* A host has one connection at most, and is not sent every request twice, as
\* long as no two calls have overlapped: nothing else that agents and callers
\* do, a dial that fails half way included, makes the hub dial again.
OneConnPerHost ==
  ~overlapped => \A i, j \in 1..Len(agentConns) : agentConns[i] = agentConns[j] => i = j

\* A call that returns without an error returns a connection to every host,
\* as long as no dial has ever failed and no two calls have overlapped, unless
\* it found the bare configuration; a call that did leaves nothing behind that
\* would keep the next one, after check-config, from dialing the hosts.
AllHostsConnected ==
  \A c \in Callers : call[c].pc = "got" /\ ~dialFailed /\ ~overlapped
    => Connected(call[c].conns) = Hosts \/ call[c].bare

\* However calls overlap, dials fail and agents stop, the only call that
\* succeeds with nobody to talk to is one that found no host in the
\* configuration; a handler that has connections to ask never loses all of them.
NobodyOnlyIfBare == \A c \in Callers :
  call[c].pc = "got" => call[c].conns # <<>> \/ call[c].bare

\* Every call comes back: neither the dials nor the readiness passes go on
\* for ever, whatever the agents do.
CallsReturn == \A c \in Callers :
  (call[c].pc = "enter") ~> (call[c].pc \in {"got", "failed"})

---------------------------------------------------------------------------
(* Inductive invariants for the proofs.                                    *)

\* The slice is not nil any more for a call that is past the test for it, and
\* it never is nil again.
SliceInUse == \A c \in Callers :
  call[c].pc = "ensure" \/ (call[c].pc = "dial" /\ call[c].todo # Hosts /\ ~call[c].bare)
    => agentConns # <<>>

Dialing(c) == call[c].pc \in {"dial", "load", "store"}

\* The hosts that a call has still to append.
Pending(c) == call[c].todo \cup (IF call[c].pc = "dial" THEN {} ELSE {call[c].host})

\* The call that dials has the slice to itself: what is in it and what is still
\* to come are disjoint and make up the hosts, unless a dial has failed.  A call
\* that got no hosts leaves the slice nil.
Accounts(c) ==
  Dialing(c) =>
    /\ Connected(agentConns) \cap Pending(c) = {}
    /\ call[c].pc # "dial" => call[c].host \notin call[c].todo
    /\ call[c].pc = "store" => call[c].loaded = agentConns
    /\ dialFailed \/ call[c].bare \/ Connected(agentConns) \cup Pending(c) = Hosts
    /\ call[c].bare => agentConns = <<>> /\ call[c].pc = "dial" /\ call[c].todo = {}

SliceComplete ==
  agentConns # <<>> /\ (\A c \in Callers : ~Dialing(c))
    => dialFailed \/ Connected(agentConns) = Hosts

InCall(c) == call[c].pc \notin {"idle", "got", "failed"}

\* A call has found the bare configuration only once it is past the test.
BareLate == \A c \in Callers : call[c].pc \in {"idle", "enter"} =>
  ~call[c].bare /\ call[c].todo = {}

OneAtATime == \A c, d \in Callers : InCall(c) /\ InCall(d) => c = d

ConnInv ==
  /\ ConnTypeOK /\ NobodyOnlyIfBare /\ SliceInUse /\ BareLate
  /\ AllHostsConnected /\ OneConnPerHost
  /\ ~overlapped => OneAtATime /\ SliceComplete /\ \A c \in Callers : Accounts(c)

=============================================================================
