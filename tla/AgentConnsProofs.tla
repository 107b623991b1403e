--------------------------- MODULE AgentConnsProofs ---------------------------
(***************************************************************************)
(* The cache of connections, for any hosts, callers, passes and outages:   *)
(* what every interleaving of calls keeps, and what the calls that do not  *)
(* overlap keep on top of it.                                              *)
(***************************************************************************)
EXTENDS AgentConns, TLAPS

\* The state of a goroutine outside of AgentConns; there is a host to name in it.
LEMMA NoCallTyped == NoCall \in Call /\ AnyHost \in Hosts
BY ConnsAssumption DEF NoCall, Call, CallPC, AnyHost

\* One goroutine moves, the others are where they were.
LEMMA CallersStay ==
  ASSUME ConnTypeOK, NEW c \in Callers, NEW state \in Call, Becomes(c, state)
  PROVE  /\ call' \in [Callers -> Call]
         /\ call'[c] = state
         /\ \A d \in Callers : d # c => call'[d] = call[d]
BY DEF ConnTypeOK, Becomes

\* The hosts of a slice that one connection was appended to, and that it has
\* one for each host if it had and the host is new.
LEMMA AppendConnects ==
  ASSUME NEW conns \in Seq(Hosts), NEW h \in Hosts
  PROVE  /\ Append(conns, h) \in Seq(Hosts) /\ Append(conns, h) # <<>>
         /\ Connected(Append(conns, h)) = Connected(conns) \cup {h}
         /\ Connected(conns) \subseteq Hosts
<1>1. Append(conns, h) \in Seq(Hosts) /\ Len(Append(conns, h)) = Len(conns) + 1 /\ Len(conns) \in Nat
  OBVIOUS
<1>2. /\ \A i \in 1..Len(conns) : Append(conns, h)[i] = conns[i] /\ conns[i] \in Hosts
      /\ Append(conns, h)[Len(conns) + 1] = h
  OBVIOUS
<1>3. Append(conns, h) # <<>>
  BY <1>1
<1>4. Connected(Append(conns, h)) \subseteq Connected(conns) \cup {h}
  BY <1>1, <1>2 DEF Connected
<1>5. Connected(conns) \subseteq Connected(Append(conns, h))
  BY <1>1, <1>2 DEF Connected
<1>6. h \in Connected(Append(conns, h))
  BY <1>1, <1>2 DEF Connected
<1> QED  BY <1>1, <1>2, <1>3, <1>4, <1>5, <1>6 DEF Connected

\* A slice that has no host twice, and the one with a new host.
LEMMA AppendKeepsOne ==
  ASSUME NEW conns \in Seq(Hosts), NEW h \in Hosts, h \notin Connected(conns),
         \A i, j \in 1..Len(conns) : conns[i] = conns[j] => i = j
  PROVE  \A i, j \in 1..Len(Append(conns, h)) : Append(conns, h)[i] = Append(conns, h)[j] => i = j
<1>1. Len(Append(conns, h)) = Len(conns) + 1 /\ Len(conns) \in Nat
  OBVIOUS
<1>2. /\ \A i \in 1..Len(conns) : Append(conns, h)[i] = conns[i]
      /\ Append(conns, h)[Len(conns) + 1] = h
  OBVIOUS
<1>3. \A i \in 1..Len(conns) : conns[i] # h
  BY DEF Connected
<1> QED  BY <1>1, <1>2, <1>3

\* What a step of one goroutine has to show that leaves the slice alone.
LEMMA StepOfCaller ==
  ASSUME ConnInv, ConnTypeOK', NEW c \in Callers, NEW x \in Call, Becomes(c, x),
         agentConns' = agentConns, overlapped' = overlapped, dialFailed => dialFailed',
         x.pc = "got" => x.conns # <<>> \/ x.bare,
         x.pc = "ensure" \/ (x.pc = "dial" /\ x.todo # Hosts /\ ~x.bare) => agentConns # <<>>,
         x.pc \in {"idle", "enter"} => ~x.bare /\ x.todo = {},
         x.pc \notin {"idle", "got", "failed"} => InCall(c),
         ~overlapped => Accounts(c)',
         ~overlapped /\ x.pc = "got" /\ ~dialFailed' => Connected(x.conns) = Hosts \/ x.bare,
         ~overlapped /\ Dialing(c) /\ x.pc \notin {"dial", "load", "store"} /\ ~dialFailed'
           => Connected(agentConns) = Hosts \/ agentConns = <<>>
  PROVE  ConnInv'
<1>1. call'[c] = x /\ \A d \in Callers : d # c => call'[d] = call[d]
  BY CallersStay DEF ConnInv
<1>2. NobodyOnlyIfBare' /\ SliceInUse' /\ BareLate'
  BY <1>1 DEF ConnInv, NobodyOnlyIfBare, SliceInUse, BareLate
<1>3. OneConnPerHost'
  BY DEF ConnInv, OneConnPerHost
<1>4. AllHostsConnected'
  BY <1>1 DEF ConnInv, AllHostsConnected
<1>5. ASSUME ~overlapped PROVE OneAtATime' /\ SliceComplete' /\ \A d \in Callers : Accounts(d)'
  <2>1. OneAtATime'
    BY <1>1, <1>5 DEF ConnInv, OneAtATime, InCall
  <2>2. ASSUME NEW d \in Callers, d # c PROVE Accounts(d)'
    BY <1>1, <1>5, <2>2 DEF ConnInv, Accounts, Dialing, Pending
  <2>3. SliceComplete'
    <3>1. CASE Dialing(c)
      BY <1>1, <1>5, <3>1 DEF SliceComplete, Dialing
    <3>2. CASE ~Dialing(c)
      BY <1>1, <1>5, <3>2 DEF ConnInv, SliceComplete, Dialing
    <3> QED  BY <3>1, <3>2
  <2> QED  BY <1>5, <2>1, <2>2, <2>3
<1> QED  BY <1>2, <1>3, <1>4, <1>5 DEF ConnInv

\* The hub starts with no connections and no calls.
LEMMA ConnStart == ConnInit => ConnInv
<1> SUFFICES ASSUME ConnInit PROVE ConnInv
  OBVIOUS
<1>1. \A c \in Callers : call[c] = NoCall /\ call[c].pc = "idle" /\ ~call[c].bare /\ call[c].todo = {}
  BY DEF ConnInit, NoCall
<1>2. agentConns = <<>> /\ agentConns \in Seq(Hosts) /\ Len(agentConns) = 0
  BY DEF ConnInit
<1>3. ConnTypeOK
  <2>1. outages \in 0..MaxOutages  BY ConnsAssumption DEF ConnInit
  <2>2. call \in [Callers -> Call]  BY NoCallTyped DEF ConnInit
  <2> QED  BY <1>2, <2>1, <2>2 DEF ConnInit, ConnTypeOK
<1>4. NobodyOnlyIfBare /\ SliceInUse /\ AllHostsConnected /\ BareLate
  BY <1>1 DEF NobodyOnlyIfBare, SliceInUse, AllHostsConnected, BareLate
<1>5. OneConnPerHost
  BY <1>2 DEF OneConnPerHost
<1>6. OneAtATime /\ SliceComplete /\ \A c \in Callers : Accounts(c)
  BY <1>1, <1>2 DEF OneAtATime, InCall, SliceComplete, Accounts, Dialing
<1> QED  BY <1>3, <1>4, <1>5, <1>6 DEF ConnInv

\* A call begins: alone, or it is remembered that it was not.
LEMMA CallBegins ==
  ASSUME ConnInv, NEW c \in Callers, CallAgentConns(c)
  PROVE  ConnInv'
<1> DEFINE x == [NoCall EXCEPT !.pc = "enter"]
<1>1. x \in Call /\ x.pc = "enter" /\ ~x.bare /\ x.todo = {}
  <2>1. x \in Call /\ x.pc = "enter" /\ x.bare = NoCall.bare /\ x.todo = NoCall.todo
    BY NoCallTyped DEF Call, CallPC
  <2>2. ~NoCall.bare /\ NoCall.todo = {}
    BY DEF NoCall
  <2> QED  BY <2>1, <2>2
<1>2. /\ Becomes(c, x) /\ call[c].pc = "idle" /\ agentConns' = agentConns
      /\ dialFailed' = dialFailed /\ overlapped' = (overlapped \/ Busy)
      /\ listening' = listening /\ linked' = linked /\ outages' = outages
      /\ configured' = configured
  BY DEF CallAgentConns, netVars
<1> HIDE DEF x
<1>3. /\ call' \in [Callers -> Call] /\ call'[c] = x
      /\ \A d \in Callers : d # c => call'[d] = call[d]
  BY <1>1, <1>2, CallersStay DEF ConnInv
<1>4. overlapped' \in BOOLEAN
  BY <1>2 DEF ConnInv, ConnTypeOK, Busy
<1>5. ConnTypeOK'
  BY <1>2, <1>3, <1>4 DEF ConnInv, ConnTypeOK
<1>6. NobodyOnlyIfBare' /\ SliceInUse' /\ AllHostsConnected' /\ BareLate'
  BY <1>1, <1>2, <1>3 DEF ConnInv, NobodyOnlyIfBare, SliceInUse, AllHostsConnected, BareLate
<1>7. OneConnPerHost'
  BY <1>2 DEF ConnInv, OneConnPerHost
<1>8. ASSUME ~overlapped' PROVE OneAtATime' /\ SliceComplete' /\ \A d \in Callers : Accounts(d)'
  <2>1. ~overlapped /\ \A d \in Callers : ~InCall(d)
    BY <1>2, <1>8 DEF Busy, InCall
  <2>2. OneAtATime'
    BY <1>3, <2>1 DEF OneAtATime, InCall
  <2>3. \A d \in Callers : ~Dialing(d) /\ ~Dialing(d)'
    BY <1>1, <1>3, <2>1 DEF Dialing, InCall
  <2> QED  BY <1>2, <2>1, <2>2, <2>3 DEF ConnInv, SliceComplete, Accounts
<1> QED  BY <1>5, <1>6, <1>7, <1>8 DEF ConnInv

\* Every step of a call keeps the invariant.
LEMMA CallGoesOn ==
  ASSUME ConnInv, NEW c \in Callers, ConnStep(c)
  PROVE  ConnInv'
<1>0. ConnTypeOK /\ call[c] \in Call /\ agentConns \in Seq(Hosts) /\ call \in [Callers -> Call]
  BY DEF ConnInv, ConnTypeOK
<1>1. ASSUME NEW x \in Call, Becomes(c, x), agentConns' \in Seq(Hosts), linked' \subseteq Hosts,
             listening' = listening, configured' = configured, outages' = outages,
             overlapped' = overlapped, dialFailed' \in BOOLEAN
      PROVE  ConnTypeOK'
  <2>1. call' \in [Callers -> Call]  BY <1>0, <1>1, CallersStay
  <2> QED  BY <1>0, <1>1, <2>1 DEF ConnTypeOK
<1>2. CASE Enter(c)
  <2>1. /\ call[c].pc = "enter" /\ agentConns' = agentConns /\ linked' = linked
        /\ listening' = listening /\ outages' = outages /\ configured' = configured
        /\ overlapped' = overlapped /\ dialFailed' = dialFailed
    BY <1>2 DEF Enter, netVars, connGhosts
  <2> DEFINE x == [call[c] EXCEPT !.pc = "ensure"]
             y == [call[c] EXCEPT !.pc = "dial", !.todo = Hosts]
             z == [call[c] EXCEPT !.pc = "dial", !.bare = TRUE]
             w == [NoCall EXCEPT !.pc = "failed"]
  <2>2. /\ x \in Call /\ x.pc = "ensure"
        /\ y \in Call /\ y.pc = "dial" /\ y.todo = Hosts /\ y.bare = call[c].bare
        /\ z \in Call /\ z.pc = "dial" /\ z.todo = call[c].todo /\ z.bare = TRUE
        /\ w \in Call /\ w.pc = "failed"
    BY <1>0, NoCallTyped DEF Call, CallPC
  <2>3. \/ agentConns # <<>> /\ Becomes(c, x)
        \/ agentConns = <<>> /\ Becomes(c, y)
        \/ agentConns = <<>> /\ Becomes(c, z)
        \/ Becomes(c, w)
    BY <1>2 DEF Enter, ReturnError
  <2> HIDE DEF x, y, z, w
  <2>0. ~call[c].bare /\ call[c].todo = {}
    BY <2>1 DEF ConnInv, BareLate
  <2>4. CASE agentConns # <<>> /\ Becomes(c, x)
    <3>1. call'[c] = x  BY <1>0, <2>2, <2>4, CallersStay
    <3>2. ConnTypeOK'  BY <1>0, <1>1, <2>1, <2>2, <2>4 DEF ConnTypeOK
    <3>3. Accounts(c)'  BY <2>2, <3>1 DEF Accounts, Dialing
    <3> QED  BY <2>1, <2>2, <2>4, <3>2, <3>3, StepOfCaller DEF InCall, Dialing
  <2>5. CASE agentConns = <<>> /\ Becomes(c, y)
    <3>1. call'[c] = y  BY <1>0, <2>2, <2>5, CallersStay
    <3>2. ConnTypeOK'  BY <1>0, <1>1, <2>1, <2>2, <2>5 DEF ConnTypeOK
    <3>3. Connected(agentConns) = {}  BY <2>5 DEF Connected
    <3>4. Accounts(c)'  BY <2>0, <2>1, <2>2, <3>1, <3>3 DEF Accounts, Pending
    <3> QED  BY <2>1, <2>2, <2>5, <3>2, <3>4, StepOfCaller DEF InCall, Dialing
  <2>6. CASE agentConns = <<>> /\ Becomes(c, z)
    <3>1. call'[c] = z  BY <1>0, <2>2, <2>6, CallersStay
    <3>2. ConnTypeOK'  BY <1>0, <1>1, <2>1, <2>2, <2>6 DEF ConnTypeOK
    <3>3. Connected(agentConns) = {}  BY <2>6 DEF Connected
    <3>4. Accounts(c)'  BY <2>0, <2>1, <2>2, <2>6, <3>1, <3>3 DEF Accounts, Pending
    <3> QED  BY <2>1, <2>2, <2>6, <3>2, <3>4, StepOfCaller DEF InCall, Dialing
  <2>7. CASE Becomes(c, w)
    <3>1. call'[c] = w  BY <1>0, <2>2, <2>7, CallersStay
    <3>2. ConnTypeOK'  BY <1>0, <1>1, <2>1, <2>2, <2>7 DEF ConnTypeOK
    <3>3. Accounts(c)'  BY <2>2, <3>1 DEF Accounts, Dialing
    <3> QED  BY <2>1, <2>2, <2>7, <3>2, <3>3, StepOfCaller DEF Dialing
  <2> QED  BY <2>3, <2>4, <2>5, <2>6, <2>7
<1>3. CASE Dial(c)
  <2>1. PICK h \in call[c].todo \cap listening :
          /\ Becomes(c, [call[c] EXCEPT !.pc = "load", !.host = h, !.todo = @ \ {h}])
          /\ linked' = linked \cup {h}
    BY <1>3 DEF Dial
  <2>2. /\ call[c].pc = "dial" /\ agentConns' = agentConns
        /\ listening' = listening /\ outages' = outages /\ configured' = configured
        /\ overlapped' = overlapped /\ dialFailed' = dialFailed
    BY <1>3 DEF Dial, connGhosts
  <2> DEFINE x == [call[c] EXCEPT !.pc = "load", !.host = h, !.todo = @ \ {h}]
  <2>3. /\ Becomes(c, x) /\ x \in Call /\ x.pc = "load" /\ x.host = h
        /\ x.todo = call[c].todo \ {h} /\ h \in Hosts /\ x.bare = call[c].bare
    BY <1>0, <2>1 DEF Call, CallPC
  <2> HIDE DEF x
  <2>4. call'[c] = x  BY <1>0, <2>3, CallersStay
  <2>5. ConnTypeOK'  BY <1>0, <1>1, <2>1, <2>2, <2>3 DEF ConnTypeOK
  <2>6. Pending(c)' = Pending(c)
    BY <2>1, <2>2, <2>3, <2>4 DEF Pending
  <2>7. ~overlapped => Accounts(c)'
    BY <2>1, <2>2, <2>3, <2>4, <2>6 DEF ConnInv, Accounts, Dialing
  <2> QED  BY <2>2, <2>3, <2>5, <2>7, StepOfCaller DEF InCall
<1>4. CASE DialTimeout(c)
  <2>1. /\ Becomes(c, [NoCall EXCEPT !.pc = "failed"]) /\ dialFailed' = TRUE
        /\ agentConns' = agentConns /\ linked' = linked /\ listening' = listening
        /\ outages' = outages /\ overlapped' = overlapped /\ configured' = configured
    BY <1>4 DEF DialTimeout, ReturnError, netVars
  <2> DEFINE x == [NoCall EXCEPT !.pc = "failed"]
  <2>2. Becomes(c, x) /\ x \in Call /\ x.pc = "failed"
    BY <2>1, NoCallTyped DEF Call, CallPC
  <2> HIDE DEF x
  <2>3. call'[c] = x  BY <1>0, <2>2, CallersStay
  <2>4. ConnTypeOK'  BY <1>0, <1>1, <2>1, <2>2 DEF ConnTypeOK
  <2>5. Accounts(c)'  BY <2>2, <2>3 DEF Accounts, Dialing
  <2> QED  BY <2>1, <2>2, <2>4, <2>5, StepOfCaller
<1>5. CASE LoadConns(c)
  <2>1. /\ call[c].pc = "load" /\ agentConns' = agentConns /\ linked' = linked
        /\ listening' = listening /\ outages' = outages /\ configured' = configured
        /\ overlapped' = overlapped /\ dialFailed' = dialFailed
    BY <1>5 DEF LoadConns, netVars, connGhosts
  <2> DEFINE x == [call[c] EXCEPT !.pc = "store", !.loaded = agentConns]
  <2>2. /\ Becomes(c, x) /\ x \in Call /\ x.pc = "store" /\ x.loaded = agentConns
        /\ x.host = call[c].host /\ x.todo = call[c].todo /\ x.bare = call[c].bare
    BY <1>0, <1>5 DEF LoadConns, Call, CallPC
  <2> HIDE DEF x
  <2>3. call'[c] = x  BY <1>0, <2>2, CallersStay
  <2>4. ConnTypeOK'  BY <1>0, <1>1, <2>1, <2>2 DEF ConnTypeOK
  <2>5. Pending(c)' = Pending(c)  BY <2>1, <2>2, <2>3 DEF Pending
  <2>6. ~overlapped => Accounts(c)'
    BY <2>1, <2>2, <2>3, <2>5 DEF ConnInv, Accounts, Dialing
  <2> QED  BY <2>1, <2>2, <2>4, <2>6, StepOfCaller DEF InCall
<1>6. CASE StoreConns(c)
  <2>1. /\ call[c].pc = "store" /\ agentConns' = Append(call[c].loaded, call[c].host)
        /\ linked' = linked /\ listening' = listening /\ outages' = outages /\ configured' = configured
        /\ overlapped' = overlapped /\ dialFailed' = dialFailed
    BY <1>6 DEF StoreConns, netVars, connGhosts
  <2> DEFINE x == [call[c] EXCEPT !.pc = "dial", !.loaded = <<>>]
  <2>2. /\ Becomes(c, x) /\ x \in Call /\ x.pc = "dial" /\ x.todo = call[c].todo
        /\ x.bare = call[c].bare
    <3>1. ASSUME NEW none \in Seq(Hosts)
          PROVE  LET y == [call[c] EXCEPT !.pc = "dial", !.loaded = none]
                 IN  y \in Call /\ y.pc = "dial" /\ y.todo = call[c].todo /\ y.bare = call[c].bare
      BY <1>0 DEF Call, CallPC
    <3>2. <<>> \in Seq(Hosts)  OBVIOUS
    <3>3. x \in Call /\ x.pc = "dial" /\ x.todo = call[c].todo /\ x.bare = call[c].bare
      BY <3>1, <3>2
    <3> QED  BY <1>6, <3>3 DEF StoreConns
  <2> HIDE DEF x
  <2>3. call[c].loaded \in Seq(Hosts) /\ call[c].host \in Hosts
    BY <1>0 DEF Call
  <2>4. agentConns' \in Seq(Hosts) /\ agentConns' # <<>>
    BY <2>1, <2>3, AppendConnects
  <2>5. call'[c] = x /\ \A d \in Callers : d # c => call'[d] = call[d]
    BY <1>0, <2>2, CallersStay
  <2>6. ConnTypeOK'  BY <1>0, <1>1, <2>1, <2>2, <2>4 DEF ConnTypeOK
  <2>7. NobodyOnlyIfBare' /\ SliceInUse' /\ AllHostsConnected' /\ BareLate'
    <3>1. NobodyOnlyIfBare'  BY <2>2, <2>5 DEF ConnInv, NobodyOnlyIfBare
    <3>2. SliceInUse'  BY <2>4 DEF SliceInUse
    <3>3. AllHostsConnected'  BY <2>1, <2>2, <2>5 DEF ConnInv, AllHostsConnected
    <3>4. BareLate'  BY <2>2, <2>5 DEF ConnInv, BareLate
    <3> QED  BY <3>1, <3>2, <3>3, <3>4
  <2>8. ASSUME ~overlapped
        PROVE  /\ \A i, j \in 1..Len(agentConns') : agentConns'[i] = agentConns'[j] => i = j
               /\ OneAtATime' /\ SliceComplete' /\ \A d \in Callers : Accounts(d)'
    <3>1. /\ call[c].loaded = agentConns /\ call[c].host \notin call[c].todo
          /\ Connected(agentConns) \cap (call[c].todo \cup {call[c].host}) = {}
          /\ dialFailed \/ Connected(agentConns) \cup (call[c].todo \cup {call[c].host}) = Hosts
          /\ ~call[c].bare
      BY <2>1, <2>8 DEF ConnInv, Accounts, Dialing, Pending
    <3>2. Connected(agentConns') = Connected(agentConns) \cup {call[c].host}
      BY <1>0, <2>1, <2>3, <3>1, AppendConnects
    <3>3. \A i, j \in 1..Len(agentConns') : agentConns'[i] = agentConns'[j] => i = j
      <4>1. call[c].host \notin Connected(agentConns)  BY <3>1
      <4>2. \A i, j \in 1..Len(agentConns) : agentConns[i] = agentConns[j] => i = j
        BY <2>8 DEF ConnInv, OneConnPerHost
      <4>3. agentConns' = Append(agentConns, call[c].host)  BY <2>1, <3>1
      <4> QED  BY <1>0, <2>3, <4>1, <4>2, <4>3, AppendKeepsOne
    <3>4. OneAtATime'
      BY <2>1, <2>2, <2>5, <2>8 DEF ConnInv, OneAtATime, InCall
    <3>5. \A d \in Callers : d # c => ~Dialing(d)'
      BY <2>1, <2>2, <2>5, <3>4 DEF OneAtATime, InCall, Dialing
    <3>6. SliceComplete'
      BY <2>2, <2>5 DEF SliceComplete, Dialing
    <3>7. Accounts(c)'
      <4>1. Pending(c)' = call[c].todo  BY <2>2, <2>5 DEF Pending
      <4>2. Connected(agentConns)' = Connected(agentConns')  BY DEF Connected
      <4> QED  BY <2>1, <2>2, <2>5, <3>1, <3>2, <4>1, <4>2 DEF Accounts
    <3> QED  BY <3>3, <3>4, <3>5, <3>6, <3>7 DEF Accounts
  <2>9. OneConnPerHost'  BY <2>1, <2>8 DEF OneConnPerHost
  <2> QED  BY <2>1, <2>6, <2>7, <2>8, <2>9 DEF ConnInv
<1>7. ASSUME Return(c, agentConns), UNCHANGED <<agentConns, netVars, connGhosts>>,
             call[c].pc = "ensure" \/ (call[c].pc = "dial" /\ call[c].todo = {})
      PROVE  ConnInv'
  <2>1. /\ agentConns' = agentConns /\ linked' = linked /\ listening' = listening
        /\ outages' = outages /\ overlapped' = overlapped /\ dialFailed' = dialFailed
        /\ configured' = configured
    BY <1>7 DEF netVars, connGhosts
  <2> DEFINE x == [NoCall EXCEPT !.pc = "got", !.conns = agentConns, !.bare = call[c].bare]
  <2>2. Becomes(c, x) /\ x \in Call /\ x.pc = "got" /\ x.conns = agentConns /\ x.bare = call[c].bare
    BY <1>0, <1>7, NoCallTyped DEF Return, Call, CallPC
  <2> HIDE DEF x
  <2>3. call'[c] = x  BY <1>0, <2>2, CallersStay
  <2>4. ConnTypeOK'  BY <1>0, <1>1, <2>1, <2>2 DEF ConnTypeOK
  <2>5. /\ agentConns # <<>> \/ call[c].bare
        /\ call[c].pc = "ensure" => agentConns # <<>>
    BY <1>7, ConnsAssumption DEF ConnInv, SliceInUse
  <2>6. ~overlapped /\ ~dialFailed =>
          Connected(agentConns) = Hosts \/ (call[c].bare /\ agentConns = <<>>)
    <3>1. CASE call[c].pc = "ensure"
      <4> SUFFICES ASSUME ~overlapped, ~dialFailed PROVE Connected(agentConns) = Hosts
        OBVIOUS
      <4>1. \A d \in Callers : ~Dialing(d)
        BY <3>1 DEF ConnInv, OneAtATime, InCall, Dialing
      <4> QED  BY <2>5, <3>1, <4>1 DEF ConnInv, SliceComplete
    <3>2. CASE call[c].pc = "dial" /\ call[c].todo = {}
      BY <3>2 DEF ConnInv, Accounts, Dialing, Pending
    <3> QED  BY <1>7, <3>1, <3>2
  <2>7. Accounts(c)'  BY <2>2, <2>3 DEF Accounts, Dialing
  <2> QED  BY <2>1, <2>2, <2>4, <2>5, <2>6, <2>7, StepOfCaller
<1>8. CASE AllDialed(c)
  BY <1>7, <1>8 DEF AllDialed
<1>9. CASE EnsureConnsAreReady(c)
  <2>1. /\ call[c].pc = "ensure" /\ agentConns' = agentConns /\ linked' = linked
        /\ listening' = listening /\ outages' = outages /\ configured' = configured
        /\ overlapped' = overlapped /\ dialFailed' = dialFailed
    BY <1>9 DEF EnsureConnsAreReady, netVars, connGhosts
  <2>2. CASE Return(c, agentConns)
    BY <1>7, <1>9, <2>1, <2>2 DEF EnsureConnsAreReady
  <2>3. ASSUME NEW x \in Call, Becomes(c, x), x.pc \in {"ensure", "failed"}
        PROVE  ConnInv'
    <3>1. call'[c] = x  BY <1>0, <2>3, CallersStay
    <3>2. ConnTypeOK'  BY <1>0, <1>1, <2>1, <2>3 DEF ConnTypeOK
    <3>3. Accounts(c)'  BY <2>3, <3>1 DEF Accounts, Dialing
    <3>4. agentConns # <<>>  BY <2>1 DEF ConnInv, SliceInUse
    <3> QED  BY <2>1, <2>3, <3>2, <3>3, <3>4, StepOfCaller DEF InCall, Dialing
  <2>4. CASE ReturnError(c)
    <3> DEFINE x == [NoCall EXCEPT !.pc = "failed"]
    <3>1. Becomes(c, x) /\ x \in Call /\ x.pc = "failed"
      BY <2>4, NoCallTyped DEF ReturnError, Call, CallPC
    <3> HIDE DEF x
    <3> QED  BY <2>3, <3>1
  <2>5. CASE call[c].pass + 1 < Passes /\ Becomes(c, [call[c] EXCEPT !.pass = @ + 1])
    <3> DEFINE x == [call[c] EXCEPT !.pass = @ + 1]
    <3>1. call[c].pass + 1 \in 0..(Passes - 1)
      BY <1>0, <2>5, ConnsAssumption DEF Call
    <3>2. Becomes(c, x) /\ x \in Call /\ x.pc = "ensure"
      BY <1>0, <2>1, <2>5, <3>1 DEF Call
    <3> HIDE DEF x
    <3> QED  BY <2>3, <3>2
  <2> QED  BY <1>9, <2>2, <2>4, <2>5 DEF EnsureConnsAreReady
<1> QED  BY <1>2, <1>3, <1>4, <1>5, <1>6, <1>8, <1>9 DEF ConnStep

\* Agents stop and start and links break and mend: the slice does not change,
\* and no call moves.
LEMMA NetKeeps ==
  ASSUME ConnInv, agentConns' = agentConns, call' = call,
         overlapped' = overlapped, dialFailed' = dialFailed, ConnTypeOK'
  PROVE  ConnInv'
<1>1. NobodyOnlyIfBare' /\ SliceInUse' /\ AllHostsConnected' /\ BareLate'
  BY DEF ConnInv, NobodyOnlyIfBare, SliceInUse, AllHostsConnected, BareLate
<1>2. OneConnPerHost'  BY DEF ConnInv, OneConnPerHost
<1>3. OneAtATime = OneAtATime' /\ SliceComplete = SliceComplete'
  BY DEF OneAtATime, InCall, SliceComplete, Dialing
<1>4. \A c \in Callers : Accounts(c) = Accounts(c)'
  BY DEF Accounts, Dialing, Pending
<1> QED  BY <1>1, <1>2, <1>3, <1>4 DEF ConnInv

\* Whatever happens, the invariant is kept.
LEMMA ConnInvStep ==
  ASSUME ConnInv, [ConnNext]_connVars
  PROVE  ConnInv'
<1>0. ConnTypeOK  BY DEF ConnInv
<1>1. ASSUME NEW c \in Callers, HandlerReturns(c) PROVE ConnInv'
  <2>1. /\ Becomes(c, NoCall) /\ agentConns' = agentConns /\ linked' = linked
        /\ listening' = listening /\ outages' = outages /\ configured' = configured
        /\ overlapped' = overlapped /\ dialFailed' = dialFailed
        /\ call[c].pc \in {"got", "failed"}
    BY <1>1 DEF HandlerReturns, netVars, connGhosts
  <2>2. NoCall \in Call /\ NoCall.pc = "idle" /\ ~NoCall.bare /\ NoCall.todo = {}
    BY NoCallTyped DEF NoCall
  <2>3. call' \in [Callers -> Call] /\ call'[c] = NoCall
    BY <1>0, <2>1, <2>2, CallersStay
  <2>4. ConnTypeOK'  BY <1>0, <2>1, <2>3 DEF ConnTypeOK
  <2>5. Accounts(c)'  BY <2>2, <2>3 DEF Accounts, Dialing
  <2> QED  BY <2>1, <2>2, <2>4, <2>5, StepOfCaller DEF Dialing
<1>2. CASE NetStep
  <2>0. CASE ConfigSaved
    <3>1. ConnTypeOK'  BY <1>0, <2>0 DEF ConfigSaved, ConnTypeOK, connGhosts
    <3> QED  BY <2>0, <3>1, NetKeeps DEF ConfigSaved, connGhosts
  <2> SUFFICES ASSUME \E h \in Hosts : AgentStops(h) \/ AgentStarts(h) \/ LinkBreaks(h) \/ LinkMends(h)
               PROVE  ConnInv'
    BY <1>2, <2>0 DEF NetStep
  <2>1. PICK h \in Hosts : AgentStops(h) \/ AgentStarts(h) \/ LinkBreaks(h) \/ LinkMends(h)
    OBVIOUS
  <2>2. /\ agentConns' = agentConns /\ call' = call
        /\ overlapped' = overlapped /\ dialFailed' = dialFailed /\ configured' = configured
    BY <2>1 DEF AgentStops, AgentStarts, LinkBreaks, LinkMends, connGhosts
  <2>3. /\ listening' \subseteq Hosts /\ linked' \subseteq Hosts
    BY <1>0, <2>1 DEF AgentStops, AgentStarts, LinkBreaks, LinkMends, ConnTypeOK
  <2>4. outages' \in 0..MaxOutages
    <3>1. outages' = outages \/ (outages < MaxOutages /\ outages' = outages + 1)
      BY <2>1 DEF AgentStops, AgentStarts, LinkBreaks, LinkMends
    <3> QED  BY <1>0, <3>1, ConnsAssumption DEF ConnTypeOK
  <2>5. ConnTypeOK'  BY <1>0, <2>2, <2>3, <2>4 DEF ConnTypeOK
  <2> QED  BY <2>2, <2>5, NetKeeps
<1>3. CASE UNCHANGED connVars
  <2>1. /\ agentConns' = agentConns /\ call' = call /\ outages' = outages
        /\ listening' = listening /\ linked' = linked /\ configured' = configured
        /\ overlapped' = overlapped /\ dialFailed' = dialFailed
    BY <1>3 DEF connVars, netVars, connGhosts
  <2>2. ConnTypeOK'  BY <1>0, <2>1 DEF ConnTypeOK
  <2> QED  BY <2>1, <2>2, NetKeeps
<1> QED  BY <1>1, <1>2, <1>3, CallBegins, CallGoesOn DEF ConnNext

\* The invariant of the cache holds for as long as the hub lives.
LEMMA ConnInvHolds == ConnSpec => []ConnInv
<1>1. ConnInit => ConnInv  BY ConnStart
<1>2. ConnInv /\ [ConnNext]_connVars => ConnInv'  BY ConnInvStep
<1> QED  BY <1>1, <1>2, PTL DEF ConnSpec

\* The cache and the calls have their types: the counter of
\* ensureConnsAreReady stays below its number of passes, and every connection,
\* loaded, stored or returned, is one to a host of the cluster.
THEOREM ConnTypeCorrect == ConnSpec => []ConnTypeOK
<1>1. ConnInv => ConnTypeOK  BY DEF ConnInv
<1> QED  BY <1>1, ConnInvHolds, PTL

\* Until two calls of AgentConns have overlapped, no host is in h.agentConns
\* twice, whichever dials time out half way and whichever calls follow.
THEOREM NoHostTwice == ConnSpec => []OneConnPerHost
<1>1. ConnInv => OneConnPerHost  BY DEF ConnInv
<1> QED  BY <1>1, ConnInvHolds, PTL

\* Until two calls have overlapped or a dial has failed, every call that
\* returns without an error returns a connection to every host, the ones that
\* found the bare configuration excepted.
THEOREM EveryHostAsked == ConnSpec => []AllHostsConnected
<1>1. ConnInv => AllHostsConnected  BY DEF ConnInv
<1> QED  BY <1>1, ConnInvHolds, PTL

\* However calls overlap and dials fail, only a call to which GetHostnames gave
\* no host returns an empty slice and no error: for every other one the slice is
\* not nil any more once it is past the test and its first dial.
THEOREM NobodyOnlyFromBare == ConnSpec => []NobodyOnlyIfBare
<1>1. ConnInv => NobodyOnlyIfBare  BY DEF ConnInv
<1> QED  BY <1>1, ConnInvHolds, PTL

=============================================================================
