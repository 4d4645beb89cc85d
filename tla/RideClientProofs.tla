-------------------------- MODULE RideClientProofs ---------------------------
(***************************************************************************)
(* Proofs about RideClient for every clock, every timeout, every bound and *)
(* every assignment of conn_ids: the types, the truth of what the listener *)
(* was told, that READY is earned, that RideClient implements the abstract *)
(* RideSession, and that neither a failed setup nor a lost link is         *)
(* forgotten.                                                              *)
(*                                                                         *)
(* The argument is about the event queue.  A new connection is announced   *)
(* by CONNECT and OPEN, and it can only be asked for after loop() has seen *)
(* the client idle, so RideClient is DISCONNECTED when they are queued.    *)
(* Whatever was queued before them belongs to the connection before, and   *)
(* finds RideClient DISCONNECTED, where it matches no conn_id; whatever    *)
(* comes after them belongs to the new one.                                *)
(***************************************************************************)
EXTENDS RideClient, TLAPS

\* Events that begin a connection.
Opening(e) == e.type = "CONNECT" \/ (e.type = "OPEN" /\ e.ok)

Positions == 1..Len(events)

Early == {"DISCONNECTED", "DISCOVERING", "ERROR"}
ClientOpening == {"CONNECTING", "ABORTING"}

\* The members of RideClient agree with its state.
MembersAgree ==
  /\ disconnectReported <=> state = "DISCONNECTED"
  /\ connId = NoConn <=> state = "DISCONNECTED"
  /\ asyncEnabled <=> state \in {"SUBSCRIBING_SYNC_TX", "READY"}

\* What was acknowledged when the state or a haptic write says so.
AcksAgree ==
  /\ state \in {"SUBSCRIBING_ASYNC", "SUBSCRIBING_SYNC_TX", "READY"} => "rideon" \in acked
  /\ state \in {"SUBSCRIBING_SYNC_TX", "READY"} => "cccd_async" \in acked
  /\ haptics > 0 => "rideon" \in acked

\* A connection is asked for only from DISCONNECTED ...
AskedWhenIdle ==
  /\ polledIdle => client = "IDLE" /\ state = "DISCONNECTED"
  /\ "open" \in inflight =>
       /\ client \in ClientOpening
       /\ state = "DISCONNECTED"
       /\ \A i \in Positions : events[i].type \notin {"CONNECT", "OPEN"}

\* ... and one at a time.
OneOpening ==
  /\ \A i \in Positions : events[i].type = "OPEN" => client \in ClientOpening
  /\ \A i, j \in Positions : events[i].type = "OPEN" /\ events[j].type = "OPEN" => i = j
  /\ \A i, j \in Positions : events[i].type = "OPEN" /\ ~events[i].ok => ~Opening(events[j])

\* The opening events stand together, and finding one behind an older event
\* means that RideClient has not begun the connection.
OpeningInOrder ==
  /\ \A j \in Positions : Opening(events[j]) => state \in Early /\ client # "IDLE"
  /\ \A i, j \in Positions : i < j /\ Opening(events[j]) /\ ~Opening(events[i])
       => state = "DISCONNECTED" /\ client \in ClientOpening
  /\ \A i, j, k \in Positions : i < k /\ k < j /\ Opening(events[i]) /\ Opening(events[j])
       => Opening(events[k])

\* Service discovery completes once per connection, and before the handshake.
OneSearch ==
  /\ "search" \in inflight =>
       /\ state \in Early
       /\ \A i \in Positions : events[i].type # "SEARCH_CMPL"
       /\ \A i \in Positions : ~(events[i].type = "OPEN" /\ events[i].ok)
  /\ \A i \in Positions : events[i].type = "SEARCH_CMPL" => state \in Early
  /\ \A i, j \in Positions :
       events[i].type = "SEARCH_CMPL" /\ events[j].type = "SEARCH_CMPL" => i = j
  /\ \A i, j \in Positions : i < j /\ events[i].type = "OPEN" /\ events[i].ok
       => events[j].type # "SEARCH_CMPL"

\* A queued acknowledgement is one of this connection, unless the connection
\* that follows is queued behind it.
AcksInOrder ==
  /\ \A j \in Positions : events[j].type = "WRITE_CHAR" /\ events[j].ok
       => "rideon" \in acked \/ \E i \in Positions : j < i /\ Opening(events[i])
  /\ \A j \in Positions :
       events[j].type = "WRITE_DESCR" /\ events[j].handle = "async_cccd" /\ events[j].ok
       => "cccd_async" \in acked \/ \E i \in Positions : j < i /\ Opening(events[i])

IInv ==
  /\ TypeOK
  /\ MembersAgree
  /\ ListenerIsCurrent
  /\ AcksAgree
  /\ AskedWhenIdle
  /\ OneOpening
  /\ OpeningInOrder
  /\ OneSearch
  /\ AcksInOrder

-----------------------------------------------------------------------------
(* Facts about the queue and the small operators.                          *)

\* Taking the oldest event moves every other one a place forward.
LEMMA Dequeue ==
  ASSUME TypeOK, events # <<>>, events' = Tail(events)
  PROVE  /\ 1 \in Positions
         /\ Head(events) = events[1]
         /\ events[1] \in Event
         /\ events' \in Seq(Event)
         /\ Len(events') = Len(events) - 1
         /\ \A i \in 1..Len(events') : i + 1 \in Positions /\ events'[i] = events[i + 1]
<1>1. events \in Seq(Event) /\ Len(events) \in Nat /\ Len(events) > 0
  BY DEF TypeOK
<1>2. Head(events) = events[1] /\ events[1] \in Event
  BY <1>1
<1>3. events' \in Seq(Event) /\ Len(events') = Len(events) - 1
  BY <1>1
<1>4. \A i \in 1..Len(events') : i + 1 \in 1..Len(events) /\ events'[i] = events[i + 1]
  BY <1>1, <1>3
<1>5. QED
  BY <1>1, <1>2, <1>3, <1>4 DEF Positions

\* Queueing leaves the events already there in place.
LEMMA Enqueued ==
  ASSUME TypeOK, NEW es \in Seq(Event), Enqueue(es)
  PROVE  /\ Len(events) \in Nat /\ Len(es) \in Nat
         /\ Positions' = 1..(Len(events) + Len(es))
         /\ \A i \in Positions : i \in Positions' /\ i <= Len(events) /\ events'[i] = events[i]
         /\ \A k \in 1..Len(es) : Len(events) + k \in Positions' /\ events'[Len(events) + k] = es[k]
         /\ \A i \in Positions' :
              i \in Positions \/ (i > Len(events) /\ \E k \in 1..Len(es) : i = Len(events) + k)
<1>1. events \in Seq(Event) /\ Len(events) \in Nat /\ Len(es) \in Nat
  BY DEF TypeOK
<1>2. events' = events \o es
  BY DEF Enqueue
<1>3. Len(events') = Len(events) + Len(es) /\ Positions' = 1..(Len(events) + Len(es))
  BY <1>1, <1>2 DEF Positions
<1>4. \A i \in Positions : i \in Positions' /\ i <= Len(events) /\ events'[i] = events[i]
  BY <1>1, <1>2, <1>3 DEF Positions
<1>5. \A k \in 1..Len(es) : Len(events) + k \in Positions' /\ events'[Len(events) + k] = es[k]
  BY <1>1, <1>2, <1>3
<1>6. ASSUME NEW i \in Positions', i \notin Positions
      PROVE  i > Len(events) /\ \E k \in 1..Len(es) : i = Len(events) + k
  <2>1. i \in Nat /\ i > Len(events)
    BY <1>1, <1>3, <1>6 DEF Positions
  <2>2. i - Len(events) \in 1..Len(es) /\ i = Len(events) + (i - Len(events))
    BY <1>1, <1>3, <2>1
  <2>3. QED
    BY <2>1, <2>2
<1>7. QED
  BY <1>1, <1>3, <1>4, <1>5, <1>6

\* A connection that has ended matches no event.
LEMMA NoMatchWhenDisconnected ==
  ASSUME MembersAgree, state = "DISCONNECTED", NEW l
  PROVE  ~ConnectionMatches(l)
BY DEF MembersAgree, ConnectionMatches

LEMMA InitInv == Init => IInv
<1> SUFFICES ASSUME Init PROVE IInv
  OBVIOUS
<1>1. events = <<>> /\ Positions = {}
  BY DEF Init, Positions
<1>2. TypeOK
  <2>1. 0 \in 0..(ClockPeriod - 1)
    BY TimeAssumption
  <2>2. events \in Seq(Event)
    BY <1>1
  <2>3. /\ state \in States /\ connId \in {NoConn} \union {ConnIdOf[l] : l \in Links}
        /\ handles \subseteq Handles /\ client \in ClientStates
        /\ inflight \subseteq Operations /\ acked \subseteq {"rideon", "cccd_async"}
    BY DEF Init, States, SetupStates, ClientStates
  <2>4. QED
    BY <2>1, <2>2, <2>3 DEF Init, TypeOK
<1>3. QED
  BY <1>1, <1>2 DEF Init, IInv, MembersAgree, ListenerIsCurrent, AcksAgree, AskedWhenIdle,
    OneOpening, OpeningInOrder, OneSearch, AcksInOrder


-----------------------------------------------------------------------------
(* Type correctness.                                                       *)

\* The part of TypeOK that the handlers of RideClient are about.
MachineOK ==
  /\ state \in States
  /\ connId \in {NoConn} \union {ConnIdOf[l] : l \in Links}
  /\ handles \subseteq Handles
  /\ asyncEnabled \in BOOLEAN
  /\ disconnectReported \in BOOLEAN
  /\ stateStartedAt \in 0..(ClockPeriod - 1)
  /\ hapticPending \in BOOLEAN
  /\ hapticStartedAt \in 0..(ClockPeriod - 1)
  /\ told \in {"ready", "disconnected"}
  /\ frame \in {0, 1}

LEMMA EnterStateType ==
  ASSUME TypeOK, NEW s \in States, EnterState(s)
  PROVE  state' \in States /\ stateStartedAt' \in 0..(ClockPeriod - 1)
<1>1. 0 \in 0..(ClockPeriod - 1)
  BY TimeAssumption
<1>2. QED
  BY <1>1 DEF TypeOK, EnterState

LEMMA ClearHapticType ==
  ASSUME ClearHaptic
  PROVE  hapticPending' \in BOOLEAN /\ hapticStartedAt' \in 0..(ClockPeriod - 1)
<1>1. 0 \in 0..(ClockPeriod - 1)
  BY TimeAssumption
<1>2. QED
  BY <1>1 DEF ClearHaptic

LEMMA BeginConnectionType ==
  ASSUME TypeOK, NEW l \in Links, BeginConnection(l)
  PROVE  MachineOK'
<1>1. "DISCOVERING" \in States
  BY DEF States, SetupStates
<1>2. state' \in States /\ stateStartedAt' \in 0..(ClockPeriod - 1)
  BY <1>1, EnterStateType DEF BeginConnection
<1>3. hapticPending' \in BOOLEAN /\ hapticStartedAt' \in 0..(ClockPeriod - 1)
  BY ClearHapticType DEF BeginConnection, ResetMembers
<1>4. QED
  BY <1>2, <1>3 DEF MachineOK, TypeOK, BeginConnection, ResetMembers, listenerVars

LEMMA ReportDisconnectedType ==
  ASSUME TypeOK, ReportDisconnected
  PROVE  MachineOK'
<1>1. "DISCONNECTED" \in States
  BY DEF States
<1>2. state' \in States /\ stateStartedAt' \in 0..(ClockPeriod - 1)
  BY <1>1, EnterStateType DEF ReportDisconnected
<1>3. hapticPending' \in BOOLEAN /\ hapticStartedAt' \in 0..(ClockPeriod - 1)
  BY ClearHapticType DEF ReportDisconnected, ResetMembers
<1>4. QED
  BY <1>2, <1>3 DEF MachineOK, TypeOK, ReportDisconnected, ResetMembers

LEMMA DisconnectingType ==
  ASSUME NEW c \in ClientStates
  PROVE  Disconnecting(c) \in ClientStates
BY DEF Disconnecting, ClientStates

LEMMA FailType ==
  ASSUME TypeOK, NEW c \in ClientStates, Fail(c), handles' \subseteq Handles
  PROVE  MachineOK' /\ client' \in ClientStates
<1>1. "ERROR" \in States
  BY DEF States
<1>2. state' \in States /\ stateStartedAt' \in 0..(ClockPeriod - 1)
  BY <1>1, EnterStateType DEF Fail
<1>3. hapticPending' \in BOOLEAN /\ hapticStartedAt' \in 0..(ClockPeriod - 1)
  BY ClearHapticType DEF Fail
<1>4. client' \in ClientStates
  BY DisconnectingType DEF Fail
<1>5. QED
  BY <1>2, <1>3, <1>4 DEF MachineOK, TypeOK, Fail, listenerVars

LEMMA FailSetupType ==
  ASSUME TypeOK, NEW c \in ClientStates, FailSetup(c), handles' \subseteq Handles
  PROVE  MachineOK' /\ client' \in ClientStates
<1>1. CASE state \in {"ERROR", "DISCONNECTED"}
  BY <1>1 DEF FailSetup, MachineOK, TypeOK, hapticVars, listenerVars
<1>2. CASE state \notin {"ERROR", "DISCONNECTED"}
  BY <1>2, FailType DEF FailSetup
<1>3. QED
  BY <1>1, <1>2

LEMMA MarkReadyType ==
  ASSUME TypeOK, NEW enabled \in BOOLEAN, MarkReady(enabled)
  PROVE  /\ state' \in States /\ stateStartedAt' \in 0..(ClockPeriod - 1)
         /\ told' \in {"ready", "disconnected"} /\ frame' \in {0, 1}
<1>1. "READY" \in States
  BY DEF States
<1>2. CASE enabled /\ state # "READY"
  BY <1>1, <1>2, EnterStateType DEF MarkReady, TypeOK
<1>3. CASE ~(enabled /\ state # "READY")
  BY <1>3 DEF MarkReady, TypeOK, listenerVars
<1>4. QED
  BY <1>2, <1>3

LEMMA IgnoreType == TypeOK /\ Ignore => MachineOK'
BY DEF Ignore, TypeOK, MachineOK, machineVars, hapticVars, listenerVars

LEMMA NotifyType ==
  ASSUME TypeOK, NEW e, OnNotify(e)
  PROVE  MachineOK'
<1>1. frame' \in {0, 1}
  BY DEF OnNotify, TypeOK
<1>2. QED
  BY <1>1 DEF OnNotify, TypeOK, MachineOK, machineVars, hapticVars


LEMMA DispatchType == TypeOK /\ Dispatch => TypeOK'
<1> SUFFICES ASSUME TypeOK, Dispatch PROVE TypeOK'
  OBVIOUS
<1> DEFINE e == Head(events)
<1>1. events' \in Seq(Event) /\ e \in Event
  BY Dequeue DEF Dispatch
<1>2. e.link \in Links
  BY <1>1 DEF Event
<1>3. Handle(e)
  BY DEF Dispatch
<1>4. /\ polledIdle' \in BOOLEAN /\ link' \in Links /\ linkUp' \in BOOLEAN
      /\ haptics' \in Nat /\ hapticTimeouts' \in Nat
      /\ acked' \subseteq {"rideon", "cccd_async"}
      /\ now' \in 0..(ClockPeriod - 1) /\ loopDue' \in BOOLEAN
  BY DEF Dispatch, TypeOK, timeVars
<1>0. asyncEnabled \in BOOLEAN
  BY DEF TypeOK
<1> HIDE DEF e
<1>5. MachineOK' /\ client' \in ClientStates /\ inflight' \subseteq Operations
  <2>1. CASE OnConnect(e)
    BY <1>2, <2>1, BeginConnectionType DEF OnConnect, TypeOK
  <2>2. CASE OnOpen(e)
    <3>1. client' \in ClientStates
      BY <2>2 DEF OnOpen, TypeOK, ClientStates
    <3>2. inflight' \subseteq Operations
      BY <2>2 DEF OnOpen, TypeOK, Operations
    <3>3. MachineOK'
      BY <1>2, <2>2, BeginConnectionType, ReportDisconnectedType, IgnoreType DEF OnOpen
    <3>4. QED
      BY <3>1, <3>2, <3>3
  <2>3. CASE OnSearchComplete(e)
    <3>1. CASE client' = client /\ inflight' = inflight /\ Ignore
      BY <3>1, IgnoreType DEF TypeOK
    <3>2. CASE FailSetup(client) /\ handles' = handles /\ inflight' = inflight
      BY <3>2, FailSetupType DEF TypeOK
    <3>3. ASSUME NEW table \in Tables,
                 handles' = (handles \ DroppedHandles(table)) \union DiscoveredHandles(table)
          PROVE  handles' \subseteq Handles
      BY <3>3 DEF TypeOK, DiscoveredHandles, Handles
    <3>4. CASE handles' \subseteq Handles /\ FailSetup(client) /\ inflight' = inflight
      BY <3>4, FailSetupType DEF TypeOK
    <3>5. CASE handles' \subseteq Handles /\ SendHandshake
      <4>1. CASE Fail(client) /\ inflight' = inflight
        BY <3>5, <4>1, FailType DEF TypeOK
      <4>2. CASE /\ EnterState("SENDING_HANDSHAKE")
                 /\ inflight' = inflight \union {"rideon"}
                 /\ UNCHANGED <<client, connId, asyncEnabled, disconnectReported, hapticVars,
                                listenerVars>>
        <5>1. "SENDING_HANDSHAKE" \in States
          BY DEF States, SetupStates
        <5>2. state' \in States /\ stateStartedAt' \in 0..(ClockPeriod - 1)
          BY <4>2, <5>1, EnterStateType
        <5>3. QED
          BY <3>5, <4>2, <5>2 DEF TypeOK, MachineOK, Operations, hapticVars,
            listenerVars
      <4>3. QED
        BY <3>5, <4>1, <4>2 DEF SendHandshake
    <3>6. QED
      BY <2>3, <3>1, <3>2, <3>3, <3>4, <3>5 DEF OnSearchComplete
  <2>4. CASE OnWriteChar(e)
    <3>1. handles' \subseteq Handles
      BY <2>4 DEF OnWriteChar, TypeOK
    <3>2. CASE SubscribeAsync
      <4>1. CASE Fail(client) /\ inflight' = inflight
        BY <3>1, <4>1, FailType DEF TypeOK
      <4>2. CASE /\ EnterState("SUBSCRIBING_ASYNC")
                 /\ inflight' = inflight \union {"register_async"}
                 /\ UNCHANGED <<client, connId, asyncEnabled, disconnectReported, hapticVars,
                                listenerVars>>
        <5>1. "SUBSCRIBING_ASYNC" \in States
          BY DEF States, SetupStates
        <5>2. state' \in States /\ stateStartedAt' \in 0..(ClockPeriod - 1)
          BY <4>2, <5>1, EnterStateType
        <5>3. QED
          BY <3>1, <4>2, <5>2 DEF TypeOK, MachineOK, Operations, hapticVars,
            listenerVars
      <4>3. QED
        BY <3>2, <4>1, <4>2 DEF SubscribeAsync
    <3>3. CASE FailSetup(client) /\ inflight' = inflight
      BY <3>1, <3>3, FailSetupType DEF TypeOK
    <3>4. CASE /\ ClearHaptic \/ UNCHANGED hapticVars
               /\ UNCHANGED <<client, inflight, state, connId, asyncEnabled,
                              disconnectReported, stateStartedAt, listenerVars>>
      <4>1. hapticPending' \in BOOLEAN /\ hapticStartedAt' \in 0..(ClockPeriod - 1)
        BY <3>4, ClearHapticType DEF TypeOK, hapticVars
      <4>2. QED
        BY <3>1, <3>4, <4>1 DEF TypeOK, MachineOK, listenerVars
    <3>5. QED
      BY <2>4, <3>2, <3>3, <3>4 DEF OnWriteChar
  <2>5. CASE OnRegisterForNotify(e)
    <3>1. inflight' \subseteq Operations
      BY <2>5 DEF OnRegisterForNotify, TypeOK, Operations
    <3>2. handles' \subseteq Handles
      BY <2>5 DEF OnRegisterForNotify, TypeOK
    <3>3. CASE FailSetup(client)
      BY <3>1, <3>2, <3>3, FailSetupType DEF TypeOK
    <3>4. CASE /\ MarkReady(asyncEnabled)
               /\ UNCHANGED <<client, connId, asyncEnabled, disconnectReported, hapticVars>>
      <4>1. /\ state' \in States /\ stateStartedAt' \in 0..(ClockPeriod - 1)
            /\ told' \in {"ready", "disconnected"} /\ frame' \in {0, 1}
        BY <3>4, <1>0, MarkReadyType
      <4>2. QED
        BY <3>1, <3>2, <3>4, <4>1 DEF TypeOK, MachineOK, hapticVars
    <3>5. CASE client' = client /\ Ignore
      BY <3>1, <3>5, IgnoreType DEF TypeOK
    <3>6. QED
      BY <2>5, <3>3, <3>4, <3>5 DEF OnRegisterForNotify
  <2>6. CASE OnWriteDescriptor(e)
    <3>1. CASE FailSetup(client) /\ UNCHANGED <<handles, inflight>>
      BY <3>1, FailSetupType DEF TypeOK
    <3>2. CASE /\ asyncEnabled'
               /\ SubscribeSyncTxOrReady
               /\ UNCHANGED <<client, connId, disconnectReported, hapticVars>>
      <4>1. handles' \subseteq Handles /\ inflight' \subseteq Operations
        BY <3>2 DEF SubscribeSyncTxOrReady, TypeOK, Operations
      <4>2. /\ state' \in States /\ stateStartedAt' \in 0..(ClockPeriod - 1)
            /\ told' \in {"ready", "disconnected"} /\ frame' \in {0, 1}
        <5>1. "SUBSCRIBING_SYNC_TX" \in States
          BY DEF States, SetupStates
        <5>2. CASE EnterState("SUBSCRIBING_SYNC_TX") /\ UNCHANGED listenerVars
          BY <5>1, <5>2, EnterStateType DEF TypeOK, listenerVars
        <5>3. CASE MarkReady(TRUE)
          BY <5>3, MarkReadyType
        <5>4. QED
          BY <3>2, <5>2, <5>3 DEF SubscribeSyncTxOrReady
      <4>3. QED
        BY <2>6, <3>2, <4>1, <4>2 DEF OnWriteDescriptor, TypeOK, MachineOK, hapticVars
    <3>3. CASE /\ MarkReady(asyncEnabled)
               /\ UNCHANGED <<client, inflight, connId, handles, asyncEnabled,
                              disconnectReported, hapticVars>>
      <4>1. /\ state' \in States /\ stateStartedAt' \in 0..(ClockPeriod - 1)
            /\ told' \in {"ready", "disconnected"} /\ frame' \in {0, 1}
        BY <3>3, <1>0, MarkReadyType
      <4>2. QED
        BY <3>3, <4>1 DEF TypeOK, MachineOK, hapticVars
    <3>4. CASE UNCHANGED <<client, inflight>> /\ Ignore
      BY <3>4, IgnoreType DEF TypeOK
    <3>5. QED
      BY <2>6, <3>1, <3>2, <3>3, <3>4 DEF OnWriteDescriptor
  <2>7. CASE OnNotify(e)
    BY <2>7, NotifyType DEF OnNotify, TypeOK
  <2>8. CASE OnDisconnect(e)
    BY <2>8, ReportDisconnectedType DEF OnDisconnect, TypeOK, ClientStates
  <2>9. CASE OnClose(e)
    BY <2>9, ReportDisconnectedType DEF OnClose, TypeOK, ClientStates
  <2>10. QED
    BY <1>3, <2>1, <2>2, <2>3, <2>4, <2>5, <2>6, <2>7, <2>8, <2>9 DEF Handle
<1>6. QED
  BY <1>1, <1>4, <1>5 DEF TypeOK, MachineOK

LEMMA LoopType == TypeOK /\ Loop => TypeOK'
<1> SUFFICES ASSUME TypeOK, Loop PROVE TypeOK'
  OBVIOUS
<1>1. /\ polledIdle' \in BOOLEAN /\ loopDue' \in BOOLEAN /\ link' \in Links /\ linkUp' \in BOOLEAN
      /\ inflight' \subseteq Operations /\ haptics' \in Nat /\ events' \in Seq(Event)
      /\ acked' \subseteq {"rideon", "cccd_async"} /\ now' \in 0..(ClockPeriod - 1)
  BY DEF Loop, TypeOK
<1>2. MachineOK' /\ client' \in ClientStates /\ hapticTimeouts' \in Nat
  <2>1. CASE LoopOnIdleClient
    BY <2>1, ReportDisconnectedType DEF LoopOnIdleClient, TypeOK
  <2>2. CASE LoopWatchdogs
    <3>1. hapticTimeouts' \in Nat
      BY <2>2 DEF LoopWatchdogs, TypeOK
    <3>2. CASE FailSetup(client) /\ UNCHANGED handles
      BY <3>1, <3>2, FailSetupType DEF TypeOK
    <3>3. CASE /\ ClearHaptic \/ UNCHANGED hapticVars
               /\ UNCHANGED <<machineVars, listenerVars, client>>
      <4>1. hapticPending' \in BOOLEAN /\ hapticStartedAt' \in 0..(ClockPeriod - 1)
        BY <3>3, ClearHapticType DEF TypeOK, hapticVars
      <4>2. QED
        BY <3>1, <3>3, <4>1 DEF TypeOK, MachineOK, machineVars, listenerVars
    <3>4. QED
      BY <2>2, <3>2, <3>3 DEF LoopWatchdogs
  <2>3. QED
    BY <2>1, <2>2 DEF Loop
<1>3. QED
  BY <1>1, <1>2 DEF TypeOK, MachineOK

\* What the environment may do to its own variables.
LEMMA EnvironmentType ==
  ASSUME TypeOK, EnvironmentUnchanged, client' \in ClientStates, polledIdle' \in BOOLEAN,
         link' \in Links, linkUp' \in BOOLEAN, inflight' \subseteq Operations,
         haptics' \in Nat, hapticTimeouts' \in Nat, events' \in Seq(Event),
         acked' \subseteq {"rideon", "cccd_async"}
  PROVE  TypeOK'
BY DEF TypeOK, EnvironmentUnchanged, machineVars, hapticVars, listenerVars, timeVars

LEMMA ConnectionEventType ==
  ASSUME NEW l \in Links, NEW ok \in BOOLEAN, NEW type \in EventTypes
  PROVE  ConnectionEvent(type, l, ok) \in Event
BY DEF ConnectionEvent, Event

LEMMA CompletionType ==
  ASSUME TypeOK, NEW op \in Operations \ {"open"}, NEW ok \in BOOLEAN
  PROVE  Completion(op, ok) \in Event
BY DEF Completion, Event, EventTypes, Handles, Operations, TypeOK

LEMMA QueueType ==
  ASSUME TypeOK
  PROVE  /\ Enqueue(<<>>) => events' \in Seq(Event)
         /\ \A a \in Event : Enqueue(<<a>>) => events' \in Seq(Event)
         /\ \A a, b \in Event : Enqueue(<<a, b>>) => events' \in Seq(Event)
<1>1. events \in Seq(Event)
  BY DEF TypeOK
<1>2. Enqueue(<<>>) => events' \in Seq(Event)
  BY <1>1 DEF Enqueue
<1>3. \A a \in Event : Enqueue(<<a>>) => events' \in Seq(Event)
  BY <1>1 DEF Enqueue
<1>4. \A a, b \in Event : Enqueue(<<a, b>>) => events' \in Seq(Event)
  BY <1>1 DEF Enqueue
<1>5. QED
  BY <1>2, <1>3, <1>4

LEMMA NextType == TypeOK /\ [Next]_vars => TypeOK'
<1> SUFFICES ASSUME TypeOK, [Next]_vars PROVE TypeOK'
  OBVIOUS
<1>1. CASE Dispatch
  BY <1>1, DispatchType
<1>2. CASE Loop
  BY <1>2, LoopType
<1>3. CASE Vibrate
  BY <1>3 DEF Vibrate, TypeOK, machineVars, listenerVars, clientVars, timeVars
<1>4. CASE Tick
  <2>1. now' \in 0..(ClockPeriod - 1)
    BY <1>4, TimeAssumption DEF Tick, TypeOK
  <2>2. QED
    BY <1>4, <2>1 DEF Tick, TypeOK, machineVars, hapticVars, listenerVars, clientVars, stackVars
<1>5. CASE ClientConnect
  BY <1>5, EnvironmentType DEF ClientConnect, TypeOK, ClientStates, Operations
<1>6. CASE ClientDisconnect
  BY <1>6, EnvironmentType, DisconnectingType DEF ClientDisconnect, TypeOK, stackVars
<1>7. CASE ClientWatchdog
  BY <1>7, EnvironmentType DEF ClientWatchdog, TypeOK, stackVars, ClientStates
<1>8. CASE LinkUp
  <2>1. link' \in Links
    BY <1>8, LinkAssumption DEF LinkUp, TypeOK
  <2>2. ConnectionEvent("CONNECT", link', TRUE) \in Event /\ ConnectionEvent("OPEN", link', TRUE) \in Event
    BY <2>1, ConnectionEventType DEF EventTypes
  <2>3. events' \in Seq(Event)
    BY QueueType, <1>8, <2>2 DEF LinkUp
  <2>4. QED
    BY <1>8, <2>1, <2>3, EnvironmentType DEF LinkUp, TypeOK, clientVars
<1>9. CASE OpenFails
  <2>1. ConnectionEvent("OPEN", link, FALSE) \in Event
    BY ConnectionEventType DEF EventTypes, TypeOK
  <2>2. events' \in Seq(Event)
    BY QueueType, <1>9, <2>1 DEF OpenFails
  <2>3. QED
    BY <1>9, <2>2, EnvironmentType DEF OpenFails, TypeOK, clientVars
<1>10. CASE LinkDown
  <2>1. ConnectionEvent("DISCONNECT", link, TRUE) \in Event /\ ConnectionEvent("CLOSE", link, TRUE) \in Event
    BY ConnectionEventType DEF EventTypes, TypeOK
  <2>2. events' \in Seq(Event)
    BY QueueType, <1>10, <2>1 DEF LinkDown
  <2>3. QED
    BY <1>10, <2>2, EnvironmentType DEF LinkDown, TypeOK, clientVars
<1>11. CASE OperationCompletes
  <2> PICK op \in inflight \ {"open"}, ok \in BOOLEAN :
        /\ inflight' = inflight \ {op}
        /\ Enqueue(<<Completion(op, ok)>>)
        /\ acked' = IF ok THEN acked \union ({op} \intersect {"rideon", "cccd_async"}) ELSE acked
        /\ UNCHANGED <<clientVars, link, linkUp, haptics, hapticTimeouts>>
        /\ EnvironmentUnchanged
    BY <1>11 DEF OperationCompletes
  <2>1. Completion(op, ok) \in Event
    BY CompletionType DEF TypeOK
  <2>2. events' \in Seq(Event)
    BY QueueType, <2>1
  <2>3. QED
    BY <2>2, EnvironmentType DEF TypeOK, clientVars
<1>12. CASE HapticCompletes
  <2>1. \A ok \in BOOLEAN : Completion("rideon", ok) \in Event
    BY CompletionType DEF Operations
  <2>2. events' \in Seq(Event)
    BY QueueType, <1>12, <2>1 DEF HapticCompletes
  <2>3. haptics' \in Nat
    BY <1>12 DEF HapticCompletes, TypeOK
  <2>4. QED
    BY <1>12, <2>2, <2>3, EnvironmentType DEF HapticCompletes, TypeOK, clientVars
<1>13. CASE CompletionLost
  <2>1. haptics' \in Nat
    BY <1>13 DEF CompletionLost, TypeOK
  <2>2. QED
    BY <1>13, <2>1, EnvironmentType DEF CompletionLost, TypeOK, clientVars
<1>14. CASE ControllerNotifies
  <2>1. [type |-> "NOTIFY", link |-> link, handle |-> "async", ok |-> TRUE] \in Event
    BY DEF Event, EventTypes, Handles, TypeOK
  <2>2. events' \in Seq(Event)
    BY QueueType, <1>14, <2>1 DEF ControllerNotifies
  <2>3. QED
    BY <1>14, <2>2, EnvironmentType DEF ControllerNotifies, TypeOK, clientVars
<1>15. CASE UNCHANGED vars
  BY <1>15 DEF vars, machineVars, hapticVars, listenerVars, clientVars, stackVars, timeVars, TypeOK
<1>16. QED
  BY <1>1, <1>2, <1>3, <1>4, <1>5, <1>6, <1>7, <1>8, <1>9, <1>10, <1>11, <1>12, <1>13, <1>14,
     <1>15 DEF Next

\* Every variable keeps its type, whatever the stack, the controller and the
\* clock do.
THEOREM TypeCorrect == Spec => []TypeOK
<1>1. Init => TypeOK
  BY InitInv DEF IInv
<1>2. QED
  BY <1>1, NextType, PTL DEF Spec

-----------------------------------------------------------------------------
(* What the handling of one event does to the session and to the client.   *)

\* The setup moves one step on.
Advances(e) ==
  \/ /\ e.type = "SEARCH_CMPL"
     /\ state \in {"DISCOVERING", "ERROR"} /\ state' = "SENDING_HANDSHAKE"
     /\ UNCHANGED <<asyncEnabled, told>>
  \/ /\ e.type = "WRITE_CHAR" /\ e.ok
     /\ state = "SENDING_HANDSHAKE" /\ state' = "SUBSCRIBING_ASYNC"
     /\ UNCHANGED <<asyncEnabled, told>>
  \/ /\ e.type = "WRITE_DESCR" /\ e.handle = "async_cccd" /\ e.ok
     /\ state = "SUBSCRIBING_ASYNC" /\ asyncEnabled' = TRUE
     /\ \/ state' = "SUBSCRIBING_SYNC_TX" /\ told' = told
        \/ state' = "READY" /\ told' = "ready"
  \/ /\ e.type \in {"REG_FOR_NOTIFY", "WRITE_DESCR"}
     /\ state = "SUBSCRIBING_SYNC_TX" /\ state' = "READY"
     /\ asyncEnabled' = asyncEnabled /\ told' = "ready"

\* The setup, or what is left of it, ends in ERROR.
Fails ==
  /\ state \in SetupStates \union {"ERROR"}
  /\ state' = "ERROR"
  /\ asyncEnabled' = FALSE
  /\ UNCHANGED <<connId, disconnectReported, told, frame>>

\* Nothing that the listener or the queue is about changes, but for a frame.
Stays ==
  /\ UNCHANGED <<state, connId, asyncEnabled, disconnectReported, told>>
  /\ frame' = frame \/ (asyncEnabled /\ frame' = 1 - frame)

MachineEffect(e) ==
  \/ Opening(e) /\ \E l \in Links : BeginConnection(l)
  \/ ~Opening(e) /\ ReportDisconnected
  \/ ~Opening(e) /\ Fails
  \/ Advances(e) /\ UNCHANGED <<connId, disconnectReported, frame>>
  \/ e.type # "CONNECT" /\ Stays

ClientEffect(e) ==
  /\ client = "IDLE" => client' = "IDLE"
  /\ client \in ClientOpening /\ e.type # "OPEN" => client' \in ClientOpening
  /\ client # "IDLE" /\ Opening(e) => client' # "IDLE"
  /\ inflight' \subseteq inflight \union (Operations \ {"open", "search"})
       \union (IF e.type = "OPEN" /\ e.ok THEN {"search"} ELSE {})

LEMMA FailSetupEffect ==
  ASSUME TypeOK, NEW c, FailSetup(c), state # "READY", NEW e, ~Opening(e), e.type # "CONNECT"
  PROVE  MachineEffect(e)
<1>1. CASE state \in {"ERROR", "DISCONNECTED"}
  BY <1>1 DEF FailSetup, MachineEffect, Stays, listenerVars
<1>2. CASE state \notin {"ERROR", "DISCONNECTED"}
  BY <1>2 DEF FailSetup, Fail, EnterState, MachineEffect, Fails, TypeOK, States, listenerVars
<1>3. QED
  BY <1>1, <1>2

LEMMA FailClient ==
  ASSUME TypeOK, NEW e, e.type # "OPEN", ~Opening(e), client' \in {client, Disconnecting(client)},
         inflight' = inflight
  PROVE  ClientEffect(e)
BY DEF ClientEffect, Disconnecting, ClientOpening, TypeOK

LEMMA FailSetupClient ==
  ASSUME NEW c, FailSetup(c)
  PROVE  client' \in {c, Disconnecting(c)}
BY DEF FailSetup, Fail

LEMMA DispatchEffect ==
  ASSUME IInv, Dispatch
  PROVE  MachineEffect(events[1]) /\ ClientEffect(events[1])
<1> DEFINE e == events[1]
<1> SUFFICES MachineEffect(e) /\ ClientEffect(e)
  OBVIOUS
<1>1. TypeOK /\ MembersAgree /\ OneSearch /\ e \in Event /\ 1 \in Positions /\ e = Head(events)
  BY Dequeue DEF IInv, Dispatch
<1>2. Handle(e) /\ UNCHANGED <<link, linkUp>>
  BY <1>1 DEF Dispatch
<1>3. e.type = "SEARCH_CMPL" => state # "READY"
  BY <1>1 DEF OneSearch, Early
<1>4. state = "SUBSCRIBING_SYNC_TX" => asyncEnabled = TRUE
  BY <1>1 DEF MembersAgree, TypeOK
<1>5. e.link \in Links
  BY <1>1 DEF Event
<1> HIDE DEF e
<1>6. CASE e.type = "CONNECT" /\ OnConnect(e)
  BY <1>1, <1>5, <1>6 DEF OnConnect, MachineEffect, ClientEffect, Opening
<1>7. CASE e.type = "OPEN" /\ OnOpen(e)
  <2>1. MachineEffect(e)
    <3>1. CASE e.ok /\ state # "DISCONNECTED"
      BY <1>7, <3>1, <1>1 DEF OnOpen, MachineEffect, Stays, Ignore, machineVars, listenerVars
    <3>2. CASE ~e.ok \/ state = "DISCONNECTED"
      BY <1>5, <1>7, <3>2 DEF OnOpen, MachineEffect, Opening
    <3>3. QED
      BY <3>1, <3>2
  <2>2. ClientEffect(e)
    BY <1>1, <1>7 DEF OnOpen, ClientEffect, Opening, ClientOpening, TypeOK, Operations
  <2>3. QED
    BY <2>1, <2>2
<1>8. CASE e.type = "SEARCH_CMPL" /\ OnSearchComplete(e)
  <2>1. ~Opening(e) /\ e.type # "OPEN" /\ e.type # "CONNECT"
    BY <1>8 DEF Opening
  <2>2. CASE client' = client /\ inflight' = inflight /\ Ignore
    BY <1>1, <2>1, <2>2, FailClient DEF MachineEffect, Stays, Ignore, machineVars, listenerVars
  <2>3. CASE FailSetup(client) /\ inflight' = inflight
    BY <1>1, <1>3, <1>8, <2>1, <2>3, FailSetupEffect, FailSetupClient, FailClient
  <2>4. CASE ConnectionMatches(e.link) /\ SendHandshake
    <3>1. state \in {"DISCOVERING", "ERROR"}
      BY <1>1, <1>8, <2>4, NoMatchWhenDisconnected DEF OneSearch, Early
    <3>2. CASE Fail(client) /\ inflight' = inflight
      BY <1>1, <2>1, <3>1, <3>2, FailClient DEF Fail, EnterState, MachineEffect, Fails, SetupStates,
        listenerVars
    <3>3. CASE /\ EnterState("SENDING_HANDSHAKE")
               /\ inflight' = inflight \union {"rideon"}
               /\ UNCHANGED <<client, connId, asyncEnabled, disconnectReported, hapticVars,
                              listenerVars>>
      <4>1. MachineEffect(e)
        BY <1>8, <3>1, <3>3 DEF EnterState, MachineEffect, Advances, listenerVars
      <4>2. ClientEffect(e)
        BY <2>1, <3>3 DEF ClientEffect, Operations
      <4>3. QED
        BY <4>1, <4>2
    <3>4. QED
      BY <2>4, <3>2, <3>3 DEF SendHandshake
  <2>5. QED
    BY <1>8, <2>2, <2>3, <2>4 DEF OnSearchComplete
<1>9. CASE e.type = "WRITE_CHAR" /\ OnWriteChar(e)
  <2>1. ~Opening(e) /\ e.type # "OPEN" /\ e.type # "CONNECT"
    BY <1>9 DEF Opening
  <2>2. CASE state = "SENDING_HANDSHAKE" /\ e.ok /\ SubscribeAsync
    <3>1. CASE Fail(client) /\ inflight' = inflight
      BY <1>1, <2>1, <2>2, <3>1, FailClient DEF Fail, EnterState, MachineEffect, Fails, SetupStates,
        listenerVars
    <3>2. CASE /\ EnterState("SUBSCRIBING_ASYNC")
               /\ inflight' = inflight \union {"register_async"}
               /\ UNCHANGED <<client, connId, asyncEnabled, disconnectReported, hapticVars,
                              listenerVars>>
      <4>1. MachineEffect(e)
        BY <1>9, <2>2, <3>2 DEF EnterState, MachineEffect, Advances, listenerVars
      <4>2. ClientEffect(e)
        BY <2>1, <3>2 DEF ClientEffect, Operations
      <4>3. QED
        BY <4>1, <4>2
    <3>3. QED
      BY <2>2, <3>1, <3>2 DEF SubscribeAsync
  <2>3. CASE state = "SENDING_HANDSHAKE" /\ FailSetup(client) /\ inflight' = inflight
    BY <1>1, <2>1, <2>3, FailSetupEffect, FailSetupClient, FailClient
  <2>4. CASE UNCHANGED <<client, inflight, state, connId, asyncEnabled, disconnectReported,
                         listenerVars>>
    BY <1>1, <2>1, <2>4, FailClient DEF MachineEffect, Stays, listenerVars
  <2>5. QED
    BY <1>9, <2>2, <2>3, <2>4 DEF OnWriteChar
<1>10. CASE e.type = "REG_FOR_NOTIFY" /\ OnRegisterForNotify(e)
  <2>1. ~Opening(e) /\ e.type # "OPEN" /\ e.type # "CONNECT"
    BY <1>10 DEF Opening
  <2>2. inflight' \subseteq inflight \union (Operations \ {"open", "search"})
    BY <1>10 DEF OnRegisterForNotify, Operations
  <2>3. CASE state = "SUBSCRIBING_ASYNC" /\ FailSetup(client)
    <3>1. client' \in {client, Disconnecting(client)}
      BY <2>3, FailSetupClient
    <3>2. ClientEffect(e)
      BY <1>1, <2>1, <2>2, <3>1 DEF ClientEffect, Disconnecting, ClientOpening
    <3>3. QED
      BY <1>1, <2>1, <2>3, <3>2, FailSetupEffect
  <2>4. CASE /\ state = "SUBSCRIBING_SYNC_TX"
             /\ MarkReady(asyncEnabled)
             /\ UNCHANGED <<client, connId, asyncEnabled, disconnectReported, hapticVars>>
    <3>1. MachineEffect(e)
      BY <1>4, <1>10, <2>4 DEF MarkReady, EnterState, MachineEffect, Advances
    <3>2. ClientEffect(e)
      BY <2>1, <2>2, <2>4 DEF ClientEffect
    <3>3. QED
      BY <3>1, <3>2
  <2>5. CASE client' = client /\ Ignore
    BY <2>1, <2>2, <2>5 DEF ClientEffect, MachineEffect, Stays, Ignore, machineVars, listenerVars
  <2>6. QED
    BY <1>10, <2>3, <2>4, <2>5 DEF OnRegisterForNotify
<1>11. CASE e.type = "WRITE_DESCR" /\ OnWriteDescriptor(e)
  <2>1. ~Opening(e) /\ e.type # "OPEN" /\ e.type # "CONNECT"
    BY <1>11 DEF Opening
  <2>2. CASE state = "SUBSCRIBING_ASYNC" /\ FailSetup(client) /\ inflight' = inflight
    BY <1>1, <2>1, <2>2, FailSetupEffect, FailSetupClient, FailClient
  <2>3. CASE /\ e.handle = "async_cccd" /\ e.ok /\ state = "SUBSCRIBING_ASYNC"
             /\ asyncEnabled' = TRUE
             /\ SubscribeSyncTxOrReady
             /\ UNCHANGED <<client, connId, disconnectReported, hapticVars>>
    <3>1. MachineEffect(e)
      <4>1. CASE EnterState("SUBSCRIBING_SYNC_TX") /\ UNCHANGED listenerVars
        BY <1>11, <2>3, <4>1 DEF EnterState, MachineEffect, Advances, listenerVars
      <4>2. CASE MarkReady(TRUE)
        BY <1>11, <2>3, <4>2 DEF MarkReady, EnterState, MachineEffect, Advances
      <4>3. QED
        BY <2>3, <4>1, <4>2 DEF SubscribeSyncTxOrReady
    <3>2. ClientEffect(e)
      BY <2>1, <2>3 DEF SubscribeSyncTxOrReady, ClientEffect, Operations
    <3>3. QED
      BY <3>1, <3>2
  <2>4. CASE /\ state = "SUBSCRIBING_SYNC_TX"
             /\ MarkReady(asyncEnabled)
             /\ UNCHANGED <<client, inflight, connId, handles, asyncEnabled,
                            disconnectReported, hapticVars>>
    <3>1. MachineEffect(e)
      BY <1>4, <1>11, <2>4 DEF MarkReady, EnterState, MachineEffect, Advances
    <3>2. QED
      BY <1>1, <2>1, <2>4, <3>1, FailClient
  <2>5. CASE UNCHANGED <<client, inflight>> /\ Ignore
    BY <1>1, <2>1, <2>5, FailClient DEF MachineEffect, Stays, Ignore, machineVars, listenerVars
  <2>6. QED
    BY <1>11, <2>2, <2>3, <2>4, <2>5 DEF OnWriteDescriptor
<1>12. CASE e.type = "NOTIFY" /\ OnNotify(e)
  BY <1>1, <1>12, FailClient DEF OnNotify, MachineEffect, Stays, machineVars, Opening
<1>13. CASE e.type = "DISCONNECT" /\ OnDisconnect(e)
  BY <1>1, <1>13 DEF OnDisconnect, MachineEffect, ClientEffect, Opening, ClientOpening
<1>14. CASE e.type = "CLOSE" /\ OnClose(e)
  BY <1>1, <1>14 DEF OnClose, MachineEffect, ClientEffect, Opening, ClientOpening
<1>15. QED
  BY <1>2, <1>6, <1>7, <1>8, <1>9, <1>10, <1>11, <1>12, <1>13, <1>14 DEF Handle

-----------------------------------------------------------------------------
(* The invariant is inductive.                                             *)

LEMMA DispatchInv == IInv /\ Dispatch => IInv'
<1> SUFFICES ASSUME IInv, Dispatch PROVE IInv'
  OBVIOUS
<1> DEFINE e == events[1]
<1>1. MachineEffect(e) /\ ClientEffect(e)
  BY DispatchEffect
<1>2. UNCHANGED <<polledIdle, haptics, acked>>
  BY DEF Dispatch
<1>3. TypeOK /\ TypeOK'
  BY DispatchType DEF IInv
<1>4. /\ 1 \in Positions
      /\ Positions' = 1..(Len(events) - 1)
      /\ \A i \in Positions' : i \in Nat /\ i + 1 \in Positions /\ i >= 1 /\ 1 < i + 1 /\ events'[i] = events[i + 1]
      /\ e \in Event
  BY <1>3, Dequeue DEF Dispatch, Positions
<1>5. e.type \in EventTypes /\ e.ok \in BOOLEAN
  BY <1>4 DEF Event
<1>6. \A i, j \in Positions' : (i = j <=> i + 1 = j + 1) /\ (i < j <=> i + 1 < j + 1)
  BY <1>4
<1> HIDE DEF e
\* An opening behind an older event: the machine waits, DISCONNECTED.
<1>7. ASSUME NEW j \in Positions, 1 < j, Opening(events[j]), ~Opening(e)
      PROVE  state = "DISCONNECTED" /\ client \in ClientOpening
  BY <1>4, <1>7 DEF IInv, OpeningInOrder, e
<1>8. state = "DISCONNECTED" /\ ~Opening(e) => state' = "DISCONNECTED"
  BY <1>1, <1>5 DEF MachineEffect, Stays, Fails, Advances, ReportDisconnected, EnterState, SetupStates
<1>9. state \in Early /\ e.type # "SEARCH_CMPL" => state' \in Early
  BY <1>1 DEF MachineEffect, Stays, Fails, Advances, ReportDisconnected, BeginConnection, EnterState,
    Early
<1>10. MembersAgree' /\ ListenerIsCurrent'
  <2>1. CASE Opening(e) /\ \E l \in Links : BeginConnection(l)
    <3>1. state \in Early
      BY <1>4, <2>1 DEF IInv, OpeningInOrder, e
    <3>2. QED
      BY <2>1, <3>1, <1>3, LinkAssumption DEF IInv, BeginConnection, EnterState, ResetMembers, MembersAgree,
        ListenerIsCurrent, Early, listenerVars
  <2>2. CASE ReportDisconnected
    BY <2>2 DEF IInv, ReportDisconnected, EnterState, ResetMembers, MembersAgree, ListenerIsCurrent, TypeOK
  <2>3. CASE Fails
    BY <2>3 DEF IInv, Fails, SetupStates, MembersAgree, ListenerIsCurrent, TypeOK
  <2>4. CASE Advances(e) /\ UNCHANGED <<connId, disconnectReported, frame>>
    BY <2>4 DEF IInv, Advances, MembersAgree, ListenerIsCurrent, TypeOK
  <2>5. CASE Stays
    BY <2>5 DEF IInv, Stays, MembersAgree, ListenerIsCurrent
  <2>6. QED
    BY <1>1, <2>1, <2>2, <2>3, <2>4, <2>5 DEF MachineEffect
<1>11. AcksAgree'
  <2>1. e.type = "WRITE_CHAR" /\ e.ok /\ state = "SENDING_HANDSHAKE" => "rideon" \in acked
    BY <1>4, <1>7 DEF IInv, AcksInOrder, Opening, e
  <2>2. e.type = "WRITE_DESCR" /\ e.handle = "async_cccd" /\ e.ok /\ state = "SUBSCRIBING_ASYNC"
          => "cccd_async" \in acked
    BY <1>4, <1>7 DEF IInv, AcksInOrder, Opening, e
  <2>3. QED
    BY <1>1, <1>2, <2>1, <2>2 DEF IInv, AcksAgree, MachineEffect, Stays, Fails, Advances,
      ReportDisconnected, BeginConnection, EnterState
<1>12. AskedWhenIdle'
  <2>1. polledIdle' => client' = "IDLE" /\ state' = "DISCONNECTED"
    <3>1. polledIdle' => client = "IDLE" /\ state = "DISCONNECTED"
      BY <1>2 DEF IInv, AskedWhenIdle
    <3>2. Opening(e) => client # "IDLE"
      BY <1>4 DEF IInv, OpeningInOrder, e
    <3>3. QED
      BY <1>1, <1>8, <3>1, <3>2 DEF ClientEffect
  <2>2. ASSUME "open" \in inflight'
        PROVE  /\ client' \in ClientOpening /\ state' = "DISCONNECTED"
               /\ \A i \in Positions' : events'[i].type \notin {"CONNECT", "OPEN"}
    <3>1. "open" \in inflight
      BY <1>1, <2>2 DEF ClientEffect
    <3>2. /\ client \in ClientOpening /\ state = "DISCONNECTED"
          /\ \A i \in Positions : events[i].type \notin {"CONNECT", "OPEN"}
      BY <3>1 DEF IInv, AskedWhenIdle
    <3>3. e.type \notin {"CONNECT", "OPEN"}
      BY <1>4, <3>2 DEF e
    <3>4. QED
      BY <1>1, <1>4, <1>8, <3>2, <3>3 DEF ClientEffect, Opening
  <2>3. QED
    BY <2>1, <2>2 DEF AskedWhenIdle
<1>13. OneOpening'
  <2>1. ASSUME NEW i \in Positions', events'[i].type = "OPEN" PROVE client' \in ClientOpening
    <3>1. client \in ClientOpening /\ e.type # "OPEN"
      BY <1>4, <2>1 DEF IInv, OneOpening, e
    <3>2. QED
      BY <1>1, <3>1 DEF ClientEffect
  <2>2. ASSUME NEW i \in Positions', NEW j \in Positions', events'[i].type = "OPEN",
               events'[j].type = "OPEN"
        PROVE  i = j
    BY <1>4, <1>6, <2>2 DEF IInv, OneOpening
  <2>3. ASSUME NEW i \in Positions', NEW j \in Positions', events'[i].type = "OPEN", ~events'[i].ok
        PROVE  ~Opening(events'[j])
    BY <1>4, <2>3 DEF IInv, OneOpening
  <2>4. QED
    BY <2>1, <2>2, <2>3 DEF OneOpening, Opening
<1>14. OpeningInOrder'
  <2>1. ASSUME NEW j \in Positions', Opening(events'[j]) PROVE state' \in Early /\ client' # "IDLE"
    <3>1. j + 1 \in Positions /\ 1 < j + 1 /\ Opening(events[j + 1])
      BY <1>4, <2>1
    <3>2. state \in Early /\ client # "IDLE"
      BY <3>1 DEF IInv, OpeningInOrder
    <3>3. CASE Opening(e)
      BY <1>1, <1>9, <3>2, <3>3 DEF ClientEffect, Opening
    <3>4. CASE ~Opening(e)
      <4>1. state = "DISCONNECTED" /\ client \in ClientOpening
        BY <1>7, <3>1, <3>4
      <4>2. e.type # "OPEN"
        BY <1>4, <3>1, <3>4 DEF IInv, OneOpening, Opening, e
      <4>3. QED
        BY <1>1, <1>8, <3>4, <4>1, <4>2 DEF ClientEffect, ClientOpening, Early
    <3>5. QED
      BY <3>3, <3>4
  <2>2. ASSUME NEW i \in Positions', NEW j \in Positions', i < j, Opening(events'[j]),
               ~Opening(events'[i])
        PROVE  state' = "DISCONNECTED" /\ client' \in ClientOpening
    <3>1. /\ i + 1 \in Positions /\ j + 1 \in Positions /\ 1 < i + 1 /\ i + 1 < j + 1 /\ 1 < j + 1
          /\ Opening(events[j + 1]) /\ ~Opening(events[i + 1])
      BY <1>4, <1>6, <2>2
    <3>2. ~Opening(e)
      BY <1>4, <3>1 DEF IInv, OpeningInOrder, e
    <3>3. state = "DISCONNECTED" /\ client \in ClientOpening
      BY <1>7, <3>1, <3>2
    <3>4. e.type # "OPEN"
      BY <1>4, <3>1, <3>2 DEF IInv, OneOpening, Opening, e
    <3>5. QED
      BY <1>1, <1>8, <3>2, <3>3, <3>4 DEF ClientEffect
  <2>3. ASSUME NEW i \in Positions', NEW j \in Positions', NEW k \in Positions', i < k, k < j,
               Opening(events'[i]), Opening(events'[j])
        PROVE  Opening(events'[k])
    BY <1>4, <1>6, <2>3 DEF IInv, OpeningInOrder
  <2>4. QED
    BY <2>1, <2>2, <2>3 DEF OpeningInOrder, Opening
<1>15. OneSearch'
  <2>1. ASSUME "search" \in inflight'
        PROVE  /\ state' \in Early
               /\ \A i \in Positions' : events'[i].type # "SEARCH_CMPL"
               /\ \A i \in Positions' : ~(events'[i].type = "OPEN" /\ events'[i].ok)
    <3>1. CASE "search" \in inflight
      BY <1>4, <1>9, <3>1 DEF IInv, OneSearch, e
    <3>2. CASE "search" \notin inflight
      <4>1. e.type = "OPEN" /\ e.ok
        BY <1>1, <2>1, <3>2 DEF ClientEffect
      <4>2. state \in Early
        BY <1>4, <4>1 DEF IInv, OpeningInOrder, Opening, e
      <4>3. \A i \in Positions' : events'[i].type # "SEARCH_CMPL" /\ events'[i].type # "OPEN"
        BY <1>4, <4>1 DEF IInv, OneSearch, OneOpening, e
      <4>4. QED
        BY <1>9, <4>1, <4>2, <4>3
    <3>3. QED
      BY <3>1, <3>2
  <2>2. ASSUME NEW i \in Positions', events'[i].type = "SEARCH_CMPL" PROVE state' \in Early
    <3>1. state \in Early /\ e.type # "SEARCH_CMPL"
      BY <1>4, <2>2 DEF IInv, OneSearch, e
    <3>2. QED
      BY <1>9, <3>1
  <2>3. ASSUME NEW i \in Positions', NEW j \in Positions', events'[i].type = "SEARCH_CMPL",
               events'[j].type = "SEARCH_CMPL"
        PROVE  i = j
    BY <1>4, <1>6, <2>3 DEF IInv, OneSearch
  <2>4. ASSUME NEW i \in Positions', NEW j \in Positions', i < j, events'[i].type = "OPEN",
               events'[i].ok
        PROVE  events'[j].type # "SEARCH_CMPL"
    <3>1. /\ i + 1 \in Positions /\ j + 1 \in Positions /\ i + 1 < j + 1
          /\ events[i + 1].type = "OPEN" /\ events[i + 1].ok /\ events'[j] = events[j + 1]
      BY <1>4, <1>6, <2>4
    <3>2. QED
      BY <3>1 DEF IInv, OneSearch
  <2>5. QED
    BY <2>1, <2>2, <2>3, <2>4 DEF OneSearch
<1>16. AcksInOrder'
  <2>1. ASSUME NEW j \in Positions', NEW i \in Positions, j + 1 < i, Opening(events[i])
        PROVE  \E k \in Positions' : j < k /\ Opening(events'[k])
    <3>1. Len(events) \in Nat /\ i \in 1..Len(events) /\ j \in Nat /\ 1 <= j
      BY <1>3, <1>4, <2>1 DEF Positions, TypeOK
    <3>2. i - 1 \in 1..(Len(events) - 1) /\ j < i - 1 /\ (i - 1) + 1 = i
      BY <3>1, <2>1
    <3>3. i - 1 \in Positions' /\ events'[i - 1] = events[i]
      BY <1>4, <3>2
    <3>4. QED
      BY <2>1, <3>2, <3>3
  <2>2. ASSUME NEW j \in Positions', events'[j].type = "WRITE_CHAR", events'[j].ok
        PROVE  "rideon" \in acked' \/ \E i \in Positions' : j < i /\ Opening(events'[i])
    BY <1>2, <1>4, <2>1, <2>2 DEF IInv, AcksInOrder
  <2>3. ASSUME NEW j \in Positions', events'[j].type = "WRITE_DESCR",
               events'[j].handle = "async_cccd", events'[j].ok
        PROVE  "cccd_async" \in acked' \/ \E i \in Positions' : j < i /\ Opening(events'[i])
    BY <1>2, <1>4, <2>1, <2>3 DEF IInv, AcksInOrder
  <2>4. QED
    BY <2>2, <2>3 DEF AcksInOrder, Opening
<1>17. QED
  BY <1>3, <1>10, <1>11, <1>12, <1>13, <1>14, <1>15, <1>16 DEF IInv

\* What loop() does to the session.
LEMMA LoopEffect ==
  ASSUME IInv, Loop
  PROVE  /\ ReportDisconnected \/ (state # "DISCONNECTED" /\ Fails) \/ Stays
         /\ client = "IDLE" => client' = "IDLE" /\ state' = "DISCONNECTED"
         /\ client \in ClientOpening => client' \in ClientOpening
         /\ state = "DISCONNECTED" => state' = "DISCONNECTED"
<1>1. CASE LoopOnIdleClient
  BY <1>1 DEF LoopOnIdleClient, ReportDisconnected, EnterState, ClientOpening
<1>2. CASE LoopWatchdogs
  <2>1. CASE StepExpired /\ FailSetup(client) /\ UNCHANGED handles
    <3>1. state \in SetupStates
      BY <2>1 DEF StepExpired, StateTimeout, SetupStates
    <3>2. client' = Disconnecting(client) /\ Fails
      BY <2>1, <3>1 DEF FailSetup, Fail, Fails, EnterState, SetupStates, listenerVars
    <3>3. QED
      BY <1>2, <3>1, <3>2 DEF LoopWatchdogs, Disconnecting, ClientOpening, SetupStates
  <2>2. CASE ~StepExpired /\ UNCHANGED <<machineVars, listenerVars, client>>
    BY <1>2, <2>2 DEF LoopWatchdogs, Stays, machineVars, listenerVars
  <2>3. QED
    BY <1>2, <2>1, <2>2 DEF LoopWatchdogs
<1>3. QED
  BY <1>1, <1>2 DEF Loop

LEMMA LoopInv == IInv /\ Loop => IInv'
<1> SUFFICES ASSUME IInv, Loop PROVE IInv'
  OBVIOUS
<1>1. /\ ReportDisconnected \/ (state # "DISCONNECTED" /\ Fails) \/ Stays
      /\ client = "IDLE" => client' = "IDLE" /\ state' = "DISCONNECTED"
      /\ client \in ClientOpening => client' \in ClientOpening
      /\ state = "DISCONNECTED" => state' = "DISCONNECTED"
  BY LoopEffect
<1>2. UNCHANGED <<inflight, haptics, events, acked, Positions>> /\ polledIdle' = (polledIdle \/ client = "IDLE")
  BY DEF Loop, Positions
<1>3. TypeOK'
  BY LoopType DEF IInv
<1>4. state \in Early => state' \in Early
  BY <1>1 DEF Early, ReportDisconnected, EnterState, Fails, Stays
<1>5. client' = "IDLE" => client = "IDLE"
  <2>1. CASE LoopOnIdleClient
    BY <2>1 DEF LoopOnIdleClient
  <2>2. CASE LoopWatchdogs
    BY <2>2, FailSetupClient DEF LoopWatchdogs, Disconnecting
  <2>3. QED
    BY <2>1, <2>2 DEF Loop
<1>6. MembersAgree' /\ ListenerIsCurrent'
  BY <1>1, LinkAssumption DEF IInv, MembersAgree, ListenerIsCurrent, ReportDisconnected, ResetMembers,
    EnterState, Fails, Stays, SetupStates, TypeOK
<1>7. AcksAgree'
  BY <1>1, <1>2 DEF IInv, AcksAgree, ReportDisconnected, EnterState, Fails, Stays
<1>8. AskedWhenIdle'
  BY <1>1, <1>2 DEF IInv, AskedWhenIdle
<1>9. OneOpening'
  BY <1>1, <1>2 DEF IInv, OneOpening, Opening
<1>10. OpeningInOrder'
  BY <1>1, <1>2, <1>4, <1>5 DEF IInv, OpeningInOrder, Opening
<1>11. OneSearch'
  BY <1>2, <1>4 DEF IInv, OneSearch
<1>12. AcksInOrder'
  BY <1>2 DEF IInv, AcksInOrder, Opening
<1>13. QED
  BY <1>3, <1>6, <1>7, <1>8, <1>9, <1>10, <1>11, <1>12 DEF IInv

\* Steps that leave the machine and the queue alone: what they may do to the
\* client and to the operations in flight.
LEMMA ClientStepInv ==
  ASSUME IInv, TypeOK',
         UNCHANGED <<machineVars, told, events, acked>>,
         polledIdle' => polledIdle /\ client' = client,
         inflight' \subseteq inflight \/
           (/\ inflight' = inflight \union {"open"} /\ client = "IDLE" /\ polledIdle
            /\ client' \in ClientOpening),
         haptics' > 0 => "rideon" \in acked,
         client \in ClientOpening => client' \in ClientOpening,
         client' = "IDLE" => client = "IDLE" \/ \A i \in Positions : events[i].type \notin {"CONNECT", "OPEN"}
  PROVE  IInv'
<1>1. Positions' = Positions /\ events' = events
  BY DEF Positions
<1>2. \A i \in Positions : events'[i] = events[i] /\ (Opening(events'[i]) <=> Opening(events[i]))
  BY <1>1 DEF Opening
<1>3. UNCHANGED <<state, connId, asyncEnabled, disconnectReported, told, acked>>
  BY DEF machineVars
<1>4. MembersAgree' /\ ListenerIsCurrent' /\ AcksAgree'
  BY <1>3 DEF IInv, MembersAgree, ListenerIsCurrent, AcksAgree
<1>5. AskedWhenIdle'
  <2>1. client = "IDLE" => \A i \in Positions : events[i].type \notin {"CONNECT", "OPEN"}
    BY DEF IInv, OneOpening, OpeningInOrder, Opening, ClientOpening
  <2>2. QED
    BY <1>1, <1>3, <2>1 DEF IInv, AskedWhenIdle
<1>6. OneOpening'
  BY <1>1, <1>2 DEF IInv, OneOpening
<1>7. OpeningInOrder'
  <2>1. \A j \in Positions : Opening(events[j]) => client # "IDLE" /\ client' # "IDLE"
    BY DEF IInv, OpeningInOrder, Opening
  <2>2. QED
    BY <1>1, <1>2, <1>3, <2>1 DEF IInv, OpeningInOrder
<1>8. OneSearch'
  <2>1. "search" \in inflight' => "search" \in inflight
    OBVIOUS
  <2>2. QED
    BY <1>1, <1>3, <2>1 DEF IInv, OneSearch
<1>9. AcksInOrder'
  BY <1>1, <1>2, <1>3 DEF IInv, AcksInOrder
<1>10. QED
  BY <1>4, <1>5, <1>6, <1>7, <1>8, <1>9 DEF IInv

\* Queueing events that neither begin a connection nor end a search.
LEMMA EnqueueInv ==
  ASSUME IInv, TypeOK', NEW es \in Seq(Event), Enqueue(es),
         \A k \in 1..Len(es) : es[k].type \notin {"CONNECT", "OPEN", "SEARCH_CMPL"},
         \A k \in 1..Len(es) : es[k].type = "WRITE_CHAR" /\ es[k].ok => "rideon" \in acked',
         \A k \in 1..Len(es) : es[k].type = "WRITE_DESCR" /\ es[k].handle = "async_cccd" /\ es[k].ok
           => "cccd_async" \in acked',
         UNCHANGED <<machineVars, told, clientVars>>,
         acked \subseteq acked', inflight' \subseteq inflight, haptics' > 0 => haptics > 0
  PROVE  IInv'
<1>1. /\ Positions' = 1..(Len(events) + Len(es))
      /\ Len(events) \in Nat /\ Len(es) \in Nat
      /\ \A i \in Positions : i \in Positions' /\ events'[i] = events[i]
      /\ \A i \in Positions' : i \in Positions \/
           (/\ i > Len(events) /\ events'[i].type \notin {"CONNECT", "OPEN", "SEARCH_CMPL"}
            /\ (events'[i].type = "WRITE_CHAR" /\ events'[i].ok => "rideon" \in acked')
            /\ (events'[i].type = "WRITE_DESCR" /\ events'[i].handle = "async_cccd" /\ events'[i].ok
                 => "cccd_async" \in acked'))
  <2>1. TypeOK
    BY DEF IInv
  <2>2. ASSUME NEW i \in Positions', i \notin Positions
        PROVE  /\ i > Len(events) /\ events'[i].type \notin {"CONNECT", "OPEN", "SEARCH_CMPL"}
               /\ events'[i].type = "WRITE_CHAR" /\ events'[i].ok => "rideon" \in acked'
               /\ events'[i].type = "WRITE_DESCR" /\ events'[i].handle = "async_cccd" /\ events'[i].ok
                    => "cccd_async" \in acked'
    <3>1. PICK k \in 1..Len(es) : i = Len(events) + k /\ i > Len(events)
      BY <2>1, <2>2, Enqueued
    <3>2. events'[i] = es[k]
      BY <2>1, <3>1, Enqueued
    <3>3. QED
      BY <3>1, <3>2
  <2>3. QED
    BY <2>1, <2>2, Enqueued
<1>2. UNCHANGED <<state, connId, asyncEnabled, disconnectReported, told, client, polledIdle>>
  BY DEF machineVars, clientVars
<1>3. MembersAgree' /\ ListenerIsCurrent' /\ AcksAgree'
  BY <1>2 DEF IInv, MembersAgree, ListenerIsCurrent, AcksAgree
<1>4. AskedWhenIdle'
  BY <1>1, <1>2 DEF IInv, AskedWhenIdle
<1>5. OneOpening'
  BY <1>1, <1>2 DEF IInv, OneOpening, Opening
<1>6. \A i \in Positions' : Opening(events'[i]) => i \in Positions /\ Opening(events[i])
  BY <1>1 DEF Opening
<1>7. \A i, j \in Positions' : i < j /\ j \in Positions => i \in Positions
  BY <1>1 DEF Positions
<1>8. OpeningInOrder'
  <2>1. ASSUME NEW j \in Positions', Opening(events'[j]) PROVE state' \in Early /\ client' # "IDLE"
    BY <1>2, <1>6, <2>1 DEF IInv, OpeningInOrder
  <2>2. ASSUME NEW i \in Positions', NEW j \in Positions', i < j, Opening(events'[j]),
               ~Opening(events'[i])
        PROVE  state' = "DISCONNECTED" /\ client' \in ClientOpening
    BY <1>1, <1>2, <1>6, <1>7, <2>2 DEF IInv, OpeningInOrder
  <2>3. ASSUME NEW i \in Positions', NEW j \in Positions', NEW k \in Positions', i < k, k < j,
               Opening(events'[i]), Opening(events'[j])
        PROVE  Opening(events'[k])
    BY <1>1, <1>6, <1>7, <2>3 DEF IInv, OpeningInOrder
  <2>4. QED
    BY <2>1, <2>2, <2>3 DEF OpeningInOrder, Opening
<1>9. OneSearch'
  <2>1. \A i \in Positions' : events'[i].type \in {"OPEN", "SEARCH_CMPL"}
          => i \in Positions /\ events'[i] = events[i]
    BY <1>1
  <2>2. \A i, j \in Positions' : i < j /\ events'[i].type = "OPEN" /\ events'[i].ok
          => events'[j].type # "SEARCH_CMPL"
    BY <2>1 DEF IInv, OneSearch
  <2>3. QED
    BY <1>2, <2>1, <2>2 DEF IInv, OneSearch
<1>10. AcksInOrder'
  <2>1. ASSUME NEW j \in Positions', events'[j].type = "WRITE_CHAR", events'[j].ok
        PROVE  "rideon" \in acked' \/ \E i \in Positions' : j < i /\ Opening(events'[i])
    BY <1>1, <2>1 DEF IInv, AcksInOrder
  <2>2. ASSUME NEW j \in Positions', events'[j].type = "WRITE_DESCR",
               events'[j].handle = "async_cccd", events'[j].ok
        PROVE  "cccd_async" \in acked' \/ \E i \in Positions' : j < i /\ Opening(events'[i])
    BY <1>1, <2>2 DEF IInv, AcksInOrder
  <2>3. QED
    BY <2>1, <2>2 DEF AcksInOrder, Opening
<1>11. QED
  BY <1>3, <1>4, <1>5, <1>8, <1>9, <1>10 DEF IInv

\* The opening of a link: nothing about the connection before it is left but
\* what the queue still holds, and the machine is DISCONNECTED.
LEMMA LinkUpInv == IInv /\ LinkUp => IInv'
<1> SUFFICES ASSUME IInv, LinkUp PROVE IInv'
  OBVIOUS
<1>1. TypeOK /\ TypeOK'
  BY NextType DEF IInv, Next
<1>2. /\ client \in ClientOpening /\ state = "DISCONNECTED"
      /\ \A i \in Positions : events[i].type \notin {"CONNECT", "OPEN"}
  BY DEF IInv, AskedWhenIdle, LinkUp
<1>3. UNCHANGED <<machineVars, told, client, polledIdle>> /\ inflight' = {} /\ haptics' = 0
  BY DEF LinkUp, EnvironmentUnchanged, clientVars, listenerVars
<1>4. UNCHANGED <<state, connId, asyncEnabled, disconnectReported, told>>
  BY <1>3 DEF machineVars
<1> DEFINE connect == ConnectionEvent("CONNECT", link', TRUE)
           open == ConnectionEvent("OPEN", link', TRUE)
<1>5. /\ connect \in Event /\ connect.type = "CONNECT"
      /\ open \in Event /\ open.type = "OPEN" /\ open.ok
  BY <1>1, ConnectionEventType DEF TypeOK, EventTypes, ConnectionEvent
<1> HIDE DEF connect, open
<1>6. PICK es \in {<<open>>, <<connect, open>>, <<open, connect>>} : Enqueue(es)
  BY DEF LinkUp, connect, open
<1>7. es \in Seq(Event) /\ Len(es) \in {1, 2}
  <2>1. CASE es = <<open>>
    BY <1>5, <2>1
  <2>2. CASE es = <<connect, open>>
    BY <1>5, <2>2
  <2>3. CASE es = <<open, connect>>
    BY <1>5, <2>3
  <2>4. QED
    BY <1>6, <2>1, <2>2, <2>3
<1>8. /\ \A k \in 1..Len(es) : Opening(es[k]) /\ es[k].type \in {"CONNECT", "OPEN"}
      /\ \A k \in 1..Len(es) : es[k].type = "OPEN" => es[k].ok
      /\ \A k, m \in 1..Len(es) : es[k].type = "OPEN" /\ es[m].type = "OPEN" => k = m
  BY <1>5, <1>6 DEF Opening
<1>9. /\ Positions' = 1..(Len(events) + Len(es))
      /\ Len(events) \in Nat /\ Len(es) \in Nat
      /\ \A i \in Positions : i \in Positions' /\ events'[i] = events[i] /\ i <= Len(events)
      /\ \A i \in Positions' : i \in Positions \/ \E k \in 1..Len(es) : i = Len(events) + k
      /\ \A k \in 1..Len(es) : events'[Len(events) + k] = es[k] /\ Len(events) + k \in Positions'
  BY <1>1, <1>6, <1>7, Enqueued
<1>10. \A i \in Positions' :
         \/ i \in Positions /\ events'[i] = events[i] /\ events'[i].type \notin {"CONNECT", "OPEN"}
         \/ i \notin Positions /\ Opening(events'[i]) /\ events'[i].type \in {"CONNECT", "OPEN"}
            /\ (events'[i].type = "OPEN" => events'[i].ok)
  <2> SUFFICES ASSUME NEW i \in Positions', i \notin Positions
               PROVE  /\ Opening(events'[i]) /\ events'[i].type \in {"CONNECT", "OPEN"}
                      /\ events'[i].type = "OPEN" => events'[i].ok
    BY <1>2, <1>9
  <2>1. PICK k \in 1..Len(es) : i = Len(events) + k
    BY <1>9
  <2>2. events'[i] = es[k]
    BY <1>9, <2>1
  <2>3. QED
    BY <1>8, <2>2 DEF Opening
<1>11. \A i \in Positions', j \in Positions' : j \notin Positions /\ j < i => i \notin Positions
  BY <1>9 DEF Positions
<1>12. \A i \in Positions', j \in Positions' : i \in Positions /\ j \notin Positions => i < j
  BY <1>9 DEF Positions
<1>13. Len(events) + 1 \in Positions' /\ Len(events) + 1 \notin Positions
  <2>1. 1 \in 1..Len(es)
    BY <1>7
  <2>2. QED
    BY <1>9, <2>1
<1>14. MembersAgree' /\ ListenerIsCurrent' /\ AcksAgree'
  BY <1>2, <1>3, <1>4 DEF IInv, MembersAgree, ListenerIsCurrent, AcksAgree
<1>15. AskedWhenIdle'
  BY <1>2, <1>3, <1>4 DEF IInv, AskedWhenIdle, ClientOpening
<1>16. OneOpening'
  <2>1. ASSUME NEW i \in Positions', NEW j \in Positions', events'[i].type = "OPEN",
               events'[j].type = "OPEN"
        PROVE  i = j
    <3>1. PICK k \in 1..Len(es), m \in 1..Len(es) : i = Len(events) + k /\ j = Len(events) + m
      BY <1>9, <1>10, <2>1
    <3>2. es[k].type = "OPEN" /\ es[m].type = "OPEN"
      BY <1>9, <2>1, <3>1
    <3>3. QED
      BY <1>8, <3>1, <3>2
  <2>2. QED
    BY <1>2, <1>3, <1>10, <2>1 DEF OneOpening, Opening
<1>17. OpeningInOrder'
  <2>1. \A i \in Positions' : Opening(events'[i]) <=> i \notin Positions
    BY <1>10 DEF Opening
  <2>2. \A i, k \in Positions' : Opening(events'[i]) /\ i < k => Opening(events'[k])
    BY <1>11, <2>1
  <2>3. QED
    BY <1>2, <1>3, <1>4, <2>2 DEF OpeningInOrder, Opening, Early, ClientOpening
<1>18. OneSearch'
  <2>1. \A i, j \in Positions' : i < j /\ events'[i].type = "OPEN" => events'[j].type # "SEARCH_CMPL"
    BY <1>10, <1>11
  <2>2. QED
    BY <1>2, <1>3, <1>4, <1>10, <2>1 DEF IInv, OneSearch, Early
<1>19. AcksInOrder'
  BY <1>10, <1>12, <1>13 DEF AcksInOrder, Opening
<1>20. QED
  BY <1>1, <1>14, <1>15, <1>16, <1>17, <1>18, <1>19 DEF IInv

LEMMA OpenFailsInv == IInv /\ OpenFails => IInv'
<1> SUFFICES ASSUME IInv, OpenFails PROVE IInv'
  OBVIOUS
<1>1. TypeOK /\ TypeOK'
  BY NextType DEF IInv, Next
<1>2. /\ client \in ClientOpening /\ state = "DISCONNECTED"
      /\ \A i \in Positions : events[i].type \notin {"CONNECT", "OPEN"}
  BY DEF IInv, AskedWhenIdle, OpenFails
<1>3. /\ UNCHANGED <<state, connId, asyncEnabled, disconnectReported, told, client, polledIdle, haptics,
                     acked>>
      /\ inflight' = inflight \ {"open"}
  BY DEF OpenFails, EnvironmentUnchanged, clientVars, machineVars, listenerVars
<1> DEFINE failed == ConnectionEvent("OPEN", link, FALSE)
<1>4. failed \in Event /\ failed.type = "OPEN" /\ ~failed.ok
  BY <1>1, ConnectionEventType DEF TypeOK, EventTypes, ConnectionEvent
<1>5. Enqueue(<<failed>>)
  BY DEF OpenFails
<1> HIDE DEF failed
<1>6. /\ <<failed>> \in Seq(Event) /\ Len(<<failed>>) = 1
      /\ 1 \in 1..Len(<<failed>>) /\ <<failed>>[1] = failed
  BY <1>4
<1>7. /\ Len(events) \in Nat
      /\ Positions' = 1..(Len(events) + 1)
      /\ \A i \in Positions : i \in Positions' /\ i <= Len(events) /\ events'[i] = events[i]
      /\ events'[Len(events) + 1] = failed
  BY <1>1, <1>5, <1>6, Enqueued
<1>8. \A i \in Positions' : i \in Positions \/ i = Len(events) + 1
  BY <1>7 DEF Positions
<1>9. /\ \A i \in Positions' : ~Opening(events'[i])
      /\ \A i \in Positions' : events'[i].type = "OPEN" => i = Len(events) + 1
      /\ \A i \in Positions' : events'[i].type # "OPEN" => i \in Positions /\ events'[i] = events[i]
  BY <1>2, <1>4, <1>7, <1>8 DEF Opening
<1>10. MembersAgree' /\ ListenerIsCurrent' /\ AcksAgree'
  BY <1>3 DEF IInv, MembersAgree, ListenerIsCurrent, AcksAgree
<1>11. AskedWhenIdle'
  BY <1>3 DEF IInv, AskedWhenIdle
<1>12. OneOpening'
  BY <1>2, <1>3, <1>9 DEF OneOpening, Opening
<1>13. OpeningInOrder'
  BY <1>9 DEF OpeningInOrder, Opening
<1>14. OneSearch'
  <2>1. \A i \in Positions' : events'[i].type = "SEARCH_CMPL" => i \in Positions /\ events'[i] = events[i]
    BY <1>9
  <2>2. \A i \in Positions' : ~(events'[i].type = "OPEN" /\ events'[i].ok)
    BY <1>9 DEF Opening
  <2>3. QED
    BY <1>3, <2>1, <2>2 DEF IInv, OneSearch
<1>15. AcksInOrder'
  <2>1. \A i \in Positions : ~Opening(events[i])
    BY <1>2 DEF Opening
  <2>2. \A i \in Positions' : events'[i].type \in {"WRITE_CHAR", "WRITE_DESCR"}
          => i \in Positions /\ events'[i] = events[i]
    BY <1>9
  <2>3. QED
    BY <1>3, <2>1, <2>2 DEF IInv, AcksInOrder
<1>16. QED
  BY <1>1, <1>10, <1>11, <1>12, <1>13, <1>14, <1>15 DEF IInv

\* The search ends before the handshake, and no opening is queued behind it.
LEMMA SearchCompletesInv ==
  ASSUME IInv, TypeOK', NEW done \in Event, done.type = "SEARCH_CMPL", "search" \in inflight,
         inflight' = inflight \ {"search"}, Enqueue(<<done>>),
         UNCHANGED <<machineVars, told, clientVars, haptics, acked>>
  PROVE  IInv'
<1>1. /\ <<done>> \in Seq(Event) /\ Len(<<done>>) = 1 /\ TypeOK
      /\ 1 \in 1..Len(<<done>>) /\ <<done>>[1] = done
  BY DEF IInv
<1>2. /\ Len(events) \in Nat
      /\ Positions' = 1..(Len(events) + 1)
      /\ \A i \in Positions : i \in Positions' /\ i <= Len(events) /\ events'[i] = events[i]
      /\ events'[Len(events) + 1] = done
  BY <1>1, Enqueued
<1>3. \A i \in Positions' : i \in Positions \/ (i = Len(events) + 1 /\ i \notin Positions)
  BY <1>2 DEF Positions
<1>4. \A i, j \in Positions' : i < j /\ j \in Positions => i \in Positions
  BY <1>2 DEF Positions
<1>5. UNCHANGED <<state, connId, asyncEnabled, disconnectReported, told, client, polledIdle, acked, haptics>>
  BY DEF machineVars, clientVars
<1>6. /\ state \in Early
      /\ \A i \in Positions : events[i].type # "SEARCH_CMPL"
      /\ \A i \in Positions : ~(events[i].type = "OPEN" /\ events[i].ok)
  BY DEF IInv, OneSearch
<1>7. \A i \in Positions' : events'[i].type # "SEARCH_CMPL" => i \in Positions /\ events'[i] = events[i]
  BY <1>2, <1>3
<1>8. \A i \in Positions' : Opening(events'[i]) => i \in Positions /\ Opening(events[i])
  BY <1>7 DEF Opening
<1>9. MembersAgree' /\ ListenerIsCurrent' /\ AcksAgree'
  BY <1>5 DEF IInv, MembersAgree, ListenerIsCurrent, AcksAgree
<1>10. AskedWhenIdle'
  BY <1>5, <1>7 DEF IInv, AskedWhenIdle
<1>11. OneOpening'
  BY <1>5, <1>7 DEF IInv, OneOpening, Opening
<1>12. OpeningInOrder'
  <2>1. ASSUME NEW j \in Positions', Opening(events'[j]) PROVE state' \in Early /\ client' # "IDLE"
    BY <1>5, <1>8, <2>1 DEF IInv, OpeningInOrder
  <2>2. ASSUME NEW i \in Positions', NEW j \in Positions', i < j, Opening(events'[j]),
               ~Opening(events'[i])
        PROVE  state' = "DISCONNECTED" /\ client' \in ClientOpening
    BY <1>2, <1>4, <1>5, <1>8, <2>2 DEF IInv, OpeningInOrder
  <2>3. ASSUME NEW i \in Positions', NEW j \in Positions', NEW k \in Positions', i < k, k < j,
               Opening(events'[i]), Opening(events'[j])
        PROVE  Opening(events'[k])
    BY <1>2, <1>4, <1>8, <2>3 DEF IInv, OpeningInOrder
  <2>4. QED
    BY <2>1, <2>2, <2>3 DEF OpeningInOrder, Opening
<1>13. OneSearch'
  <2>1. "search" \notin inflight'
    OBVIOUS
  <2>2. \A i \in Positions' : events'[i].type = "SEARCH_CMPL" => i = Len(events) + 1
    BY <1>2, <1>3, <1>6
  <2>3. \A i \in Positions' : ~(events'[i].type = "OPEN" /\ events'[i].ok)
    BY <1>6, <1>7
  <2>4. QED
    BY <1>5, <1>6, <2>1, <2>2, <2>3 DEF OneSearch
<1>14. AcksInOrder'
  <2>1. ASSUME NEW j \in Positions', events'[j].type = "WRITE_CHAR", events'[j].ok
        PROVE  "rideon" \in acked' \/ \E i \in Positions' : j < i /\ Opening(events'[i])
    BY <1>2, <1>5, <1>7, <2>1 DEF IInv, AcksInOrder
  <2>2. ASSUME NEW j \in Positions', events'[j].type = "WRITE_DESCR",
               events'[j].handle = "async_cccd", events'[j].ok
        PROVE  "cccd_async" \in acked' \/ \E i \in Positions' : j < i /\ Opening(events'[i])
    BY <1>2, <1>5, <1>7, <2>2 DEF IInv, AcksInOrder
  <2>3. QED
    BY <2>1, <2>2 DEF AcksInOrder, Opening
<1>15. QED
  BY <1>9, <1>10, <1>11, <1>12, <1>13, <1>14 DEF IInv

LEMMA EnvironmentInv ==
  ASSUME IInv, TypeOK',
         LinkDown \/ OperationCompletes \/ HapticCompletes \/ CompletionLost \/ ControllerNotifies
  PROVE  IInv'
<1>1. TypeOK /\ (haptics > 0 => "rideon" \in acked)
  BY DEF IInv, AcksAgree
<1>2. UNCHANGED <<machineVars, told, clientVars>>
  BY DEF LinkDown, OperationCompletes, HapticCompletes, CompletionLost, ControllerNotifies,
    EnvironmentUnchanged, listenerVars
<1>3. CASE LinkDown
  <2>1. /\ inflight' \subseteq inflight /\ haptics' = 0 /\ acked' = acked
    BY <1>3 DEF LinkDown
  <2> DEFINE disconnect == ConnectionEvent("DISCONNECT", link, TRUE)
             close == ConnectionEvent("CLOSE", link, TRUE)
  <2>2. /\ disconnect \in Event /\ disconnect.type = "DISCONNECT"
        /\ close \in Event /\ close.type = "CLOSE"
    BY <1>1, ConnectionEventType DEF TypeOK, EventTypes, ConnectionEvent
  <2>3. PICK es \in {<<>>, <<disconnect>>, <<close>>, <<disconnect, close>>, <<close, disconnect>>} :
          Enqueue(es)
    BY <1>3 DEF LinkDown
  <2> HIDE DEF disconnect, close
  <2>4. es \in Seq(Event) /\ \A k \in 1..Len(es) : es[k].type \in {"DISCONNECT", "CLOSE"}
    <3>1. CASE es = <<>>
      BY <3>1
    <3>2. CASE es = <<disconnect>>
      BY <2>2, <3>2
    <3>3. CASE es = <<close>>
      BY <2>2, <3>3
    <3>4. CASE es = <<disconnect, close>>
      BY <2>2, <3>4
    <3>5. CASE es = <<close, disconnect>>
      BY <2>2, <3>5
    <3>6. QED
      BY <2>3, <3>1, <3>2, <3>3, <3>4, <3>5
  <2>5. QED
    BY <1>2, <2>1, <2>3, <2>4, EnqueueInv
<1>4. CASE OperationCompletes
  <2>1. PICK op \in inflight \ {"open"}, ok \in BOOLEAN :
          /\ inflight' = inflight \ {op}
          /\ Enqueue(<<Completion(op, ok)>>)
          /\ acked' = IF ok THEN acked \union ({op} \intersect {"rideon", "cccd_async"}) ELSE acked
          /\ UNCHANGED <<clientVars, link, linkUp, haptics, hapticTimeouts>>
    BY <1>4 DEF OperationCompletes
  <2>2. op \in Operations \ {"open"} /\ Completion(op, ok) \in Event
    BY <1>1, CompletionType DEF TypeOK
  <2>3. CASE op = "search"
    <3>1. Completion(op, ok).type = "SEARCH_CMPL" /\ acked' = acked
      BY <2>1, <2>3 DEF Completion
    <3>2. QED
      BY <1>2, <2>1, <2>2, <2>3, <3>1, SearchCompletesInv
  <2>4. CASE op # "search"
    <3> DEFINE es == <<Completion(op, ok)>>
    <3>1. /\ Completion(op, ok).type \notin {"CONNECT", "OPEN", "SEARCH_CMPL"}
          /\ Completion(op, ok).type = "WRITE_CHAR" /\ Completion(op, ok).ok => "rideon" \in acked'
          /\ Completion(op, ok).type = "WRITE_DESCR" /\ Completion(op, ok).handle = "async_cccd"
               /\ Completion(op, ok).ok => "cccd_async" \in acked'
      BY <2>1, <2>2, <2>4 DEF Completion, Operations
    <3>2. es \in Seq(Event) /\ Len(es) = 1 /\ es[1] = Completion(op, ok)
      BY <2>2
    <3>3. \A k \in 1..Len(es) : es[k] = Completion(op, ok)
      BY <3>2
    <3>4. acked \subseteq acked' /\ inflight' \subseteq inflight /\ haptics' = haptics /\ Enqueue(es)
      BY <2>1
    <3> HIDE DEF es
    <3>5. QED
      BY <1>2, <3>1, <3>2, <3>3, <3>4, EnqueueInv
  <2>5. QED
    BY <2>3, <2>4
<1>5. CASE HapticCompletes
  <2>1. PICK ok \in BOOLEAN : Enqueue(<<Completion("rideon", ok)>>)
    BY <1>5 DEF HapticCompletes
  <2> DEFINE es == <<Completion("rideon", ok)>>
  <2>2. Completion("rideon", ok) \in Event /\ Completion("rideon", ok).type = "WRITE_CHAR"
    BY <1>1, CompletionType DEF Operations, Completion
  <2>3. es \in Seq(Event) /\ \A k \in 1..Len(es) : es[k].type = "WRITE_CHAR"
    <3>1. es \in Seq(Event) /\ Len(es) = 1 /\ es[1].type = "WRITE_CHAR"
      BY <2>2
    <3>2. QED
      BY <3>1
  <2>4. inflight' = inflight /\ acked' = acked /\ haptics > 0 /\ Enqueue(es)
    BY <1>5, <2>1 DEF HapticCompletes
  <2> HIDE DEF es
  <2>5. QED
    BY <1>1, <1>2, <2>3, <2>4, EnqueueInv
<1>6. CASE CompletionLost
  <2>1. /\ inflight' \subseteq inflight /\ UNCHANGED <<events, acked>>
        /\ haptics' > 0 => haptics > 0
    BY <1>1, <1>6 DEF CompletionLost, TypeOK
  <2>2. UNCHANGED <<client, polledIdle>>
    BY <1>2 DEF clientVars
  <2>3. QED
    BY <1>1, <1>2, <2>1, <2>2, ClientStepInv
<1>7. CASE ControllerNotifies
  <2> DEFINE es == <<[type |-> "NOTIFY", link |-> link, handle |-> "async", ok |-> TRUE]>>
  <2>1. [type |-> "NOTIFY", link |-> link, handle |-> "async", ok |-> TRUE] \in Event
    BY <1>1 DEF Event, EventTypes, Handles, TypeOK
  <2>2. es \in Seq(Event) /\ \A k \in 1..Len(es) : es[k].type = "NOTIFY"
    BY <2>1
  <2>3. inflight' = inflight /\ acked' = acked /\ haptics' = haptics /\ Enqueue(es)
    BY <1>7 DEF ControllerNotifies
  <2> HIDE DEF es
  <2>4. QED
    BY <1>2, <2>2, <2>3, EnqueueInv
<1>8. QED
  BY <1>3, <1>4, <1>5, <1>6, <1>7

LEMMA NextInv == IInv /\ [Next]_vars => IInv'
<1> SUFFICES ASSUME IInv, [Next]_vars PROVE IInv'
  OBVIOUS
<1>1. TypeOK /\ TypeOK'
  BY NextType DEF IInv
<1>2. CASE Dispatch
  BY <1>2, DispatchInv
<1>3. CASE Loop
  BY <1>3, LoopInv
<1>4. CASE Vibrate
  <2>1. UNCHANGED <<machineVars, told, events, acked, client, polledIdle, inflight>>
    BY <1>4 DEF Vibrate, listenerVars, clientVars
  <2>2. "rideon" \in acked
    BY <1>4 DEF Vibrate, MayVibrate, IInv, AcksAgree
  <2>3. QED
    BY <1>1, <2>1, <2>2, ClientStepInv
<1>5. CASE Tick
  <2>1. UNCHANGED <<machineVars, told, events, acked, client, polledIdle, inflight, haptics>>
    BY <1>5 DEF Tick, listenerVars, clientVars, stackVars
  <2>2. QED
    BY <1>1, <2>1, ClientStepInv DEF IInv, AcksAgree
<1>6. CASE ClientConnect
  <2>1. UNCHANGED <<machineVars, told, events, acked, haptics>>
    BY <1>6 DEF ClientConnect, EnvironmentUnchanged, listenerVars
  <2>2. /\ client = "IDLE" /\ polledIdle /\ client' = "CONNECTING" /\ ~polledIdle'
        /\ inflight' = inflight \union {"open"}
    BY <1>6 DEF ClientConnect
  <2>3. QED
    BY <1>1, <2>1, <2>2, ClientStepInv DEF IInv, AcksAgree, ClientOpening
<1>7. CASE ClientDisconnect
  <2>1. UNCHANGED <<machineVars, told, events, acked, haptics, inflight, polledIdle>>
    BY <1>7 DEF ClientDisconnect, EnvironmentUnchanged, listenerVars, stackVars
  <2>2. /\ client \in {"CONNECTING", "CONNECTED"}
        /\ client' = Disconnecting(client)
        /\ ~polledIdle
    BY <1>7 DEF ClientDisconnect, IInv, AskedWhenIdle
  <2>3. QED
    BY <1>1, <2>1, <2>2, ClientStepInv DEF IInv, AcksAgree, ClientOpening, Disconnecting
<1>8. CASE ClientWatchdog
  <2>1. UNCHANGED <<machineVars, told, events, acked, haptics, inflight, polledIdle>>
    BY <1>8 DEF ClientWatchdog, EnvironmentUnchanged, listenerVars, stackVars
  <2>2. /\ client = "DISCONNECTING" /\ client' = "IDLE" /\ ~polledIdle
        /\ \A i \in Positions : events[i].type \notin {"CONNECT", "OPEN"}
    BY <1>8 DEF ClientWatchdog, IInv, AskedWhenIdle, Positions
  <2>3. QED
    BY <1>1, <2>1, <2>2, ClientStepInv DEF IInv, AcksAgree, ClientOpening
<1>9. CASE LinkUp
  BY <1>9, LinkUpInv
<1>10. CASE OpenFails
  BY <1>10, OpenFailsInv
<1>11. CASE LinkDown \/ OperationCompletes \/ HapticCompletes \/ CompletionLost \/ ControllerNotifies
  BY <1>1, <1>11, EnvironmentInv
<1>12. CASE UNCHANGED vars
  <2>1. UNCHANGED <<machineVars, told, events, acked, client, polledIdle, inflight, haptics>>
    BY <1>12 DEF vars, listenerVars, clientVars, stackVars
  <2>2. QED
    BY <1>1, <2>1, ClientStepInv DEF IInv, AcksAgree
<1>13. QED
  BY <1>2, <1>3, <1>4, <1>5, <1>6, <1>7, <1>8, <1>9, <1>10, <1>11, <1>12 DEF Next

LEMMA Invariance == Spec => []IInv
<1>1. QED
  BY InitInv, NextInv, PTL DEF Spec

\* The listener is never told less or more than the truth.
THEOREM ListenerCurrent == Spec => []ListenerIsCurrent
<1>1. IInv => ListenerIsCurrent
  BY DEF IInv
<1>2. QED
  BY <1>1, Invariance, PTL

\* No READY without the controller's acknowledgement of the RideOn write and of
\* the input subscription, on the connection READY is claimed for: whatever
\* was queued for the connection before is spent before the new one begins.
THEOREM ReadyEarned == Spec => []ReadyIsEarned
<1>1. IInv => ReadyIsEarned
  BY DEF IInv, AcksAgree, ReadyIsEarned
<1>2. QED
  BY <1>1, Invariance, PTL

-----------------------------------------------------------------------------
(* RideClient implements RideSession.                                      *)

LEMMA InitSession == Init => Session!SessionInit
BY DEF Init, Session!SessionInit, sessionPhase

LEMMA EffectSimulates ==
  ASSUME IInv, IInv',
         \/ state \in Early /\ \E l \in Links : BeginConnection(l)
         \/ ReportDisconnected
         \/ Fails
         \/ (\E e : Advances(e)) /\ UNCHANGED <<connId, disconnectReported, frame>>
         \/ Stays
  PROVE  [Session!SessionNext]_(Session!sessionVars)
<1>1. /\ sessionPhase \in {"closed", "opening", "subscribed", "ready"}
      /\ sessionPhase = "closed" <=> state = "DISCONNECTED"
      /\ sessionPhase = "ready" <=> state = "READY"
      /\ sessionPhase = "subscribed" <=> state = "SUBSCRIBING_SYNC_TX"
  BY DEF IInv, MembersAgree, sessionPhase
<1>2. /\ sessionPhase' \in {"closed", "opening", "subscribed", "ready"}
      /\ sessionPhase' = "closed" <=> state' = "DISCONNECTED"
      /\ sessionPhase' = "ready" <=> state' = "READY"
      /\ sessionPhase' = "subscribed" <=> state' = "SUBSCRIBING_SYNC_TX"
  BY DEF IInv, MembersAgree, sessionPhase
<1>3. /\ told = "ready" <=> state = "READY"
      /\ told \in {"ready", "disconnected"}
      /\ asyncEnabled <=> state \in {"SUBSCRIBING_SYNC_TX", "READY"}
      /\ disconnectReported <=> state = "DISCONNECTED"
  BY DEF IInv, ListenerIsCurrent, MembersAgree, TypeOK
<1>4. CASE state \in Early /\ \E l \in Links : BeginConnection(l)
  <2>1. Session!Open
    BY <1>1, <1>2, <1>4 DEF Session!Open, BeginConnection, EnterState, Early, listenerVars
  <2>2. QED
    BY <2>1 DEF Session!SessionNext
<1>5. CASE ReportDisconnected
  <2>1. CASE state = "DISCONNECTED"
    BY <1>1, <1>2, <1>3, <1>5, <2>1 DEF ReportDisconnected, EnterState, Session!sessionVars
  <2>2. CASE state # "DISCONNECTED"
    <3>1. Session!Close
      BY <1>1, <1>2, <1>3, <1>5, <2>2 DEF ReportDisconnected, EnterState, Session!Close
    <3>2. QED
      BY <3>1 DEF Session!SessionNext
  <2>3. QED
    BY <2>1, <2>2
<1>6. CASE Fails
  <2>1. Session!Open
    BY <1>1, <1>2, <1>6 DEF Fails, SetupStates, Session!Open
  <2>2. QED
    BY <2>1 DEF Session!SessionNext
<1>7. CASE (\E e : Advances(e)) /\ UNCHANGED <<connId, disconnectReported, frame>>
  <2>1. \/ /\ state \in {"DISCOVERING", "ERROR", "SENDING_HANDSHAKE"}
           /\ state' \in {"SENDING_HANDSHAKE", "SUBSCRIBING_ASYNC"} /\ told' = told
        \/ state = "SUBSCRIBING_ASYNC" /\ state' = "SUBSCRIBING_SYNC_TX" /\ told' = told
        \/ state \in {"SUBSCRIBING_ASYNC", "SUBSCRIBING_SYNC_TX"} /\ state' = "READY" /\ told' = "ready"
    BY <1>7 DEF Advances
  <2>2. CASE /\ state \in {"DISCOVERING", "ERROR", "SENDING_HANDSHAKE"}
             /\ state' \in {"SENDING_HANDSHAKE", "SUBSCRIBING_ASYNC"} /\ told' = told
    <3>1. Session!Open
      BY <1>1, <1>2, <1>7, <2>2 DEF Session!Open
    <3>2. QED
      BY <3>1 DEF Session!SessionNext
  <2>3. CASE state = "SUBSCRIBING_ASYNC" /\ state' = "SUBSCRIBING_SYNC_TX" /\ told' = told
    <3>1. Session!Subscribe
      BY <1>1, <1>2, <1>7, <2>3 DEF Session!Subscribe
    <3>2. QED
      BY <3>1 DEF Session!SessionNext
  <2>4. CASE /\ state \in {"SUBSCRIBING_ASYNC", "SUBSCRIBING_SYNC_TX"} /\ state' = "READY"
             /\ told' = "ready"
    <3>1. Session!Ready
      BY <1>1, <1>2, <1>7, <2>4 DEF Session!Ready
    <3>2. QED
      BY <3>1 DEF Session!SessionNext
  <2>5. QED
    BY <2>1, <2>2, <2>3, <2>4
<1>8. CASE Stays
  <2>1. sessionPhase' = sessionPhase /\ told' = told
    BY <1>8 DEF Stays, sessionPhase
  <2>2. CASE frame' = frame
    BY <2>1, <2>2 DEF Session!sessionVars
  <2>3. CASE asyncEnabled /\ frame' = 1 - frame
    <3>1. Session!Frame
      BY <1>1, <1>3, <2>1, <2>3 DEF Session!Frame
    <3>2. QED
      BY <3>1 DEF Session!SessionNext
  <2>4. QED
    BY <1>8, <2>2, <2>3 DEF Stays
<1>9. QED
  BY <1>4, <1>5, <1>6, <1>7, <1>8

LEMMA NextSimulates ==
  ASSUME IInv, IInv', [Next]_vars
  PROVE  [Session!SessionNext]_(Session!sessionVars)
<1>1. CASE Dispatch
  <2>1. MachineEffect(events[1])
    BY <1>1, DispatchEffect
  <2>2. Opening(events[1]) => state \in Early
    <3>1. 1 \in Positions
      BY <1>1, Dequeue DEF Dispatch, IInv
    <3>2. QED
      BY <3>1 DEF IInv, OpeningInOrder
  <2>3. QED
    BY <2>1, <2>2, EffectSimulates DEF MachineEffect
<1>2. CASE Loop
  BY <1>2, LoopEffect, EffectSimulates
<1>3. CASE UNCHANGED <<machineVars, listenerVars>>
  BY <1>3 DEF machineVars, listenerVars, Session!sessionVars, sessionPhase
<1>4. CASE Vibrate \/ Tick \/ UNCHANGED vars
  BY <1>3, <1>4 DEF Vibrate, Tick, vars
<1>5. CASE \/ ClientConnect \/ ClientDisconnect \/ ClientWatchdog \/ LinkUp \/ OpenFails \/ LinkDown
           \/ OperationCompletes \/ HapticCompletes \/ CompletionLost \/ ControllerNotifies
  BY <1>3, <1>5 DEF ClientConnect, ClientDisconnect, ClientWatchdog, LinkUp, OpenFails, LinkDown,
    OperationCompletes, HapticCompletes, CompletionLost, ControllerNotifies, EnvironmentUnchanged
<1>6. QED
  BY <1>1, <1>2, <1>4, <1>5 DEF Next

\* RideClient implements RideSession for every stack, controller and clock
\* that RideClient's environment describes.
THEOREM Refinement == Spec => ImplementsSession
<1>1. Init => Session!SessionInit
  BY InitSession
<1>2. IInv /\ IInv' /\ [Next]_vars => [Session!SessionNext]_(Session!sessionVars)
  BY NextSimulates
<1>3. QED
  BY <1>1, <1>2, Invariance, PTL DEF Spec, ImplementsSession, Session!SessionSpec
-----------------------------------------------------------------------------
(* No session is stranded: the half of SetupResolves and of LossIsReported *)
(* that is an invariant.                                                   *)

\* A setup that failed has asked for its link to be closed.
FailureIsEnding == state = "ERROR" => client \in {"IDLE", "ABORTING", "DISCONNECTING"}

Teardown(e) == e.type \in {"DISCONNECT", "CLOSE"}

\* A client that needs no event: loop() sees it idle, or ESPHome's watchdog will
\* make it idle.
Gone == {"IDLE", "DISCONNECTING"}

\* Whoever still holds on to a link that is down will be told.
LossIsNoticed ==
  ~linkUp /\ state # "DISCONNECTED" =>
    client \in Gone \/ \E i \in Positions : Teardown(events[i])

\* So will be whoever has yet to hear that the link came up.
LossFollows ==
  ~linkUp => \A j \in Positions : Opening(events[j]) =>
    client \in Gone \/ \E i \in Positions : j < i /\ Teardown(events[i])

LEMMA FailSetupEnds ==
  ASSUME TypeOK, FailureIsEnding, FailSetup(client) \/ Fail(client)
  PROVE  FailureIsEnding'
<1>1. CASE Fail(client)
  BY <1>1 DEF Fail, Disconnecting, TypeOK, ClientStates, FailureIsEnding
<1>2. CASE FailSetup(client) /\ state \in {"ERROR", "DISCONNECTED"}
  BY <1>2 DEF FailSetup, FailureIsEnding
<1> QED BY <1>1, <1>2 DEF FailSetup

LEMMA DispatchEnds ==
  ASSUME TypeOK, FailureIsEnding, NEW e, Handle(e)
  PROVE  FailureIsEnding'
<1>1. CASE OnConnect(e)
  BY <1>1 DEF OnConnect, BeginConnection, EnterState, FailureIsEnding
<1>2. CASE OnOpen(e)
  BY <1>2 DEF OnOpen, BeginConnection, ReportDisconnected, EnterState, Ignore, machineVars,
    FailureIsEnding
<1>3. CASE OnSearchComplete(e)
  <2>1. CASE SendHandshake
    BY <2>1, FailSetupEnds DEF SendHandshake, EnterState, FailureIsEnding
  <2>2. CASE client' = client /\ Ignore
    BY <2>2 DEF Ignore, machineVars, FailureIsEnding
  <2> QED BY <1>3, <2>1, <2>2, FailSetupEnds DEF OnSearchComplete
<1>4. CASE OnWriteChar(e)
  <2>1. CASE SubscribeAsync
    BY <2>1, FailSetupEnds DEF SubscribeAsync, EnterState, FailureIsEnding
  <2>2. CASE client' = client /\ state' = state
    BY <2>2 DEF FailureIsEnding
  <2> QED BY <1>4, <2>1, <2>2, FailSetupEnds DEF OnWriteChar
<1>5. CASE OnRegisterForNotify(e)
  <2>1. CASE MarkReady(asyncEnabled) /\ client' = client
    BY <2>1 DEF MarkReady, EnterState, FailureIsEnding
  <2>2. CASE client' = client /\ Ignore
    BY <2>2 DEF Ignore, machineVars, FailureIsEnding
  <2> QED BY <1>5, <2>1, <2>2, FailSetupEnds DEF OnRegisterForNotify
<1>6. CASE OnWriteDescriptor(e)
  <2>1. CASE SubscribeSyncTxOrReady /\ client' = client
    BY <2>1 DEF SubscribeSyncTxOrReady, MarkReady, EnterState, FailureIsEnding
  <2>2. CASE MarkReady(asyncEnabled) /\ client' = client
    BY <2>2 DEF MarkReady, EnterState, FailureIsEnding
  <2>3. CASE client' = client /\ Ignore
    BY <2>3 DEF Ignore, machineVars, FailureIsEnding
  <2> QED BY <1>6, <2>1, <2>2, <2>3, FailSetupEnds DEF OnWriteDescriptor
<1>7. CASE OnNotify(e)
  BY <1>7 DEF OnNotify, machineVars, FailureIsEnding
<1>8. CASE OnDisconnect(e) \/ OnClose(e)
  BY <1>8 DEF OnDisconnect, OnClose, ReportDisconnected, EnterState, FailureIsEnding
<1> QED BY <1>1, <1>2, <1>3, <1>4, <1>5, <1>6, <1>7, <1>8 DEF Handle

LEMMA StepEnds ==
  ASSUME IInv, FailureIsEnding, [Next]_vars
  PROVE  FailureIsEnding'
<1>1. TypeOK /\ (polledIdle => state = "DISCONNECTED")
  BY DEF IInv, AskedWhenIdle
<1>2. CASE Dispatch
  BY <1>1, <1>2, DispatchEnds DEF Dispatch
<1>3. CASE Loop
  <2>1. CASE LoopOnIdleClient
    BY <2>1 DEF LoopOnIdleClient, ReportDisconnected, EnterState, FailureIsEnding
  <2>2. CASE LoopWatchdogs
    BY <1>1, <2>2, FailSetupEnds DEF LoopWatchdogs, machineVars, FailureIsEnding
  <2> QED BY <1>3, <2>1, <2>2 DEF Loop
<1>4. CASE ClientConnect \/ ClientDisconnect \/ ClientWatchdog
  BY <1>1, <1>4 DEF ClientConnect, ClientDisconnect, ClientWatchdog, Disconnecting,
    EnvironmentUnchanged, machineVars, FailureIsEnding
<1>5. CASE UNCHANGED <<state, client>>
  BY <1>5 DEF FailureIsEnding
<1>6. CASE \/ Vibrate \/ Tick \/ LinkUp \/ OpenFails \/ LinkDown
           \/ OperationCompletes \/ HapticCompletes \/ CompletionLost
           \/ ControllerNotifies \/ UNCHANGED vars
  BY <1>5, <1>6 DEF Vibrate, Tick, LinkUp, OpenFails, LinkDown, OperationCompletes,
    HapticCompletes, CompletionLost, ControllerNotifies, EnvironmentUnchanged, machineVars,
    clientVars, vars
<1> QED BY <1>2, <1>3, <1>4, <1>6 DEF Next

\* Whatever fails in a setup, and however late the connection it was for opens, the
\* client is idle or has been told to let go: no failed setup keeps its link.
\* SetupResolves adds, under fairness, that the end of it is reported.
THEOREM FailuresEnd == Spec => []FailureIsEnding
<1>1. Init => FailureIsEnding
  BY DEF Init, FailureIsEnding
<1>2. IInv /\ FailureIsEnding /\ [Next]_vars => FailureIsEnding'
  BY StepEnds
<1> QED BY <1>1, <1>2, Invariance, PTL DEF Spec

\* An event does not bring back a client that is gone.
LEMMA DispatchStaysGone ==
  ASSUME client \in Gone, NEW e, Handle(e)
  PROVE  client' \in Gone
<1>1. Disconnecting(client) = client
  BY DEF Gone, Disconnecting
<1>2. CASE OnOpen(e) \/ OnDisconnect(e) \/ OnClose(e)
  BY <1>2 DEF OnOpen, OnDisconnect, OnClose, Gone
<1>3. CASE OnConnect(e) \/ OnNotify(e) \/ OnRegisterForNotify(e)
  BY <1>1, <1>3, FailSetupClient DEF OnConnect, OnNotify, OnRegisterForNotify
<1>4. CASE OnSearchComplete(e)
  BY <1>1, <1>4, FailSetupClient DEF OnSearchComplete, SendHandshake, Fail
<1>5. CASE OnWriteChar(e) \/ OnWriteDescriptor(e)
  BY <1>1, <1>5, FailSetupClient DEF OnWriteChar, OnWriteDescriptor, SubscribeAsync, Fail
<1> QED BY <1>2, <1>3, <1>4, <1>5 DEF Handle

LEMMA DispatchNotices ==
  ASSUME IInv, LossIsNoticed, LossFollows, Dispatch
  PROVE  LossIsNoticed' /\ LossFollows'
<1>1. /\ 1 \in Positions /\ Head(events) = events[1]
      /\ Len(events') = Len(events) - 1
      /\ \A i \in 1..Len(events') : i + 1 \in Positions /\ events'[i] = events[i + 1]
  BY Dequeue DEF IInv, Dispatch
<1>2. Handle(events[1]) /\ linkUp' = linkUp
  BY <1>1 DEF Dispatch
<1>3. MachineEffect(events[1])
  BY DispatchEffect
<1>4. \A i \in Positions : i # 1 => i - 1 \in Positions' /\ events'[i - 1] = events[i]
  <2>1. Len(events) \in Nat
    BY DEF IInv, TypeOK
  <2> SUFFICES ASSUME NEW i \in Positions, i # 1
               PROVE  i - 1 \in Positions' /\ events'[i - 1] = events[i]
    OBVIOUS
  <2>2. i \in Nat /\ i - 1 \in 1..Len(events') /\ (i - 1) + 1 = i
    BY <1>1, <2>1 DEF Positions
  <2> QED BY <1>1, <2>2 DEF Positions
<1>5. client \in Gone => client' \in Gone
  BY <1>2, DispatchStaysGone
<1>6. LossIsNoticed'
  <2> SUFFICES ASSUME ~linkUp, state' # "DISCONNECTED", client \notin Gone
               PROVE  \E i \in Positions' : Teardown(events'[i])
    BY <1>2, <1>5 DEF LossIsNoticed, Teardown
  <2>1. CASE Opening(events[1])
    <3>1. PICK i \in Positions : 1 < i /\ Teardown(events[i])
      BY <1>1, <2>1 DEF LossFollows
    <3> QED BY <1>4, <3>1
  <2>2. CASE ~Opening(events[1])
    <3>1. state # "DISCONNECTED"
      BY <1>3, <2>2 DEF MachineEffect, Fails, Advances, Stays, ReportDisconnected, EnterState,
        SetupStates
    <3>2. PICK i \in Positions : Teardown(events[i])
      BY <3>1 DEF LossIsNoticed
    <3>3. i # 1
      <4>1. Teardown(events[1]) => ReportDisconnected
        BY <1>2 DEF Handle, Teardown, OnDisconnect, OnClose
      <4> QED BY <3>2, <4>1 DEF ReportDisconnected, EnterState
    <3> QED BY <1>4, <3>2, <3>3
  <2> QED BY <2>1, <2>2
<1>7. LossFollows'
  <2> SUFFICES ASSUME ~linkUp, client \notin Gone, NEW j \in Positions', Opening(events'[j])
               PROVE  \E i \in Positions' : j < i /\ Teardown(events'[i])
    BY <1>2, <1>5 DEF LossFollows, Teardown, Opening
  <2>1. j + 1 \in Positions /\ j \in Nat /\ Opening(events[j + 1])
    BY <1>1 DEF Positions, Opening
  <2>2. PICK i \in Positions : j + 1 < i /\ Teardown(events[i])
    BY <2>1 DEF LossFollows
  <2>3. i # 1 /\ j < i - 1
    BY <2>1, <2>2 DEF Positions
  <2> QED BY <1>4, <2>2, <2>3
<1> QED BY <1>6, <1>7

\* Queueing: the link is up, or gone as before, or its end is told.
LEMMA QueueNotices ==
  ASSUME TypeOK, LossIsNoticed, LossFollows, NEW es \in Seq(Event), Enqueue(es),
         UNCHANGED <<state, client>>,
         \A k \in 1..Len(es) : ~Opening(es[k]),
         linkUp' = linkUp \/ client \in Gone \/ \E k \in 1..Len(es) : Teardown(es[k])
  PROVE  LossIsNoticed' /\ LossFollows'
<1>1. /\ \A i \in Positions : i \in Positions' /\ i <= Len(events) /\ events'[i] = events[i]
      /\ \A k \in 1..Len(es) :
           Len(events) + k \in Positions' /\ events'[Len(events) + k] = es[k]
      /\ \A i \in Positions' :
           i \in Positions \/ (i > Len(events) /\ \E k \in 1..Len(es) : i = Len(events) + k)
      /\ Len(events) \in Nat
  BY Enqueued
<1>2. \A j \in Positions' : Opening(events'[j]) => j \in Positions /\ Opening(events[j])
  BY <1>1
<1>3. CASE client \in Gone
  BY <1>3 DEF LossIsNoticed, LossFollows
<1>4. CASE linkUp' = linkUp
  <2>1. LossIsNoticed'
    BY <1>1, <1>4 DEF LossIsNoticed, Teardown
  <2>2. LossFollows'
    BY <1>1, <1>2, <1>4 DEF LossFollows, Teardown, Opening
  <2> QED BY <2>1, <2>2
<1>5. CASE \E k \in 1..Len(es) : Teardown(es[k])
  <2>1. PICK k \in 1..Len(es) : Teardown(es[k])
    BY <1>5
  <2> DEFINE n == Len(events) + k
  <2>2. n \in Positions' /\ Teardown(events'[n]) /\ \A j \in Positions : j < n
    BY <1>1, <2>1 DEF Positions
  <2> HIDE DEF n
  <2> QED BY <1>2, <2>2 DEF LossIsNoticed, LossFollows, Teardown, Opening
<1> QED BY <1>3, <1>4, <1>5
LEMMA LinkNotices ==
  ASSUME TypeOK, LossIsNoticed, LossFollows,
         \/ OpenFails \/ LinkDown \/ OperationCompletes \/ HapticCompletes
         \/ ControllerNotifies
  PROVE  LossIsNoticed' /\ LossFollows'
<1>1. UNCHANGED <<state, client>>
  BY DEF OpenFails, LinkDown, OperationCompletes, HapticCompletes, ControllerNotifies,
    EnvironmentUnchanged, machineVars, clientVars
<1>2. \A e \in Event : e.type \notin {"CONNECT", "OPEN"} \/ (e.type = "OPEN" /\ ~e.ok)
        => <<e>> \in Seq(Event) /\ \A k \in 1..Len(<<e>>) : ~Opening(<<e>>[k])
  BY DEF Opening
<1>3. CASE linkUp' = linkUp /\ \E e \in Event :
             /\ Enqueue(<<e>>)
             /\ e.type \notin {"CONNECT", "OPEN"} \/ (e.type = "OPEN" /\ ~e.ok)
  BY <1>1, <1>2, <1>3, QueueNotices
<1>4. CASE OpenFails
  <2> DEFINE e == ConnectionEvent("OPEN", link, FALSE)
  <2>1. e \in Event /\ e.type = "OPEN" /\ ~e.ok
    BY ConnectionEventType DEF TypeOK, EventTypes, ConnectionEvent
  <2> QED BY <1>3, <1>4, <2>1 DEF OpenFails
<1>5. CASE OperationCompletes
  <2>1. PICK op \in inflight \ {"open"}, ok \in BOOLEAN : Enqueue(<<Completion(op, ok)>>)
    BY <1>5 DEF OperationCompletes
  <2>2. Completion(op, ok) \in Event /\ Completion(op, ok).type \notin {"CONNECT", "OPEN"}
    BY <2>1, CompletionType DEF TypeOK, Completion
  <2> QED BY <1>3, <1>5, <2>1, <2>2 DEF OperationCompletes
<1>6. CASE HapticCompletes
  <2>1. PICK ok \in BOOLEAN : Enqueue(<<Completion("rideon", ok)>>)
    BY <1>6 DEF HapticCompletes
  <2>2. /\ Completion("rideon", ok) \in Event
        /\ Completion("rideon", ok).type \notin {"CONNECT", "OPEN"}
    BY CompletionType DEF Operations, Completion
  <2> QED BY <1>3, <1>6, <2>1, <2>2 DEF HapticCompletes
<1>7. CASE ControllerNotifies
  <2> DEFINE e == [type |-> "NOTIFY", link |-> link, handle |-> "async", ok |-> TRUE]
  <2>1. e \in Event /\ e.type = "NOTIFY"
    BY DEF TypeOK, Event, EventTypes, Handles
  <2>2. Enqueue(<<e>>) /\ linkUp' = linkUp
    BY <1>7 DEF ControllerNotifies
  <2> HIDE DEF e
  <2> QED BY <1>3, <2>1, <2>2
<1>8. CASE LinkDown
  <2> DEFINE disconnect == ConnectionEvent("DISCONNECT", link, TRUE)
             close == ConnectionEvent("CLOSE", link, TRUE)
             Told(es) == /\ es \in Seq(Event) /\ Len(es) \in {1, 2}
                         /\ \A k \in 1..Len(es) : Teardown(es[k])
  <2>1. /\ disconnect \in Event /\ Teardown(disconnect)
        /\ close \in Event /\ Teardown(close)
    BY ConnectionEventType DEF TypeOK, EventTypes, ConnectionEvent, Teardown
  <2>2. \/ client \in Gone /\ Enqueue(<<>>)
        \/ \E es \in {<<disconnect>>, <<close>>, <<disconnect, close>>,
                      <<close, disconnect>>} : Enqueue(es)
    BY <1>8 DEF LinkDown, Gone
  <2> HIDE DEF disconnect, close
  <2>3. CASE client \in Gone /\ Enqueue(<<>>)
    <3>1. <<>> \in Seq(Event) /\ \A k \in 1..Len(<<>>) : ~Opening(<<>>[k])
      OBVIOUS
    <3> QED BY <1>1, <2>3, <3>1, QueueNotices
  <2>4. CASE \E es \in {<<disconnect>>, <<close>>, <<disconnect, close>>,
                        <<close, disconnect>>} : Enqueue(es)
    <3>1. PICK es \in {<<disconnect>>, <<close>>, <<disconnect, close>>,
                       <<close, disconnect>>} : Enqueue(es)
      BY <2>4
    <3>2. Told(<<disconnect>>) /\ Told(<<close>>)
      BY <2>1
    <3>3. Told(<<disconnect, close>>) /\ Told(<<close, disconnect>>)
      BY <2>1
    <3>4. Told(es)
      BY <3>1, <3>2, <3>3
    <3>5. /\ \A k \in 1..Len(es) : ~Opening(es[k])
          /\ \E k \in 1..Len(es) : Teardown(es[k])
      BY <3>4 DEF Opening, Teardown
    <3> QED BY <1>1, <3>1, <3>4, <3>5, QueueNotices
  <2> QED BY <2>2, <2>3, <2>4
<1> QED BY <1>4, <1>5, <1>6, <1>7, <1>8

LEMMA StepNotices ==
  ASSUME IInv, LossIsNoticed, LossFollows, [Next]_vars
  PROVE  LossIsNoticed' /\ LossFollows'
<1>1. TypeOK
  BY DEF IInv
<1>2. CASE Dispatch
  BY <1>2, DispatchNotices
<1>3. CASE Loop
  <2>1. state = "DISCONNECTED" => state' = "DISCONNECTED"
    BY <1>3, LoopEffect
  <2>2. client \in Gone => client' \in Gone
    BY <1>3, FailSetupClient DEF Loop, LoopOnIdleClient, LoopWatchdogs, Gone, Disconnecting
  <2>3. UNCHANGED <<events, linkUp>>
    BY <1>3 DEF Loop
  <2> QED BY <2>1, <2>2, <2>3 DEF LossIsNoticed, LossFollows, Positions, Teardown, Opening
<1>4. CASE ClientConnect
  <2>1. state' = "DISCONNECTED" /\ UNCHANGED <<events, linkUp>>
    BY <1>4 DEF ClientConnect, EnvironmentUnchanged, machineVars, IInv, AskedWhenIdle
  <2>2. \A j \in Positions : ~Opening(events[j])
    BY <1>4 DEF ClientConnect, IInv, OpeningInOrder
  <2> QED BY <2>1, <2>2 DEF LossIsNoticed, LossFollows, Positions, Opening
<1>5. CASE ClientDisconnect \/ ClientWatchdog
  <2>1. UNCHANGED <<events, linkUp, state>> /\ (client \in Gone => client' \in Gone)
    BY <1>5 DEF ClientDisconnect, ClientWatchdog, EnvironmentUnchanged, stackVars,
      machineVars, Gone
  <2> QED BY <2>1 DEF LossIsNoticed, LossFollows, Positions, Teardown, Opening
<1>6. CASE LinkUp
  BY <1>6 DEF LinkUp, LossIsNoticed, LossFollows
<1>7. CASE \/ OpenFails \/ LinkDown \/ OperationCompletes \/ HapticCompletes
           \/ ControllerNotifies
  BY <1>1, <1>7, LinkNotices
<1>8. CASE Vibrate \/ Tick \/ CompletionLost \/ UNCHANGED vars
  <2>1. UNCHANGED <<events, linkUp, state, client>>
    BY <1>8 DEF Vibrate, Tick, CompletionLost, EnvironmentUnchanged, stackVars, machineVars,
      clientVars, vars
  <2> QED BY <2>1 DEF LossIsNoticed, LossFollows, Positions, Teardown, Opening
<1> QED BY <1>2, <1>3, <1>4, <1>5, <1>6, <1>7, <1>8 DEF Next

\* Whatever RideClient is in the middle of when its link goes down, even before it
\* heard that the link was up: an event that says so is queued, or the client is idle
\* or gives up its teardown by itself, so that loop() finds it idle.  LossIsReported
\* adds, under fairness, that the listener is then told.
THEOREM LossesNoticed == Spec => []LossIsNoticed
<1>1. Init => LossIsNoticed /\ LossFollows
  BY DEF Init, LossIsNoticed, LossFollows, Positions
<1>2. IInv /\ LossIsNoticed /\ LossFollows /\ [Next]_vars => LossIsNoticed' /\ LossFollows'
  BY StepNotices
<1> QED BY <1>1, <1>2, Invariance, PTL DEF Spec

=============================================================================
