----------------------------- MODULE RideClient ------------------------------
(***************************************************************************)
(* The GATT client half of the bridge: class RideClient of                 *)
(* src/components/zwift_ride_hid/ride_client.{h,cpp}.  It turns the BLE    *)
(* events of one controller connection into the session that RideSession   *)
(* describes: discovery, the RideOn handshake, the mandatory input         *)
(* subscription, the optional Sync-TX one, and a watchdog for every step   *)
(* whose completion may never arrive.                                      *)
(*                                                                         *)
(* RideClient runs on the ESPHome main loop: Dispatch hands it the oldest  *)
(* queued BLE event, Loop is its periodic call, Vibrate its only request.  *)
(* The ESPHome BLE client and Bluedroid below it are external: they are    *)
(* modelled from how this code uses them (its comments name the behaviours *)
(* it guards against), as lossy and as slow as the code has to tolerate.   *)
(***************************************************************************)
EXTENDS Naturals, Sequences, FiniteSets

CONSTANTS
  Links,              \* identities of successive GATT connections, reused in turn
  NextLink,           \* NextLink[l] is the connection that follows l
  ConnIdOf,           \* ConnIdOf[l] is the conn_id Bluedroid gives connection l
  NoConn,             \* 0xFFFF, the conn_id of no connection
  Tables,             \* the attribute tables a controller may expose
  ClockPeriod,        \* millis() counts modulo this (2^32 in the code)
  DiscoveryTimeout,   \* DISCOVERY_TIMEOUT_MS
  OperationTimeout,   \* GATT_OPERATION_TIMEOUT_MS
  HapticTimeout,      \* HAPTIC_WRITE_TIMEOUT_MS
  MaxEvents,          \* bound: BLE events queued for the main loop
  MaxHaptics          \* bound: haptic writes the stack may have outstanding

\* What discover_handles_ can find, in the order it looks.
Mandatory == <<"service", "async", "async_notify", "async_cccd",
               "sync_rx", "sync_rx_write_nr">>
Optional == {"sync_tx", "sync_tx_subscribable"}
Attributes == {Mandatory[i] : i \in 1..Len(Mandatory)} \union Optional

\* The handle members of RideClient; a handle absent from the set is 0.
Handles == {"async", "async_cccd", "sync_rx", "sync_tx", "sync_tx_cccd"}

ASSUME LinkAssumption ==
  /\ Links # {}
  /\ NextLink \in [Links -> Links]
  /\ \A l \in Links : ConnIdOf[l] # NoConn
ASSUME TableAssumption == Tables \subseteq SUBSET Attributes
\* The watchdogs compare unsigned differences, which is sound while every
\* timeout is shorter than the period of the clock.
ASSUME TimeAssumption ==
  /\ {ClockPeriod, DiscoveryTimeout, OperationTimeout, HapticTimeout} \subseteq Nat \ {0}
  /\ \A t \in {DiscoveryTimeout, OperationTimeout, HapticTimeout} : t < ClockPeriod
ASSUME BoundAssumption == MaxEvents \in Nat /\ MaxHaptics \in Nat

VARIABLES
  \* RideClient's members
  state,               \* state_
  connId,              \* conn_id_
  handles,             \* the non-zero handles
  asyncEnabled,        \* async_enabled_
  disconnectReported,  \* disconnect_reported_
  stateStartedAt,      \* state_started_at_
  hapticPending,       \* haptic_write_pending_
  hapticStartedAt,     \* haptic_write_started_at_
  \* the listener: the last of its two session callbacks, frames by parity
  told, frame,
  \* the ESPHome BLE client and its scanner (external)
  client,              \* client_->state()
  polledIdle,          \* scanning was restarted for an idle client
  \* Bluedroid and the controller (external)
  link,                \* the GATT connection opened last
  linkUp,              \* it is still up
  inflight,            \* operations whose completion is outstanding
  haptics,             \* haptic writes whose completion is outstanding
  hapticTimeouts,      \* haptic_timeout_count_, since this connection opened
  events,              \* events queued for the main loop, oldest first
  acked,               \* what the controller acknowledged on this connection
  \* time
  now,                 \* millis()
  loopDue              \* the clock moved and loop() has not run since

machineVars == <<state, connId, handles, asyncEnabled, disconnectReported,
                 stateStartedAt>>
hapticVars == <<hapticPending, hapticStartedAt>>
listenerVars == <<told, frame>>
clientVars == <<client, polledIdle>>
stackVars == <<link, linkUp, inflight, haptics, hapticTimeouts, events, acked>>
timeVars == <<now, loopDue>>
vars == <<machineVars, hapticVars, listenerVars, clientVars, stackVars, timeVars>>

SetupStates == {"DISCOVERING", "SENDING_HANDSHAKE", "SUBSCRIBING_ASYNC",
                "SUBSCRIBING_SYNC_TX"}
States == SetupStates \union {"DISCONNECTED", "READY", "ERROR"}

\* "ABORTING" is CONNECTING with a disconnect scheduled for when it opens.
ClientStates == {"IDLE", "CONNECTING", "ABORTING", "CONNECTED", "DISCONNECTING"}

Operations == {"open", "search", "rideon", "register_async", "register_sync_tx",
               "cccd_async", "cccd_sync_tx"}

EventTypes == {"CONNECT", "OPEN", "SEARCH_CMPL", "WRITE_CHAR", "REG_FOR_NOTIFY",
               "WRITE_DESCR", "NOTIFY", "DISCONNECT", "CLOSE"}
Event == [type : EventTypes, link : Links, handle : Handles \union {"none"},
          ok : BOOLEAN]

TypeOK ==
  /\ state \in States
  /\ connId \in {NoConn} \union {ConnIdOf[l] : l \in Links}
  /\ handles \subseteq Handles
  /\ asyncEnabled \in BOOLEAN
  /\ disconnectReported \in BOOLEAN
  /\ stateStartedAt \in 0..(ClockPeriod - 1)
  /\ hapticPending \in BOOLEAN
  /\ hapticStartedAt \in 0..(ClockPeriod - 1)
  /\ told \in {"ready", "disconnected"}
  /\ frame \in {0, 1}
  /\ client \in ClientStates
  /\ polledIdle \in BOOLEAN
  /\ link \in Links
  /\ linkUp \in BOOLEAN
  /\ inflight \subseteq Operations
  /\ haptics \in Nat
  /\ hapticTimeouts \in Nat
  /\ events \in Seq(Event)
  /\ acked \subseteq {"rideon", "cccd_async"}
  /\ now \in 0..(ClockPeriod - 1)
  /\ loopDue \in BOOLEAN

Init ==
  /\ state = "DISCONNECTED"
  /\ connId = NoConn
  /\ handles = {}
  /\ asyncEnabled = FALSE
  /\ disconnectReported = TRUE
  /\ stateStartedAt = 0
  /\ hapticPending = FALSE
  /\ hapticStartedAt = 0
  /\ told = "disconnected"
  /\ frame = 0
  /\ client = "IDLE"
  /\ polledIdle = FALSE
  /\ link \in Links
  /\ linkUp = FALSE
  /\ inflight = {}
  /\ haptics = 0
  /\ hapticTimeouts = 0
  /\ events = <<>>
  /\ acked = {}
  /\ now \in 0..(ClockPeriod - 1)
  /\ loopDue = FALSE

-----------------------------------------------------------------------------
(* Time and the small helpers of ride_client.cpp.                          *)

\* now - started_at in unsigned arithmetic.
Elapsed(startedAt) ==
  IF now >= startedAt THEN now - startedAt ELSE now + ClockPeriod - startedAt

\* Mutant: the comparison that is not rollover-safe.
TimeoutElapsedAbsolute(startedAt, timeout) == now >= startedAt + timeout

TimeoutElapsed(startedAt, timeout) == Elapsed(startedAt) >= timeout

\* Mutant: no watchdog for the optional subscription.
StateTimeoutMandatoryOnly ==
  IF state = "DISCOVERING" THEN DiscoveryTimeout
  ELSE IF state \in {"SENDING_HANDSHAKE", "SUBSCRIBING_ASYNC"} THEN OperationTimeout
  ELSE 0

\* state_timeout_ms_; 0 means that no watchdog runs.
StateTimeout ==
  IF state = "DISCOVERING" THEN DiscoveryTimeout
  ELSE IF state \in SetupStates THEN OperationTimeout
  ELSE 0

ConnectionMatches(l) == connId # NoConn /\ connId = ConnIdOf[l]

\* Mutant: a deadline is kept instead of the start, in no particular width.
EnterStateDeadline(s) ==
  /\ state' = s
  /\ stateStartedAt' = IF s \in SetupStates THEN now + OperationTimeout ELSE 0

\* enter_state_
EnterState(s) ==
  /\ state' = s
  /\ stateStartedAt' = IF s \in SetupStates THEN now ELSE 0

ClearHaptic ==
  /\ hapticPending' = FALSE
  /\ hapticStartedAt' = 0

\* reset_connection_, but for the state it leaves the machine in.
ResetMembers ==
  /\ handles' = {}
  /\ asyncEnabled' = FALSE
  /\ ClearHaptic

BeginConnection(l) ==
  /\ ResetMembers
  /\ connId' = ConnIdOf[l]
  /\ EnterState("DISCOVERING")
  /\ disconnectReported' = FALSE
  /\ UNCHANGED listenerVars

\* Mutant: the report leaves the old connection's identifiers in place.
ReportDisconnectedKeepingIds ==
  /\ ClearHaptic
  /\ EnterState("DISCONNECTED")
  /\ disconnectReported' = TRUE
  /\ told' = IF disconnectReported THEN told ELSE "disconnected"
  /\ UNCHANGED <<connId, handles, asyncEnabled, frame>>

ReportDisconnected ==
  /\ ResetMembers
  /\ connId' = NoConn
  /\ EnterState("DISCONNECTED")
  /\ disconnectReported' = TRUE
  /\ told' = IF disconnectReported THEN told ELSE "disconnected"
  /\ UNCHANGED frame

\* The effect of client_->disconnect() on a client in state c (external): a
\* connection still opening is closed once it opens.
Disconnecting(c) ==
  IF c = "CONNECTING" THEN "ABORTING"
  ELSE IF c = "CONNECTED" THEN "DISCONNECTING"
  ELSE c

\* fail_setup_ once it acts, for a client the event has left in state c.
\* Which handles are known is up to the caller.
Fail(c) ==
  /\ EnterState("ERROR")
  /\ asyncEnabled' = FALSE
  /\ ClearHaptic
  /\ client' = Disconnecting(c)
  /\ UNCHANGED <<connId, disconnectReported, listenerVars>>

FailSetup(c) ==
  IF state \in {"ERROR", "DISCONNECTED"}
  THEN /\ client' = c
       /\ UNCHANGED <<state, stateStartedAt, asyncEnabled, connId,
                      disconnectReported, hapticVars, listenerVars>>
  ELSE Fail(c)

\* mark_ready_, where async_enabled_ has the value given.
MarkReady(enabled) ==
  IF enabled /\ state # "READY"
  THEN /\ EnterState("READY")
       /\ told' = "ready"
       /\ UNCHANGED frame
  ELSE UNCHANGED <<state, stateStartedAt, listenerVars>>

-----------------------------------------------------------------------------
(* discover_handles_: the mandatory attributes are looked up in order and  *)
(* the first one missing ends the setup; Sync-TX is taken only when it can *)
(* be subscribed.                                                          *)

Complete(table) == \A i \in 1..Len(Mandatory) : Mandatory[i] \in table

DiscoveredHandles(table) ==
  LET found == {i \in 1..Len(Mandatory) : \A k \in 1..i : Mandatory[k] \in table}
  IN (Handles \intersect {Mandatory[i] : i \in found})
       \union (IF Complete(table) /\ Optional \subseteq table
               THEN {"sync_tx", "sync_tx_cccd"} ELSE {})

\* An unsubscribable Sync-TX is forgotten.
DroppedHandles(table) ==
  IF Complete(table) /\ "sync_tx" \in table /\ ~(Optional \subseteq table)
  THEN {"sync_tx", "sync_tx_cccd"} ELSE {}

-----------------------------------------------------------------------------
(* gattc_event_handler, one action per event.  ESPHome's BLEClientBase     *)
(* sees each event first: what it does is the first conjunct of each.      *)

Ignore == UNCHANGED <<machineVars, hapticVars, listenerVars>>

OnConnect(e) ==
  /\ UNCHANGED <<client, inflight>>
  /\ BeginConnection(e.link)

\* A successful open starts service discovery, unless a disconnect was
\* scheduled meanwhile.
OnOpen(e) ==
  /\ client' = CASE ~e.ok /\ client \in {"CONNECTING", "ABORTING"} -> "IDLE"
                 [] e.ok /\ client = "CONNECTING" -> "CONNECTED"
                 [] e.ok /\ client = "ABORTING" -> "DISCONNECTING"
                 [] OTHER -> client
  /\ inflight' = IF e.ok /\ client = "CONNECTING"
                 THEN inflight \union {"search"} ELSE inflight
  /\ \/ /\ ~e.ok
        /\ ReportDisconnected
     \/ /\ e.ok
        /\ state = "DISCONNECTED"
        /\ BeginConnection(e.link)
     \/ /\ e.ok
        /\ state # "DISCONNECTED"
        /\ Ignore

\* send_handshake_ after a complete discovery.
SendHandshake ==
  \/ /\ EnterState("SENDING_HANDSHAKE")
     /\ inflight' = inflight \union {"rideon"}
     /\ UNCHANGED <<client, connId, asyncEnabled, disconnectReported, hapticVars,
                    listenerVars>>
  \/ /\ Fail(client)
     /\ UNCHANGED inflight

OnSearchComplete(e) ==
  \/ /\ ~ConnectionMatches(e.link)
     /\ UNCHANGED <<client, inflight>>
     /\ Ignore
  \/ /\ ConnectionMatches(e.link)
     /\ ~e.ok
     /\ FailSetup(client)
     /\ UNCHANGED <<handles, inflight>>
  \/ /\ ConnectionMatches(e.link)
     /\ e.ok
     /\ \E table \in Tables :
          /\ handles' = (handles \ DroppedHandles(table)) \union DiscoveredHandles(table)
          /\ \/ /\ ~Complete(table)
                /\ FailSetup(client)
                /\ UNCHANGED inflight
             \/ /\ Complete(table)
                /\ SendHandshake

\* Mutant: the subscription counts as done once it is submitted.
SubscribeAsyncUnconfirmed ==
  /\ EnterState("READY")
  /\ asyncEnabled' = TRUE
  /\ told' = "ready"
  /\ inflight' = inflight \union {"register_async"}
  /\ UNCHANGED <<client, connId, disconnectReported, hapticVars, frame>>

\* subscribe_async_
SubscribeAsync ==
  \/ /\ EnterState("SUBSCRIBING_ASYNC")
     /\ inflight' = inflight \union {"register_async"}
     /\ UNCHANGED <<client, connId, asyncEnabled, disconnectReported, hapticVars,
                    listenerVars>>
  \/ /\ Fail(client)
     /\ UNCHANGED inflight

OnWriteChar(e) ==
  /\ UNCHANGED handles
  /\ LET mine == ConnectionMatches(e.link) /\ e.handle \in handles /\ e.handle = "sync_rx"
     IN \/ /\ mine
           /\ state = "SENDING_HANDSHAKE"
           /\ IF e.ok THEN SubscribeAsync ELSE FailSetup(client) /\ UNCHANGED inflight
        \/ /\ mine
           /\ state # "SENDING_HANDSHAKE"
           /\ IF hapticPending THEN ClearHaptic ELSE UNCHANGED hapticVars
           /\ UNCHANGED <<client, inflight, state, connId, asyncEnabled,
                          disconnectReported, stateStartedAt, listenerVars>>
        \/ /\ ~mine
           /\ UNCHANGED <<client, inflight, state, connId, asyncEnabled,
                          disconnectReported, stateStartedAt, hapticVars, listenerVars>>

\* BLEClientBase answers a registration with the CCCD write, which may fail to
\* be submitted; the handler itself only looks at failures.
OnRegisterForNotify(e) ==
  /\ inflight' \in IF e.ok
                   THEN {inflight, inflight \union
                           {IF e.handle = "async" THEN "cccd_async" ELSE "cccd_sync_tx"}}
                   ELSE {inflight}
  /\ UNCHANGED handles
  /\ \/ /\ ~e.ok /\ e.handle = "async" /\ "async" \in handles
        /\ state = "SUBSCRIBING_ASYNC"
        /\ FailSetup(client)
     \/ /\ ~e.ok /\ e.handle = "sync_tx" /\ "sync_tx" \in handles
        /\ state = "SUBSCRIBING_SYNC_TX"
        /\ MarkReady(asyncEnabled)
        /\ UNCHANGED <<client, connId, asyncEnabled, disconnectReported, hapticVars>>
     \/ /\ \/ e.ok
           \/ e.handle \notin handles
           \/ state # IF e.handle = "async" THEN "SUBSCRIBING_ASYNC"
                      ELSE "SUBSCRIBING_SYNC_TX"
        /\ UNCHANGED client
        /\ Ignore

\* subscribe_sync_tx_or_ready_, right after async_enabled_ became true.  The
\* registration may be refused, which costs only the optional handle.
SubscribeSyncTxOrReady ==
  \/ /\ "sync_tx" \notin handles
     /\ MarkReady(TRUE)
     /\ UNCHANGED <<handles, inflight>>
  \/ /\ "sync_tx" \in handles
     /\ EnterState("SUBSCRIBING_SYNC_TX")
     /\ inflight' = inflight \union {"register_sync_tx"}
     /\ UNCHANGED <<handles, listenerVars>>
  \/ /\ "sync_tx" \in handles
     /\ handles' = handles \ {"sync_tx", "sync_tx_cccd"}
     /\ MarkReady(TRUE)
     /\ UNCHANGED inflight

OnWriteDescriptor(e) ==
  LET async == /\ ConnectionMatches(e.link)
               /\ e.handle = "async_cccd" /\ "async_cccd" \in handles
               /\ state = "SUBSCRIBING_ASYNC"
      syncTx == /\ ConnectionMatches(e.link)
                /\ e.handle = "sync_tx_cccd" /\ "sync_tx_cccd" \in handles
                /\ state = "SUBSCRIBING_SYNC_TX"
  IN \/ /\ async
        /\ ~e.ok
        /\ FailSetup(client)
        /\ UNCHANGED <<handles, inflight>>
     \/ /\ async
        /\ e.ok
        /\ asyncEnabled' = TRUE
        /\ SubscribeSyncTxOrReady
        /\ UNCHANGED <<client, connId, disconnectReported, hapticVars>>
     \/ /\ syncTx
        /\ MarkReady(asyncEnabled)
        /\ UNCHANGED <<client, inflight, connId, handles, asyncEnabled,
                       disconnectReported, hapticVars>>
     \/ /\ ~async /\ ~syncTx
        /\ UNCHANGED <<client, inflight>>
        /\ Ignore

\* Only the input characteristic matters: a Sync-TX response is passed on for
\* a debug log and changes nothing.
OnNotify(e) ==
  /\ frame' = IF /\ ConnectionMatches(e.link)
                 /\ e.handle = "async" /\ "async" \in handles
                 /\ asyncEnabled
              THEN 1 - frame ELSE frame
  /\ UNCHANGED <<client, inflight, machineVars, hapticVars, told>>

\* Both teardown events are matched by address alone.
OnDisconnect(e) ==
  /\ client' = IF client = "CONNECTED" THEN "DISCONNECTING" ELSE client
  /\ UNCHANGED inflight
  /\ ReportDisconnected

OnClose(e) ==
  /\ client' = IF client \in {"CONNECTED", "DISCONNECTING"} THEN "IDLE" ELSE client
  /\ UNCHANGED inflight
  /\ ReportDisconnected

Handle(e) ==
  \/ e.type = "CONNECT" /\ OnConnect(e)
  \/ e.type = "OPEN" /\ OnOpen(e)
  \/ e.type = "SEARCH_CMPL" /\ OnSearchComplete(e)
  \/ e.type = "WRITE_CHAR" /\ OnWriteChar(e)
  \/ e.type = "REG_FOR_NOTIFY" /\ OnRegisterForNotify(e)
  \/ e.type = "WRITE_DESCR" /\ OnWriteDescriptor(e)
  \/ e.type = "NOTIFY" /\ OnNotify(e)
  \/ e.type = "DISCONNECT" /\ OnDisconnect(e)
  \/ e.type = "CLOSE" /\ OnClose(e)

Dispatch ==
  /\ events # <<>>
  /\ events' = Tail(events)
  /\ Handle(Head(events))
  /\ UNCHANGED <<polledIdle, link, linkUp, haptics, hapticTimeouts, acked, timeVars>>

-----------------------------------------------------------------------------
(* The main loop and the one request.                                      *)

\* Mutant: only a failed setup is looked after.
LoopOnIdleClientInError ==
  /\ state # "DISCONNECTED"
  /\ client = "IDLE"
  /\ IF state = "ERROR" THEN ReportDisconnected ELSE Ignore
  /\ UNCHANGED <<client, hapticTimeouts>>

\* loop().  An idle client means that the session is gone, whether or not an
\* event said so; otherwise the haptic gate and then the step watchdog expire.
LoopOnIdleClient ==
  /\ state # "DISCONNECTED"
  /\ client = "IDLE"
  /\ ReportDisconnected
  /\ UNCHANGED <<client, hapticTimeouts>>

HapticExpired == hapticPending /\ TimeoutElapsed(hapticStartedAt, HapticTimeout)
StepExpired == StateTimeout # 0 /\ TimeoutElapsed(stateStartedAt, StateTimeout)

LoopWatchdogs ==
  /\ state = "DISCONNECTED" \/ client # "IDLE"
  /\ hapticTimeouts' = IF HapticExpired /\ hapticTimeouts < MaxHaptics
                       THEN hapticTimeouts + 1 ELSE hapticTimeouts
  /\ \/ /\ StepExpired
        /\ FailSetup(client)
        /\ UNCHANGED handles
     \/ /\ ~StepExpired
        /\ IF HapticExpired THEN ClearHaptic ELSE UNCHANGED hapticVars
        /\ UNCHANGED <<machineVars, listenerVars, client>>

\* The bridge's loop() first asks for scanning when the client is idle
\* (update_scanner_policy_) and then runs this one.
Loop ==
  /\ LoopOnIdleClient \/ LoopWatchdogs
  /\ polledIdle' = (polledIdle \/ client = "IDLE")
  /\ loopDue' = FALSE
  /\ UNCHANGED <<link, linkUp, inflight, haptics, events, acked, now>>

\* Mutant: a write in flight does not hold back the next one.
MayVibrateUngated == state = "READY" /\ "sync_rx" \in handles

\* vibrate() submits the write ...
MayVibrate == state = "READY" /\ "sync_rx" \in handles /\ ~hapticPending

\* ... and the stack accepts it.  A refused write changes nothing.
Vibrate ==
  /\ MayVibrate
  /\ haptics < MaxHaptics
  /\ hapticPending' = TRUE
  /\ hapticStartedAt' = now
  /\ haptics' = IF linkUp THEN haptics + 1 ELSE haptics
  /\ UNCHANGED <<machineVars, listenerVars, clientVars, link, linkUp, inflight,
                 hapticTimeouts, events, acked, timeVars>>

-----------------------------------------------------------------------------
(* The environment.                                                        *)

\* millis() moves on; loop() runs at least once between two ticks.
Tick ==
  /\ ~loopDue
  /\ now' = IF now + 1 = ClockPeriod THEN 0 ELSE now + 1
  /\ loopDue' = TRUE
  /\ UNCHANGED <<machineVars, hapticVars, listenerVars, clientVars, stackVars>>

EnvironmentUnchanged ==
  UNCHANGED <<machineVars, hapticVars, listenerVars, timeVars>>

\* A scan result reaches the idle client, which asks for a connection.
ClientConnect ==
  /\ client = "IDLE"
  /\ polledIdle
  /\ client' = "CONNECTING"
  /\ polledIdle' = FALSE
  /\ inflight' = inflight \union {"open"}
  /\ UNCHANGED <<link, linkUp, haptics, hapticTimeouts, events, acked>>
  /\ EnvironmentUnchanged

\* The bridge drops the link (idle timeout, OTA, shutdown).
ClientDisconnect ==
  /\ client \in {"CONNECTING", "CONNECTED"}
  /\ client' = Disconnecting(client)
  /\ UNCHANGED <<polledIdle, stackVars>>
  /\ EnvironmentUnchanged

\* ESPHome gives up waiting for a teardown, after ten seconds, and tells no
\* node.  The main loop drains the event queue on every pass, so that the events
\* of the opening are long gone by then.
ClientWatchdog ==
  /\ client = "DISCONNECTING"
  /\ \A i \in 1..Len(events) : events[i].type \notin {"CONNECT", "OPEN"}
  /\ client' = "IDLE"
  /\ UNCHANGED <<polledIdle, stackVars>>
  /\ EnvironmentUnchanged

ConnectionEvent(type, l, ok) == [type |-> type, link |-> l, handle |-> "none", ok |-> ok]

Enqueue(es) ==
  /\ Len(events) + Len(es) <= MaxEvents
  /\ events' = events \o es

\* The link comes up: CONNECT and OPEN in the order of the IDF release, OPEN
\* alone over a radio link that is still there (ALREADY_OPEN).
LinkUp ==
  /\ "open" \in inflight
  /\ link' = NextLink[link]
  /\ linkUp' = TRUE
  /\ inflight' = {}
  /\ haptics' = 0
  /\ hapticTimeouts' = 0
  /\ acked' = {}
  /\ LET connect == ConnectionEvent("CONNECT", link', TRUE)
         open == ConnectionEvent("OPEN", link', TRUE)
     IN IF linkUp THEN Enqueue(<<open>>)
        ELSE Enqueue(<<connect, open>>) \/ Enqueue(<<open, connect>>)
  /\ UNCHANGED clientVars
  /\ EnvironmentUnchanged

OpenFails ==
  /\ "open" \in inflight
  /\ inflight' = inflight \ {"open"}
  /\ Enqueue(<<ConnectionEvent("OPEN", link, FALSE)>>)
  /\ UNCHANGED <<clientVars, link, linkUp, haptics, hapticTimeouts, acked>>
  /\ EnvironmentUnchanged

\* The link is lost or closed.  DISCONNECT and CLOSE arrive in either order or
\* one of them only; none at all only for a client that ESPHome's watchdog
\* covers.
LinkDown ==
  /\ linkUp
  /\ linkUp' = FALSE
  /\ inflight' = inflight \intersect {"open"}
  /\ haptics' = 0
  /\ LET disconnect == ConnectionEvent("DISCONNECT", link, TRUE)
         close == ConnectionEvent("CLOSE", link, TRUE)
     IN \/ Enqueue(<<disconnect>>)
        \/ Enqueue(<<close>>)
        \/ Enqueue(<<disconnect, close>>)
        \/ Enqueue(<<close, disconnect>>)
        \/ client \in {"IDLE", "DISCONNECTING"} /\ Enqueue(<<>>)
  /\ UNCHANGED <<clientVars, link, hapticTimeouts, acked>>
  /\ EnvironmentUnchanged

\* The event that completes an operation.
Completion(op, ok) ==
  [type |-> CASE op = "search" -> "SEARCH_CMPL"
              [] op = "rideon" -> "WRITE_CHAR"
              [] op \in {"register_async", "register_sync_tx"} -> "REG_FOR_NOTIFY"
              [] OTHER -> "WRITE_DESCR",
   link |-> link,
   handle |-> CASE op = "search" -> "none"
                [] op = "rideon" -> "sync_rx"
                [] op = "register_async" -> "async"
                [] op = "register_sync_tx" -> "sync_tx"
                [] op = "cccd_async" -> "async_cccd"
                [] OTHER -> "sync_tx_cccd",
   ok |-> ok]

OperationCompletes ==
  \E op \in inflight \ {"open"}, ok \in BOOLEAN :
    /\ inflight' = inflight \ {op}
    /\ Enqueue(<<Completion(op, ok)>>)
    /\ acked' = IF ok THEN acked \union ({op} \intersect {"rideon", "cccd_async"}) ELSE acked
    /\ UNCHANGED <<clientVars, link, linkUp, haptics, hapticTimeouts>>
    /\ EnvironmentUnchanged

HapticCompletes ==
  /\ haptics > 0
  /\ haptics' = haptics - 1
  /\ \E ok \in BOOLEAN : Enqueue(<<Completion("rideon", ok)>>)
  /\ UNCHANGED <<clientVars, link, linkUp, inflight, hapticTimeouts, acked>>
  /\ EnvironmentUnchanged

\* A completion that never arrives.
CompletionLost ==
  /\ \/ /\ \E op \in inflight \ {"open"} : inflight' = inflight \ {op}
        /\ UNCHANGED haptics
     \/ /\ haptics > 0
        /\ haptics' = haptics - 1
        /\ UNCHANGED inflight
  /\ UNCHANGED <<clientVars, link, linkUp, hapticTimeouts, events, acked>>
  /\ EnvironmentUnchanged

\* The controller notifies its buttons, several times a second and pressed or not.
ControllerNotifies ==
  /\ linkUp
  /\ Enqueue(<<[type |-> "NOTIFY", link |-> link, handle |-> "async", ok |-> TRUE]>>)
  /\ UNCHANGED <<clientVars, link, linkUp, inflight, haptics, hapticTimeouts, acked>>
  /\ EnvironmentUnchanged

Next ==
  \/ Dispatch \/ Loop \/ Vibrate
  \/ Tick
  \/ ClientConnect \/ ClientDisconnect \/ ClientWatchdog
  \/ LinkUp \/ OpenFails \/ LinkDown
  \/ OperationCompletes \/ HapticCompletes \/ CompletionLost
  \/ ControllerNotifies

Spec == Init /\ [][Next]_vars

\* The main loop keeps running and the clock keeps moving, ESPHome dispatches
\* what it queued, and its own watchdog ends a teardown that hangs.  Nothing is
\* assumed of the controller, the radio or the completions of the stack.
Fairness ==
  /\ WF_vars(Dispatch)
  /\ WF_vars(Loop)
  /\ WF_vars(Tick)
  /\ WF_vars(ClientWatchdog)

LiveSpec == Spec /\ Fairness

-----------------------------------------------------------------------------
(* Properties.                                                             *)

sessionPhase ==
  IF disconnectReported THEN "closed"
  ELSE IF state = "READY" THEN "ready"
  ELSE IF asyncEnabled THEN "subscribed"
  ELSE "opening"

Session == INSTANCE RideSession WITH phase <- sessionPhase

\* RideClient implements RideSession: whatever the stack does, the listener
\* sees ready and disconnected alternate, a ready session never silently
\* becomes a new one, and frames arrive only inside a subscribed session.
ImplementsSession == Session!SessionSpec

\* The listener's last callback is true of the machine: it believes in a ready
\* session exactly while RideClient is READY (mark_ready_, report_disconnected_
\* and the poll for a silently idle client in loop()).
ListenerIsCurrent == told = "ready" <=> state = "READY"

\* READY is earned on the very connection it is claimed for: its RideOn write
\* and its input subscription were acknowledged by the controller, although
\* conn_ids are reused, REG_FOR_NOTIFY carries none, and completions get lost.
ReadyIsEarned == state = "READY" => {"rideon", "cccd_async"} \subseteq acked

\* Every setup step and every haptic write ends by its own deadline, across the
\* wrap of the clock: loop() gets to each one before more time has passed.
WatchdogsOnTime ==
  /\ StateTimeout # 0 => Elapsed(stateStartedAt) <= StateTimeout
  /\ hapticPending => Elapsed(hapticStartedAt) <= HapticTimeout

\* The single-write gate lets a second haptic write out only when the first one
\* timed out: writes in flight exceed one only by the timeouts counted.
HapticGate == haptics <= 1 + hapticTimeouts

\* A setup that was begun ends, in READY or in a reported disconnect: no lost
\* event parks RideClient in a setup state or in ERROR.
SetupResolves ==
  state \in SetupStates \union {"ERROR"} ~> state \in {"READY", "DISCONNECTED"}

\* A listener told of a ready session whose link is gone is told so in the end,
\* even when ESPHome swallows the teardown events of a closing client.
LossIsReported == told = "ready" /\ ~linkUp ~> told = "disconnected"

=============================================================================
