------------------------------- MODULE Bridge --------------------------------
(***************************************************************************)
(* The bridge itself: class ZwiftRideHid of                                *)
(* src/components/zwift_ride_hid/zwift_ride_hid.{h,cpp}.  It joins the     *)
(* controller's session to the keyboard and decides when ESPHome's BLE     *)
(* client, its scanner and the keyboard may run: through idle periods,     *)
(* updates, restarts of the BLE stack and a shutdown.                      *)
(*                                                                         *)
(* Its parts appear as what they promise: RideClient as RideSession (which *)
(* RideClient implements), HidKeyboard as KeyboardPort (which it           *)
(* implements), RideIdlePolicy as the verdicts of its poll.  ESPHome's     *)
(* client, tracker and BLE component are external.  Several handlers run   *)
(* the same steps one after the other, so each step is an operator from a  *)
(* state s to the next, and the variable st holds all of it.               *)
(*                                                                         *)
(* Left out: the status LED, diagnostics and logs, and which of its two    *)
(* causes a haptic pulse has.                                              *)
(***************************************************************************)
EXTENDS Naturals

CONSTANTS
  Images,                  \* keyboard reports with a key pressed
  Up,                      \* the empty report
  RestartsWhileSuppressed, \* the BLE stack may restart while the client is disabled
  LinksDuringUpdate        \* ESPHome's client may take up a controller during an update

ASSUME ReportAssumption == Up \notin Images
ASSUME ConfigurationAssumption ==
  {RestartsWhileSuppressed, LinksDuringUpdate} \subseteq BOOLEAN

VARIABLES
  st,     \* the bridge, what it owns and what it steers
  stale   \* for the properties: the session under way began before the last quiesce

vars == <<st, stale>>

Reports == Images \union {Up}

\* "ABORTING" is CONNECTING with a disconnect scheduled for when it opens, and
\* "CLOSING" DISCONNECTING without services ever having been searched.
ClientStates == {"INIT", "IDLE", "DISCOVERED", "CONNECTING", "ABORTING", "CONNECTED",
                 "DISCONNECTING", "CLOSING"}
ScannerStates == {"IDLE", "STARTING", "RUNNING", "STOPPING", "FAILED"}

Port == INSTANCE KeyboardPort WITH kb <- st.kb
Session == INSTANCE RideSession WITH
  phase <- st.phase,
  told <- IF st.phase = "ready" THEN "ready" ELSE "disconnected",
  frame <- 0

States ==
  [ \* ZwiftRideHid's members
    rideReady : BOOLEAN, sessionQuiesced : BOOLEAN, suppressed : BOOLEAN,
    otaActive : BOOLEAN, stopped : BOOLEAN, hidReadyLast : BOOLEAN,
    reportPending : BOOLEAN, pendingReport : Reports, hapticPending : BOOLEAN,
    addressSelected : BOOLEAN, releaseHidWhenIdle : BOOLEAN,
    \* the report of input_state_'s active actions, and idle_policy_'s suppressed_
    active : Reports, policySuppressed : BOOLEAN,
    \* the parts it owns
    phase : {"closed", "opening", "subscribed", "ready"}, kb : Port!Keyboards,
    \* ESPHome's BLE component, client and tracker (external)
    bleActive : BOOLEAN, client : ClientStates, enabled : BOOLEAN, hasAddress : BOOLEAN,
    scanner : ScannerStates, continuous : BOOLEAN,
    \* its loop() made it idle without an event, and the bridge's has yet to follow
    silent : BOOLEAN ]

\* The client never gets an address that was not selected.
TypeOK ==
  /\ st \in States
  /\ st.hasAddress => st.addressSelected
  /\ stale \in BOOLEAN

\* As configured: is the address of the controller pinned or still to be
\* discovered, and does an idle bridge give up its host.
Init ==
  /\ \E pinned, releaseHid \in BOOLEAN :
       st = [rideReady |-> FALSE, sessionQuiesced |-> FALSE, suppressed |-> FALSE,
             otaActive |-> FALSE, stopped |-> FALSE, hidReadyLast |-> FALSE,
             reportPending |-> FALSE, pendingReport |-> Up, hapticPending |-> FALSE,
             addressSelected |-> pinned,
             releaseHidWhenIdle |-> releaseHid,
             active |-> Up, policySuppressed |-> FALSE,
             phase |-> "closed", kb |-> Port!NewKeyboard,
             bleActive |-> TRUE, client |-> "IDLE", enabled |-> TRUE,
             hasAddress |-> pinned, scanner |-> "IDLE", continuous |-> TRUE,
             silent |-> FALSE]
  /\ stale = FALSE

-----------------------------------------------------------------------------
(* ESPHome's client and tracker as the bridge calls them (external).       *)

\* BLEClientBase::disconnect, which forgets the address of a client that was
\* only discovered.
ClientDisconnect(s) ==
  CASE s.client = "DISCOVERED" -> [s EXCEPT !.client = "IDLE", !.hasAddress = FALSE]
    [] s.client = "CONNECTING" -> [s EXCEPT !.client = "ABORTING"]
    [] s.client = "CONNECTED"  -> [s EXCEPT !.client = "DISCONNECTING"]
    [] OTHER -> s

Enable(s) == [s EXCEPT !.enabled = TRUE]
Disable(s) ==
  IF s.enabled THEN [ClientDisconnect(s) EXCEPT !.enabled = FALSE] ELSE s

StopScan(s) ==
  [s EXCEPT !.continuous = FALSE,
            !.scanner = IF @ \in {"RUNNING", "FAILED"} THEN "STOPPING" ELSE @]

-----------------------------------------------------------------------------
(* Steps that several handlers share.  ok tells whether the keyboard's     *)
(* host, when it is ready, can be notified just now.                       *)

\* queue_current_report_
QueueCurrentReport(s) == [s EXCEPT !.reportPending = TRUE, !.pendingReport = s.active]

\* submit_pending_report_
SubmitPendingReport(s, ok) ==
  IF s.reportPending /\ s.kb.ready
  THEN [s EXCEPT !.kb = Port!Send(@, s.pendingReport), !.reportPending = ~ok]
  ELSE s

\* Mutant: the report that was waiting is left to be sent.
ReleaseAllKeepingPending(s, ok) ==
  [s EXCEPT !.active = Up, !.kb = Port!Send(@, Up)]

\* release_all_: the keyboard's report is overwritten whatever its link.
ReleaseAll(s, ok) ==
  [s EXCEPT !.active = Up,
            !.pendingReport = Up,
            !.reportPending = ~(ok /\ s.kb.ready),
            !.kb = Port!Send(@, Up)]

\* scanner_wanted_
ScannerWanted(s) == ~s.otaActive /\ ~s.stopped /\ s.client = "IDLE"

\* update_scanner_policy_
UpdateScannerPolicy(s) ==
  IF ~s.bleActive THEN s
  ELSE IF ScannerWanted(s)
  THEN [s EXCEPT !.continuous = TRUE,
                 !.scanner = IF @ = "IDLE" THEN "STARTING" ELSE @]
  ELSE StopScan(s)

\* idle_policy_.reset, and what a handshake does to the policy.
ForgetSuppression(s) == [s EXCEPT !.suppressed = FALSE, !.policySuppressed = FALSE]

\* end_suppression_, and the reset of the policy that came before it.
EndSuppression(s, ready) ==
  [Enable(ForgetSuppression(s)) EXCEPT
     !.kb = IF s.releaseHidWhenIdle THEN Port!Resumed(@, ready) ELSE @]

CloseInput(s) ==
  [s EXCEPT !.sessionQuiesced = TRUE, !.rideReady = FALSE, !.hapticPending = FALSE]

\* quiesce_, with the flag that its caller sets first in s.
QuiesceBridge(s, ok) ==
  LET released == ReleaseAll(UpdateScannerPolicy(ForgetSuppression(s)), ok)
  IN ClientDisconnect([CloseInput(released) EXCEPT !.kb = Port!Halt(@)])

\* Mutant: the loss of the controller leaves its keys to the next report.
OnRideDisconnectedHolding(s, ok) == [CloseInput(s) EXCEPT !.kb = Port!Disallow(@)]

\* Mutant: a pulse that is due is left to the next session.
OnRideDisconnectedPulsing(s, ok) ==
  [ReleaseAll(s, ok) EXCEPT !.sessionQuiesced = TRUE, !.rideReady = FALSE,
                            !.kb = Port!Disallow(@)]

\* on_ride_disconnected
OnRideDisconnected(s, ok) ==
  [ReleaseAll(CloseInput(s), ok) EXCEPT !.kb = Port!Disallow(@)]

\* What RideClient does with the end of its session: it reports it once.
SessionEnds(s, ok) ==
  IF s.phase = "closed" THEN s
  ELSE OnRideDisconnected([s EXCEPT !.phase = "closed"], ok)

-----------------------------------------------------------------------------
(* loop(), step by step.                                                   *)

\* Mutant: the address is not restored.
EnsureRideAddressNever(s) == s

\* ensure_ride_address_
EnsureRideAddress(s) == [s EXCEPT !.hasAddress = @ \/ s.addressSelected]

\* poll's verdicts.  A held control is use, so a session that is dropped holds
\* nothing; which of the others it is depends on how much time went by.
Verdicts(s) ==
  IF s.otaActive \/ s.stopped THEN {"none"}
  ELSE IF s.rideReady
  THEN IF s.policySuppressed \/ s.active # Up THEN {"none"} ELSE {"none", "disconnect"}
  ELSE IF s.policySuppressed THEN {"none", "rearm"} ELSE {"none"}

\* Mutant: the idle bridge stays open to its host.
DisconnectIdleOpen(s, ok) ==
  Disable([ReleaseAll(CloseInput(s), ok) EXCEPT
             !.suppressed = TRUE, !.policySuppressed = TRUE])

\* The DISCONNECT verdict.
DisconnectIdle(s, ok) ==
  Disable([ReleaseAll(CloseInput(s), ok) EXCEPT
             !.suppressed = TRUE, !.policySuppressed = TRUE,
             !.kb = IF s.releaseHidWhenIdle THEN Port!Halt(@) ELSE Port!Disallow(@)])

\* update_idle_policy_.  poll ends a suppression that a session has overtaken.
UpdateIdlePolicy(s, verdict, ok, ready) ==
  CASE verdict = "disconnect" -> DisconnectIdle(s, ok)
    [] verdict = "rearm" -> EndSuppression(s, ready)
    [] OTHER -> IF s.rideReady /\ ~s.otaActive /\ ~s.stopped
                THEN [s EXCEPT !.policySuppressed = FALSE] ELSE s

\* Mutant: a teardown without an event goes unnoticed.
RideClientLoopTrusting(s, stalled, ok) ==
  IF stalled /\ s.phase \in {"opening", "subscribed"} /\ s.client # "IDLE"
  THEN ClientDisconnect(s) ELSE s

\* ride_client_.loop(): a session whose client is idle is over, and one whose
\* setup has stalled is disconnected.
RideClientLoop(s, stalled, ok) ==
  IF s.client = "IDLE" THEN SessionEnds(s, ok)
  ELSE IF stalled /\ s.phase \in {"opening", "subscribed"} THEN ClientDisconnect(s)
  ELSE s

\* Mutant: a host that becomes ready is told nothing of the keys held by then.
WatchHostQuietly(s, ok) ==
  IF s.kb.ready = s.hidReadyLast THEN s
  ELSE IF s.kb.ready THEN [s EXCEPT !.hidReadyLast = TRUE, !.reportPending = FALSE]
  ELSE ReleaseAll([s EXCEPT !.hidReadyLast = FALSE], ok)

\* The host became ready, or is no longer.
WatchHost(s, ok) ==
  IF s.kb.ready = s.hidReadyLast THEN s
  ELSE IF s.kb.ready THEN QueueCurrentReport([s EXCEPT !.hidReadyLast = TRUE])
  ELSE ReleaseAll([s EXCEPT !.hidReadyLast = FALSE], ok)

\* The report, then a haptic pulse, of which the client may accept at most one in
\* a while.
SubmitUnlessQuiet(s, ok, buzz) ==
  IF s.otaActive \/ s.stopped THEN s
  ELSE [SubmitPendingReport(s, ok) EXCEPT
          !.hapticPending = @ /\ ~(buzz /\ s.phase = "ready")]

LoopStep(verdict, stalled, ok, ready, buzz) ==
  LET polled == UpdateIdlePolicy(EnsureRideAddress(st), verdict, ok, ready)
      checked == RideClientLoop(UpdateScannerPolicy(polled), stalled, ok)
  IN [SubmitUnlessQuiet(WatchHost(checked, ok), ok, buzz) EXCEPT !.silent = FALSE]

\* For the properties: a session that is under way when the bridge quiesces is
\* stale until the next one opens.
Quiesced == stale' = (st'.phase # "closed")
NotQuiesced == stale' = (stale /\ st'.phase # "closed")

LoopWith(verdict) ==
  /\ verdict \in Verdicts(st)
  /\ \E stalled, ok, buzz \in BOOLEAN, ready \in {FALSE, st.bleActive} :
       st' = LoopStep(verdict, stalled, ok, ready, buzz)
  /\ IF verdict = "disconnect" THEN Quiesced ELSE NotQuiesced

Loop == \E verdict \in {"none", "disconnect", "rearm"} : LoopWith(verdict)

-----------------------------------------------------------------------------
(* The controller's session: gattc_event_handler and the listener.         *)

\* Mutant: the input that an update closed stays closed.
ReopenInputNever(s) == s

\* A new connection reopens the input, but not during an update.
ReopenInput(s) ==
  IF s.otaActive \/ s.stopped THEN s ELSE [s EXCEPT !.sessionQuiesced = FALSE]

\* CONNECT: RideClient is DISCOVERING whatever it was before.
ConnectEvent ==
  /\ st.client \in {"CONNECTING", "ABORTING"}
  /\ st' = ReopenInput([st EXCEPT !.phase = "opening"])
  /\ stale' = FALSE

\* OPEN, with or without a CONNECT before it.  RideClient is in ERROR when its
\* watchdog aborted the attempt.
OpenEvent ==
  \/ /\ st.client = "CONNECTING"
     /\ st' = ReopenInput([st EXCEPT !.client = "CONNECTED", !.phase = "opening"])
     /\ NotQuiesced
  \/ /\ st.client = "ABORTING"
     /\ LET opened == [st EXCEPT !.client = "CLOSING", !.phase = "opening"]
        IN st' \in {opened, ReopenInput(opened)}
     /\ NotQuiesced

OpenFails ==
  /\ st.client \in {"CONNECTING", "ABORTING"}
  /\ \E ok \in BOOLEAN : st' = SessionEnds([st EXCEPT !.client = "IDLE"], ok)
  /\ NotQuiesced

\* The input subscription is confirmed, the optional one still under way.
Subscribed ==
  /\ st.phase = "opening"
  /\ st.client \in {"CONNECTED", "DISCONNECTING"}
  /\ st' = [st EXCEPT !.phase = "subscribed"]
  /\ NotQuiesced

\* Mutant: any handshake will do.
OnRideReadyAlways(s, pulse) ==
  IF s.otaActive \/ s.stopped THEN s
  ELSE [ForgetSuppression(s) EXCEPT !.rideReady = TRUE, !.kb = Port!Allow(@),
                                    !.hapticPending = @ \/ pulse]

\* on_ride_ready.  pulse is connect_haptic_.
OnRideReady(s, pulse) ==
  IF s.otaActive \/ s.stopped \/ s.sessionQuiesced THEN s
  ELSE [ForgetSuppression(s) EXCEPT !.rideReady = TRUE, !.kb = Port!Allow(@),
                                    !.hapticPending = @ \/ pulse]

SessionReady ==
  /\ st.phase \in {"opening", "subscribed"}
  /\ st.client \in {"CONNECTED", "DISCONNECTING"}
  /\ \E pulse \in BOOLEAN : st' = OnRideReady([st EXCEPT !.phase = "ready"], pulse)
  /\ NotQuiesced

\* on_ride_notification, with input that maps to report r, where changed is whether a
\* control was pressed or let go, and pulse whether one was pressed and button_haptic_
\* asks for a pulse.
OnRideNotification(s, r, changed, pulse) ==
  IF s.otaActive \/ s.stopped \/ s.sessionQuiesced \/ ~s.rideReady \/ ~changed
  THEN s
  ELSE QueueCurrentReport([s EXCEPT !.active = r, !.hapticPending = @ \/ pulse])

\* A change may leave the report as it was: beyond six keys they all look alike.
Notification(r) ==
  /\ st.phase \in {"subscribed", "ready"}
  /\ \E changed, pulse \in BOOLEAN :
       /\ r # st.active => changed
       /\ r = Up /\ st.active = Up => ~changed
       /\ st' = OnRideNotification(st, r, changed, pulse /\ r # Up)
  /\ UNCHANGED stale

\* DISCONNECT or CLOSE.
LinkEnds ==
  /\ st.client \in {"CONNECTED", "DISCONNECTING", "CLOSING"}
  /\ \E ok \in BOOLEAN : st' = SessionEnds([st EXCEPT !.client = "IDLE"], ok)
  /\ NotQuiesced

\* The watchdog in the loop() of ESPHome's client gives a disconnect up without an
\* event.  The bridge is registered after its client, so that its own loop() comes
\* next, before any scan result.
LinkEndsSilently ==
  /\ st.client \in {"DISCONNECTING", "CLOSING"}
  /\ st' = [st EXCEPT !.client = "IDLE", !.silent = TRUE]
  /\ UNCHANGED stale

-----------------------------------------------------------------------------
(* Scanning.                                                               *)

\* Mutant: what was found is not kept.
ParseDeviceForgetful(s, wakes, ready) ==
  IF s.otaActive \/ s.stopped THEN s
  ELSE IF s.addressSelected
  THEN IF wakes /\ s.policySuppressed THEN EndSuppression(s, ready) ELSE s
  ELSE IF s.client = "IDLE" THEN [s EXCEPT !.hasAddress = TRUE] ELSE s

\* parse_device, for an advertisement of the controller.  wakes is the idle
\* policy's judgement of it.
ParseDevice(s, wakes, ready) ==
  IF s.otaActive \/ s.stopped THEN s
  ELSE IF s.addressSelected
  THEN IF wakes /\ s.policySuppressed THEN EndSuppression(s, ready) ELSE s
  ELSE IF s.client = "IDLE"
  THEN [s EXCEPT !.addressSelected = TRUE, !.hasAddress = TRUE]
  ELSE s

\* ESPHome's client sees it next (external).
ClientParsesDevice(s) ==
  IF /\ s.enabled /\ s.hasAddress /\ s.client = "IDLE"
     /\ LinksDuringUpdate \/ ~s.otaActive
  THEN [s EXCEPT !.client = "DISCOVERED"] ELSE s

\* Results that were queued when the scanner was stopped come before the event
\* that says it has stopped.
Sighting ==
  /\ st.scanner \in {"RUNNING", "STOPPING"} /\ ~st.silent
  /\ \E wakes \in BOOLEAN, ready \in {FALSE, st.bleActive} :
       st' = ClientParsesDevice(ParseDevice(st, wakes, ready))
  /\ UNCHANGED stale

\* Mutant: the late start of a scan is let be.
OnScannerStateIdle(s) == s

\* on_scanner_state, when it is RUNNING.
OnScannerState(s) == IF ScannerWanted(s) THEN s ELSE StopScan(s)

ScannerStarts ==
  /\ st.scanner = "STARTING"
  /\ st' = OnScannerState([st EXCEPT !.scanner = "RUNNING"])
  /\ UNCHANGED stale

ScannerFails ==
  /\ st.scanner = "STARTING"
  /\ st' = [st EXCEPT !.scanner = "FAILED"]
  /\ UNCHANGED stale

\* A stop completes, a failure is cleared, or the scan's time is up.
ScannerStops ==
  /\ st.scanner \in {"RUNNING", "STOPPING", "FAILED"}
  /\ st' = [st EXCEPT !.scanner = "IDLE"]
  /\ UNCHANGED stale

\* ESPHome goes on scanning by itself while it may.
TrackerRestarts ==
  /\ st.bleActive /\ st.continuous
  /\ st.scanner = "IDLE"
  /\ st.client \in {"IDLE", "CONNECTED"}
  /\ st' = [st EXCEPT !.scanner = "STARTING"]
  /\ UNCHANGED stale

\* ESPHome stops the scan for a discovered client, then connects it.
TrackerPromotes ==
  /\ st.client = "DISCOVERED"
  /\ \/ /\ st.scanner = "RUNNING"
        /\ st' = [st EXCEPT !.scanner = "STOPPING"]
     \/ /\ st.scanner = "IDLE"
        /\ st' = [st EXCEPT !.client = "CONNECTING"]
  /\ UNCHANGED stale

-----------------------------------------------------------------------------
(* The keyboard's host (what KeyboardPort lets it do).  A host that is lost *)
(* is back only after loop() has run: reconnecting takes it many of those.  *)

HostSubscribes ==
  /\ st.bleActive /\ ~st.kb.halted /\ ~st.kb.ready /\ ~st.hidReadyLast
  /\ st' = [st EXCEPT !.kb = Port!HostReady(@)]
  /\ UNCHANGED stale

HostLeaves ==
  /\ st.kb.ready
  /\ \/ st' = [st EXCEPT !.kb = Port!HostUnready(@)]
     \/ st' = [st EXCEPT !.kb = Port!HostLost(@)]
  /\ UNCHANGED stale

-----------------------------------------------------------------------------
(* Updates, shutdown, restarts of the BLE stack, and the reconnect action. *)

\* on_ota_global_state
OtaStarts ==
  /\ ~st.otaActive
  /\ \E ok \in BOOLEAN : st' = QuiesceBridge([st EXCEPT !.otaActive = TRUE], ok)
  /\ Quiesced

\* Mutant: only the flag is taken back.
ResumeAfterOtaDisabled(s, ready) ==
  [s EXCEPT !.otaActive = FALSE, !.kb = Port!Resumed(@, ready)]

ResumeAfterOta(s, ready) ==
  Enable([s EXCEPT !.otaActive = FALSE, !.kb = Port!Resumed(@, ready)])

OtaStops ==
  /\ st.otaActive
  /\ \E ready \in {FALSE, st.bleActive} : st' = ResumeAfterOta(st, ready)
  /\ UNCHANGED stale

\* on_shutdown and on_safe_shutdown
Shutdown ==
  /\ ~st.stopped
  /\ \E ok \in BOOLEAN : st' = QuiesceBridge([st EXCEPT !.stopped = TRUE], ok)
  /\ Quiesced

\* ble_before_disabled_event_handler
BeforeDisabled(s, ok) ==
  [ForgetSuppression(ReleaseAll(s, ok)) EXCEPT
     !.sessionQuiesced = TRUE, !.rideReady = FALSE, !.kb = Port!Reset(@)]

\* The stack goes down, and ESPHome's client and scanner with it.
BleDisabled ==
  /\ st.bleActive
  /\ RestartsWhileSuppressed \/ ~st.suppressed
  /\ \E ok \in BOOLEAN :
       st' = [BeforeDisabled(st, ok) EXCEPT
                !.bleActive = FALSE, !.client = "INIT", !.scanner = "IDLE",
                !.silent = FALSE]
  /\ Quiesced

\* The loop() of ESPHome's client registers it again.
BleEnabled ==
  /\ ~st.bleActive
  /\ st' = [st EXCEPT !.bleActive = TRUE, !.client = "IDLE", !.silent = TRUE]
  /\ UNCHANGED stale

\* request_reconnect
RequestReconnect ==
  /\ st.suppressed
  /\ \E ready \in {FALSE, st.bleActive} : st' = EndSuppression(st, ready)
  /\ UNCHANGED stale

Next ==
  \/ Loop
  \/ ConnectEvent \/ OpenEvent \/ OpenFails \/ Subscribed \/ SessionReady
  \/ \E r \in Reports : Notification(r)
  \/ LinkEnds \/ LinkEndsSilently
  \/ Sighting \/ ScannerStarts \/ ScannerFails \/ ScannerStops
  \/ TrackerRestarts \/ TrackerPromotes
  \/ HostSubscribes \/ HostLeaves
  \/ OtaStarts \/ OtaStops \/ Shutdown \/ BleDisabled \/ BleEnabled
  \/ RequestReconnect

Spec == Init /\ [][Next]_vars

\* The main loop runs, except that an update may hold it up.  A suppression
\* reaches its cap (SuppressionIsCapped of IdlePolicy).  ESPHome's client and
\* tracker get on with what they were asked.  For the controller, which may fail
\* any number of times: it is seen, connected to and answers again and again.
Fairness ==
  /\ WF_vars(~st.otaActive /\ Loop)
  /\ WF_vars(LoopWith("rearm"))
  /\ WF_vars(TrackerPromotes)
  /\ WF_vars(st.scanner # "RUNNING" /\ ScannerStops)
  /\ WF_vars(LinkEndsSilently \/ (st.client # "CONNECTED" /\ LinkEnds))
  /\ WF_vars(ScannerStarts \/ ScannerFails) /\ SF_vars(ScannerStarts)
  /\ WF_vars(OpenEvent \/ OpenFails)
  /\ SF_vars(Sighting)
  /\ SF_vars(st.client = "CONNECTING" /\ OpenEvent)
  /\ SF_vars(SessionReady)

LiveSpec == Spec /\ Fairness

-----------------------------------------------------------------------------
(* Properties.                                                             *)

\* A key is down only while a handshaken session stands and nothing is
\* quiesced: every end of a session releases what it pressed, in the same step.
KeysOnlyInSession ==
  st.kb.image # Up => st.rideReady /\ ~st.otaActive /\ ~st.stopped

\* The keyboard's gate is open exactly while the bridge counts the session as
\* ready, so it neither advertises without one nor hides with one.
GateFollowsSession == st.kb.allowed = st.rideReady

\* A report that waits is the current one, and what the keyboard holds instead
\* of the current one is the empty report or about to be replaced.
ReportIsCurrent ==
  /\ st.reportPending => st.pendingReport = st.active
  /\ st.reportPending \/ st.kb.image \in {Up, st.active}

\* A session that was under way when the bridge quiesced never counts again,
\* however late its handshake completes.
SessionIsFresh == st.rideReady => ~stale

\* A handshake that completes on a link nobody is closing makes the bridge ready.
HandshakeCounts ==
  /\ st.phase = "ready" /\ st.client = "CONNECTED" /\ st.bleActive
  /\ ~st.otaActive /\ ~st.stopped
  => st.rideReady

\* ESPHome's client is never left disabled unless a suppression is there to end it,
\* for the bridge and for its idle policy: without the one request_reconnect would
\* be ignored, without the other the wake of the controller and the cap.
DisabledOnlyWhileSuppressed ==
  ~st.enabled /\ st.bleActive =>
    (st.suppressed /\ st.policySuppressed) \/ st.otaActive \/ st.stopped

\* A haptic pulse that is due belongs to the session under way: none is left for
\* the next one, whatever ended it before the pulse could be sent.
PulseInSession == st.hapticPending => st.phase = "ready"

\* The bridge lets RideClient's sessions take their course: in particular it
\* never has the controller reconnected before the old session has ended.
HonoursSession == Session!SessionSpec

\* As long as the controller can be found, the bridge gets to it again.
ComesBack == []<>(st.rideReady \/ st.otaActive \/ st.stopped \/ ~st.bleActive)

\* During an update the radio ends up quiet, even when the loop is held up.
UpdateStopsScanning ==
  <>[]st.otaActive => <>[](st.scanner \notin {"STARTING", "RUNNING"})

\* A host that is ready is not left with keys other than those held.
KeysReachHost ==
  ~<>[](st.kb.ready /\ st.kb.image # st.active /\ ~st.otaActive /\ ~st.stopped)

=============================================================================
