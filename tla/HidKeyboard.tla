----------------------------- MODULE HidKeyboard ------------------------------
(***************************************************************************)
(* The BLE keyboard the bridge offers to a tablet: class HidKeyboard of    *)
(* src/components/zwift_ride_hid/hid_keyboard.{h,cpp}.  It builds its GATT *)
(* database one asynchronous operation at a time, advertises while the     *)
(* gate its owner holds is open and nobody is connected, accepts one HID   *)
(* host, and keeps that host's copy of the keyboard report up to date.     *)
(*                                                                         *)
(* It runs on the ESPHome main loop: Dispatch hands it the oldest queued   *)
(* GATTS or GAP event, Loop is its periodic call, and the bridge calls the *)
(* rest (set_advertising_allowed, send_report, quiesce, resume,            *)
(* ble_before_disabled_event_handler).  ESPHome's BLE component, Bluedroid *)
(* and the hosts are external, as lossy as the code's comments say:        *)
(* ESPHome's event queue may drop the completion of an operation.          *)
(*                                                                         *)
(* Left out: the name and the security parameters, the MTU, the keyboard   *)
(* LEDs, pairing dialogues, which of the two input attributes notifies,    *)
(* and which of its two calls starts advertising.                          *)
(***************************************************************************)
EXTENDS Naturals, Sequences, FiniteSets

CONSTANTS
  Hosts,            \* devices that may connect as HID hosts
  NoHost,
  Images,           \* keyboard reports with a key pressed
  Up,               \* the empty report
  OwnerCalls,       \* what the bridge calls, apart from begin
  HostActs,         \* what hosts and their links may do
  FaultKinds,       \* what may go wrong in the BLE stack
  MaxFaults,        \* bound: how often
  MaxEvents,        \* bound: queued events before the environment waits
  MaxCommands,      \* bound: advertising commands under way before the rest waits
  MaxRestarts,      \* bound: restarts of the BLE stack
  SharedAdvertiser, \* another feature of the firmware may advertise
  PromptStack       \* the stack answers within its timeouts, unless the answer is lost

Stages == {"DIS", "BAS", "HID", "COMPLETE"}

\* current_attributes_: what each service is built from, in order.
Attributes ==
  [DIS |-> <<"pnp_id", "manufacturer">>,
   BAS |-> <<"battery_value", "battery_cccd">>,
   HID |-> <<"information", "report_map", "battery_reference", "control_point",
             "protocol_mode", "boot_input", "boot_input_cccd", "boot_output",
             "report_input", "report_input_cccd", "report_input_reference",
             "report_output", "report_output_reference">>,
   COMPLETE |-> <<>>]

\* The attributes whose handle is kept (HandleSlot).
HandleSlots == {"battery_value", "battery_cccd", "protocol_mode", "boot_input",
                "boot_input_cccd", "boot_output", "report_input",
                "report_input_cccd", "report_output", "control_point"}
InputSlots == {"boot_input", "report_input"}

\* Subscriptions, the protocol mode and the HID control point; the outcome of an
\* encryption; congestion of the link.
AllActs == {"report_on", "report_off", "boot_on", "boot_off", "protocol",
            "suspend", "wake", "encrypted", "unencrypted", "congested",
            "uncongested"}
AllCalls == {"gate", "report", "quiesce"}
SyncFaults == {"build_error", "send_error", "stop_error"}
AllFaults == SyncFaults \union {"dropped", "build_refused", "start_refused", "stop_refused"}

ASSUME HostAssumption == NoHost \notin Hosts /\ Up \notin Images
ASSUME EnvironmentAssumption ==
  /\ OwnerCalls \subseteq AllCalls
  /\ HostActs \subseteq AllActs
  /\ FaultKinds \subseteq AllFaults
  /\ {MaxFaults, MaxEvents, MaxCommands, MaxRestarts} \subseteq Nat
  /\ {SharedAdvertiser, PromptStack} \subseteq BOOLEAN

VARIABLES
  \* construction of the GATT database
  begun,            \* begin_requested_
  appRequested,     \* app_registration_requested_
  registered,       \* registered_, and gatts_if_ is known
  stage,            \* service_stage_
  attributeIndex,   \* attribute_index_
  handles,          \* the attribute handles that are not 0
  servicesReady,    \* services_ready_
  failed,           \* failed_
  \* advertising
  adv,              \* advertising_{desired,active,start_requested,stop_requested,allowed}_
  quiesced,         \* quiesced_
  \* the host's connection and the report
  conn,             \* connected_, encrypted_, the subscriptions, and so on
  pendingReport,    \* pending_report_
  currentReport,    \* current_report_
  \* deadlines: "off", "running" or "due"
  registerTimer, buildTimer, advTimer, reportTimer,
  \* ESPHome's BLE component and Bluedroid (external)
  bleActive,        \* the stack is enabled
  request,          \* the database operation under way
  database,         \* those it has completed
  readable,         \* the value a host reads from each input attribute
  advertiser,       \* it is advertising
  advCommands,      \* advertising commands under way, oldest first
  events,           \* events queued for the main loop, oldest first
  linked,           \* hosts with a connection
  closing,          \* those it has been asked to disconnect
  shown,            \* the report each host last heard of
  faults, restarts,
  \* for the properties: the host connected when the report was last set
  imageOwner

buildVars == <<appRequested, registered, stage, attributeIndex, handles,
               servicesReady, failed, buildTimer, registerTimer, request>>
advVars == <<adv, advTimer, advCommands>>
reportVars == <<pendingReport, currentReport, reportTimer, readable, shown, imageOwner>>
radioVars == <<bleActive, database, advertiser, linked>>
vars == <<buildVars, begun, advVars, quiesced, conn, reportVars, radioVars, closing,
          events, faults, restarts>>

Timers == {"off", "running", "due"}
Reports == Images \union {Up}

Step(op, s, i) == [op |-> op, stage |-> s, index |-> i]
NoRequest == Step("none", "COMPLETE", 0)
Register == Step("register", "DIS", 0)

\* What the finished database consists of.
WholeDatabase ==
  {Register, Step("include", "HID", 0)}
    \union {Step(op, s, 0) : op \in {"create", "start"}, s \in Stages \ {"COMPLETE"}}
    \union UNION {{Step("attribute", s, i) : i \in 1..Len(Attributes[s])} : s \in Stages}

\* clear_connection_, and the state before the first connection.
NoConnection ==
  [peer |-> NoHost, encrypted |-> FALSE, report |-> FALSE, boot |-> FALSE,
   congested |-> FALSE, suspended |-> FALSE]

ClosedAdvertising ==
  [desired |-> FALSE, active |-> FALSE, startRequested |-> FALSE,
   stopRequested |-> FALSE, allowed |-> FALSE]

Connected(c) == c.peer # NoHost

TypeOK ==
  /\ {begun, appRequested, registered, servicesReady, failed, quiesced,
      pendingReport, bleActive, advertiser} \subseteq BOOLEAN
  /\ stage \in Stages
  /\ attributeIndex \in 0..Len(Attributes["HID"])
  /\ handles \subseteq HandleSlots
  /\ DOMAIN adv = DOMAIN ClosedAdvertising
  /\ \A f \in DOMAIN adv : adv[f] \in BOOLEAN
  /\ conn \in [peer : Hosts \union {NoHost}, encrypted : BOOLEAN, report : BOOLEAN,
               boot : BOOLEAN, congested : BOOLEAN, suspended : BOOLEAN]
  /\ currentReport \in Reports
  /\ {registerTimer, buildTimer, advTimer, reportTimer} \subseteq Timers
  /\ request \in WholeDatabase \union {NoRequest}
  /\ database \subseteq WholeDatabase
  /\ readable \in [InputSlots -> Reports]
  /\ \A i \in 1..Len(advCommands) : advCommands[i] \in {"start", "stop"}
  /\ linked \subseteq Hosts
  /\ closing \subseteq linked
  /\ shown \in [Hosts -> Reports]
  /\ faults \in 0..MaxFaults
  /\ restarts \in 0..MaxRestarts
  /\ imageOwner \in Hosts \union {NoHost}

\* time_reached of a deadline that was never set holds, so those count as due.
Init ==
  /\ begun = FALSE
  /\ appRequested = FALSE
  /\ registered = FALSE
  /\ stage = "DIS"
  /\ attributeIndex = 0
  /\ handles = {}
  /\ servicesReady = FALSE
  /\ failed = FALSE
  /\ adv = ClosedAdvertising
  /\ quiesced = FALSE
  /\ conn = NoConnection
  /\ pendingReport = FALSE
  /\ currentReport = Up
  /\ registerTimer = "due"
  /\ buildTimer = "off"
  /\ advTimer = "due"
  /\ reportTimer = "due"
  /\ bleActive = FALSE
  /\ request = NoRequest
  /\ database = {}
  /\ readable = [s \in InputSlots |-> Up]
  /\ advertiser = FALSE
  /\ advCommands = <<>>
  /\ events = <<>>
  /\ linked = {}
  /\ closing = {}
  /\ shown = [h \in Hosts |-> Up]
  /\ faults = 0
  /\ restarts = 0
  /\ imageOwner = NoHost

-----------------------------------------------------------------------------
(* Faults.  An action meets at most one; "none" is no fault.               *)

Fault(kinds) ==
  {"none"} \union (IF faults < MaxFaults THEN kinds \intersect FaultKinds ELSE {})

Count(f) == faults' = IF f = "none" THEN faults ELSE faults + 1

-----------------------------------------------------------------------------
(* Construction of the database.                                           *)

\* A request to the stack; one that is rejected at once ends construction
\* (mark_failed_).
Ask(r, f) ==
  IF f = "build_error"
  THEN /\ failed' = TRUE
       /\ UNCHANGED request
  ELSE /\ request' = r
       /\ UNCHANGED failed

\* Mutant: the last attribute of a service is forgotten.
AddNextAttributeShort(s, i, f) ==
  IF i + 1 < Len(Attributes[s]) THEN Ask(Step("attribute", s, i + 1), f)
  ELSE Ask(Step("start", s, 0), f)

\* Mutant: one attribute more than there are is asked for.
AddNextAttributePast(s, i, f) ==
  IF i <= Len(Attributes[s]) THEN Ask(Step("attribute", s, i + 1), f)
  ELSE Ask(Step("start", s, 0), f)

\* add_next_attribute_, when i attributes of service s are there.
AddNextAttribute(s, i, f) ==
  IF i < Len(Attributes[s]) THEN Ask(Step("attribute", s, i + 1), f)
  ELSE Ask(Step("start", s, 0), f)

\* A successful step restarts the watchdog.
RefreshConstructionWatchdog == buildTimer' = "running"

BuildFails ==
  /\ failed' = TRUE
  /\ UNCHANGED <<appRequested, registered, stage, attributeIndex, handles,
                 servicesReady, buildTimer, registerTimer, request>>

\* try_register_, with the errors of the calls before the registration.
TryRegister(f) ==
  IF bleActive
  THEN IF f = "build_error"
       THEN /\ registerTimer' = "running"
            /\ UNCHANGED <<appRequested, buildTimer, request>>
       ELSE /\ appRequested' = TRUE
            /\ request' = Register
            /\ RefreshConstructionWatchdog
            /\ UNCHANGED registerTimer
  ELSE UNCHANGED <<appRequested, buildTimer, registerTimer, request>>

-----------------------------------------------------------------------------
(* Advertising.  Each operator gives adv its next value, starting from the *)
(* value a that the caller has reached.                                    *)

\* advertise()
Advertise(a, ready, connected, quiet) ==
  LET wanted == [a EXCEPT !.desired = TRUE]
      busy == a.active \/ a.startRequested \/ a.stopRequested
  IN IF ~ready \/ ~a.allowed \/ quiet \/ failed
     THEN /\ adv' = [a EXCEPT !.desired = FALSE]
          /\ UNCHANGED <<advTimer, advCommands>>
     ELSE IF connected \/ busy
     THEN /\ adv' = wanted
          /\ UNCHANGED <<advTimer, advCommands>>
     ELSE IF ~bleActive
     THEN /\ adv' = wanted
          /\ advTimer' = "running"
          /\ UNCHANGED advCommands
     ELSE /\ adv' = [wanted EXCEPT !.startRequested = TRUE]
          /\ advTimer' = "running"
          /\ advCommands' = Append(advCommands, "start")

\* stop_advertising_: the request is submitted, found to be needless, or
\* rejected.
StopAdvertising(a, f) ==
  \/ /\ a.stopRequested
     /\ adv' = a
     /\ UNCHANGED <<advTimer, advCommands>>
  \/ /\ ~a.stopRequested
     /\ ~bleActive \/ (f = "none" /\ ~advertiser /\ advCommands = <<>>)
     /\ adv' = [a EXCEPT !.active = FALSE]
     /\ UNCHANGED <<advTimer, advCommands>>
  \/ /\ ~a.stopRequested
     /\ bleActive /\ f = "stop_error"
     /\ adv' = a
     /\ UNCHANGED <<advTimer, advCommands>>
  \/ /\ ~a.stopRequested
     /\ bleActive /\ f # "stop_error"
     /\ adv' = [a EXCEPT !.stopRequested = TRUE]
     /\ advTimer' = "running"
     /\ advCommands' = Append(advCommands, "stop")

-----------------------------------------------------------------------------
(* Reports.                                                                *)

\* Mutant: a quiesced keyboard counts as ready.
ReadyThoughQuiesced(c) ==
  /\ servicesReady /\ ~failed
  /\ Connected(c) /\ c.encrypted /\ ~c.suspended
  /\ c.report \/ c.boot

\* ready()
Ready(c) ==
  /\ servicesReady /\ ~quiesced /\ ~failed
  /\ Connected(c) /\ c.encrypted /\ ~c.suspended
  /\ c.report \/ c.boot

SetReadable(r, known) ==
  readable' = [s \in InputSlots |-> IF s \in known THEN r ELSE readable[s]]

\* send_current_report_, for a connection c and a report r, of which the
\* attributes "known" already tell: a notification is not possible now, is
\* deferred for 20 ms, or is sent.
CanNotify(c) == Ready(c) /\ ~c.congested

Notify(c, r, known, f) ==
  /\ SetReadable(r, IF CanNotify(c) THEN InputSlots ELSE known)
  /\ reportTimer' = IF CanNotify(c) /\ f = "send_error" THEN "running" ELSE reportTimer
  /\ shown' = IF CanNotify(c) /\ f # "send_error" /\ c.peer \in linked
              THEN [shown EXCEPT ![c.peer] = r] ELSE shown

\* Whether a report is still due after it, where "pending" is whether one was.
StillPending(c, pending, f) ==
  IF CanNotify(c) THEN f = "send_error" ELSE pending

\* Mutant: what a host may read is only updated when it is notified.
SendReportUnreadable(r, f) ==
  IF quiesced
  THEN UNCHANGED reportVars
  ELSE /\ currentReport' = r
       /\ imageOwner' = conn.peer
       /\ Notify(conn, r, {}, f)
       /\ pendingReport' = StillPending(conn, TRUE, f)

\* send_report
SendReport(r, f) ==
  IF quiesced
  THEN UNCHANGED reportVars
  ELSE /\ currentReport' = r
       /\ imageOwner' = conn.peer
       /\ Notify(conn, r, handles, f)
       /\ pendingReport' = StillPending(conn, TRUE, f)

\* Mutant: the image of the last host's keys is kept for the next one.
ClearConnectionKeepingImage ==
  /\ conn' = NoConnection
  /\ pendingReport' = TRUE
  /\ UNCHANGED <<currentReport, readable, imageOwner, reportTimer, shown>>

\* clear_connection_
ClearConnection ==
  /\ conn' = NoConnection
  /\ currentReport' = Up
  /\ imageOwner' = NoHost
  /\ pendingReport' = TRUE
  /\ SetReadable(Up, handles)
  /\ UNCHANGED <<reportTimer, shown>>

-----------------------------------------------------------------------------
(* gatts_event_handler and gap_event_handler, one operator per event.      *)

OnReg(e, f) ==
  IF ~e.ok THEN BuildFails
  ELSE /\ registered' = TRUE
       /\ RefreshConstructionWatchdog
       /\ stage' = "DIS"
       /\ attributeIndex' = 0
       /\ Ask(Step("create", "DIS", 0), f)
       /\ UNCHANGED <<appRequested, handles, servicesReady, registerTimer>>

OnCreate(e, f) ==
  IF ~e.ok \/ e.stage # stage THEN BuildFails
  ELSE /\ RefreshConstructionWatchdog
       /\ attributeIndex' = 0
       /\ IF stage = "HID" THEN Ask(Step("include", "HID", 0), f)
          ELSE AddNextAttribute(stage, 0, f)
       /\ UNCHANGED <<appRequested, registered, stage, handles, servicesReady,
                      registerTimer>>

OnInclude(e, f) ==
  IF ~e.ok \/ stage # "HID" THEN BuildFails
  ELSE /\ RefreshConstructionWatchdog
       /\ AddNextAttribute(stage, attributeIndex, f)
       /\ UNCHANGED <<appRequested, registered, stage, attributeIndex, handles,
                      servicesReady, registerTimer>>

\* The attribute's kind, UUID and service tell which one was asked for.
OnAttribute(e, f) ==
  IF ~e.ok \/ e.stage # stage \/ e.index # attributeIndex + 1
  THEN BuildFails
  ELSE /\ RefreshConstructionWatchdog
       /\ handles' = handles \union (HandleSlots \intersect {Attributes[stage][e.index]})
       /\ attributeIndex' = attributeIndex + 1
       /\ AddNextAttribute(stage, attributeIndex + 1, f)
       /\ UNCHANGED <<appRequested, registered, stage, servicesReady, registerTimer>>

\* advance_service_ after the start of a service.
OnStart(e, f) ==
  \/ /\ e.stage # stage
     /\ UNCHANGED <<buildVars, advVars>>
  \/ /\ e.stage = stage /\ ~e.ok
     /\ BuildFails
     /\ UNCHANGED advVars
  \/ /\ e.stage = stage /\ e.ok
     /\ stage \in {"DIS", "BAS"}
     /\ RefreshConstructionWatchdog
     /\ LET next == IF stage = "DIS" THEN "BAS" ELSE "HID"
        IN stage' = next /\ Ask(Step("create", next, 0), f)
     /\ attributeIndex' = 0
     /\ UNCHANGED <<appRequested, registered, handles, servicesReady, registerTimer, advVars>>
  \/ /\ e.stage = stage /\ e.ok
     /\ stage = "HID"
     /\ stage' = "COMPLETE"
     /\ servicesReady' = TRUE
     /\ buildTimer' = "off"
     /\ Advertise(adv, TRUE, Connected(conn), quiesced)
     /\ UNCHANGED <<appRequested, registered, attributeIndex, handles, failed,
                    registerTimer, request>>

\* A host is turned away while the keyboard is not offered, or another has it.
TurnedAway(h) ==
  \/ ~servicesReady \/ ~adv.allowed \/ quiesced
  \/ Connected(conn) /\ conn.peer # h

Disconnect(h) == closing' = closing \union ({h} \intersect linked)

OnConnect(e) ==
  \/ /\ TurnedAway(e.host)
     /\ Disconnect(e.host)
     /\ UNCHANGED <<adv, conn, pendingReport>>
  \/ /\ ~TurnedAway(e.host)
     /\ conn' = [NoConnection EXCEPT !.peer = e.host]
     /\ adv' = [adv EXCEPT !.desired = FALSE, !.active = FALSE, !.startRequested = FALSE]
     /\ pendingReport' = TRUE
     /\ UNCHANGED closing

\* Mutant: the loss of any connection is taken for the host's.
OnDisconnectAnyPeer(e) ==
  IF Connected(conn)
  THEN /\ ClearConnection
       /\ Advertise(adv, servicesReady, FALSE, quiesced)
  ELSE UNCHANGED <<conn, reportVars, advVars>>

OnDisconnect(e) ==
  IF Connected(conn) /\ conn.peer = e.host
  THEN /\ ClearConnection
       /\ Advertise(adv, servicesReady, FALSE, quiesced)
  ELSE UNCHANGED <<conn, reportVars, advVars>>

\* The connection after a write by its host.  A subscription is only possible
\* on an encrypted link.
Written(c, what) ==
  CASE what = "report_on"   -> [c EXCEPT !.report = TRUE, !.encrypted = TRUE]
    [] what = "report_off"  -> [c EXCEPT !.report = FALSE, !.encrypted = TRUE]
    [] what = "boot_on"     -> [c EXCEPT !.boot = TRUE, !.encrypted = TRUE]
    [] what = "boot_off"    -> [c EXCEPT !.boot = FALSE, !.encrypted = TRUE]
    [] what = "protocol"    -> c
    [] what = "suspend"     -> [c EXCEPT !.suspended = TRUE]
    [] what = "wake"        -> [c EXCEPT !.suspended = FALSE]

OnWrite(e, f) ==
  LET c == Written(conn, e.what)
  IN /\ conn' = c
     /\ Notify(c, currentReport, {}, f)
     /\ pendingReport' = StillPending(c, pendingReport \/ e.what # "suspend", f)
     /\ UNCHANGED <<currentReport, imageOwner>>

\* Mutant: the report that congestion held back is not sent.
OnCongestForgetful(e, f) ==
  /\ conn' = [conn EXCEPT !.congested = (e.what = "congested")]
  /\ pendingReport' = (pendingReport /\ e.what = "congested")
  /\ UNCHANGED <<currentReport, reportTimer, readable, shown, imageOwner>>

OnCongest(e, f) ==
  LET c == [conn EXCEPT !.congested = (e.what = "congested")]
  IN /\ conn' = c
     /\ IF ~c.congested /\ pendingReport
        THEN /\ Notify(c, currentReport, {}, f)
             /\ pendingReport' = StillPending(c, TRUE, f)
             /\ UNCHANGED <<currentReport, imageOwner>>
        ELSE UNCHANGED reportVars

OnAuthentication(e) ==
  /\ conn' = [conn EXCEPT !.encrypted = (e.what = "encrypted")]
  /\ UNCHANGED reportVars

\* Events of a connection that is not the host's are not for this server.
OnHost(e, f) ==
  IF e.host # conn.peer \/ (failed /\ e.what \notin {"encrypted", "unencrypted"})
  THEN UNCHANGED <<conn, reportVars>>
  ELSE CASE e.what \in {"congested", "uncongested"} -> OnCongest(e, f)
         [] e.what \in {"encrypted", "unencrypted"} -> OnAuthentication(e)
         [] OTHER -> OnWrite(e, f)

\* Mutant: a start that completes after the gate closed is let be.
OnAdvStartLate(e, f) ==
  /\ adv' = [adv EXCEPT !.startRequested = FALSE, !.active = e.ok]
  /\ advTimer' = IF e.ok THEN advTimer ELSE "running"
  /\ UNCHANGED advCommands

OnAdvStart(e, f) ==
  LET a == [adv EXCEPT !.startRequested = FALSE, !.active = e.ok]
      unwanted == ~a.desired \/ ~a.allowed \/ quiesced \/ Connected(conn)
  IN IF e.ok /\ unwanted THEN StopAdvertising(a, f)
     ELSE /\ adv' = a
          /\ advTimer' = IF e.ok THEN advTimer ELSE "running"
          /\ UNCHANGED advCommands

OnAdvStop(e, f) ==
  LET a == [adv EXCEPT !.active = ~e.ok, !.startRequested = FALSE, !.stopRequested = FALSE]
      wanted == /\ a.desired /\ a.allowed /\ servicesReady
                /\ ~quiesced /\ ~Connected(conn)
  IN IF ~e.ok /\ (~a.desired \/ quiesced) THEN StopAdvertising(a, f)
     ELSE IF e.ok /\ wanted THEN Advertise(a, TRUE, FALSE, FALSE)
     ELSE /\ adv' = a
          /\ UNCHANGED <<advTimer, advCommands>>

\* The GATTS half.  A failed server hears nothing more, one that is not
\* registered only of its registration.
HandleBuild(e, f) ==
  /\ UNCHANGED <<conn, reportVars, closing>>
  /\ \/ /\ failed
        /\ UNCHANGED <<buildVars, advVars>>
     \/ /\ ~failed /\ e.type = "register"
        /\ OnReg(e, f)
        /\ UNCHANGED advVars
     \/ /\ ~failed /\ e.type = "create"
        /\ OnCreate(e, f)
        /\ UNCHANGED advVars
     \/ /\ ~failed /\ e.type = "include"
        /\ OnInclude(e, f)
        /\ UNCHANGED advVars
     \/ /\ ~failed /\ e.type = "attribute"
        /\ OnAttribute(e, f)
        /\ UNCHANGED advVars
     \/ /\ ~failed /\ e.type = "start"
        /\ OnStart(e, f)

HandleLink(e) ==
  /\ UNCHANGED buildVars
  /\ \/ /\ failed
        /\ UNCHANGED <<conn, reportVars, advVars, closing>>
     \/ /\ ~failed /\ e.type = "connect"
        /\ OnConnect(e)
        /\ UNCHANGED <<currentReport, reportTimer, readable, shown, imageOwner,
                       advTimer, advCommands>>
     \/ /\ ~failed /\ e.type = "disconnect"
        /\ OnDisconnect(e)
        /\ UNCHANGED closing

HandleHost(e, f) ==
  /\ OnHost(e, f)
  /\ UNCHANGED <<buildVars, advVars, closing>>

HandleAdvertising(e, f) ==
  /\ UNCHANGED <<buildVars, conn, reportVars, closing>>
  /\ \/ e.type = "adv_start" /\ OnAdvStart(e, f)
     \/ e.type = "adv_stop" /\ OnAdvStop(e, f)

Dispatch ==
  /\ events # <<>>
  /\ events' = Tail(events)
  /\ \E f \in Fault(SyncFaults) :
       /\ Count(f)
       /\ LET e == Head(events)
          IN \/ /\ e.type \in {"register", "create", "include", "attribute", "start"}
                /\ HandleBuild(e, f)
             \/ /\ e.type \in {"connect", "disconnect"}
                /\ f = "none"
                /\ HandleLink(e)
             \/ /\ e.type = "host"
                /\ HandleHost(e, f)
             \/ /\ e.type \in {"adv_start", "adv_stop"}
                /\ HandleAdvertising(e, f)
  /\ UNCHANGED <<begun, quiesced, radioVars, restarts>>

-----------------------------------------------------------------------------
(* loop()                                                                  *)

\* Mutant: the watchdog is forgotten.
BuildTimedOutNever == FALSE

BuildTimedOut == appRequested /\ ~servicesReady /\ buildTimer = "due"

LoopBuildTimeout ==
  /\ BuildTimedOut
  /\ failed' = TRUE
  /\ buildTimer' = "off"
  /\ UNCHANGED <<appRequested, registered, stage, attributeIndex, handles,
                 servicesReady, registerTimer, request, advVars, conn, reportVars>>

LoopRegister(f) ==
  /\ ~appRequested
  /\ IF registerTimer = "due" THEN TryRegister(f)
     ELSE UNCHANGED <<appRequested, buildTimer, registerTimer, request>>
  /\ UNCHANGED <<registered, stage, attributeIndex, handles, servicesReady, failed,
                 advVars, conn, reportVars>>

LoopReport(f) ==
  IF pendingReport /\ CanNotify(conn) /\ reportTimer = "due"
  THEN /\ Notify(conn, currentReport, {}, f)
       /\ pendingReport' = StillPending(conn, TRUE, f)
       /\ UNCHANGED <<currentReport, imageOwner>>
  ELSE UNCHANGED reportVars

\* The completion of a start is missing and the gate is closed: it may be on.
StartMissing ==
  /\ ~adv.allowed /\ adv.startRequested /\ ~adv.stopRequested
  /\ advTimer = "due"

AdvertisingWanted ==
  /\ adv.desired /\ adv.allowed /\ servicesReady
  /\ ~Connected(conn) /\ ~quiesced

\* Mutant: a completion that is missing is waited for.
OverdueNever == FALSE

\* A completion that is missing counts as one of a command that did nothing.
Overdue == advTimer = "due" /\ (adv.startRequested \/ adv.stopRequested)

LoopAdvertising(f) ==
  LET a == IF Overdue
           THEN [adv EXCEPT !.active = FALSE, !.startRequested = FALSE,
                            !.stopRequested = FALSE]
           ELSE adv
      idle == ~a.active /\ ~a.startRequested /\ ~a.stopRequested
  IN \/ /\ StartMissing
        /\ StopAdvertising([adv EXCEPT !.startRequested = FALSE, !.active = TRUE], f)
     \/ /\ AdvertisingWanted
        /\ IF idle /\ advTimer = "due" THEN Advertise(a, TRUE, FALSE, FALSE)
           ELSE /\ adv' = a
                /\ UNCHANGED <<advTimer, advCommands>>
     \/ /\ ~StartMissing /\ ~AdvertisingWanted
        /\ UNCHANGED advVars

Loop ==
  /\ begun /\ ~failed
  /\ \E f \in Fault(SyncFaults) :
       /\ Count(f)
       /\ \/ LoopBuildTimeout
          \/ /\ ~BuildTimedOut
             /\ LoopRegister(f)
          \/ /\ ~BuildTimedOut /\ appRequested
             /\ LoopReport(f)
             /\ LoopAdvertising(f)
             /\ UNCHANGED <<buildVars, conn>>
  /\ UNCHANGED <<begun, quiesced, radioVars, closing, events, restarts>>

-----------------------------------------------------------------------------
(* Bounds: the environment waits when too much is queued for the code, or  *)
(* too much asked of the advertiser.                                       *)

Room == Len(events) < MaxEvents
StackKeepsUp == Len(advCommands) < MaxCommands

-----------------------------------------------------------------------------
(* The calls of the bridge.                                                *)

Begin ==
  /\ ~begun
  /\ begun' = TRUE
  /\ quiesced' = FALSE
  /\ UNCHANGED <<buildVars, advVars, conn, reportVars, radioVars, closing, events,
                 faults, restarts>>

\* submit_pending_report_ presses keys only on a ready link; a release is
\* sent whatever the link.
SubmitReport(r) ==
  /\ begun /\ "report" \in OwnerCalls
  /\ r = Up \/ Ready(conn)
  /\ \E f \in Fault({"send_error"}) : SendReport(r, f) /\ Count(f)
  /\ UNCHANGED <<buildVars, begun, advVars, quiesced, conn, radioVars, closing, events,
                 restarts>>

SetAdvertisingAllowed(allowed) ==
  LET a == [adv EXCEPT !.allowed = allowed, !.desired = allowed /\ @]
      running == adv.desired \/ adv.active \/ adv.startRequested \/ adv.stopRequested
  IN /\ begun /\ "gate" \in OwnerCalls
     /\ StackKeepsUp
     /\ \E f \in Fault({"stop_error"}) :
          /\ Count(f)
          /\ \/ /\ allowed /\ ~quiesced
                /\ Advertise(a, servicesReady, Connected(conn), quiesced)
             \/ /\ ~allowed /\ running
                /\ StopAdvertising(a, f)
             \/ /\ ~allowed /\ ~running
                /\ adv' = a
                /\ UNCHANGED <<advTimer, advCommands>>
     /\ UNCHANGED <<buildVars, begun, quiesced, conn, reportVars, radioVars, closing,
                    events, restarts>>

\* Mutant: the link is left to the owner of the stack.
QuiesceKeepingHost(f) ==
  /\ currentReport' = Up
  /\ imageOwner' = conn.peer
  /\ Notify(conn, Up, handles, f)
  /\ pendingReport' = FALSE
  /\ UNCHANGED closing

\* The part of quiesce() about the host: an empty report, then the end of the
\* link, which releases what the report could not.
QuiesceHost(f) ==
  /\ currentReport' = Up
  /\ imageOwner' = conn.peer
  /\ Notify(conn, Up, handles, f)
  /\ pendingReport' = FALSE
  /\ Disconnect(conn.peer)

Quiesce ==
  /\ begun /\ "quiesce" \in OwnerCalls
  /\ StackKeepsUp
  /\ ~quiesced
  /\ quiesced' = TRUE
  /\ \E f \in Fault({"send_error", "stop_error"}) :
       /\ Count(f)
       /\ QuiesceHost(f)
       /\ StopAdvertising([adv EXCEPT !.allowed = FALSE, !.desired = FALSE], f)
  /\ UNCHANGED <<buildVars, begun, conn, radioVars, events, restarts>>

Resume ==
  /\ begun
  /\ StackKeepsUp
  /\ quiesced
  /\ quiesced' = FALSE
  /\ pendingReport' = TRUE
  /\ Advertise(adv, servicesReady, Connected(conn), FALSE)
  /\ UNCHANGED <<buildVars, begun, conn, currentReport, reportTimer, readable, shown,
                 imageOwner, radioVars, closing, events, faults, restarts>>

\* ble_before_disabled_event_handler, and the end of the stack it announces.
BeforeDisabled ==
  /\ bleActive /\ begun
  /\ restarts < MaxRestarts
  /\ restarts' = restarts + 1
  /\ appRequested' = FALSE
  /\ registered' = FALSE
  /\ stage' = "DIS"
  /\ attributeIndex' = 0
  /\ handles' = {}
  /\ servicesReady' = FALSE
  /\ failed' = FALSE
  /\ buildTimer' = "off"
  /\ registerTimer' = "running"
  /\ adv' = ClosedAdvertising
  /\ conn' = NoConnection
  /\ pendingReport' = TRUE
  /\ currentReport' = Up
  /\ imageOwner' = NoHost
  /\ readable' = [s \in InputSlots |-> Up]
  /\ shown' = [h \in Hosts |-> Up]
  /\ bleActive' = FALSE
  /\ request' = NoRequest
  /\ database' = {}
  /\ advertiser' = FALSE
  /\ advCommands' = <<>>
  /\ events' = <<>>
  /\ linked' = {}
  /\ closing' = {}
  /\ UNCHANGED <<begun, quiesced, advTimer, reportTimer, faults>>

BleEnabled ==
  /\ ~bleActive
  /\ bleActive' = TRUE
  /\ UNCHANGED <<buildVars, begun, advVars, quiesced, conn, reportVars, database,
                 advertiser, linked, closing, events, faults, restarts>>

-----------------------------------------------------------------------------
(* The BLE stack and the hosts (external).                                 *)

codeVars == <<begun, appRequested, registered, stage, attributeIndex, handles,
              servicesReady, failed, registerTimer, buildTimer, adv, quiesced, conn,
              pendingReport, currentReport, imageOwner>>

\* An answer reaches the queue or, as a fault, does not.
Answer(e, f) == events' = IF f = "dropped" THEN events ELSE Append(events, e)

RequestCompletes ==
  /\ Room
  /\ request # NoRequest
  /\ request' = NoRequest
  /\ \E f \in Fault({"dropped", "build_refused"}) :
       /\ Count(f)
       /\ database' = IF f = "build_refused" THEN database ELSE database \union {request}
       /\ Answer([type |-> request.op, stage |-> request.stage, index |-> request.index,
                  ok |-> f # "build_refused"], f)
  /\ UNCHANGED <<codeVars, advTimer, reportTimer, readable, shown, bleActive, advertiser,
                 advCommands, linked, closing, restarts>>

\* A refused command changes nothing.
AdvertiserActs ==
  /\ Room
  /\ advCommands # <<>>
  /\ advCommands' = Tail(advCommands)
  /\ \E f \in Fault({"dropped", "start_refused", "stop_refused"}) :
       LET start == Head(advCommands) = "start"
           refused == f = IF start THEN "start_refused" ELSE "stop_refused"
       IN /\ Count(f)
          /\ advertiser' = IF refused THEN advertiser ELSE start
          /\ Answer([type |-> IF start THEN "adv_start" ELSE "adv_stop", ok |-> ~refused], f)
  /\ UNCHANGED <<codeVars, advTimer, reportTimer, request, readable, shown, bleActive,
                 database, linked, closing, restarts>>

linkExcept == <<codeVars, advTimer, advCommands, reportTimer, request, readable,
                bleActive, database, faults, restarts>>

\* Connectable advertising ends when a link is made.
HostConnects(h) ==
  /\ Room /\ StackKeepsUp
  /\ advertiser
  /\ h \notin linked
  /\ advertiser' = FALSE
  /\ linked' = linked \union {h}
  /\ events' = Append(events, [type |-> "connect", host |-> h])
  /\ UNCHANGED <<linkExcept, shown, closing>>

\* A host that is gone holds no key.
LinkCloses(h) ==
  /\ Room
  /\ h \in linked
  /\ linked' = linked \ {h}
  /\ closing' = closing \ {h}
  /\ shown' = [shown EXCEPT ![h] = Up]
  /\ events' = Append(events, [type |-> "disconnect", host |-> h])
  /\ UNCHANGED <<linkExcept, advertiser>>

HostActsOn(h, what) ==
  /\ Room
  /\ h \in linked
  /\ events' = Append(events, [type |-> "host", host |-> h, what |-> what])
  /\ UNCHANGED <<linkExcept, advertiser, linked, shown, closing>>

\* Another feature advertises, once there is a server to be found.
OtherAdvertises ==
  /\ SharedAdvertiser
  /\ registered /\ ~advertiser
  /\ advertiser' = TRUE
  /\ UNCHANGED <<linkExcept, events, linked, shown, closing>>

Queued(types) == \E i \in 1..Len(events) : events[i].type \in types

BuildAnswered ==
  /\ request = NoRequest
  /\ ~Queued({"register", "create", "include", "attribute", "start"})

AdvertisingAnswered == advCommands = <<>> /\ ~Queued({"adv_start", "adv_stop"})

BuildTimerExpires ==
  /\ buildTimer = "running"
  /\ PromptStack => BuildAnswered
  /\ buildTimer' = "due"
  /\ UNCHANGED <<registerTimer, advTimer, reportTimer>>

AdvTimerExpires ==
  /\ advTimer = "running"
  /\ IF PromptStack THEN AdvertisingAnswered ELSE StackKeepsUp
  /\ advTimer' = "due"
  /\ UNCHANGED <<registerTimer, buildTimer, reportTimer>>

RetryTimerExpires ==
  \/ /\ registerTimer = "running"
     /\ registerTimer' = "due"
     /\ UNCHANGED <<buildTimer, advTimer, reportTimer>>
  \/ /\ reportTimer = "running"
     /\ reportTimer' = "due"
     /\ UNCHANGED <<registerTimer, buildTimer, advTimer>>

TimePasses ==
  /\ BuildTimerExpires \/ AdvTimerExpires \/ RetryTimerExpires
  /\ UNCHANGED <<begun, appRequested, registered, stage, attributeIndex, handles,
                 servicesReady, failed, request, adv, advCommands, quiesced, conn,
                 pendingReport, currentReport, readable, shown, imageOwner, radioVars,
                 closing, events, faults, restarts>>

Next ==
  \/ Dispatch \/ Loop
  \/ Begin \/ Quiesce \/ Resume \/ BeforeDisabled \/ BleEnabled
  \/ \E r \in Reports : SubmitReport(r)
  \/ \E allowed \in BOOLEAN : SetAdvertisingAllowed(allowed)
  \/ RequestCompletes \/ AdvertiserActs \/ OtherAdvertises
  \/ \E h \in Hosts : HostConnects(h) \/ LinkCloses(h)
  \/ \E h \in Hosts, what \in HostActs : HostActsOn(h, what)
  \/ TimePasses

Spec == Init /\ [][Next]_vars

\* The main loop runs and time passes; the stack answers unless the answer is
\* lost, and a link that is asked to close does, however often the hosts, which
\* do as they please, fill the queue of events.
Fairness ==
  /\ WF_vars(Dispatch) /\ WF_vars(Loop)
  /\ WF_vars(RequestCompletes) /\ SF_vars(AdvertiserActs)
  /\ WF_vars(TimePasses /\ buildTimer' # buildTimer)
  /\ WF_vars(TimePasses /\ advTimer' # advTimer)
  /\ WF_vars(TimePasses /\ registerTimer' # registerTimer)
  /\ WF_vars(TimePasses /\ reportTimer' # reportTimer)
  /\ \A h \in Hosts : SF_vars(h \in closing /\ LinkCloses(h))

LiveSpec == Spec /\ Fairness

-----------------------------------------------------------------------------
(* Properties.                                                             *)

\* No host ever uses a partial database: while one is accepted, everything of
\* every service has been built and every handle the code relies on is known,
\* whatever completions were lost, late or refused on the way.
HostSeesWholeDatabase ==
  Connected(conn) => database = WholeDatabase /\ handles = HandleSlots

\* Nothing is left over in the connection bookkeeping: a link of the keyboard
\* is that of the accepted host, one being turned away, or one whose event is
\* still queued; and the accepted host has a link, or its loss is queued.
EveryLinkAccountedFor ==
  /\ registered /\ ~failed =>
       \A h \in linked :
         \/ h = conn.peer
         \/ h \in closing
         \/ \E i \in 1..Len(events) : events[i] = [type |-> "connect", host |-> h]
  /\ Connected(conn) /\ ~failed =>
       \/ conn.peer \in linked
       \/ \E i \in 1..Len(events) : events[i] = [type |-> "disconnect", host |-> conn.peer]

\* A host that reads the report instead of waiting for a notification reads
\* the current one, not an older image with a key pressed.
ReadsAreCurrent == \A s \in InputSlots : readable[s] = currentReport

\* Keys pressed while one host was connected are never shown to another.
NoImageAcrossHosts ==
  [][\A h \in Hosts : shown'[h] \in {Up, shown[h]} \/ imageOwner' = h]_vars

\* To the bridge this is the keyboard of KeyboardPort: what it hears from ready(),
\* and what a host can read, changes in no way but those.
Port == INSTANCE KeyboardPort WITH
  kb <- [allowed |-> adv.allowed, halted |-> quiesced, ready |-> Ready(conn),
         image |-> currentReport]

ImplementsPort == Port!PortSpec

\* A host that can be notified is not left with an old report forever.
HostCatchesUp ==
  ~<>[](/\ Ready(conn) /\ ~conn.congested
        /\ conn.peer \in linked
        /\ shown[conn.peer] # currentReport)

\* Once quiesced, no host is left with a key pressed, not even one whose link
\* was congested.
QuiesceReleasesKeys ==
  \A h \in Hosts : quiesced /\ shown[h] # Up ~> ~quiesced \/ shown[h] = Up

\* Construction ends: in a complete database, in failure or with the stack.
ConstructionEnds ==
  appRequested ~> servicesReady \/ failed \/ ~appRequested

Offered == servicesReady /\ ~failed /\ adv.allowed /\ ~quiesced

\* While the gate is open and nobody is connected the bridge can be found,
\* though completions of advertising commands are lost.
Discoverable == ~<>[](Offered /\ ~Connected(conn) /\ linked = {} /\ ~advertiser)

\* When the gate closes the bridge stops advertising, a start under way and
\* lost completions notwithstanding.
GateCloses == ~<>[](~failed /\ bleActive /\ ~adv.allowed /\ advertiser)

=============================================================================
