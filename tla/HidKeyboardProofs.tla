-------------------------- MODULE HidKeyboardProofs ---------------------------
(***************************************************************************)
(* Proofs about HidKeyboard, for any hosts, images, faults and bounds: its *)
(* types, and that a host which is accepted finds the whole database.      *)
(*                                                                         *)
(* The database is right because at most one operation on it is pending,   *)
(* under way in the stack or answered in the queue, and what the code knows *)
(* when it asks for an operation is all there is to do before it: a        *)
(* completion that is lost leaves nothing pending, so that the watchdog    *)
(* ends construction before a host is accepted.  That watchdog is never    *)
(* off in between.                                                         *)
(***************************************************************************)
EXTENDS HidKeyboard, TLAPS

-----------------------------------------------------------------------------
(* Types, by the part of the keyboard they are about.                      *)

BuildTypes == {"register", "create", "include", "attribute", "start"}
BuildEvents ==
  {[type |-> r.op, stage |-> r.stage, index |-> r.index, ok |-> ok] :
     r \in WholeDatabase, ok \in BOOLEAN}
LinkEvents == [type : {"connect", "disconnect"}, host : Hosts]
HostEvents == [type : {"host"}, host : Hosts, what : AllActs]
AdvertisingEvents == [type : {"adv_start", "adv_stop"}, ok : BOOLEAN]
Event == BuildEvents \union LinkEvents \union HostEvents \union AdvertisingEvents

AdvertisingStates ==
  [desired : BOOLEAN, active : BOOLEAN, startRequested : BOOLEAN,
   stopRequested : BOOLEAN, allowed : BOOLEAN]
Connections ==
  [peer : Hosts \union {NoHost}, encrypted : BOOLEAN, report : BOOLEAN,
   boot : BOOLEAN, congested : BOOLEAN, suspended : BOOLEAN]

BuildTyped ==
  /\ appRequested \in BOOLEAN /\ registered \in BOOLEAN
  /\ servicesReady \in BOOLEAN /\ failed \in BOOLEAN
  /\ stage \in Stages
  /\ attributeIndex \in 0..Len(Attributes["HID"])
  /\ handles \subseteq HandleSlots
  /\ registerTimer \in Timers /\ buildTimer \in Timers
  /\ request \in WholeDatabase \union {NoRequest}

AdvertisingTyped ==
  /\ adv \in AdvertisingStates
  /\ advTimer \in Timers
  /\ advCommands \in Seq({"start", "stop"})

ReportTyped ==
  /\ pendingReport \in BOOLEAN
  /\ currentReport \in Reports
  /\ reportTimer \in Timers
  /\ readable \in [InputSlots -> Reports]
  /\ shown \in [Hosts -> Reports]
  /\ imageOwner \in Hosts \union {NoHost}

StackTyped ==
  /\ bleActive \in BOOLEAN /\ advertiser \in BOOLEAN
  /\ database \subseteq WholeDatabase
  /\ linked \subseteq Hosts
  /\ closing \subseteq linked

Typed ==
  /\ BuildTyped
  /\ AdvertisingTyped
  /\ conn \in Connections
  /\ ReportTyped
  /\ StackTyped
  /\ begun \in BOOLEAN /\ quiesced \in BOOLEAN
  /\ events \in Seq(Event)
  /\ faults \in 0..MaxFaults
  /\ restarts \in 0..MaxRestarts

LEMMA TypedIsTypeOK == Typed => TypeOK
<1> SUFFICES ASSUME Typed PROVE TypeOK
  OBVIOUS
<1>1. DOMAIN adv = DOMAIN ClosedAdvertising /\ \A f \in DOMAIN adv : adv[f] \in BOOLEAN
  BY DEF Typed, AdvertisingTyped, AdvertisingStates, ClosedAdvertising
<1>2. \A i \in 1..Len(advCommands) : advCommands[i] \in {"start", "stop"}
  BY DEF Typed, AdvertisingTyped
<1>3. QED
  BY <1>1, <1>2 DEF TypeOK, Typed, BuildTyped, AdvertisingTyped, ReportTyped, StackTyped, Connections

\* How many attributes each service has.
LEMMA AttributeCounts ==
  /\ Len(Attributes["DIS"]) = 2 /\ Len(Attributes["BAS"]) = 2
  /\ Len(Attributes["HID"]) = 13 /\ Len(Attributes["COMPLETE"]) = 0
  /\ \A s \in Stages : Len(Attributes[s]) \in 0..Len(Attributes["HID"])
BY DEF Attributes, Stages

\* The steps of construction, and what each is made of.
LEMMA StepsKnown ==
  /\ Register \in WholeDatabase
  /\ Step("include", "HID", 0) \in WholeDatabase
  /\ \A s \in {"DIS", "BAS", "HID"} :
       Step("create", s, 0) \in WholeDatabase /\ Step("start", s, 0) \in WholeDatabase
  /\ \A s \in {"DIS", "BAS", "HID"} : \A i \in 1..Len(Attributes[s]) :
       Step("attribute", s, i) \in WholeDatabase
BY DEF WholeDatabase, Stages

LEMMA StepKinds ==
  ASSUME NEW q \in WholeDatabase
  PROVE  \/ q = Register
         \/ q = Step("include", "HID", 0)
         \/ \E s \in {"DIS", "BAS", "HID"} : q = Step("create", s, 0) \/ q = Step("start", s, 0)
         \/ \E s \in {"DIS", "BAS", "HID"} : \E i \in 1..Len(Attributes[s]) : q = Step("attribute", s, i)
BY AttributeCounts DEF WholeDatabase, Stages

LEMMA StepFields ==
  ASSUME NEW q \in WholeDatabase
  PROVE  /\ q = Step(q.op, q.stage, q.index)
         /\ q.op \in BuildTypes /\ q.stage \in {"DIS", "BAS", "HID"}
         /\ q.op = "register" => q = Register
         /\ q.op = "include" => q = Step("include", "HID", 0)
         /\ q.op = "attribute" => q.index \in 1..Len(Attributes[q.stage])
         /\ q.op # "attribute" => q.index = 0
         /\ q # NoRequest
BY StepKinds DEF Step, Register, BuildTypes, NoRequest

-----------------------------------------------------------------------------
(* Types are kept: construction.                                           *)

LEMMA AskType ==
  ASSUME BuildTyped, NEW r \in WholeDatabase, NEW f, Ask(r, f)
  PROVE  failed' \in BOOLEAN /\ request' \in WholeDatabase \union {NoRequest}
BY DEF Ask, BuildTyped

LEMMA AddNextAttributeType ==
  ASSUME BuildTyped, NEW s \in {"DIS", "BAS", "HID"}, NEW i \in 0..Len(Attributes[s]),
         NEW f, AddNextAttribute(s, i, f)
  PROVE  failed' \in BOOLEAN /\ request' \in WholeDatabase \union {NoRequest}
<1>1. Len(Attributes[s]) \in Nat
  BY AttributeCounts
<1>2. i < Len(Attributes[s]) => Step("attribute", s, i + 1) \in WholeDatabase
  BY <1>1, StepsKnown
<1>3. Step("start", s, 0) \in WholeDatabase
  BY StepsKnown
<1>4. QED
  BY <1>2, <1>3, AskType DEF AddNextAttribute

LEMMA BuildFailsType == ASSUME BuildTyped, BuildFails PROVE BuildTyped'
BY DEF BuildFails, BuildTyped

LEMMA TryRegisterType ==
  ASSUME BuildTyped, NEW f, TryRegister(f)
  PROVE  /\ appRequested' \in BOOLEAN /\ registerTimer' \in Timers /\ buildTimer' \in Timers
         /\ request' \in WholeDatabase \union {NoRequest}
BY StepsKnown DEF TryRegister, BuildTyped, Timers, RefreshConstructionWatchdog

\* What a completion of the database may be.
LEMMA BuildEventFields ==
  ASSUME NEW e \in Event, e.type \in BuildTypes
  PROVE  /\ Step(e.type, e.stage, e.index) \in WholeDatabase
         /\ e.stage \in {"DIS", "BAS", "HID"} /\ e.ok \in BOOLEAN
         /\ e.type = "attribute" => e.index \in 1..Len(Attributes[e.stage])
         /\ e.type = "include" => e.stage = "HID"
         /\ e.type = "register" => e.stage = "DIS"
<1>1. e \in BuildEvents
  BY DEF Event, LinkEvents, HostEvents, AdvertisingEvents, BuildTypes
<1>2. PICK r \in WholeDatabase, ok \in BOOLEAN :
        e = [type |-> r.op, stage |-> r.stage, index |-> r.index, ok |-> ok]
  BY <1>1 DEF BuildEvents
<1>3. e.type = r.op /\ e.stage = r.stage /\ e.index = r.index /\ e.ok = ok
  BY <1>2
<1>4. QED
  BY <1>3, StepFields DEF Step, Register

LEMMA OnRegType ==
  ASSUME BuildTyped, NEW e, NEW f, OnReg(e, f)
  PROVE  BuildTyped'
<1>1. CASE ~e.ok
  BY <1>1, BuildFailsType DEF OnReg
<1>2. CASE e.ok
  <2>1. failed' \in BOOLEAN /\ request' \in WholeDatabase \union {NoRequest}
    BY <1>2, AskType, StepsKnown DEF OnReg
  <2>2. attributeIndex' \in 0..Len(Attributes["HID"])
    BY <1>2, AttributeCounts DEF OnReg
  <2>3. QED
    BY <1>2, <2>1, <2>2 DEF OnReg, BuildTyped, Stages, Timers, RefreshConstructionWatchdog
<1>3. QED
  BY <1>1, <1>2

LEMMA OnCreateType ==
  ASSUME BuildTyped, NEW e \in Event, e.type = "create", NEW f, OnCreate(e, f)
  PROVE  BuildTyped'
<1>1. CASE ~e.ok \/ e.stage # stage
  BY <1>1, BuildFailsType DEF OnCreate
<1>2. CASE e.ok /\ e.stage = stage
  <2>1. stage \in {"DIS", "BAS", "HID"}
    BY <1>2, BuildEventFields DEF BuildTypes
  <2>2. 0 \in 0..Len(Attributes[stage]) /\ 0 \in 0..Len(Attributes["HID"])
    BY <2>1, AttributeCounts
  <2>3. failed' \in BOOLEAN /\ request' \in WholeDatabase \union {NoRequest}
    BY <1>2, <2>1, <2>2, AskType, AddNextAttributeType, StepsKnown DEF OnCreate
  <2>4. QED
    BY <1>2, <2>2, <2>3 DEF OnCreate, BuildTyped, Timers, RefreshConstructionWatchdog
<1>3. QED
  BY <1>1, <1>2

LEMMA OnIncludeType ==
  ASSUME BuildTyped, NEW e, NEW f, OnInclude(e, f)
  PROVE  BuildTyped'
<1>1. CASE ~e.ok \/ stage # "HID"
  BY <1>1, BuildFailsType DEF OnInclude
<1>2. CASE e.ok /\ stage = "HID"
  <2>1. failed' \in BOOLEAN /\ request' \in WholeDatabase \union {NoRequest}
    BY <1>2, AddNextAttributeType DEF OnInclude, BuildTyped
  <2>2. QED
    BY <1>2, <2>1 DEF OnInclude, BuildTyped, Timers, RefreshConstructionWatchdog
<1>3. QED
  BY <1>1, <1>2

LEMMA OnAttributeType ==
  ASSUME BuildTyped, NEW e \in Event, e.type = "attribute", NEW f, OnAttribute(e, f)
  PROVE  BuildTyped'
<1>1. CASE ~e.ok \/ e.stage # stage \/ e.index # attributeIndex + 1
  BY <1>1, BuildFailsType DEF OnAttribute
<1>2. CASE e.ok /\ e.stage = stage /\ e.index = attributeIndex + 1
  <2>1. stage \in {"DIS", "BAS", "HID"} /\ e.index \in 1..Len(Attributes[stage])
    BY <1>2, BuildEventFields DEF BuildTypes
  <2>2. attributeIndex + 1 \in 0..Len(Attributes[stage])
    BY <1>2, <2>1, AttributeCounts
  <2>3. attributeIndex + 1 \in 0..Len(Attributes["HID"])
    <3>1. Len(Attributes[stage]) \in 0..Len(Attributes["HID"]) /\ Len(Attributes["HID"]) \in Nat
      BY AttributeCounts DEF BuildTyped
    <3>2. QED
      BY <2>2, <3>1
  <2>4. failed' \in BOOLEAN /\ request' \in WholeDatabase \union {NoRequest}
    BY <1>2, <2>1, <2>2, AddNextAttributeType DEF OnAttribute
  <2>5. attributeIndex' = attributeIndex + 1 /\ handles' \subseteq HandleSlots
    BY <1>2 DEF OnAttribute, BuildTyped
  <2>6. QED
    BY <1>2, <2>3, <2>4, <2>5 DEF OnAttribute, BuildTyped, Timers, RefreshConstructionWatchdog
<1>3. QED
  BY <1>1, <1>2

-----------------------------------------------------------------------------
(* Types are kept: advertising, and the report.                            *)

LEMMA AdvertisingStatesType ==
  ASSUME NEW a \in AdvertisingStates, NEW b \in BOOLEAN
  PROVE  /\ [a EXCEPT !.desired = b] \in AdvertisingStates
         /\ [a EXCEPT !.active = b] \in AdvertisingStates
         /\ [a EXCEPT !.startRequested = b] \in AdvertisingStates
         /\ [a EXCEPT !.stopRequested = b] \in AdvertisingStates
         /\ [a EXCEPT !.allowed = b] \in AdvertisingStates
         /\ a.allowed \in BOOLEAN /\ a.desired \in BOOLEAN /\ a.active \in BOOLEAN
         /\ a.startRequested \in BOOLEAN /\ a.stopRequested \in BOOLEAN
BY DEF AdvertisingStates

LEMMA AdvertiseType ==
  ASSUME AdvertisingTyped, NEW a \in AdvertisingStates, NEW ready, NEW connected, NEW quiet,
         Advertise(a, ready, connected, quiet)
  PROVE  AdvertisingTyped' /\ adv'.allowed = a.allowed
<1> DEFINE quiescent == [a EXCEPT !.desired = FALSE]
           wanted == [a EXCEPT !.desired = TRUE]
           started == [wanted EXCEPT !.startRequested = TRUE]
<1>1. quiescent \in AdvertisingStates /\ wanted \in AdvertisingStates
  BY AdvertisingStatesType
<1>2. started \in AdvertisingStates
  BY <1>1, AdvertisingStatesType
<1>3. quiescent.allowed = a.allowed /\ started.allowed = a.allowed /\ wanted.allowed = a.allowed
  BY DEF AdvertisingStates
<1>4. adv' \in {quiescent, wanted, started}
  BY DEF Advertise
<1>5. advTimer' \in Timers /\ advCommands' \in Seq({"start", "stop"})
  BY DEF Advertise, AdvertisingTyped, Timers
<1> HIDE DEF quiescent, wanted, started
<1>6. QED
  BY <1>1, <1>2, <1>3, <1>4, <1>5 DEF AdvertisingTyped

LEMMA StopAdvertisingType ==
  ASSUME AdvertisingTyped, NEW a \in AdvertisingStates, NEW f, StopAdvertising(a, f)
  PROVE  AdvertisingTyped' /\ adv'.allowed = a.allowed
<1> DEFINE inactive == [a EXCEPT !.active = FALSE]
           stopping == [a EXCEPT !.stopRequested = TRUE]
<1>1. inactive \in AdvertisingStates /\ stopping \in AdvertisingStates
  BY AdvertisingStatesType
<1>2. inactive.allowed = a.allowed /\ stopping.allowed = a.allowed
  BY DEF AdvertisingStates
<1>3. adv' \in {a, inactive, stopping}
  BY DEF StopAdvertising
<1>4. advTimer' \in Timers /\ advCommands' \in Seq({"start", "stop"})
  BY DEF StopAdvertising, AdvertisingTyped, Timers
<1> HIDE DEF inactive, stopping
<1>5. QED
  BY <1>1, <1>2, <1>3, <1>4 DEF AdvertisingTyped

LEMMA OnStartType ==
  ASSUME BuildTyped, AdvertisingTyped, NEW e \in Event, NEW f, OnStart(e, f)
  PROVE  BuildTyped' /\ AdvertisingTyped' /\ adv'.allowed = adv.allowed
<1>1. CASE e.stage # stage
  BY <1>1 DEF OnStart, buildVars, advVars, BuildTyped, AdvertisingTyped
<1>2. CASE e.stage = stage /\ ~e.ok
  BY <1>2, BuildFailsType DEF OnStart, advVars, AdvertisingTyped
<1>3. CASE e.stage = stage /\ e.ok /\ stage \in {"DIS", "BAS"}
  <2> DEFINE next == IF stage = "DIS" THEN "BAS" ELSE "HID"
  <2>1. stage' = next /\ Ask(Step("create", next, 0), f)
    BY <1>3 DEF OnStart
  <2>2. next \in {"DIS", "BAS", "HID"}
    OBVIOUS
  <2> HIDE DEF next
  <2>3. failed' \in BOOLEAN /\ request' \in WholeDatabase \union {NoRequest}
    BY <2>1, <2>2, AskType, StepsKnown
  <2>4. 0 \in 0..Len(Attributes["HID"])
    BY AttributeCounts
  <2>5. BuildTyped'
    BY <1>3, <2>1, <2>2, <2>3, <2>4
    DEF OnStart, BuildTyped, Stages, Timers, RefreshConstructionWatchdog
  <2>6. AdvertisingTyped' /\ adv'.allowed = adv.allowed
    BY <1>3 DEF OnStart, advVars, AdvertisingTyped
  <2>7. QED
    BY <2>5, <2>6
<1>4. CASE e.stage = stage /\ e.ok /\ stage = "HID"
  <2>1. Advertise(adv, TRUE, Connected(conn), quiesced)
    BY <1>4 DEF OnStart
  <2>2. AdvertisingTyped' /\ adv'.allowed = adv.allowed
    BY <2>1, AdvertiseType DEF AdvertisingTyped
  <2>3. BuildTyped'
    BY <1>4 DEF OnStart, BuildTyped, Stages, Timers
  <2>4. QED
    BY <2>2, <2>3
<1>5. QED
  BY <1>1, <1>2, <1>3, <1>4 DEF OnStart

LEMMA NotifyType ==
  ASSUME ReportTyped, NEW c \in Connections, NEW r \in Reports, NEW known, NEW f,
         Notify(c, r, known, f)
  PROVE  /\ reportTimer' \in Timers
         /\ readable' \in [InputSlots -> Reports]
         /\ shown' \in [Hosts -> Reports]
BY DEF ReportTyped, Notify, SetReadable, Timers

LEMMA StillPendingType ==
  ASSUME NEW c, NEW pending \in BOOLEAN, NEW f
  PROVE  StillPending(c, pending, f) \in BOOLEAN
BY DEF StillPending

LEMMA SendReportType ==
  ASSUME ReportTyped, conn \in Connections, NEW r \in Reports, NEW f, SendReport(r, f)
  PROVE  ReportTyped'
<1>1. CASE quiesced
  BY <1>1 DEF SendReport, reportVars, ReportTyped
<1>2. CASE ~quiesced
  <2>1. /\ reportTimer' \in Timers /\ readable' \in [InputSlots -> Reports]
        /\ shown' \in [Hosts -> Reports]
    BY <1>2, NotifyType DEF SendReport
  <2>2. pendingReport' \in BOOLEAN
    BY <1>2, StillPendingType DEF SendReport
  <2>3. currentReport' = r /\ imageOwner' = conn.peer
    BY <1>2 DEF SendReport
  <2>4. QED
    BY <2>1, <2>2, <2>3 DEF ReportTyped, Connections
<1>3. QED
  BY <1>1, <1>2

LEMMA NoConnectionType == NoConnection \in Connections
BY DEF NoConnection, Connections

LEMMA ClearConnectionType ==
  ASSUME ReportTyped, ClearConnection
  PROVE  ReportTyped' /\ conn' \in Connections
<1>1. readable' \in [InputSlots -> Reports]
  BY DEF ClearConnection, SetReadable, Reports, ReportTyped
<1>2. conn' \in Connections
  BY NoConnectionType DEF ClearConnection
<1>3. QED
  BY <1>1, <1>2 DEF ClearConnection, ReportTyped, Reports

-----------------------------------------------------------------------------
(* Types are kept: links and the host.                                     *)

LEMMA ConnectionsType ==
  ASSUME NEW c \in Connections, NEW b \in BOOLEAN
  PROVE  /\ [c EXCEPT !.report = b, !.encrypted = TRUE] \in Connections
         /\ [c EXCEPT !.boot = b, !.encrypted = TRUE] \in Connections
         /\ [c EXCEPT !.suspended = b] \in Connections
         /\ [c EXCEPT !.congested = b] \in Connections
         /\ [c EXCEPT !.encrypted = b] \in Connections
BY DEF Connections

LEMMA LinkEventFields ==
  ASSUME NEW e \in Event, e.type \in {"connect", "disconnect"}
  PROVE  e \in LinkEvents /\ e.host \in Hosts
BY DEF Event, LinkEvents, BuildEvents, HostEvents, AdvertisingEvents, WholeDatabase, Step, Register

LEMMA HostEventFields ==
  ASSUME NEW e \in Event, e.type = "host"
  PROVE  e.host \in Hosts /\ e.what \in AllActs
BY StepFields DEF Event, LinkEvents, BuildEvents, HostEvents, AdvertisingEvents, BuildTypes

LEMMA AdvertisingEventFields ==
  ASSUME NEW e \in Event, e.type \in {"adv_start", "adv_stop"}
  PROVE  e.ok \in BOOLEAN
BY StepFields DEF Event, LinkEvents, BuildEvents, HostEvents, AdvertisingEvents, BuildTypes

LEMMA OnConnectType ==
  ASSUME AdvertisingTyped, ReportTyped, StackTyped, conn \in Connections,
         NEW e, e.host \in Hosts, OnConnect(e)
  PROVE  /\ adv' \in AdvertisingStates /\ adv'.allowed = adv.allowed
         /\ conn' \in Connections /\ pendingReport' \in BOOLEAN
         /\ closing' \subseteq linked
<1>1. CASE TurnedAway(e.host)
  BY <1>1 DEF OnConnect, Disconnect, AdvertisingTyped, ReportTyped, StackTyped
<1>2. CASE ~TurnedAway(e.host)
  <2> DEFINE a == [adv EXCEPT !.desired = FALSE, !.active = FALSE, !.startRequested = FALSE]
             c == [NoConnection EXCEPT !.peer = e.host]
  <2>1. a \in AdvertisingStates /\ a.allowed = adv.allowed
    BY DEF AdvertisingTyped, AdvertisingStates
  <2>2. c \in Connections
    BY DEF NoConnection, Connections
  <2>3. adv' = a /\ conn' = c /\ pendingReport' = TRUE /\ closing' = closing
    BY <1>2 DEF OnConnect
  <2> HIDE DEF a, c
  <2>4. QED
    BY <2>1, <2>2, <2>3 DEF StackTyped
<1>3. QED
  BY <1>1, <1>2

LEMMA OnDisconnectType ==
  ASSUME AdvertisingTyped, ReportTyped, conn \in Connections, NEW e, OnDisconnect(e)
  PROVE  /\ AdvertisingTyped' /\ adv'.allowed = adv.allowed
         /\ ReportTyped' /\ conn' \in Connections
<1>1. CASE Connected(conn) /\ conn.peer = e.host
  <2>1. ReportTyped' /\ conn' \in Connections
    BY <1>1, ClearConnectionType DEF OnDisconnect
  <2>2. AdvertisingTyped' /\ adv'.allowed = adv.allowed
    BY <1>1, AdvertiseType DEF OnDisconnect, AdvertisingTyped
  <2>3. QED
    BY <2>1, <2>2
<1>2. CASE ~(Connected(conn) /\ conn.peer = e.host)
  BY <1>2 DEF OnDisconnect, reportVars, advVars, AdvertisingTyped, ReportTyped
<1>3. QED
  BY <1>1, <1>2

LEMMA WrittenType ==
  ASSUME NEW c \in Connections, NEW what \in AllActs,
         what \notin {"congested", "uncongested", "encrypted", "unencrypted"}
  PROVE  Written(c, what) \in Connections /\ Written(c, what).peer = c.peer
<1>1. what \in {"report_on", "report_off", "boot_on", "boot_off", "protocol", "suspend", "wake"}
  BY DEF AllActs
<1>2. Written(c, what) \in Connections
  BY <1>1, ConnectionsType DEF Written
<1>3. Written(c, what).peer = c.peer
  BY <1>1 DEF Written, Connections
<1>4. QED
  BY <1>2, <1>3

LEMMA OnWriteType ==
  ASSUME ReportTyped, conn \in Connections, NEW e, e.what \in AllActs,
         e.what \notin {"congested", "uncongested", "encrypted", "unencrypted"},
         NEW f, OnWrite(e, f)
  PROVE  ReportTyped' /\ conn' \in Connections /\ conn'.peer = conn.peer
<1>1. Written(conn, e.what) \in Connections /\ Written(conn, e.what).peer = conn.peer
  BY WrittenType
<1>2. conn' = Written(conn, e.what)
  BY DEF OnWrite
<1>3. /\ reportTimer' \in Timers /\ readable' \in [InputSlots -> Reports]
      /\ shown' \in [Hosts -> Reports]
  BY <1>1, NotifyType DEF OnWrite, ReportTyped
<1>4. pendingReport' \in BOOLEAN
  BY StillPendingType DEF OnWrite, ReportTyped
<1>5. QED
  BY <1>1, <1>2, <1>3, <1>4 DEF OnWrite, ReportTyped

LEMMA OnCongestType ==
  ASSUME ReportTyped, conn \in Connections, NEW e, NEW f, OnCongest(e, f)
  PROVE  ReportTyped' /\ conn' \in Connections /\ conn'.peer = conn.peer
<1> DEFINE c == [conn EXCEPT !.congested = (e.what = "congested")]
<1>1. c \in Connections /\ c.peer = conn.peer
  BY DEF Connections
<1>2. conn' = c
  BY DEF OnCongest
<1>3. CASE ~c.congested /\ pendingReport
  <2>1. Notify(c, currentReport, {}, f) /\ pendingReport' = StillPending(c, TRUE, f)
    BY <1>3 DEF OnCongest
  <2>2. UNCHANGED <<currentReport, imageOwner>>
    BY <1>3 DEF OnCongest
  <2>3. /\ reportTimer' \in Timers /\ readable' \in [InputSlots -> Reports]
        /\ shown' \in [Hosts -> Reports]
    BY <1>1, <2>1, NotifyType DEF ReportTyped
  <2>4. pendingReport' \in BOOLEAN
    BY <2>1, StillPendingType
  <2>5. QED
    BY <1>1, <1>2, <2>2, <2>3, <2>4 DEF ReportTyped
<1>4. CASE ~(~c.congested /\ pendingReport)
  <2>1. UNCHANGED reportVars
    BY <1>4 DEF OnCongest
  <2>2. QED
    BY <1>1, <1>2, <2>1 DEF reportVars, ReportTyped
<1>5. QED
  BY <1>3, <1>4

LEMMA OnHostType ==
  ASSUME ReportTyped, conn \in Connections, NEW e, e.what \in AllActs, NEW f, OnHost(e, f)
  PROVE  ReportTyped' /\ conn' \in Connections /\ conn'.peer = conn.peer
<1>1. CASE e.host # conn.peer \/ (failed /\ e.what \notin {"encrypted", "unencrypted"})
  BY <1>1 DEF OnHost, reportVars, ReportTyped
<1>2. CASE /\ ~(e.host # conn.peer \/ (failed /\ e.what \notin {"encrypted", "unencrypted"}))
           /\ e.what \in {"congested", "uncongested"}
  BY <1>2, OnCongestType DEF OnHost
<1>3. CASE /\ ~(e.host # conn.peer \/ (failed /\ e.what \notin {"encrypted", "unencrypted"}))
           /\ e.what \in {"encrypted", "unencrypted"}
  <2>1. OnAuthentication(e)
    BY <1>3 DEF OnHost
  <2>2. conn' \in Connections /\ conn'.peer = conn.peer
    <3> DEFINE c == [conn EXCEPT !.encrypted = (e.what = "encrypted")]
    <3>1. c \in Connections /\ c.peer = conn.peer
      BY DEF Connections
    <3>2. conn' = c
      BY <2>1 DEF OnAuthentication
    <3>3. QED
      BY <3>1, <3>2
  <2>3. QED
    BY <2>1, <2>2 DEF OnAuthentication, reportVars, ReportTyped
<1>4. CASE /\ ~(e.host # conn.peer \/ (failed /\ e.what \notin {"encrypted", "unencrypted"}))
           /\ e.what \notin {"congested", "uncongested", "encrypted", "unencrypted"}
  <2>1. OnWrite(e, f)
    BY <1>4 DEF OnHost
  <2>2. QED
    BY <1>4, <2>1, OnWriteType
<1>5. QED
  BY <1>1, <1>2, <1>3, <1>4

LEMMA OnAdvStartType ==
  ASSUME AdvertisingTyped, NEW e, e.ok \in BOOLEAN, NEW f, OnAdvStart(e, f)
  PROVE  AdvertisingTyped' /\ adv'.allowed = adv.allowed
<1> DEFINE a == [adv EXCEPT !.startRequested = FALSE, !.active = e.ok]
<1>1. a \in AdvertisingStates /\ a.allowed = adv.allowed
  BY DEF AdvertisingTyped, AdvertisingStates
<1>2. \/ StopAdvertising(a, f)
      \/ adv' = a /\ advTimer' \in {advTimer, "running"} /\ UNCHANGED advCommands
  BY DEF OnAdvStart
<1> HIDE DEF a
<1>3. CASE StopAdvertising(a, f)
  BY <1>1, <1>3, StopAdvertisingType
<1>4. CASE adv' = a /\ advTimer' \in {advTimer, "running"} /\ UNCHANGED advCommands
  BY <1>1, <1>4 DEF AdvertisingTyped, Timers
<1>5. QED
  BY <1>2, <1>3, <1>4

LEMMA OnAdvStopType ==
  ASSUME AdvertisingTyped, NEW e, e.ok \in BOOLEAN, NEW f, OnAdvStop(e, f)
  PROVE  AdvertisingTyped' /\ adv'.allowed = adv.allowed
<1> DEFINE a == [adv EXCEPT !.active = ~e.ok, !.startRequested = FALSE, !.stopRequested = FALSE]
<1>1. a \in AdvertisingStates /\ a.allowed = adv.allowed
  BY DEF AdvertisingTyped, AdvertisingStates
<1>2. \/ StopAdvertising(a, f)
      \/ Advertise(a, TRUE, FALSE, FALSE)
      \/ adv' = a /\ UNCHANGED <<advTimer, advCommands>>
  BY DEF OnAdvStop
<1> HIDE DEF a
<1>3. CASE StopAdvertising(a, f)
  BY <1>1, <1>3, StopAdvertisingType
<1>4. CASE Advertise(a, TRUE, FALSE, FALSE)
  BY <1>1, <1>4, AdvertiseType
<1>5. CASE adv' = a /\ UNCHANGED <<advTimer, advCommands>>
  BY <1>1, <1>5 DEF AdvertisingTyped
<1>6. QED
  BY <1>2, <1>3, <1>4, <1>5

-----------------------------------------------------------------------------
(* Types are kept: the queue and the actions.                              *)

Positions == 1..Len(events)

LEMMA Dequeued ==
  ASSUME events \in Seq(Event), events # <<>>, events' = Tail(events)
  PROVE  /\ Len(events) \in Nat /\ Len(events) > 0 /\ 1 \in Positions
         /\ Head(events) = events[1] /\ events[1] \in Event
         /\ events' \in Seq(Event)
         /\ \A i \in Positions' : i + 1 \in Positions /\ events'[i] = events[i + 1]
         /\ \A i \in Positions : i # 1 => i - 1 \in Positions' /\ events'[i - 1] = events[i]
<1>1. Len(events) \in Nat /\ Len(events) > 0 /\ Len(events') = Len(events) - 1
  OBVIOUS
<1>2. Positions' = 1..(Len(events) - 1)
  BY <1>1 DEF Positions
<1>3. \A i \in 1..(Len(events) - 1) : events'[i] = events[i + 1]
  OBVIOUS
<1>4. Head(events) = events[1] /\ events[1] \in Event /\ events' \in Seq(Event)
  OBVIOUS
<1>5. QED
  BY <1>1, <1>2, <1>3, <1>4 DEF Positions

LEMMA Appended ==
  ASSUME events \in Seq(Event), NEW e \in Event, events' = Append(events, e)
  PROVE  /\ events' \in Seq(Event) /\ Len(events) \in Nat
         /\ Positions' = 1..(Len(events) + 1)
         /\ \A i \in Positions : i \in Positions' /\ i <= Len(events) /\ events'[i] = events[i]
         /\ events'[Len(events) + 1] = e
         /\ \A i \in Positions' : i \in Positions \/ (i = Len(events) + 1 /\ events'[i] = e)
<1>1. Len(events) \in Nat /\ Len(events') = Len(events) + 1 /\ events' \in Seq(Event)
  OBVIOUS
<1>2. Positions' = 1..(Len(events) + 1)
  BY <1>1 DEF Positions
<1>3. \A i \in 1..Len(events) : events'[i] = events[i]
  OBVIOUS
<1>4. events'[Len(events) + 1] = e
  OBVIOUS
<1>5. QED
  BY <1>1, <1>2, <1>3, <1>4 DEF Positions

LEMMA CountType ==
  ASSUME faults \in 0..MaxFaults, NEW kinds, NEW f \in Fault(kinds), Count(f)
  PROVE  faults' \in 0..MaxFaults
<1>1. MaxFaults \in Nat
  BY EnvironmentAssumption
<1>2. f = "none" \/ faults < MaxFaults
  BY DEF Fault
<1>3. CASE f = "none"
  BY <1>3 DEF Count
<1>4. CASE f # "none"
  <2>1. faults + 1 \in 0..MaxFaults
    BY <1>1, <1>2, <1>4
  <2>2. QED
    BY <1>4, <2>1 DEF Count
<1>5. QED
  BY <1>3, <1>4

\* What Dispatch does, by the kind of its event.
LEMMA DispatchEffect ==
  ASSUME Typed, Dispatch
  PROVE  /\ events # <<>> /\ events' = Tail(events) /\ events[1] \in Event
         /\ faults' \in 0..MaxFaults
         /\ UNCHANGED <<begun, quiesced, bleActive, database, advertiser, linked, restarts>>
         /\ \E f : \/ events[1].type \in BuildTypes /\ HandleBuild(events[1], f)
                   \/ events[1].type \in {"connect", "disconnect"} /\ HandleLink(events[1])
                   \/ events[1].type = "host" /\ HandleHost(events[1], f)
                   \/ events[1].type \in {"adv_start", "adv_stop"} /\ HandleAdvertising(events[1], f)
<1>1. events # <<>> /\ events' = Tail(events) /\ UNCHANGED <<begun, quiesced, radioVars, restarts>>
  BY DEF Dispatch
<1>2. Head(events) = events[1] /\ events[1] \in Event
  BY <1>1, Dequeued DEF Typed
<1>3. PICK f \in Fault(SyncFaults) :
        /\ Count(f)
        /\ \/ events[1].type \in BuildTypes /\ HandleBuild(events[1], f)
           \/ events[1].type \in {"connect", "disconnect"} /\ HandleLink(events[1])
           \/ events[1].type = "host" /\ HandleHost(events[1], f)
           \/ events[1].type \in {"adv_start", "adv_stop"} /\ HandleAdvertising(events[1], f)
  BY <1>2 DEF Dispatch, BuildTypes
<1>4. faults' \in 0..MaxFaults
  BY <1>3, CountType DEF Typed
<1>5. QED
  BY <1>1, <1>2, <1>3, <1>4 DEF radioVars

LEMMA HandleBuildType ==
  ASSUME BuildTyped, AdvertisingTyped, NEW e \in Event, NEW f, HandleBuild(e, f)
  PROVE  BuildTyped' /\ AdvertisingTyped' /\ adv'.allowed = adv.allowed
<1>1. CASE failed /\ UNCHANGED <<buildVars, advVars>>
  BY <1>1 DEF buildVars, advVars, BuildTyped, AdvertisingTyped
<1>2. CASE e.type = "start" /\ OnStart(e, f)
  BY <1>2, OnStartType
<1>3. CASE UNCHANGED advVars /\ (\/ e.type = "register" /\ OnReg(e, f)
                                 \/ e.type = "create" /\ OnCreate(e, f)
                                 \/ e.type = "include" /\ OnInclude(e, f)
                                 \/ e.type = "attribute" /\ OnAttribute(e, f))
  <2>1. BuildTyped'
    BY <1>3, OnRegType, OnCreateType, OnIncludeType, OnAttributeType
  <2>2. QED
    BY <1>3, <2>1 DEF advVars, AdvertisingTyped
<1>4. QED
  BY <1>1, <1>2, <1>3 DEF HandleBuild

LEMMA HandleLinkType ==
  ASSUME Typed, NEW e \in Event, e.type \in {"connect", "disconnect"}, HandleLink(e),
         UNCHANGED linked
  PROVE  /\ AdvertisingTyped' /\ adv'.allowed = adv.allowed
         /\ ReportTyped' /\ conn' \in Connections
         /\ closing' \subseteq linked'
<1>1. CASE failed /\ UNCHANGED <<conn, reportVars, advVars, closing>>
  BY <1>1 DEF Typed, reportVars, advVars, AdvertisingTyped, ReportTyped, StackTyped
<1>2. CASE /\ OnConnect(e)
           /\ UNCHANGED <<currentReport, reportTimer, readable, shown, imageOwner,
                          advTimer, advCommands>>
  <2>1. /\ adv' \in AdvertisingStates /\ adv'.allowed = adv.allowed
        /\ conn' \in Connections /\ pendingReport' \in BOOLEAN
        /\ closing' \subseteq linked
    BY <1>2, LinkEventFields, OnConnectType DEF Typed
  <2>2. QED
    BY <1>2, <2>1 DEF Typed, AdvertisingTyped, ReportTyped
<1>3. CASE OnDisconnect(e) /\ UNCHANGED closing
  BY <1>3, OnDisconnectType DEF Typed, StackTyped
<1>4. QED
  BY <1>1, <1>2, <1>3 DEF HandleLink

LEMMA DispatchType == Typed /\ Dispatch => Typed'
<1> SUFFICES ASSUME Typed, Dispatch PROVE Typed'
  OBVIOUS
<1>1. /\ events # <<>> /\ events' = Tail(events) /\ events[1] \in Event
      /\ faults' \in 0..MaxFaults
      /\ UNCHANGED <<begun, quiesced, bleActive, database, advertiser, linked, restarts>>
  BY DispatchEffect
<1>2. events' \in Seq(Event)
  BY <1>1, Dequeued DEF Typed
<1> DEFINE e == events[1]
<1> HIDE DEF e
<1>3. e \in Event
  BY <1>1 DEF e
<1>4. PICK f : \/ e.type \in BuildTypes /\ HandleBuild(e, f)
               \/ e.type \in {"connect", "disconnect"} /\ HandleLink(e)
               \/ e.type = "host" /\ HandleHost(e, f)
               \/ e.type \in {"adv_start", "adv_stop"} /\ HandleAdvertising(e, f)
  BY DispatchEffect DEF e
<1>5. BuildTyped' /\ AdvertisingTyped' /\ conn' \in Connections /\ ReportTyped' /\ closing' \subseteq linked'
  <2>1. CASE e.type \in BuildTypes /\ HandleBuild(e, f)
    <3>1. BuildTyped' /\ AdvertisingTyped'
      BY <1>3, <2>1, HandleBuildType DEF Typed
    <3>2. UNCHANGED <<conn, reportVars, closing>>
      BY <2>1 DEF HandleBuild
    <3>3. QED
      BY <1>1, <3>1, <3>2 DEF Typed, reportVars, ReportTyped, StackTyped
  <2>2. CASE e.type \in {"connect", "disconnect"} /\ HandleLink(e)
    <3>1. /\ AdvertisingTyped' /\ ReportTyped' /\ conn' \in Connections
          /\ closing' \subseteq linked'
      BY <1>1, <1>3, <2>2, HandleLinkType
    <3>2. UNCHANGED buildVars
      BY <2>2 DEF HandleLink
    <3>3. QED
      BY <3>1, <3>2 DEF Typed, buildVars, BuildTyped
  <2>3. CASE e.type = "host" /\ HandleHost(e, f)
    <3>1. ReportTyped' /\ conn' \in Connections
      BY <1>3, <2>3, HostEventFields, OnHostType DEF Typed, HandleHost
    <3>2. UNCHANGED <<buildVars, advVars, closing>>
      BY <2>3 DEF HandleHost
    <3>3. QED
      BY <1>1, <3>1, <3>2 DEF Typed, buildVars, advVars, BuildTyped, AdvertisingTyped, StackTyped
  <2>4. CASE e.type \in {"adv_start", "adv_stop"} /\ HandleAdvertising(e, f)
    <3>1. AdvertisingTyped'
      BY <1>3, <2>4, AdvertisingEventFields, OnAdvStartType, OnAdvStopType
      DEF Typed, HandleAdvertising
    <3>2. UNCHANGED <<buildVars, conn, reportVars, closing>>
      BY <2>4 DEF HandleAdvertising
    <3>3. QED
      BY <1>1, <3>1, <3>2 DEF Typed, buildVars, reportVars, BuildTyped, ReportTyped, StackTyped
  <2>5. QED
    BY <1>4, <2>1, <2>2, <2>3, <2>4
<1>6. StackTyped'
  BY <1>1, <1>5 DEF Typed, StackTyped
<1>7. QED
  BY <1>1, <1>2, <1>5, <1>6 DEF Typed

LEMMA LoopReportType ==
  ASSUME ReportTyped, conn \in Connections, NEW f, LoopReport(f)
  PROVE  ReportTyped'
<1>1. CASE pendingReport /\ CanNotify(conn) /\ reportTimer = "due"
  <2>1. /\ Notify(conn, currentReport, {}, f)
        /\ pendingReport' = StillPending(conn, TRUE, f)
        /\ UNCHANGED <<currentReport, imageOwner>>
    BY <1>1 DEF LoopReport
  <2>2. /\ reportTimer' \in Timers /\ readable' \in [InputSlots -> Reports]
        /\ shown' \in [Hosts -> Reports]
    BY <2>1, NotifyType DEF ReportTyped
  <2>3. pendingReport' \in BOOLEAN
    BY <2>1, StillPendingType
  <2>4. QED
    BY <2>1, <2>2, <2>3 DEF ReportTyped
<1>2. CASE ~(pendingReport /\ CanNotify(conn) /\ reportTimer = "due")
  BY <1>2 DEF LoopReport, reportVars, ReportTyped
<1>3. QED
  BY <1>1, <1>2

LEMMA LoopAdvertisingType ==
  ASSUME AdvertisingTyped, NEW f, LoopAdvertising(f)
  PROVE  AdvertisingTyped' /\ adv'.allowed = adv.allowed
<1> DEFINE cleared == [adv EXCEPT !.active = FALSE, !.startRequested = FALSE,
                                  !.stopRequested = FALSE]
           a == IF Overdue THEN cleared ELSE adv
           missed == [adv EXCEPT !.startRequested = FALSE, !.active = TRUE]
<1>1. cleared \in AdvertisingStates /\ missed \in AdvertisingStates
  BY DEF AdvertisingTyped, AdvertisingStates
<1>2. cleared.allowed = adv.allowed /\ missed.allowed = adv.allowed
  BY DEF AdvertisingTyped, AdvertisingStates
<1>3. \/ StopAdvertising(missed, f)
      \/ Advertise(a, TRUE, FALSE, FALSE)
      \/ adv' = a /\ UNCHANGED <<advTimer, advCommands>>
      \/ UNCHANGED advVars
  BY DEF LoopAdvertising
<1> HIDE DEF missed, cleared
<1>4. a \in AdvertisingStates /\ a.allowed = adv.allowed
  BY <1>1, <1>2 DEF AdvertisingTyped
<1> HIDE DEF a
<1>5. CASE StopAdvertising(missed, f)
  BY <1>1, <1>2, <1>5, StopAdvertisingType
<1>6. CASE Advertise(a, TRUE, FALSE, FALSE)
  BY <1>4, <1>6, AdvertiseType
<1>7. CASE adv' = a /\ UNCHANGED <<advTimer, advCommands>>
  BY <1>4, <1>7 DEF AdvertisingTyped
<1>8. CASE UNCHANGED advVars
  BY <1>8 DEF advVars, AdvertisingTyped
<1>9. QED
  BY <1>3, <1>5, <1>6, <1>7, <1>8

LEMMA LoopType == Typed /\ Loop => Typed'
<1> SUFFICES ASSUME Typed, Loop PROVE Typed'
  OBVIOUS
<1>1. UNCHANGED <<begun, quiesced, radioVars, closing, events, restarts>>
  BY DEF Loop
<1>2. PICK f \in Fault(SyncFaults) :
        /\ Count(f)
        /\ \/ LoopBuildTimeout
           \/ LoopRegister(f)
           \/ LoopReport(f) /\ LoopAdvertising(f) /\ UNCHANGED <<buildVars, conn>>
  BY DEF Loop
<1>3. faults' \in 0..MaxFaults
  BY <1>2, CountType DEF Typed
<1>4. BuildTyped' /\ AdvertisingTyped' /\ conn' \in Connections /\ ReportTyped'
  <2>1. CASE LoopBuildTimeout
    BY <2>1 DEF LoopBuildTimeout, Typed, BuildTyped, AdvertisingTyped, ReportTyped, Timers,
                advVars, reportVars
  <2>2. CASE LoopRegister(f)
    <3>1. BuildTyped'
      BY <2>2, TryRegisterType DEF LoopRegister, Typed, BuildTyped
    <3>2. QED
      BY <2>2, <3>1 DEF LoopRegister, Typed, AdvertisingTyped, ReportTyped, advVars, reportVars
  <2>3. CASE LoopReport(f) /\ LoopAdvertising(f) /\ UNCHANGED <<buildVars, conn>>
    BY <2>3, LoopReportType, LoopAdvertisingType DEF Typed, BuildTyped, buildVars
  <2>4. QED
    BY <1>2, <2>1, <2>2, <2>3
<1>5. StackTyped'
  BY <1>1 DEF Typed, StackTyped, radioVars
<1>6. QED
  BY <1>1, <1>3, <1>4, <1>5 DEF Typed

LEMMA SubmitReportType == ASSUME Typed, NEW r \in Reports, SubmitReport(r) PROVE Typed'
<1>1. UNCHANGED <<buildVars, begun, advVars, quiesced, conn, radioVars, closing, events, restarts>>
  BY DEF SubmitReport
<1>2. PICK f \in Fault({"send_error"}) : SendReport(r, f) /\ Count(f)
  BY DEF SubmitReport
<1>3. ReportTyped' /\ faults' \in 0..MaxFaults
  BY <1>2, SendReportType, CountType DEF Typed
<1>4. QED
  BY <1>1, <1>3 DEF Typed, BuildTyped, AdvertisingTyped, StackTyped, buildVars, advVars, radioVars

LEMMA SetAdvertisingAllowedType ==
  ASSUME Typed, NEW allowed \in BOOLEAN, SetAdvertisingAllowed(allowed)
  PROVE  Typed' /\ adv'.allowed = allowed /\ (allowed => ~quiesced)
<1> DEFINE a == [adv EXCEPT !.allowed = allowed, !.desired = allowed /\ @]
<1>1. a \in AdvertisingStates /\ a.allowed = allowed
  BY DEF Typed, AdvertisingTyped, AdvertisingStates
<1>2. UNCHANGED <<buildVars, begun, quiesced, conn, reportVars, radioVars, closing, events, restarts>>
  BY DEF SetAdvertisingAllowed
<1>3. PICK f \in Fault({"stop_error"}) :
        /\ Count(f)
        /\ \/ allowed /\ ~quiesced /\ Advertise(a, servicesReady, Connected(conn), quiesced)
           \/ ~allowed /\ StopAdvertising(a, f)
           \/ ~allowed /\ adv' = a /\ UNCHANGED <<advTimer, advCommands>>
  BY DEF SetAdvertisingAllowed
<1> HIDE DEF a
<1>4. faults' \in 0..MaxFaults
  BY <1>3, CountType DEF Typed
<1>5. AdvertisingTyped' /\ adv'.allowed = a.allowed
  BY <1>1, <1>3, AdvertiseType, StopAdvertisingType DEF Typed, AdvertisingTyped
<1>6. Typed'
  BY <1>2, <1>4, <1>5 DEF Typed, BuildTyped, ReportTyped, StackTyped, buildVars, reportVars, radioVars
<1>7. QED
  BY <1>1, <1>3, <1>5, <1>6

LEMMA QuiesceType == Typed /\ Quiesce => Typed' /\ adv'.allowed = FALSE
<1> SUFFICES ASSUME Typed, Quiesce PROVE Typed' /\ adv'.allowed = FALSE
  OBVIOUS
<1> DEFINE a == [adv EXCEPT !.allowed = FALSE, !.desired = FALSE]
<1>1. a \in AdvertisingStates /\ a.allowed = FALSE
  BY DEF Typed, AdvertisingTyped, AdvertisingStates
<1>2. UNCHANGED <<buildVars, begun, conn, radioVars, events, restarts>> /\ quiesced' = TRUE
  BY DEF Quiesce
<1>3. PICK f \in Fault({"send_error", "stop_error"}) :
        Count(f) /\ QuiesceHost(f) /\ StopAdvertising(a, f)
  BY DEF Quiesce
<1> HIDE DEF a
<1>4. faults' \in 0..MaxFaults
  BY <1>3, CountType DEF Typed
<1>5. AdvertisingTyped' /\ adv'.allowed = a.allowed
  BY <1>1, <1>3, StopAdvertisingType DEF Typed
<1>6. /\ reportTimer' \in Timers /\ readable' \in [InputSlots -> Reports]
      /\ shown' \in [Hosts -> Reports]
  BY <1>3, NotifyType DEF Typed, QuiesceHost, Reports
<1>7. /\ currentReport' = Up /\ imageOwner' = conn.peer /\ pendingReport' = FALSE
      /\ closing' \subseteq linked
  BY <1>3 DEF QuiesceHost, Disconnect, Typed, StackTyped
<1>8. ReportTyped'
  BY <1>6, <1>7 DEF ReportTyped, Reports, Typed, Connections
<1>9. Typed'
  BY <1>2, <1>4, <1>5, <1>7, <1>8 DEF Typed, BuildTyped, StackTyped, buildVars, radioVars
<1>10. QED
  BY <1>1, <1>5, <1>9

LEMMA ResumeType == Typed /\ Resume => Typed' /\ adv'.allowed = adv.allowed
<1> SUFFICES ASSUME Typed, Resume PROVE Typed' /\ adv'.allowed = adv.allowed
  OBVIOUS
<1>1. AdvertisingTyped' /\ adv'.allowed = adv.allowed
  BY AdvertiseType DEF Resume, Typed, AdvertisingTyped
<1>2. QED
  BY <1>1 DEF Resume, Typed, BuildTyped, ReportTyped, StackTyped, buildVars, radioVars

LEMMA BeforeDisabledType == Typed /\ BeforeDisabled => Typed'
<1> SUFFICES ASSUME Typed, BeforeDisabled PROVE Typed'
  OBVIOUS
<1>1. BuildTyped'
  <2>1. 0 \in 0..Len(Attributes["HID"])
    BY AttributeCounts
  <2>2. QED
    BY <2>1 DEF BeforeDisabled, BuildTyped, Stages, Timers
<1>2. AdvertisingTyped'
  BY DEF BeforeDisabled, Typed, AdvertisingTyped, AdvertisingStates, ClosedAdvertising
<1>3. conn' \in Connections
  BY NoConnectionType DEF BeforeDisabled
<1>4. ReportTyped'
  BY DEF BeforeDisabled, Typed, ReportTyped, Reports
<1>5. restarts' \in 0..MaxRestarts
  <2>1. MaxRestarts \in Nat /\ restarts \in 0..MaxRestarts /\ restarts < MaxRestarts
    BY EnvironmentAssumption DEF BeforeDisabled, Typed
  <2>2. restarts + 1 \in 0..MaxRestarts
    BY <2>1
  <2>3. QED
    BY <2>2 DEF BeforeDisabled
<1>6. StackTyped' /\ events' \in Seq(Event)
  <2>1. events' = <<>> /\ <<>> \in Seq(Event)
    BY DEF BeforeDisabled
  <2>2. QED
    BY <2>1 DEF BeforeDisabled, StackTyped
<1>7. QED
  BY <1>1, <1>2, <1>3, <1>4, <1>5, <1>6 DEF BeforeDisabled, Typed

LEMMA BuildEventType ==
  ASSUME NEW r \in WholeDatabase, NEW ok \in BOOLEAN
  PROVE  [type |-> r.op, stage |-> r.stage, index |-> r.index, ok |-> ok] \in Event
BY DEF Event, BuildEvents

LEMMA RequestCompletesType == Typed /\ RequestCompletes => Typed'
<1> SUFFICES ASSUME Typed, RequestCompletes PROVE Typed'
  OBVIOUS
<1>1. /\ UNCHANGED <<codeVars, advTimer, reportTimer, readable, shown, bleActive, advertiser,
                     advCommands, linked, closing, restarts>>
      /\ request \in WholeDatabase /\ request' = NoRequest
  BY DEF RequestCompletes, Typed, BuildTyped
<1>2. PICK f \in Fault({"dropped", "build_refused"}) :
        /\ Count(f)
        /\ database' = IF f = "build_refused" THEN database ELSE database \union {request}
        /\ Answer([type |-> request.op, stage |-> request.stage, index |-> request.index,
                   ok |-> f # "build_refused"], f)
  BY DEF RequestCompletes
<1>3. faults' \in 0..MaxFaults /\ database' \subseteq WholeDatabase
  BY <1>1, <1>2, CountType DEF Typed, StackTyped
<1>4. events' \in Seq(Event)
  <2>1. (f # "build_refused") \in BOOLEAN
    OBVIOUS
  <2>2. QED
    BY <1>1, <1>2, <2>1, BuildEventType, Appended DEF Typed, Answer
<1>5. QED
  BY <1>1, <1>3, <1>4
  DEF Typed, BuildTyped, AdvertisingTyped, ReportTyped, StackTyped, codeVars

LEMMA AdvertiserActsType == Typed /\ AdvertiserActs => Typed'
<1> SUFFICES ASSUME Typed, AdvertiserActs PROVE Typed'
  OBVIOUS
<1>1. /\ UNCHANGED <<codeVars, advTimer, reportTimer, request, readable, shown, bleActive,
                     database, linked, closing, restarts>>
      /\ advCommands # <<>> /\ advCommands' = Tail(advCommands)
  BY DEF AdvertiserActs
<1>2. advCommands' \in Seq({"start", "stop"})
  BY <1>1 DEF Typed, AdvertisingTyped
<1>3. PICK f \in Fault({"dropped", "start_refused", "stop_refused"}), start \in BOOLEAN, refused \in BOOLEAN :
        /\ Count(f)
        /\ advertiser' = IF refused THEN advertiser ELSE start
        /\ Answer([type |-> IF start THEN "adv_start" ELSE "adv_stop", ok |-> ~refused], f)
  BY DEF AdvertiserActs
<1>4. faults' \in 0..MaxFaults /\ advertiser' \in BOOLEAN
  BY <1>3, CountType DEF Typed, StackTyped
<1>5. events' \in Seq(Event)
  <2>1. [type |-> IF start THEN "adv_start" ELSE "adv_stop", ok |-> ~refused] \in Event
    BY DEF Event, AdvertisingEvents
  <2>2. QED
    BY <1>3, <2>1, Appended DEF Typed, Answer
<1>6. QED
  BY <1>1, <1>2, <1>4, <1>5
  DEF Typed, BuildTyped, AdvertisingTyped, ReportTyped, StackTyped, codeVars

LEMMA LinkStepType ==
  ASSUME Typed, NEW h \in Hosts,
         HostConnects(h) \/ LinkCloses(h) \/ \E what \in HostActs : HostActsOn(h, what)
  PROVE  Typed'
<1>1. /\ UNCHANGED linkExcept
      /\ advertiser' \in BOOLEAN /\ linked' \subseteq Hosts /\ closing' \subseteq linked'
      /\ shown' \in [Hosts -> Reports]
  BY DEF HostConnects, LinkCloses, HostActsOn, Typed, StackTyped, ReportTyped, Reports
<1>2. PICK e \in Event : events' = Append(events, e)
  <2>1. /\ [type |-> "connect", host |-> h] \in Event
        /\ [type |-> "disconnect", host |-> h] \in Event
        /\ \A what \in HostActs : [type |-> "host", host |-> h, what |-> what] \in Event
    BY EnvironmentAssumption DEF Event, LinkEvents, HostEvents
  <2>2. QED
    BY <2>1 DEF HostConnects, LinkCloses, HostActsOn
<1>3. events' \in Seq(Event)
  BY <1>2, Appended DEF Typed
<1>4. QED
  BY <1>1, <1>3
  DEF Typed, BuildTyped, AdvertisingTyped, ReportTyped, StackTyped, linkExcept, codeVars

LEMMA NextType == Typed /\ [Next]_vars => Typed'
<1> SUFFICES ASSUME Typed, [Next]_vars PROVE Typed'
  OBVIOUS
<1>1. CASE Dispatch
  BY <1>1, DispatchType
<1>2. CASE Loop
  BY <1>2, LoopType
<1>3. CASE Begin \/ BleEnabled
  BY <1>3 DEF Begin, BleEnabled, Typed, BuildTyped, AdvertisingTyped, ReportTyped, StackTyped,
              buildVars, advVars, reportVars, radioVars
<1>4. CASE Quiesce
  BY <1>4, QuiesceType
<1>5. CASE Resume
  BY <1>5, ResumeType
<1>6. CASE BeforeDisabled
  BY <1>6, BeforeDisabledType
<1>7. CASE \E r \in Reports : SubmitReport(r)
  BY <1>7, SubmitReportType
<1>8. CASE \E allowed \in BOOLEAN : SetAdvertisingAllowed(allowed)
  BY <1>8, SetAdvertisingAllowedType
<1>9. CASE RequestCompletes
  BY <1>9, RequestCompletesType
<1>10. CASE AdvertiserActs
  BY <1>10, AdvertiserActsType
<1>11. CASE OtherAdvertises
  BY <1>11 DEF OtherAdvertises, Typed, BuildTyped, AdvertisingTyped, ReportTyped, StackTyped,
               linkExcept, codeVars
<1>12. CASE \/ \E h \in Hosts : HostConnects(h) \/ LinkCloses(h)
            \/ \E h \in Hosts, what \in HostActs : HostActsOn(h, what)
  BY <1>12, LinkStepType
<1>13. CASE TimePasses
  <2>1. {registerTimer', buildTimer', advTimer', reportTimer'} \subseteq Timers
    BY <1>13 DEF TimePasses, BuildTimerExpires, AdvTimerExpires, RetryTimerExpires, Timers,
                 Typed, BuildTyped, AdvertisingTyped, ReportTyped
  <2>2. QED
    BY <1>13, <2>1
    DEF TimePasses, Typed, BuildTyped, AdvertisingTyped, ReportTyped, StackTyped, radioVars
<1>14. CASE UNCHANGED vars
  BY <1>14 DEF vars, Typed, BuildTyped, AdvertisingTyped, ReportTyped, StackTyped,
               buildVars, advVars, reportVars, radioVars
<1>15. QED
  BY <1>1, <1>2, <1>3, <1>4, <1>5, <1>6, <1>7, <1>8, <1>9, <1>10, <1>11, <1>12, <1>13, <1>14
  DEF Next

LEMMA InitTyped == Init => Typed
<1> SUFFICES ASSUME Init PROVE Typed
  OBVIOUS
<1>1. BuildTyped
  <2>1. 0 \in 0..Len(Attributes["HID"])
    BY AttributeCounts
  <2>2. QED
    BY <2>1 DEF Init, BuildTyped, Stages, Timers
<1>2. AdvertisingTyped
  BY DEF Init, AdvertisingTyped, AdvertisingStates, ClosedAdvertising, Timers
<1>3. conn \in Connections
  BY NoConnectionType DEF Init
<1>4. ReportTyped
  BY DEF Init, ReportTyped, Reports, Timers
<1>5. faults \in 0..MaxFaults /\ restarts \in 0..MaxRestarts
  BY EnvironmentAssumption DEF Init
<1>6. StackTyped /\ events \in Seq(Event)
  <2>1. events = <<>> /\ <<>> \in Seq(Event)
    BY DEF Init
  <2>2. QED
    BY <2>1 DEF Init, StackTyped
<1>7. QED
  BY <1>1, <1>2, <1>3, <1>4, <1>5, <1>6 DEF Init, Typed

LEMMA Types == Spec => []Typed
<1>1. QED
  BY InitTyped, NextType, PTL DEF Spec

\* Every member of HidKeyboard keeps to its type, whatever is queued, lost or
\* refused, and every request is for a part of the one database there is.
THEOREM TypesOfKeyboard == Spec => []TypeOK
<1>1. QED
  BY TypedIsTypeOK, Types, PTL

-----------------------------------------------------------------------------
(* The order of construction.                                              *)

StageRank(s) == IF s = "DIS" THEN 0 ELSE IF s = "BAS" THEN 20 ELSE 40
OpRank(r) ==
  IF r.op = "register" THEN 0
  ELSE IF r.op = "create" THEN 1
  ELSE IF r.op = "include" THEN 2
  ELSE IF r.op = "attribute" THEN 2 + r.index
  ELSE 16

\* The steps of construction come in ascending rank.
Rank(r) == StageRank(r.stage) + OpRank(r)

\* The step that the code asks for when p succeeded, but for the last one.
Follows(p, r) ==
  \/ p = Register /\ r = Step("create", "DIS", 0)
  \/ \E s \in {"DIS", "BAS"} : p = Step("create", s, 0) /\ r = Step("attribute", s, 1)
  \/ p = Step("create", "HID", 0) /\ r = Step("include", "HID", 0)
  \/ p = Step("include", "HID", 0) /\ r = Step("attribute", "HID", 1)
  \/ \E s \in {"DIS", "BAS", "HID"} : \E i \in 1..Len(Attributes[s]) :
       /\ p = Step("attribute", s, i)
       /\ r = IF i < Len(Attributes[s]) THEN Step("attribute", s, i + 1)
              ELSE Step("start", s, 0)
  \/ p = Step("start", "DIS", 0) /\ r = Step("create", "BAS", 0)
  \/ p = Step("start", "BAS", 0) /\ r = Step("create", "HID", 0)

LEMMA RankOf ==
  /\ Rank(Register) = 0
  /\ Rank(Step("include", "HID", 0)) = 42
  /\ \A s \in {"DIS", "BAS", "HID"} :
       /\ Rank(Step("create", s, 0)) = StageRank(s) + 1
       /\ Rank(Step("start", s, 0)) = StageRank(s) + 16
       /\ \A i \in 1..Len(Attributes[s]) : Rank(Step("attribute", s, i)) = StageRank(s) + 2 + i
BY AttributeCounts DEF Rank, StageRank, OpRank, Step, Register

\* The rank tells the step.
LEMMA StepOfRank ==
  ASSUME NEW q \in WholeDatabase
  PROVE  \/ q = Register /\ Rank(q) = 0
         \/ q = Step("create", "DIS", 0) /\ Rank(q) = 1
         \/ \E i \in 1..2 : q = Step("attribute", "DIS", i) /\ Rank(q) = 2 + i
         \/ q = Step("start", "DIS", 0) /\ Rank(q) = 16
         \/ q = Step("create", "BAS", 0) /\ Rank(q) = 21
         \/ \E i \in 1..2 : q = Step("attribute", "BAS", i) /\ Rank(q) = 22 + i
         \/ q = Step("start", "BAS", 0) /\ Rank(q) = 36
         \/ q = Step("create", "HID", 0) /\ Rank(q) = 41
         \/ q = Step("include", "HID", 0) /\ Rank(q) = 42
         \/ \E i \in 1..13 : q = Step("attribute", "HID", i) /\ Rank(q) = 42 + i
         \/ q = Step("start", "HID", 0) /\ Rank(q) = 56
<1>1. CASE q = Register \/ q = Step("include", "HID", 0)
  BY <1>1, RankOf
<1>2. ASSUME NEW s \in {"DIS", "BAS", "HID"}, q = Step("create", s, 0) \/ q = Step("start", s, 0)
      PROVE  \/ q = Step("create", "DIS", 0) /\ Rank(q) = 1
             \/ q = Step("start", "DIS", 0) /\ Rank(q) = 16
             \/ q = Step("create", "BAS", 0) /\ Rank(q) = 21
             \/ q = Step("start", "BAS", 0) /\ Rank(q) = 36
             \/ q = Step("create", "HID", 0) /\ Rank(q) = 41
             \/ q = Step("start", "HID", 0) /\ Rank(q) = 56
  BY <1>2, RankOf DEF StageRank
<1>3. ASSUME NEW s \in {"DIS", "BAS", "HID"}, NEW i \in 1..Len(Attributes[s]),
             q = Step("attribute", s, i)
      PROVE  \/ i \in 1..2 /\ q = Step("attribute", "DIS", i) /\ Rank(q) = 2 + i
             \/ i \in 1..2 /\ q = Step("attribute", "BAS", i) /\ Rank(q) = 22 + i
             \/ i \in 1..13 /\ q = Step("attribute", "HID", i) /\ Rank(q) = 42 + i
  <2>1. Rank(q) = StageRank(s) + 2 + i
    BY <1>3, RankOf
  <2>2. CASE s = "DIS"
    BY <1>3, <2>1, <2>2, AttributeCounts DEF StageRank
  <2>3. CASE s = "BAS"
    BY <1>3, <2>1, <2>3, AttributeCounts DEF StageRank
  <2>4. CASE s = "HID"
    BY <1>3, <2>1, <2>4, AttributeCounts DEF StageRank
  <2>5. QED
    BY <2>2, <2>3, <2>4
<1>4. QED
  BY <1>1, <1>2, <1>3, StepKinds

Ranks == {0, 1, 3, 4, 16, 21, 23, 24, 36} \union 41..56

LEMMA RankInRanks == \A q \in WholeDatabase : Rank(q) \in Ranks
BY StepOfRank DEF Ranks

LEMMA RankIsInjective ==
  ASSUME NEW p \in WholeDatabase, NEW q \in WholeDatabase, Rank(p) = Rank(q)
  PROVE  p = q
<1> DEFINE k == Rank(p)
<1>1. /\ k \in {0, 1, 16, 21, 36, 41, 42, 56} \/ k \in {3, 4, 23, 24} \/ k \in 43..55
  BY RankInRanks DEF Ranks
<1>2. \A r \in WholeDatabase :
        /\ Rank(r) = 0 => r = Register
        /\ Rank(r) = 1 => r = Step("create", "DIS", 0)
        /\ Rank(r) = 16 => r = Step("start", "DIS", 0)
        /\ Rank(r) = 21 => r = Step("create", "BAS", 0)
        /\ Rank(r) = 36 => r = Step("start", "BAS", 0)
        /\ Rank(r) = 41 => r = Step("create", "HID", 0)
        /\ Rank(r) = 42 => r = Step("include", "HID", 0)
        /\ Rank(r) = 56 => r = Step("start", "HID", 0)
        /\ Rank(r) \in {3, 4} => r = Step("attribute", "DIS", Rank(r) - 2)
        /\ Rank(r) \in {23, 24} => r = Step("attribute", "BAS", Rank(r) - 22)
        /\ Rank(r) \in 43..55 => r = Step("attribute", "HID", Rank(r) - 42)
  <2> SUFFICES ASSUME NEW r \in WholeDatabase
               PROVE /\ Rank(r) = 0 => r = Register
                     /\ Rank(r) = 1 => r = Step("create", "DIS", 0)
                     /\ Rank(r) = 16 => r = Step("start", "DIS", 0)
                     /\ Rank(r) = 21 => r = Step("create", "BAS", 0)
                     /\ Rank(r) = 36 => r = Step("start", "BAS", 0)
                     /\ Rank(r) = 41 => r = Step("create", "HID", 0)
                     /\ Rank(r) = 42 => r = Step("include", "HID", 0)
                     /\ Rank(r) = 56 => r = Step("start", "HID", 0)
                     /\ Rank(r) \in {3, 4} => r = Step("attribute", "DIS", Rank(r) - 2)
                     /\ Rank(r) \in {23, 24} => r = Step("attribute", "BAS", Rank(r) - 22)
                     /\ Rank(r) \in 43..55 => r = Step("attribute", "HID", Rank(r) - 42)
    OBVIOUS
  <2>1. QED
    BY StepOfRank
<1>3. CASE k \in {0, 1, 16, 21, 36, 41, 42, 56}
  BY <1>2, <1>3
<1>4. CASE k \in {3, 4}
  <2>1. p = Step("attribute", "DIS", k - 2) /\ q = Step("attribute", "DIS", k - 2)
    BY <1>2, <1>4
  <2>2. QED
    BY <2>1
<1>5. CASE k \in {23, 24}
  <2>1. p = Step("attribute", "BAS", k - 22) /\ q = Step("attribute", "BAS", k - 22)
    BY <1>2, <1>5
  <2>2. QED
    BY <2>1
<1>6. CASE k \in 43..55
  <2>1. p = Step("attribute", "HID", k - 42) /\ q = Step("attribute", "HID", k - 42)
    BY <1>2, <1>6
  <2>2. QED
    BY <2>1
<1>7. QED
  BY <1>1, <1>3, <1>4, <1>5, <1>6

\* A step and the one that follows it are neighbours.
LEMMA FollowingRanks ==
  ASSUME NEW p, NEW r, Follows(p, r), NEW k \in Ranks, k < Rank(r)
  PROVE  k <= Rank(p)
<1>1. /\ 1 \in 1..Len(Attributes["DIS"]) /\ 1 \in 1..Len(Attributes["BAS"])
      /\ 1 \in 1..Len(Attributes["HID"])
  BY AttributeCounts
<1>2. ASSUME NEW s \in {"DIS", "BAS", "HID"}, NEW i \in 1..Len(Attributes[s]),
             p = Step("attribute", s, i),
             r = IF i < Len(Attributes[s]) THEN Step("attribute", s, i + 1) ELSE Step("start", s, 0)
      PROVE  k <= Rank(p)
  <2>1. Rank(p) = StageRank(s) + 2 + i
    BY <1>2, RankOf
  <2>2. CASE i < Len(Attributes[s])
    <3>1. i + 1 \in 1..Len(Attributes[s])
      BY <2>2, AttributeCounts
    <3>2. Rank(r) = StageRank(s) + 2 + (i + 1)
      BY <1>2, <2>2, <3>1, RankOf
    <3>3. StageRank(s) \in {0, 20, 40} /\ i \in Nat /\ k \in Nat
      BY AttributeCounts DEF StageRank, Ranks
    <3>4. QED
      BY <2>1, <3>2, <3>3
  <2>3. CASE ~(i < Len(Attributes[s]))
    <3>1. Rank(r) = StageRank(s) + 16 /\ i = Len(Attributes[s])
      BY <1>2, <2>3, RankOf, AttributeCounts
    <3>2. CASE s = "DIS"
      BY <2>1, <3>1, <3>2, AttributeCounts DEF StageRank, Ranks
    <3>3. CASE s = "BAS"
      BY <2>1, <3>1, <3>3, AttributeCounts DEF StageRank, Ranks
    <3>4. CASE s = "HID"
      BY <2>1, <3>1, <3>4, AttributeCounts DEF StageRank, Ranks
    <3>5. QED
      BY <3>2, <3>3, <3>4
  <2>4. QED
    BY <2>2, <2>3
<1>3. CASE p = Register /\ r = Step("create", "DIS", 0)
  BY <1>3, RankOf DEF StageRank, Ranks
<1>4. CASE p = Step("create", "HID", 0) /\ r = Step("include", "HID", 0)
  BY <1>4, RankOf DEF StageRank, Ranks
<1>5. CASE p = Step("include", "HID", 0) /\ r = Step("attribute", "HID", 1)
  BY <1>1, <1>5, RankOf DEF StageRank, Ranks
<1>6. CASE p = Step("start", "DIS", 0) /\ r = Step("create", "BAS", 0)
  BY <1>6, RankOf DEF StageRank, Ranks
<1>7. CASE p = Step("start", "BAS", 0) /\ r = Step("create", "HID", 0)
  BY <1>7, RankOf DEF StageRank, Ranks
<1>8. ASSUME NEW s \in {"DIS", "BAS"}, p = Step("create", s, 0), r = Step("attribute", s, 1)
      PROVE  k <= Rank(p)
  <2>1. Rank(p) = StageRank(s) + 1 /\ Rank(r) = StageRank(s) + 3
    BY <1>1, <1>8, RankOf DEF StageRank
  <2>2. QED
    BY <2>1 DEF StageRank, Ranks
<1>9. QED
  BY <1>2, <1>3, <1>4, <1>5, <1>6, <1>7, <1>8 DEF Follows

\* Nothing lies between a step and the one that follows it.
LEMMA NothingBetween ==
  ASSUME NEW p \in WholeDatabase, NEW r, Follows(p, r),
         NEW q \in WholeDatabase, Rank(q) < Rank(r)
  PROVE  Rank(q) < Rank(p) \/ q = p
<1>1. Rank(q) \in Ranks /\ Rank(p) \in Ranks
  BY RankInRanks
<1>2. Rank(q) < Rank(p) \/ Rank(q) = Rank(p)
  <2>1. Rank(q) <= Rank(p)
    BY <1>1, FollowingRanks
  <2>2. QED
    BY <1>1, <2>1 DEF Ranks
<1>3. QED
  BY <1>2, RankIsInjective

LEMMA RegisterIsFirst == \A q \in WholeDatabase : ~(Rank(q) < Rank(Register))
<1> SUFFICES ASSUME NEW q \in WholeDatabase PROVE ~(Rank(q) < Rank(Register))
  OBVIOUS
<1>1. QED
  BY StepKinds, RankOf, AttributeCounts DEF StageRank

LEMMA StartIsLast ==
  \A q \in WholeDatabase : Rank(q) < Rank(Step("start", "HID", 0)) \/ q = Step("start", "HID", 0)
<1> SUFFICES ASSUME NEW q \in WholeDatabase
             PROVE  Rank(q) < Rank(Step("start", "HID", 0)) \/ q = Step("start", "HID", 0)
  OBVIOUS
<1>1. Rank(Step("start", "HID", 0)) = 56
  BY RankOf DEF StageRank
<1>2. QED
  BY <1>1, StepOfRank

\* Every handle that is kept is that of some attribute.
LEMMA SlotsAreAttributes ==
  ASSUME NEW slot \in HandleSlots
  PROVE  \E q \in WholeDatabase : q.op = "attribute" /\ Attributes[q.stage][q.index] = slot
<1>1. \E s \in {"DIS", "BAS", "HID"} : \E i \in 1..Len(Attributes[s]) : Attributes[s][i] = slot
  <2>1. CASE slot \in {"battery_value", "battery_cccd"}
    <3>1. 1 \in 1..Len(Attributes["BAS"]) /\ 2 \in 1..Len(Attributes["BAS"])
      BY AttributeCounts
    <3>2. Attributes["BAS"][1] = "battery_value" /\ Attributes["BAS"][2] = "battery_cccd"
      BY DEF Attributes
    <3>3. QED
      BY <2>1, <3>1, <3>2
  <2>2. CASE slot \in HandleSlots \ {"battery_value", "battery_cccd"}
    <3>1. \A i \in 1..13 : i \in 1..Len(Attributes["HID"])
      BY AttributeCounts
    <3>2. /\ Attributes["HID"][4] = "control_point" /\ Attributes["HID"][5] = "protocol_mode"
          /\ Attributes["HID"][6] = "boot_input" /\ Attributes["HID"][7] = "boot_input_cccd"
          /\ Attributes["HID"][8] = "boot_output" /\ Attributes["HID"][9] = "report_input"
          /\ Attributes["HID"][10] = "report_input_cccd" /\ Attributes["HID"][12] = "report_output"
      BY DEF Attributes
    <3>3. QED
      BY <2>2, <3>1, <3>2 DEF HandleSlots
  <2>3. QED
    BY <2>1, <2>2
<1>2. PICK s \in {"DIS", "BAS", "HID"} : \E i \in 1..Len(Attributes[s]) : Attributes[s][i] = slot
  BY <1>1
<1>3. PICK i \in 1..Len(Attributes[s]) : Attributes[s][i] = slot
  BY <1>2
<1>4. Step("attribute", s, i) \in WholeDatabase
  BY StepsKnown
<1>5. QED
  BY <1>3, <1>4 DEF Step

-----------------------------------------------------------------------------
(* The database is built in order, and once.                               *)

IsBuild(e) == e.type \in BuildTypes
Operation(e) == Step(e.type, e.stage, e.index)

\* Step r is done: the stack has completed it, and the code knows its handle.
Done(r) ==
  /\ r \in database
  /\ r.op = "attribute" /\ Attributes[r.stage][r.index] \in HandleSlots =>
       Attributes[r.stage][r.index] \in handles

DoneBefore(p) == \A q \in WholeDatabase : Rank(q) < Rank(p) => Done(q)

\* The code is where p is the step to take.
InPlace(p) ==
  /\ p.stage = stage
  /\ p.op # "register" => registered
  /\ p.op \in {"register", "create", "include"} => attributeIndex = 0
  /\ p.op = "attribute" => p.index = attributeIndex + 1

\* One operation at a time is under way or answered in the queue.
OnePending ==
  /\ request # NoRequest => \A i \in Positions : ~IsBuild(events[i])
  /\ \A i, j \in Positions : IsBuild(events[i]) /\ IsBuild(events[j]) => i = j

\* None is before the registration was asked for.
Unasked ==
  ~appRequested =>
    /\ request = NoRequest
    /\ \A i \in Positions : ~IsBuild(events[i])
    /\ stage = "DIS" /\ attributeIndex = 0 /\ ~servicesReady /\ ~registered

\* Whatever comes before the pending operation is done.
InOrder ==
  ~failed =>
    /\ request # NoRequest => InPlace(request) /\ DoneBefore(request)
    /\ \A i \in Positions : IsBuild(events[i]) =>
         /\ InPlace(Operation(events[i]))
         /\ DoneBefore(Operation(events[i]))
         /\ events[i].ok => Operation(events[i]) \in database

\* A host is accepted by a finished database only.
Finished ==
  /\ servicesReady => registered /\ database = WholeDatabase /\ handles = HandleSlots
  /\ Connected(conn) => servicesReady

DatabaseInv == OnePending /\ Unasked /\ InOrder /\ Finished

\* A step that leaves construction alone: completions it does not queue.
LEMMA DatabaseKept ==
  ASSUME DatabaseInv, NEW d \in {0, 1},
         UNCHANGED <<appRequested, registered, stage, attributeIndex, handles,
                     servicesReady, request, database>>,
         failed => failed',
         \A i \in Positions' : IsBuild(events'[i]) => i + d \in Positions /\ events'[i] = events[i + d],
         Connected(conn') => servicesReady
  PROVE  DatabaseInv'
<1>1. \A i \in Positions' : i \in Nat
  BY DEF Positions
<1>2. OnePending'
  <2>1. request' # NoRequest => \A i \in Positions' : ~IsBuild(events'[i])
    BY DEF DatabaseInv, OnePending, IsBuild
  <2>2. ASSUME NEW i \in Positions', NEW j \in Positions', IsBuild(events'[i]), IsBuild(events'[j])
        PROVE  i = j
    <3>1. /\ i + d \in Positions /\ IsBuild(events[i + d])
          /\ j + d \in Positions /\ IsBuild(events[j + d])
      BY <2>2
    <3>2. i + d = j + d
      BY <3>1 DEF DatabaseInv, OnePending
    <3>3. QED
      BY <1>1, <3>2
  <2>3. QED
    BY <2>1, <2>2 DEF OnePending, IsBuild
<1>3. Unasked'
  BY DEF DatabaseInv, Unasked, IsBuild
<1>4. \A p : (InPlace(p) => InPlace(p)') /\ (DoneBefore(p) => DoneBefore(p)')
  BY DEF InPlace, DoneBefore, Done
<1>5. InOrder'
  <2> SUFFICES ASSUME ~failed'
               PROVE  /\ request' # NoRequest => InPlace(request)' /\ DoneBefore(request)'
                      /\ \A i \in Positions' : IsBuild(events'[i]) =>
                           /\ InPlace(Operation(events[i]))' /\ DoneBefore(Operation(events[i]))'
                           /\ events'[i].ok => Operation(events'[i]) \in database'
    BY DEF InOrder, IsBuild, Operation
  <2>1. ~failed
    OBVIOUS
  <2>2. request' # NoRequest => InPlace(request)' /\ DoneBefore(request)'
    BY <2>1 DEF DatabaseInv, InOrder, InPlace, DoneBefore, Done
  <2>3. ASSUME NEW i \in Positions', IsBuild(events'[i])
        PROVE  /\ InPlace(Operation(events[i]))' /\ DoneBefore(Operation(events[i]))'
               /\ events'[i].ok => Operation(events'[i]) \in database'
    <3> DEFINE e == events[i + d]
    <3>1. i + d \in Positions /\ events'[i] = e /\ IsBuild(e)
      BY <2>3
    <3>2. InPlace(Operation(e)) /\ DoneBefore(Operation(e)) /\ (e.ok => Operation(e) \in database)
      BY <2>1, <3>1 DEF DatabaseInv, InOrder
    <3>3. QED
      BY <3>1, <3>2 DEF InPlace, DoneBefore, Done, Operation
  <2>4. QED
    BY <2>2, <2>3
<1>6. Finished'
  BY DEF DatabaseInv, Finished, Connected
<1>7. QED
  BY <1>2, <1>3, <1>5, <1>6 DEF DatabaseInv

\* The code found the operation of e done, and asks for the next one, is
\* finished, or gives up.
Proceeds(p, r) ==
  /\ request' = r
  /\ Follows(p, r)
  /\ InPlace(r)'
  /\ UNCHANGED servicesReady

Finishes(p) ==
  /\ p = Step("start", "HID", 0)
  /\ UNCHANGED <<request, handles, registered>>
  /\ servicesReady'

GivesUp ==
  /\ failed'
  /\ UNCHANGED <<request, servicesReady>>

LEMMA AskEffect ==
  ASSUME NEW r, NEW f, Ask(r, f)
  PROVE  request' = r \/ (failed' /\ UNCHANGED request)
BY DEF Ask

LEMMA AddNextAttributeEffect ==
  ASSUME NEW s \in {"DIS", "BAS", "HID"}, NEW i, NEW f, AddNextAttribute(s, i, f)
  PROVE  \/ request' = IF i < Len(Attributes[s]) THEN Step("attribute", s, i + 1)
                       ELSE Step("start", s, 0)
         \/ failed' /\ UNCHANGED request
BY AskEffect DEF AddNextAttribute

\* Where the code is for the next attribute, or the start, of a service.
LEMMA InPlaceNext ==
  ASSUME NEW s \in {"DIS", "BAS", "HID"}, NEW i \in Nat, registered', stage' = s, attributeIndex' = i
  PROVE  /\ InPlace(IF i < Len(Attributes[s]) THEN Step("attribute", s, i + 1)
                    ELSE Step("start", s, 0))'
         /\ i = 0 => InPlace(Step("create", s, 0))' /\ InPlace(Step("include", s, 0))'
BY DEF InPlace, Step

LEMMA BuildStep ==
  ASSUME Typed, NEW e \in Event, IsBuild(e), ~failed, InPlace(Operation(e)),
         NEW f, HandleBuild(e, f)
  PROVE  /\ handles \subseteq handles'
         /\ registered => registered'
         /\ UNCHANGED appRequested
         /\ servicesReady => servicesReady'
         /\ \/ GivesUp
            \/ /\ e.ok
               /\ \E r : Proceeds(Operation(e), r)
               /\ e.type = "attribute" /\ Attributes[e.stage][e.index] \in HandleSlots =>
                    Attributes[e.stage][e.index] \in handles'
            \/ e.ok /\ Finishes(Operation(e))
<1>1. /\ Operation(e) \in WholeDatabase /\ e.stage \in {"DIS", "BAS", "HID"}
      /\ e.type = "attribute" => e.index \in 1..Len(Attributes[e.stage])
      /\ e.type = "include" => e.stage = "HID"
      /\ e.type = "register" => Operation(e) = Register
      /\ e.type # "attribute" => e.index = 0
  BY BuildEventFields, StepFields DEF IsBuild, Operation, Step
<1>2. /\ e.stage = stage
      /\ e.type # "register" => registered
      /\ e.type \in {"create", "include"} => attributeIndex = 0
      /\ e.type = "attribute" => e.index = attributeIndex + 1
  BY DEF InPlace, Operation, Step
<1>3. attributeIndex \in Nat /\ \A s \in {"DIS", "BAS", "HID"} : Len(Attributes[s]) \in Nat
  BY AttributeCounts DEF Typed, BuildTyped
<1>4. CASE BuildFails
  BY <1>4 DEF BuildFails, GivesUp
<1>5. CASE e.type = "register" /\ OnReg(e, f) /\ e.ok
  <2>1. /\ registered' /\ stage' = "DIS" /\ attributeIndex' = 0
        /\ UNCHANGED <<appRequested, handles, servicesReady>>
        /\ Ask(Step("create", "DIS", 0), f)
    BY <1>5 DEF OnReg
  <2>2. InPlace(Step("create", "DIS", 0))'
    BY <2>1, InPlaceNext
  <2>3. Follows(Operation(e), Step("create", "DIS", 0))
    BY <1>1, <1>5 DEF Follows
  <2>4. QED
    BY <1>5, <2>1, <2>2, <2>3, AskEffect DEF GivesUp, Proceeds
<1>6. CASE e.type = "create" /\ OnCreate(e, f) /\ e.ok
  <2>1. /\ attributeIndex' = 0
        /\ UNCHANGED <<appRequested, registered, stage, handles, servicesReady>>
    BY <1>2, <1>6 DEF OnCreate
  <2>2. CASE stage = "HID"
    <3>1. Ask(Step("include", "HID", 0), f)
      BY <1>2, <1>6, <2>2 DEF OnCreate
    <3>2. InPlace(Step("include", "HID", 0))'
      BY <1>2, <1>6, <2>1, <2>2, InPlaceNext
    <3>3. Follows(Operation(e), Step("include", "HID", 0))
      BY <1>1, <1>2, <1>6, <2>2 DEF Follows, Operation
    <3>4. QED
      BY <1>6, <2>1, <3>1, <3>2, <3>3, AskEffect DEF GivesUp, Proceeds
  <2>3. CASE stage # "HID"
    <3>1. AddNextAttribute(stage, 0, f) /\ stage \in {"DIS", "BAS"}
      BY <1>1, <1>2, <1>6, <2>3 DEF OnCreate
    <3>2. 0 < Len(Attributes[stage])
      <4>1. CASE stage = "DIS"
        BY <4>1, AttributeCounts
      <4>2. CASE stage = "BAS"
        BY <4>2, AttributeCounts
      <4>3. QED
        BY <3>1, <4>1, <4>2
    <3> DEFINE r == Step("attribute", stage, 1)
    <3>3. request' = r \/ (failed' /\ UNCHANGED request)
      BY <3>1, <3>2, AddNextAttributeEffect
    <3>4. InPlace(Step("attribute", stage, 1))'
      BY <1>2, <1>6, <2>1 DEF InPlace, Step
    <3>5. Follows(Operation(e), r)
      BY <1>1, <1>2, <1>6, <3>1 DEF Follows, Operation
    <3>6. UNCHANGED stage
      BY <2>1
    <3>7. r' = r
      BY <3>6
    <3>8. QED
      BY <1>6, <2>1, <3>3, <3>4, <3>5 DEF GivesUp, Proceeds, InPlace
  <2>4. QED
    BY <2>2, <2>3
<1>7. CASE e.type = "include" /\ OnInclude(e, f) /\ e.ok
  <2>1. /\ UNCHANGED <<appRequested, registered, stage, attributeIndex, handles, servicesReady>>
        /\ stage = "HID" /\ AddNextAttribute("HID", 0, f)
    BY <1>1, <1>2, <1>7 DEF OnInclude
  <2>2. 0 < Len(Attributes["HID"])
    BY AttributeCounts
  <2>3. request' = Step("attribute", "HID", 1) \/ (failed' /\ UNCHANGED request)
    BY <2>1, <2>2, AddNextAttributeEffect
  <2>4. InPlace(Step("attribute", "HID", 1))'
    BY <1>2, <1>7, <2>1 DEF InPlace, Step
  <2>5. Follows(Operation(e), Step("attribute", "HID", 1))
    BY <1>1, <1>7 DEF Follows, Operation
  <2>6. QED
    BY <1>7, <2>1, <2>3, <2>4, <2>5 DEF GivesUp, Proceeds
<1>8. CASE e.type = "attribute" /\ OnAttribute(e, f) /\ e.ok
  <2> DEFINE i == e.index
             s == e.stage
             r == IF i < Len(Attributes[s]) THEN Step("attribute", s, i + 1) ELSE Step("start", s, 0)
  <2>1. /\ handles' = handles \union (HandleSlots \intersect {Attributes[s][i]})
        /\ attributeIndex' = i /\ stage' = s
        /\ UNCHANGED <<appRequested, registered, servicesReady>>
        /\ AddNextAttribute(s, i, f)
    BY <1>2, <1>8 DEF OnAttribute
  <2>2. s \in {"DIS", "BAS", "HID"} /\ i \in 1..Len(Attributes[s]) /\ i \in Nat
    BY <1>1, <1>3, <1>8
  <2>3. request' = r \/ (failed' /\ UNCHANGED request)
    BY <2>1, <2>2, AddNextAttributeEffect
  <2>4. Follows(Operation(e), r)
    BY <1>8, <2>2 DEF Follows, Operation
  <2>5. registered'
    BY <1>2, <1>8, <2>1
  <2>6. InPlace(r)'
    BY <2>1, <2>2, <2>5, InPlaceNext
  <2> HIDE DEF r
  <2>7. \/ GivesUp
        \/ Proceeds(Operation(e), r)
    BY <2>1, <2>3, <2>4, <2>6 DEF GivesUp, Proceeds
  <2>8. QED
    BY <1>8, <2>1, <2>7
<1>9. CASE e.type = "start" /\ OnStart(e, f) /\ e.ok
  <2>1. CASE stage \in {"DIS", "BAS"}
    <3> DEFINE next == IF stage = "DIS" THEN "BAS" ELSE "HID"
               r == Step("create", next, 0)
    <3>1. /\ stage' = next /\ attributeIndex' = 0 /\ Ask(r, f)
          /\ UNCHANGED <<appRequested, registered, handles, servicesReady>>
      BY <1>2, <1>9, <2>1 DEF OnStart
    <3>2. Follows(Operation(e), r)
      BY <1>1, <1>2, <1>9, <2>1 DEF Follows, Operation
    <3>3. InPlace(Step("create", "BAS", 0))' \/ stage' # "BAS"
      BY <1>2, <1>9, <3>1, InPlaceNext
    <3>4. InPlace(Step("create", "HID", 0))' \/ stage' # "HID"
      BY <1>2, <1>9, <3>1, InPlaceNext
    <3>5. CASE stage = "DIS"
      BY <1>9, <3>1, <3>2, <3>3, <3>5, AskEffect DEF GivesUp, Proceeds
    <3>6. CASE stage = "BAS"
      BY <1>9, <3>1, <3>2, <3>4, <3>6, AskEffect DEF GivesUp, Proceeds
    <3>7. QED
      BY <2>1, <3>5, <3>6
  <2>2. CASE stage = "HID"
    <3>1. /\ servicesReady'
          /\ UNCHANGED <<appRequested, registered, handles, request>>
      BY <1>2, <1>9, <2>2 DEF OnStart
    <3>2. Operation(e) = Step("start", "HID", 0)
      BY <1>1, <1>2, <1>9, <2>2 DEF Operation
    <3>3. QED
      BY <1>9, <3>1, <3>2 DEF Finishes
  <2>3. QED
    BY <1>1, <1>2, <2>1, <2>2
<1>10. QED
  <2>1. e.ok \in BOOLEAN
    BY BuildEventFields DEF IsBuild
  <2>2. CASE e.ok
    BY <1>5, <1>6, <1>7, <1>8, <1>9, <2>2 DEF HandleBuild
  <2>3. CASE ~e.ok
    <3>1. BuildFails
      BY <1>2, <2>3 DEF HandleBuild, OnReg, OnCreate, OnInclude, OnAttribute, OnStart
    <3>2. QED
      BY <1>4, <3>1
  <2>4. QED
    BY <2>1, <2>2, <2>3

LEMMA HandleBuildInv ==
  ASSUME Typed, Typed', DatabaseInv, events # <<>>, events' = Tail(events),
         IsBuild(events[1]), UNCHANGED <<database, conn>>,
         NEW f, HandleBuild(events[1], f)
  PROVE  DatabaseInv'
<1> DEFINE e == events[1]
           p == Operation(e)
<1>1. /\ 1 \in Positions /\ e \in Event
      /\ \A i \in Positions' : i \in Nat /\ i > 0 /\ i + 1 \in Positions /\ events'[i] = events[i + 1]
  <2>1. \A i \in Positions' : i \in Nat /\ i > 0
    BY DEF Positions
  <2>2. QED
    BY <2>1, Dequeued DEF Typed
<1>2. \A i \in Positions' : ~IsBuild(events'[i])
  <2> SUFFICES ASSUME NEW i \in Positions', IsBuild(events'[i]) PROVE FALSE
    OBVIOUS
  <2>1. i + 1 = 1
    BY <1>1 DEF DatabaseInv, OnePending
  <2>2. QED
    BY <1>1, <2>1
<1>3. request = NoRequest /\ appRequested
  BY <1>1 DEF DatabaseInv, OnePending, Unasked
<1>4. CASE failed
  <2>1. UNCHANGED buildVars
    BY <1>4 DEF HandleBuild
  <2>2. \A i \in Positions' : IsBuild(events'[i]) => i + 1 \in Positions /\ events'[i] = events[i + 1]
    BY <1>1
  <2>3. Connected(conn') => servicesReady
    BY DEF DatabaseInv, Finished
  <2>4. UNCHANGED <<appRequested, registered, stage, attributeIndex, handles, servicesReady,
                    request, database>> /\ (failed => failed')
    BY <2>1 DEF buildVars
  <2>5. QED
    BY <2>2, <2>3, <2>4, DatabaseKept
<1>5. CASE ~failed
  <2>1. InPlace(p) /\ DoneBefore(p) /\ (e.ok => p \in database)
    BY <1>1, <1>5 DEF DatabaseInv, InOrder
  <2>2. p \in WholeDatabase /\ p.op = e.type /\ p.stage = e.stage /\ p.index = e.index
    BY <1>1, BuildEventFields DEF IsBuild, Operation, Step
  <2> HIDE DEF e, p
  <2>3. /\ handles \subseteq handles'
        /\ registered => registered'
        /\ UNCHANGED appRequested
        /\ servicesReady => servicesReady'
        /\ \/ GivesUp
           \/ /\ e.ok
              /\ \E r : Proceeds(p, r)
              /\ e.type = "attribute" /\ Attributes[e.stage][e.index] \in HandleSlots =>
                   Attributes[e.stage][e.index] \in handles'
           \/ e.ok /\ Finishes(p)
    BY <1>1, <1>5, <2>1, BuildStep DEF e, p
  <2>4. handles' \subseteq HandleSlots /\ handles \subseteq HandleSlots /\ UNCHANGED <<database, conn>>
    BY DEF Typed, BuildTyped
  <2>5. servicesReady => registered' /\ database' = WholeDatabase /\ handles' = HandleSlots
    BY <2>3, <2>4 DEF DatabaseInv, Finished
  <2>6. Connected(conn') => servicesReady'
    BY <2>3 DEF DatabaseInv, Finished
  <2>7. OnePending'
    BY <1>2 DEF OnePending, IsBuild
  <2>8. Unasked'
    BY <1>3, <2>3 DEF Unasked
  <2>9. CASE GivesUp
    <3>1. InOrder'
      BY <2>9 DEF GivesUp, InOrder
    <3>2. Finished'
      BY <2>5, <2>6, <2>9 DEF GivesUp, Finished
    <3>3. QED
      BY <2>7, <2>8, <3>1, <3>2 DEF DatabaseInv
  <2>10. CASE /\ e.ok
              /\ \E r : Proceeds(p, r)
              /\ e.type = "attribute" /\ Attributes[e.stage][e.index] \in HandleSlots =>
                   Attributes[e.stage][e.index] \in handles'
    <3>1. PICK r : Proceeds(p, r)
      BY <2>10
    <3>2. \A q \in WholeDatabase : Rank(q) < Rank(r) =>
            /\ q \in database'
            /\ q.op = "attribute" /\ Attributes[q.stage][q.index] \in HandleSlots =>
                 Attributes[q.stage][q.index] \in handles'
      <4> SUFFICES ASSUME NEW q \in WholeDatabase, Rank(q) < Rank(r)
                   PROVE  /\ q \in database'
                          /\ q.op = "attribute" /\ Attributes[q.stage][q.index] \in HandleSlots =>
                               Attributes[q.stage][q.index] \in handles'
        OBVIOUS
      <4>1. Rank(q) < Rank(p) \/ q = p
        BY <2>2, <3>1, NothingBetween DEF Proceeds
      <4>2. CASE q = p
        BY <2>1, <2>2, <2>4, <2>10, <4>2
      <4>3. CASE Rank(q) < Rank(p)
        BY <2>1, <2>3, <2>4, <4>3 DEF DoneBefore, Done
      <4>4. QED
        BY <4>1, <4>2, <4>3
    <3>3. request' = r /\ InPlace(r)'
      BY <3>1 DEF Proceeds
    <3>4. InPlace(request)'
      BY <3>3 DEF InPlace
    <3>5. DoneBefore(request)'
      BY <3>2, <3>3 DEF DoneBefore, Done
    <3>6. InOrder'
      BY <1>2, <3>4, <3>5 DEF InOrder, IsBuild
    <3>7. Finished'
      BY <2>5, <2>6, <3>1 DEF Proceeds, Finished
    <3>8. QED
      BY <2>7, <2>8, <3>6, <3>7 DEF DatabaseInv
  <2>11. CASE e.ok /\ Finishes(p)
    <3>1. \A q \in WholeDatabase : Done(q) \/ q = p
      BY <2>1, <2>11, StartIsLast DEF Finishes, DoneBefore
    <3>2. WholeDatabase \subseteq database
      BY <2>1, <2>11, <3>1 DEF Done
    <3>3. database' = WholeDatabase
      BY <2>4, <3>2 DEF Typed, StackTyped
    <3>4. \A slot \in HandleSlots : slot \in handles
      <4> SUFFICES ASSUME NEW slot \in HandleSlots PROVE slot \in handles
        OBVIOUS
      <4>1. PICK q \in WholeDatabase : q.op = "attribute" /\ Attributes[q.stage][q.index] = slot
        BY SlotsAreAttributes
      <4>2. q # p
        BY <2>11, <4>1 DEF Finishes, Step
      <4>3. QED
        BY <3>1, <4>1, <4>2 DEF Done
    <3>5. registered'
      <4>1. p.op = "start"
        BY <2>11 DEF Finishes, Step
      <4>2. QED
        BY <2>1, <2>3, <4>1 DEF InPlace
    <3>6. Finished'
      BY <2>3, <2>4, <2>6, <3>3, <3>4, <3>5 DEF Finished
    <3>7. InOrder'
      BY <1>2, <1>3, <2>11 DEF InOrder, IsBuild, Finishes
    <3>8. QED
      BY <2>7, <2>8, <3>6, <3>7 DEF DatabaseInv
  <2>12. QED
    BY <2>3, <2>9, <2>10, <2>11
<1>6. QED
  BY <1>4, <1>5

LEMMA DispatchDatabase == Typed /\ Typed' /\ DatabaseInv /\ Dispatch => DatabaseInv'
<1> SUFFICES ASSUME Typed, Typed', DatabaseInv, Dispatch PROVE DatabaseInv'
  OBVIOUS
<1>1. /\ events # <<>> /\ events' = Tail(events) /\ events[1] \in Event
      /\ UNCHANGED database
  BY DispatchEffect
<1> DEFINE e == events[1]
<1> HIDE DEF e
<1>2. e \in Event
  BY <1>1 DEF e
<1>3. PICK f : \/ e.type \in BuildTypes /\ HandleBuild(e, f)
               \/ e.type \in {"connect", "disconnect"} /\ HandleLink(e)
               \/ e.type = "host" /\ HandleHost(e, f)
               \/ e.type \in {"adv_start", "adv_stop"} /\ HandleAdvertising(e, f)
  BY DispatchEffect DEF e
<1>4. CASE e.type \in BuildTypes /\ HandleBuild(e, f)
  <2>1. UNCHANGED conn
    BY <1>4 DEF HandleBuild
  <2>2. QED
    BY <1>1, <1>4, <2>1, HandleBuildInv DEF e, IsBuild
<1>5. CASE ~(e.type \in BuildTypes /\ HandleBuild(e, f))
  <2>1. UNCHANGED buildVars
    BY <1>3, <1>5 DEF HandleLink, HandleHost, HandleAdvertising
  <2>2. Connected(conn') => servicesReady
    <3>1. CASE e.type \in {"connect", "disconnect"} /\ HandleLink(e)
      BY <3>1
      DEF HandleLink, OnConnect, OnDisconnect, TurnedAway, ClearConnection, NoConnection,
          Connected, DatabaseInv, Finished
    <3>2. CASE e.type = "host" /\ HandleHost(e, f)
      <4>1. conn'.peer = conn.peer
        BY <1>2, <3>2, HostEventFields, OnHostType DEF HandleHost, Typed
      <4>2. QED
        BY <4>1 DEF Connected, DatabaseInv, Finished
    <3>3. CASE e.type \in {"adv_start", "adv_stop"} /\ HandleAdvertising(e, f)
      BY <3>3 DEF HandleAdvertising, DatabaseInv, Finished
    <3>4. QED
      BY <1>3, <1>5, <3>1, <3>2, <3>3
  <2>3. \A i \in Positions' : i + 1 \in Positions /\ events'[i] = events[i + 1]
    BY <1>1, Dequeued DEF Typed
  <2>4. UNCHANGED <<appRequested, registered, stage, attributeIndex, handles, servicesReady,
                    request, database>> /\ (failed => failed')
    BY <1>1, <2>1 DEF buildVars
  <2>5. QED
    BY <2>2, <2>3, <2>4, DatabaseKept
<1>6. QED
  BY <1>4, <1>5

LEMMA LoopDatabase == Typed /\ DatabaseInv /\ Loop => DatabaseInv'
<1> SUFFICES ASSUME Typed, DatabaseInv, Loop PROVE DatabaseInv'
  OBVIOUS
<1>1. UNCHANGED <<events, database>> /\ ~failed
  BY DEF Loop, radioVars
<1>2. \A i \in Positions' : i + 0 \in Positions /\ events'[i] = events[i + 0]
  BY <1>1 DEF Positions
<1>3. PICK f : \/ LoopBuildTimeout
               \/ LoopRegister(f)
               \/ LoopReport(f) /\ LoopAdvertising(f) /\ UNCHANGED <<buildVars, conn>>
  BY DEF Loop
<1>4. UNCHANGED conn
  BY <1>3 DEF LoopBuildTimeout, LoopRegister
<1>5. Connected(conn') => servicesReady
  BY <1>4 DEF DatabaseInv, Finished
<1>6. CASE ~(LoopRegister(f) /\ request' # request)
  <2>1. UNCHANGED <<appRequested, registered, stage, attributeIndex, handles, servicesReady, request>>
    \/ (LoopRegister(f) /\ appRequested' # appRequested)
    BY <1>3, <1>6 DEF LoopBuildTimeout, LoopRegister, TryRegister, buildVars
  <2>2. CASE UNCHANGED <<appRequested, registered, stage, attributeIndex, handles, servicesReady, request>>
    BY <1>1, <1>2, <1>5, <2>2, DatabaseKept
  <2>3. CASE LoopRegister(f) /\ appRequested' # appRequested
    <3>1. ~appRequested /\ request' = Register
      BY <2>3 DEF LoopRegister, TryRegister
    <3>2. request = NoRequest /\ Register # NoRequest
      BY <3>1 DEF DatabaseInv, Unasked, Register, NoRequest, Step
    <3>3. QED
      BY <1>6, <2>3, <3>1, <3>2
  <2>4. QED
    BY <2>1, <2>2, <2>3
<1>7. CASE LoopRegister(f) /\ request' # request
  <2>1. /\ ~appRequested /\ appRequested' /\ request' = Register
        /\ UNCHANGED <<registered, stage, attributeIndex, handles, servicesReady, failed>>
    BY <1>7 DEF LoopRegister, TryRegister
  <2>2. /\ \A i \in Positions : ~IsBuild(events[i])
        /\ stage = "DIS" /\ attributeIndex = 0 /\ ~servicesReady
    BY <2>1 DEF DatabaseInv, Unasked
  <2>3. \A i \in Positions' : ~IsBuild(events'[i])
    BY <1>1, <2>2 DEF Positions
  <2>4. OnePending' /\ Unasked'
    BY <2>1, <2>3 DEF OnePending, Unasked, IsBuild
  <2>5. InPlace(request)'
    BY <2>1, <2>2 DEF InPlace, Register, Step
  <2>6. DoneBefore(request)'
    BY <2>1, RegisterIsFirst DEF DoneBefore
  <2>7. InOrder'
    BY <2>3, <2>5, <2>6 DEF InOrder, IsBuild
  <2>8. Finished'
    BY <1>5, <2>1, <2>2 DEF Finished
  <2>9. QED
    BY <2>4, <2>7, <2>8 DEF DatabaseInv
<1>8. QED
  BY <1>6, <1>7

LEMMA RequestCompletesDatabase ==
  Typed /\ Typed' /\ DatabaseInv /\ RequestCompletes => DatabaseInv'
<1> SUFFICES ASSUME Typed, Typed', DatabaseInv, RequestCompletes PROVE DatabaseInv'
  OBVIOUS
<1>1. /\ UNCHANGED <<appRequested, registered, stage, attributeIndex, handles, servicesReady,
                     failed, conn>>
      /\ request # NoRequest /\ request \in WholeDatabase /\ request' = NoRequest
  BY DEF RequestCompletes, codeVars, Typed, BuildTyped
<1> DEFINE e(ok) == [type |-> request.op, stage |-> request.stage, index |-> request.index,
                     ok |-> ok]
<1>2. PICK ok \in BOOLEAN :
        /\ database' = IF ok THEN database \union {request} ELSE database
        /\ events' = Append(events, e(ok))
           \/ (UNCHANGED events /\ ok)
  <2>1. PICK f : /\ database' = IF f = "build_refused" THEN database ELSE database \union {request}
                 /\ Answer(e(f # "build_refused"), f)
    BY DEF RequestCompletes
  <2>2. WITNESS (f # "build_refused") \in BOOLEAN
  <2>3. QED
    BY <2>1 DEF Answer
<1>3. \A b \in BOOLEAN : e(b) \in Event /\ Operation(e(b)) = request /\ IsBuild(e(b)) /\ e(b).ok = b
  BY <1>1, BuildEventType, StepFields DEF Operation, IsBuild
<1>4. \A i \in Positions : ~IsBuild(events[i])
  BY <1>1 DEF DatabaseInv, OnePending
<1>5. appRequested /\ (servicesReady => database = WholeDatabase)
  BY <1>1 DEF DatabaseInv, Unasked, Finished
<1>6. Unasked' /\ Finished'
  <2>1. database' \subseteq WholeDatabase /\ database \subseteq database'
    BY <1>2 DEF Typed, StackTyped
  <2>2. Unasked'
    BY <1>1, <1>5 DEF Unasked
  <2>3. QED
    BY <1>1, <1>5, <2>1, <2>2 DEF DatabaseInv, Finished
<1>7. CASE UNCHANGED events
  <2>1. \A i \in Positions' : ~IsBuild(events'[i])
    BY <1>4, <1>7 DEF Positions
  <2>2. OnePending' /\ InOrder'
    BY <1>1, <2>1 DEF OnePending, InOrder, IsBuild
  <2>3. QED
    BY <1>6, <2>2 DEF DatabaseInv
<1>8. CASE events' = Append(events, e(ok))
  <2> DEFINE n == Len(events) + 1
  <2>1. \A i \in Positions' : IsBuild(events'[i]) => i = n /\ events'[i] = e(ok)
    BY <1>3, <1>4, <1>8, Appended DEF Typed
  <2>2. OnePending'
    BY <1>1, <2>1 DEF OnePending, IsBuild
  <2>3. ASSUME ~failed, NEW i \in Positions', IsBuild(events'[i])
        PROVE  /\ InPlace(Operation(events[i]))' /\ DoneBefore(Operation(events[i]))'
               /\ events'[i].ok => Operation(events'[i]) \in database'
    <3>1. events'[i] = e(ok) /\ Operation(events'[i]) = request /\ events'[i].ok = ok
      BY <1>3, <2>1, <2>3
    <3>2. InPlace(request) /\ DoneBefore(request)
      BY <1>1, <2>3 DEF DatabaseInv, InOrder
    <3>3. InPlace(Operation(events[i]))'
      BY <1>1, <3>1, <3>2 DEF InPlace, Operation
    <3>4. database \subseteq database'
      BY <1>2
    <3>5. DoneBefore(Operation(events[i]))'
      BY <1>1, <3>1, <3>2, <3>4 DEF DoneBefore, Done, Operation
    <3>6. events'[i].ok => Operation(events'[i]) \in database'
      BY <1>2, <3>1
    <3>7. QED
      BY <3>3, <3>5, <3>6
  <2>4. InOrder'
    BY <1>1, <2>3 DEF InOrder, IsBuild, Operation
  <2>5. QED
    BY <1>6, <2>2, <2>4 DEF DatabaseInv
<1>9. QED
  BY <1>2, <1>7, <1>8

LEMMA OtherEventsDatabase ==
  ASSUME Typed, DatabaseInv, UNCHANGED <<buildVars, database, conn>>,
         NEW e \in Event, ~IsBuild(e), events' = Append(events, e)
  PROVE  DatabaseInv'
<1>1. \A i \in Positions' : IsBuild(events'[i]) => i + 0 \in Positions /\ events'[i] = events[i + 0]
  <2> SUFFICES ASSUME NEW i \in Positions', IsBuild(events'[i])
               PROVE  i + 0 \in Positions /\ events'[i] = events[i + 0]
    OBVIOUS
  <2>1. i \in Positions /\ events'[i] = events[i] /\ i \in Nat
    BY Appended DEF Typed, Positions
  <2>2. QED
    BY <2>1
<1>2. Connected(conn') => servicesReady
  BY DEF DatabaseInv, Finished
<1>3. UNCHANGED <<appRequested, registered, stage, attributeIndex, handles, servicesReady,
                  request, database>> /\ (failed => failed')
  BY DEF buildVars
<1>4. QED
  BY <1>1, <1>2, <1>3, DatabaseKept

LEMMA BeforeDisabledDatabase == BeforeDisabled => DatabaseInv'
<1> SUFFICES ASSUME BeforeDisabled PROVE DatabaseInv'
  OBVIOUS
<1>1. Positions' = {}
  BY DEF BeforeDisabled, Positions
<1>2. QED
  BY <1>1
  DEF BeforeDisabled, DatabaseInv, OnePending, Unasked, InOrder, Finished, Connected, NoConnection

LEMMA InitDatabase == Init => DatabaseInv
<1> SUFFICES ASSUME Init PROVE DatabaseInv
  OBVIOUS
<1>1. Positions = {}
  BY DEF Init, Positions
<1>2. QED
  BY <1>1
  DEF Init, DatabaseInv, OnePending, Unasked, InOrder, Finished, Connected, NoConnection

LEMMA NextDatabase == Typed /\ DatabaseInv /\ [Next]_vars => DatabaseInv'
<1> SUFFICES ASSUME Typed, DatabaseInv, [Next]_vars PROVE DatabaseInv'
  OBVIOUS
<1>1. Typed'
  BY NextType
<1>2. CASE Dispatch
  BY <1>1, <1>2, DispatchDatabase
<1>3. CASE Loop
  BY <1>3, LoopDatabase
<1>4. CASE BeforeDisabled
  BY <1>4, BeforeDisabledDatabase
<1>5. CASE RequestCompletes
  BY <1>1, <1>5, RequestCompletesDatabase
<1>6. CASE AdvertiserActs
  <2>1. UNCHANGED <<codeVars, request, database>>
    BY <1>6 DEF AdvertiserActs
  <2>2. PICK start \in BOOLEAN, refused \in BOOLEAN : \E f :
          Answer([type |-> IF start THEN "adv_start" ELSE "adv_stop", ok |-> ~refused], f)
    BY <1>6 DEF AdvertiserActs
  <2> DEFINE e == [type |-> IF start THEN "adv_start" ELSE "adv_stop", ok |-> ~refused]
  <2>3. e \in Event /\ ~IsBuild(e)
    BY DEF Event, AdvertisingEvents, IsBuild, BuildTypes
  <2>4. UNCHANGED <<buildVars, conn>>
    BY <2>1 DEF codeVars, buildVars
  <2>5. UNCHANGED events \/ events' = Append(events, e)
    BY <2>2 DEF Answer
  <2> HIDE DEF e
  <2>6. CASE UNCHANGED events
    <3>1. \A i \in Positions' : i + 0 \in Positions /\ events'[i] = events[i + 0]
      BY <2>6 DEF Positions
    <3>2. Connected(conn') => servicesReady
      BY <2>4 DEF DatabaseInv, Finished
    <3>3. QED
      BY <2>1, <2>4, <3>1, <3>2, DatabaseKept DEF codeVars
  <2>7. CASE events' = Append(events, e)
    BY <2>1, <2>3, <2>4, <2>7, OtherEventsDatabase
  <2>8. QED
    BY <2>5, <2>6, <2>7
<1>7. CASE \/ \E h \in Hosts : HostConnects(h) \/ LinkCloses(h)
           \/ \E h \in Hosts, what \in HostActs : HostActsOn(h, what)
  <2>1. PICK e \in Event : ~IsBuild(e) /\ events' = Append(events, e)
    <3>1. \A h \in Hosts :
            /\ [type |-> "connect", host |-> h] \in Event
            /\ [type |-> "disconnect", host |-> h] \in Event
            /\ \A what \in HostActs : [type |-> "host", host |-> h, what |-> what] \in Event
      BY EnvironmentAssumption DEF Event, LinkEvents, HostEvents
    <3>2. \A h \in Hosts :
            /\ ~IsBuild([type |-> "connect", host |-> h])
            /\ ~IsBuild([type |-> "disconnect", host |-> h])
            /\ \A what \in HostActs : ~IsBuild([type |-> "host", host |-> h, what |-> what])
      BY DEF IsBuild, BuildTypes
    <3>3. QED
      BY <1>7, <3>1, <3>2 DEF HostConnects, LinkCloses, HostActsOn
  <2>2. UNCHANGED <<buildVars, database, conn>>
    BY <1>7 DEF HostConnects, LinkCloses, HostActsOn, linkExcept, codeVars, buildVars
  <2>3. QED
    BY <2>1, <2>2, OtherEventsDatabase
<1>8. CASE \/ Begin \/ Quiesce \/ Resume \/ BleEnabled \/ OtherAdvertises \/ TimePasses
           \/ \E r \in Reports : SubmitReport(r)
           \/ \E allowed \in BOOLEAN : SetAdvertisingAllowed(allowed)
           \/ UNCHANGED vars
  <2>1. /\ UNCHANGED <<appRequested, registered, stage, attributeIndex, handles, servicesReady,
                       request, database, failed, conn, events>>
    BY <1>8 DEF Begin, Quiesce, Resume, BleEnabled, OtherAdvertises, TimePasses, SubmitReport,
                SetAdvertisingAllowed, vars, buildVars, radioVars, linkExcept, codeVars
  <2>2. \A i \in Positions' : i + 0 \in Positions /\ events'[i] = events[i + 0]
    BY <2>1 DEF Positions
  <2>3. Connected(conn') => servicesReady
    BY <2>1 DEF DatabaseInv, Finished
  <2>4. QED
    BY <2>1, <2>2, <2>3, DatabaseKept
<1>9. QED
  BY <1>2, <1>3, <1>4, <1>5, <1>6, <1>7, <1>8 DEF Next

LEMMA DatabaseInvariance == Spec => [](Typed /\ DatabaseInv)
<1>1. Init => Typed /\ DatabaseInv
  BY InitTyped, InitDatabase
<1>2. Typed /\ DatabaseInv /\ [Next]_vars => (Typed /\ DatabaseInv)'
  BY NextType, NextDatabase
<1>3. QED
  BY <1>1, <1>2, PTL DEF Spec

\* However completions of the construction are lost, refused, late or rejected
\* at once, and however often the stack restarts, the host that HidKeyboard has
\* accepted finds every service whole, and the code knows every handle it uses.
THEOREM WholeDatabaseForHosts == Spec => []HostSeesWholeDatabase
<1>1. DatabaseInv => HostSeesWholeDatabase
  BY DEF DatabaseInv, Finished, HostSeesWholeDatabase
<1>2. QED
  BY <1>1, DatabaseInvariance, PTL
-----------------------------------------------------------------------------
(* Construction is watched: the half of ConstructionEnds that is an        *)
(* invariant.                                                              *)

\* A construction that has neither ended nor failed has its deadline set, and
\* loop(), which looks at it, is running.
ConstructionWatched ==
  appRequested /\ ~servicesReady /\ ~failed => begun /\ buildTimer # "off"

LEMMA HandleBuildWatched ==
  ASSUME ConstructionWatched, NEW e, NEW f, HandleBuild(e, f), UNCHANGED begun
  PROVE  ConstructionWatched'
<1>1. \/ failed'
      \/ UNCHANGED <<appRequested, servicesReady, failed, buildTimer>>
      \/ UNCHANGED <<appRequested, servicesReady>> /\ (failed => failed') /\ buildTimer' = "running"
      \/ servicesReady'
  BY DEF HandleBuild, OnReg, OnCreate, OnInclude, OnAttribute, OnStart, BuildFails,
         AddNextAttribute, Ask, RefreshConstructionWatchdog, buildVars
<1>2. QED
  BY <1>1 DEF ConstructionWatched

LEMMA LoopWatched == ConstructionWatched /\ Loop => ConstructionWatched'
<1> SUFFICES ASSUME ConstructionWatched, Loop PROVE ConstructionWatched'
  OBVIOUS
<1>1. begun /\ UNCHANGED begun
  BY DEF Loop
<1>2. \/ failed'
      \/ UNCHANGED <<appRequested, servicesReady, failed, buildTimer>>
      \/ buildTimer' = "running"
  BY DEF Loop, LoopBuildTimeout, LoopRegister, TryRegister, RefreshConstructionWatchdog, buildVars
<1>3. QED
  BY <1>1, <1>2 DEF ConstructionWatched

LEMMA NextWatched == Typed /\ ConstructionWatched /\ [Next]_vars => ConstructionWatched'
<1> SUFFICES ASSUME Typed, ConstructionWatched, [Next]_vars PROVE ConstructionWatched'
  OBVIOUS
<1>1. CASE Dispatch
  <2>1. UNCHANGED begun
    BY <1>1, DispatchEffect
  <2>2. PICK f : \/ HandleBuild(events[1], f)
                 \/ HandleLink(events[1])
                 \/ HandleHost(events[1], f)
                 \/ HandleAdvertising(events[1], f)
    BY <1>1, DispatchEffect
  <2>3. CASE UNCHANGED buildVars
    BY <2>1, <2>3 DEF ConstructionWatched, buildVars
  <2>4. QED
    BY <2>1, <2>2, <2>3, HandleBuildWatched DEF HandleLink, HandleHost, HandleAdvertising
<1>2. CASE Loop
  BY <1>2, LoopWatched
<1>3. CASE TimePasses
  BY <1>3 DEF TimePasses, BuildTimerExpires, AdvTimerExpires, RetryTimerExpires,
              ConstructionWatched
<1>4. CASE Begin \/ BeforeDisabled
  BY <1>4 DEF Begin, BeforeDisabled, ConstructionWatched, buildVars
<1>5. CASE \/ Quiesce \/ Resume \/ BleEnabled \/ OtherAdvertises
           \/ RequestCompletes \/ AdvertiserActs
           \/ \E r \in Reports : SubmitReport(r)
           \/ \E allowed \in BOOLEAN : SetAdvertisingAllowed(allowed)
           \/ \E h \in Hosts : HostConnects(h) \/ LinkCloses(h)
           \/ \E h \in Hosts, what \in HostActs : HostActsOn(h, what)
           \/ UNCHANGED vars
  <2>1. UNCHANGED <<begun, appRequested, servicesReady, failed, buildTimer>>
    BY <1>5 DEF Quiesce, Resume, BleEnabled, OtherAdvertises, RequestCompletes, AdvertiserActs,
                SubmitReport, SetAdvertisingAllowed, HostConnects, LinkCloses, HostActsOn,
                vars, buildVars, linkExcept, codeVars
  <2>2. QED
    BY <2>1 DEF ConstructionWatched
<1>6. QED
  BY <1>1, <1>2, <1>3, <1>4, <1>5 DEF Next

\* No construction hangs unnoticed: from the registration to the last service, and
\* again after every restart of the stack, the watchdog runs or has expired, in a
\* loop that looks at it, whichever completions were lost or came for an operation
\* that is over.  ConstructionEnds adds, under fairness, that it then ends.
THEOREM ConstructionIsWatched == Spec => []ConstructionWatched
<1>1. Init => ConstructionWatched
  BY DEF Init, ConstructionWatched
<1>2. QED
  BY <1>1, NextWatched, Types, PTL DEF Spec

=============================================================================
