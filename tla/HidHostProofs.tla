---------------------------- MODULE HidHostProofs -----------------------------
(***************************************************************************)
(* Proofs about what HidKeyboard shows its host, for any hosts, images,    *)
(* faults and bounds: the report that is read, the one that is notified,   *)
(* the port that the bridge sees, and the links the keyboard answers for.  *)
(*                                                                         *)
(* An image with a key pressed is current only while the host it was       *)
(* submitted for is connected, and a host is connected only to a finished  *)
(* database: that is why an attribute can be read without a handle check,  *)
(* and why no image reaches the next host.                                 *)
(*                                                                         *)
(* The last queued event about a host's link says whether it still has     *)
(* one: that is why events that are long out of date leave no link behind. *)
(*                                                                         *)
(* Last, the invariant halves of two liveness properties: a report that is *)
(* still due, and an offer that is still open, are not forgotten.          *)
(***************************************************************************)
EXTENDS HidKeyboardProofs

-----------------------------------------------------------------------------
(* The report: what a host reads and what it was told.                     *)

\* A key pressed is one host's, and that host is connected.
ImageIsHosts ==
  currentReport # Up =>
    /\ InputSlots \subseteq handles
    /\ Connected(conn)
    /\ imageOwner = conn.peer

ReportInv == ReadsAreCurrent /\ ImageIsHosts

\* What a step shows is released, is what the host was shown before, or is the
\* host's own.
ShowsItsOwn == \A h \in Hosts : shown'[h] \in {Up, shown[h]} \/ imageOwner' = h

LEMMA Notified ==
  ASSUME ReportTyped, NEW c \in Connections, NEW r \in Reports, NEW known, NEW f,
         Notify(c, r, known, f),
         \A s \in InputSlots : s \notin known => readable[s] = r,
         currentReport' = r,
         r # Up => /\ InputSlots \subseteq handles' /\ Connected(conn')
                   /\ imageOwner' = conn'.peer /\ imageOwner' = c.peer
  PROVE  ReportInv' /\ ShowsItsOwn
<1>1. readable' = [s \in InputSlots |-> IF s \in (IF CanNotify(c) THEN InputSlots ELSE known)
                                        THEN r ELSE readable[s]]
  BY DEF Notify, SetReadable
<1>2. ReadsAreCurrent'
  BY <1>1 DEF ReadsAreCurrent
<1>3. ImageIsHosts'
  BY DEF ImageIsHosts, Connected
<1>4. shown' = shown \/ shown' = [shown EXCEPT ![c.peer] = r]
  BY DEF Notify
<1>5. ShowsItsOwn
  <2> SUFFICES ASSUME NEW h \in Hosts PROVE shown'[h] \in {Up, shown[h]} \/ imageOwner' = h
    BY DEF ShowsItsOwn
  <2>1. shown'[h] \in {r, shown[h]} /\ (shown'[h] # shown[h] => h = c.peer)
    BY <1>4 DEF ReportTyped
  <2>2. QED
    BY <2>1
<1>6. QED
  BY <1>2, <1>3, <1>5 DEF ReportInv

\* A step that changes nothing a host reads or is shown.
LEMMA ReportKept ==
  ASSUME ReportInv, UNCHANGED <<currentReport, imageOwner, readable, shown>>,
         currentReport # Up => handles \subseteq handles' /\ conn'.peer = conn.peer
  PROVE  ReportInv' /\ ShowsItsOwn
BY DEF ReportInv, ReadsAreCurrent, ImageIsHosts, ShowsItsOwn, Connected

LEMMA HandlesGrow ==
  ASSUME NEW e, NEW f, HandleBuild(e, f)
  PROVE  handles \subseteq handles' /\ UNCHANGED <<conn, reportVars>>
BY DEF HandleBuild, OnReg, OnCreate, OnInclude, OnAttribute, OnStart, BuildFails, buildVars

LEMMA HandleLinkReport ==
  ASSUME Typed, ReportInv, NEW e, HandleLink(e)
  PROVE  ReportInv' /\ ShowsItsOwn
<1>1. UNCHANGED handles
  BY DEF HandleLink, buildVars
<1>2. CASE UNCHANGED <<conn, reportVars>>
  BY <1>1, <1>2, ReportKept DEF reportVars
<1>3. CASE /\ OnConnect(e)
           /\ UNCHANGED <<currentReport, reportTimer, readable, shown, imageOwner>>
  <2>1. currentReport # Up => conn'.peer = conn.peer
    <3>1. CASE TurnedAway(e.host)
      BY <1>3, <3>1 DEF OnConnect
    <3>2. CASE ~TurnedAway(e.host)
      <4>1. conn'.peer = e.host
        BY <1>3, <3>2 DEF OnConnect, NoConnection
      <4>2. Connected(conn) => conn.peer = e.host
        BY <3>2 DEF TurnedAway
      <4>3. QED
        BY <4>1, <4>2 DEF ReportInv, ImageIsHosts
    <3>3. QED
      BY <3>1, <3>2
  <2>2. QED
    BY <1>1, <1>3, <2>1, ReportKept
<1>4. CASE ClearConnection
  <2>1. currentReport' = Up /\ shown' = shown
    BY <1>4 DEF ClearConnection
  <2>2. readable' = [s \in InputSlots |-> IF s \in handles THEN Up ELSE readable[s]]
    BY <1>4 DEF ClearConnection, SetReadable
  <2>3. \A s \in InputSlots : s \notin handles => readable[s] = Up
    BY DEF ReportInv, ImageIsHosts, ReadsAreCurrent
  <2>4. QED
    BY <2>1, <2>2, <2>3 DEF ReportInv, ReadsAreCurrent, ImageIsHosts, ShowsItsOwn
<1>5. QED
  BY <1>2, <1>3, <1>4 DEF HandleLink, OnDisconnect

LEMMA OnHostReport ==
  ASSUME Typed, ReportInv, NEW e, e.what \in AllActs, NEW f, OnHost(e, f), UNCHANGED handles
  PROVE  ReportInv' /\ ShowsItsOwn
<1>1. conn \in Connections /\ conn' \in Connections /\ conn'.peer = conn.peer /\ ReportTyped
  BY OnHostType DEF Typed
<1>2. CASE UNCHANGED reportVars
  BY <1>1, <1>2, ReportKept DEF reportVars
<1>3. CASE \E c : conn' = c /\ Notify(c, currentReport, {}, f) /\ UNCHANGED <<currentReport, imageOwner>>
  <2>1. /\ Notify(conn', currentReport, {}, f)
        /\ UNCHANGED <<currentReport, imageOwner>>
    BY <1>3
  <2>2. \A s \in InputSlots : readable[s] = currentReport
    BY DEF ReportInv, ReadsAreCurrent
  <2>3. currentReport # Up => /\ InputSlots \subseteq handles' /\ Connected(conn')
                              /\ imageOwner' = conn'.peer
    BY <1>1, <2>1 DEF ReportInv, ImageIsHosts, Connected
  <2>4. QED
    BY <1>1, <2>1, <2>2, <2>3, Notified DEF ReportTyped
<1>4. UNCHANGED reportVars
      \/ \E c : conn' = c /\ Notify(c, currentReport, {}, f) /\ UNCHANGED <<currentReport, imageOwner>>
  BY DEF OnHost, OnCongest, OnAuthentication, OnWrite
<1>5. QED
  BY <1>2, <1>3, <1>4

LEMMA DispatchReport == Typed /\ ReportInv /\ Dispatch => ReportInv' /\ ShowsItsOwn
<1> SUFFICES ASSUME Typed, ReportInv, Dispatch PROVE ReportInv' /\ ShowsItsOwn
  OBVIOUS
<1> DEFINE e == events[1]
<1> HIDE DEF e
<1>1. e \in Event
  BY DispatchEffect DEF e
<1>2. PICK f : \/ e.type \in BuildTypes /\ HandleBuild(e, f)
               \/ e.type \in {"connect", "disconnect"} /\ HandleLink(e)
               \/ e.type = "host" /\ HandleHost(e, f)
               \/ e.type \in {"adv_start", "adv_stop"} /\ HandleAdvertising(e, f)
  BY DispatchEffect DEF e
<1>3. CASE HandleBuild(e, f)
  BY <1>3, HandlesGrow, ReportKept DEF reportVars
<1>4. CASE HandleLink(e)
  BY <1>4, HandleLinkReport
<1>5. CASE e.type = "host" /\ HandleHost(e, f)
  BY <1>1, <1>5, HostEventFields, OnHostReport DEF HandleHost, buildVars
<1>6. CASE HandleAdvertising(e, f)
  BY <1>6, ReportKept DEF HandleAdvertising, buildVars, reportVars
<1>7. QED
  BY <1>2, <1>3, <1>4, <1>5, <1>6

LEMMA LoopStepReport == Typed /\ ReportInv /\ Loop => ReportInv' /\ ShowsItsOwn
<1> SUFFICES ASSUME Typed, ReportInv, Loop PROVE ReportInv' /\ ShowsItsOwn
  OBVIOUS
<1>1. UNCHANGED <<handles, conn>>
  BY DEF Loop, LoopBuildTimeout, LoopRegister, buildVars
<1>2. PICK f : UNCHANGED reportVars \/ LoopReport(f)
  BY DEF Loop, LoopBuildTimeout, LoopRegister
<1>3. CASE UNCHANGED reportVars
  BY <1>1, <1>3, ReportKept DEF reportVars
<1>4. CASE Notify(conn, currentReport, {}, f) /\ UNCHANGED <<currentReport, imageOwner>>
  <2>1. \A s \in InputSlots : readable[s] = currentReport
    BY DEF ReportInv, ReadsAreCurrent
  <2>2. currentReport # Up => /\ InputSlots \subseteq handles' /\ Connected(conn')
                              /\ imageOwner' = conn'.peer /\ imageOwner' = conn.peer
    BY <1>1, <1>4 DEF ReportInv, ImageIsHosts
  <2>3. QED
    BY <1>4, <2>1, <2>2, Notified DEF Typed, ReportTyped
<1>5. QED
  BY <1>2, <1>3, <1>4 DEF LoopReport

LEMMA SubmitReportReport ==
  ASSUME Typed, DatabaseInv, ReportInv, NEW r \in Reports, SubmitReport(r)
  PROVE  ReportInv' /\ ShowsItsOwn
<1>1. UNCHANGED <<handles, conn>> /\ (r = Up \/ Ready(conn))
  BY DEF SubmitReport, buildVars
<1>2. PICK f : SendReport(r, f)
  BY DEF SubmitReport
<1>3. CASE quiesced
  BY <1>1, <1>2, <1>3, ReportKept DEF SendReport, reportVars
<1>4. CASE ~quiesced
  <2>1. Notify(conn, r, handles, f) /\ currentReport' = r /\ imageOwner' = conn.peer
    BY <1>2, <1>4 DEF SendReport
  <2>2. r # Up => InputSlots \subseteq handles /\ Connected(conn)
    BY <1>1 DEF Ready, DatabaseInv, Finished, InputSlots, HandleSlots
  <2>3. \A s \in InputSlots : s \notin handles => readable[s] = r
    BY <2>2 DEF ReportInv, ImageIsHosts, ReadsAreCurrent
  <2>4. QED
    BY <1>1, <2>1, <2>2, <2>3, Notified DEF Typed
<1>5. QED
  BY <1>3, <1>4

LEMMA QuiesceReport == Typed /\ ReportInv /\ Quiesce => ReportInv' /\ ShowsItsOwn
<1> SUFFICES ASSUME Typed, ReportInv, Quiesce PROVE ReportInv' /\ ShowsItsOwn
  OBVIOUS
<1>1. PICK f : QuiesceHost(f)
  BY DEF Quiesce
<1>2. Notify(conn, Up, handles, f) /\ currentReport' = Up
  BY <1>1 DEF QuiesceHost
<1>3. \A s \in InputSlots : s \notin handles => readable[s] = Up
  BY DEF ReportInv, ImageIsHosts, ReadsAreCurrent
<1>4. QED
  BY <1>2, <1>3, Notified DEF Typed, Reports

LEMMA NextReport ==
  Typed /\ DatabaseInv /\ ReportInv /\ [Next]_vars => ReportInv' /\ ShowsItsOwn
<1> SUFFICES ASSUME Typed, DatabaseInv, ReportInv, [Next]_vars PROVE ReportInv' /\ ShowsItsOwn
  OBVIOUS
<1>1. CASE Dispatch
  BY <1>1, DispatchReport
<1>2. CASE Loop
  BY <1>2, LoopStepReport
<1>3. CASE Quiesce
  BY <1>3, QuiesceReport
<1>4. CASE \E r \in Reports : SubmitReport(r)
  BY <1>4, SubmitReportReport
<1>5. CASE BeforeDisabled
  BY <1>5 DEF BeforeDisabled, ReportInv, ReadsAreCurrent, ImageIsHosts, ShowsItsOwn
<1>6. CASE \E h \in Hosts : LinkCloses(h)
  <2>1. PICK h \in Hosts : LinkCloses(h)
    BY <1>6
  <2>2. UNCHANGED <<currentReport, imageOwner, readable, handles, conn>>
    BY <2>1 DEF LinkCloses, linkExcept, codeVars
  <2>3. ReportInv'
    BY <2>2 DEF ReportInv, ReadsAreCurrent, ImageIsHosts, Connected
  <2>4. ShowsItsOwn
    BY <2>1 DEF LinkCloses, ShowsItsOwn, Typed, ReportTyped
  <2>5. QED
    BY <2>3, <2>4
<1>7. CASE \/ Begin \/ Resume \/ BleEnabled \/ OtherAdvertises \/ TimePasses
           \/ RequestCompletes \/ AdvertiserActs
           \/ \E h \in Hosts : HostConnects(h)
           \/ \E h \in Hosts, what \in HostActs : HostActsOn(h, what)
           \/ \E allowed \in BOOLEAN : SetAdvertisingAllowed(allowed)
           \/ UNCHANGED vars
  <2>1. UNCHANGED <<currentReport, imageOwner, readable, shown, handles, conn>>
    BY <1>7 DEF Begin, Resume, BleEnabled, OtherAdvertises, TimePasses, RequestCompletes,
                AdvertiserActs, HostConnects, HostActsOn, SetAdvertisingAllowed, vars,
                buildVars, reportVars, linkExcept, codeVars
  <2>2. QED
    BY <2>1, ReportKept
<1>8. QED
  BY <1>1, <1>2, <1>3, <1>4, <1>5, <1>6, <1>7 DEF Next

LEMMA InitReport == Init => ReportInv
BY DEF Init, ReportInv, ReadsAreCurrent, ImageIsHosts

LEMMA ReportInvariance == Spec => [](Typed /\ DatabaseInv /\ ReportInv)
<1>1. Typed /\ DatabaseInv /\ ReportInv /\ [Next]_vars => ReportInv'
  BY NextReport
<1>2. QED
  BY <1>1, InitReport, DatabaseInvariance, PTL DEF Spec

\* Whoever reads an input attribute gets the report the bridge submitted last,
\* through either of them, notified or not: before the database is finished,
\* across a lost host, a restart of the stack and a quiesced bridge.
THEOREM ReadsCurrent == Spec => []ReadsAreCurrent
<1>1. ReportInv => ReadsAreCurrent
  BY DEF ReportInv
<1>2. QED
  BY <1>1, ReportInvariance, PTL

\* Keys that were pressed for one host are never notified to another, although
\* deferred reports are sent later, when the host writes, when congestion ends
\* or from loop().
THEOREM NoImageForOthers == Spec => NoImageAcrossHosts
<1>1. Typed /\ DatabaseInv /\ ReportInv /\ [Next]_vars =>
        [\A h \in Hosts : shown'[h] \in {Up, shown[h]} \/ imageOwner' = h]_vars
  BY NextReport DEF ShowsItsOwn
<1>2. QED
  BY <1>1, ReportInvariance, PTL DEF Spec, NoImageAcrossHosts

-----------------------------------------------------------------------------
(* The port that the bridge sees.                                          *)

\* Only a bridge that began can have quiesced.
QuiescedLater == ~begun => ~quiesced

PortState == [allowed |-> adv.allowed, halted |-> quiesced, ready |-> Ready(conn),
              image |-> currentReport]

LEMMA ReadyMeans ==
  /\ Ready(conn) \in BOOLEAN
  /\ Ready(conn) => servicesReady /\ ~quiesced /\ ~failed /\ Connected(conn)
BY DEF Ready

LEMMA PortStateIs ==
  \E ready \in BOOLEAN :
    PortState = [allowed |-> adv.allowed, halted |-> quiesced, ready |-> ready,
                 image |-> currentReport]
<1>1. PICK ready \in BOOLEAN : ready = Ready(conn)
  BY ReadyMeans
<1>2. QED
  BY <1>1 DEF PortState

LEMMA PortUpdates ==
  \A ready : [PortState EXCEPT !.ready = ready] =
    [allowed |-> adv.allowed, halted |-> quiesced, ready |-> ready, image |-> currentReport]
<1>1. PICK now \in BOOLEAN :
        PortState = [allowed |-> adv.allowed, halted |-> quiesced, ready |-> now,
                     image |-> currentReport]
  BY PortStateIs
<1>2. QED
  BY <1>1

\* The host becomes ready, or stops being so, and nothing else changes.
LEMMA ReadinessChanges ==
  ASSUME UNCHANGED <<quiesced, currentReport>>, adv'.allowed = adv.allowed
  PROVE  [Port!PortNext]_PortState
<1>1. Ready(conn)' \in BOOLEAN /\ (Ready(conn)' => ~quiesced')
  BY DEF Ready
<1>2. CASE Ready(conn)'
  <2>1. PortState' = [allowed |-> adv.allowed, halted |-> quiesced, ready |-> TRUE,
                      image |-> currentReport]
    BY <1>1, <1>2 DEF PortState
  <2>2. PortState' = Port!HostReady(PortState)
    BY <2>1, PortUpdates, Zenon DEF Port!HostReady
  <2>3. ~PortState.halted
    BY <1>1, <1>2 DEF PortState
  <2>4. QED
    BY <2>2, <2>3 DEF PortState, Port!PortNext
<1>3. CASE ~Ready(conn)'
  <2>1. PortState' = [allowed |-> adv.allowed, halted |-> quiesced, ready |-> FALSE,
                      image |-> currentReport]
    BY <1>1, <1>3 DEF PortState
  <2>2. PortState' = Port!HostUnready(PortState)
    BY <2>1, PortUpdates, Zenon DEF Port!HostUnready
  <2>3. QED
    BY <2>2 DEF PortState, Port!PortNext
<1>4. QED
  BY <1>2, <1>3

\* The host is lost, and with it the report.
LEMMA HostIsLost ==
  ASSUME UNCHANGED quiesced, adv'.allowed = adv.allowed, ~Ready(conn)', currentReport' = Up
  PROVE  [Port!PortNext]_PortState
<1>1. PortState' = [allowed |-> adv.allowed, halted |-> quiesced, ready |-> FALSE, image |-> Up]
  <2>1. Ready(conn)' = FALSE
    BY ReadyMeans
  <2>2. QED
    BY <2>1 DEF PortState
<1>2. PortState' = Port!HostLost(PortState)
  BY <1>1 DEF PortState, Port!HostLost
<1>3. QED
  BY <1>2 DEF PortState, Port!PortNext

LEMMA DispatchPort == Typed /\ Dispatch => [Port!PortNext]_PortState
<1> SUFFICES ASSUME Typed, Dispatch PROVE [Port!PortNext]_PortState
  OBVIOUS
<1> DEFINE e == events[1]
<1> HIDE DEF e
<1>1. e \in Event /\ UNCHANGED <<quiesced, linked>>
  BY DispatchEffect DEF e
<1>2. PICK f : \/ e.type \in BuildTypes /\ HandleBuild(e, f)
               \/ e.type \in {"connect", "disconnect"} /\ HandleLink(e)
               \/ e.type = "host" /\ HandleHost(e, f)
               \/ e.type \in {"adv_start", "adv_stop"} /\ HandleAdvertising(e, f)
  BY DispatchEffect DEF e
<1>3. CASE HandleBuild(e, f)
  <2>1. adv'.allowed = adv.allowed /\ UNCHANGED reportVars
    BY <1>1, <1>3, HandleBuildType, HandlesGrow DEF Typed
  <2>2. QED
    BY <1>1, <2>1, ReadinessChanges DEF reportVars
<1>4. CASE e.type \in {"connect", "disconnect"} /\ HandleLink(e)
  <2>1. adv'.allowed = adv.allowed
    BY <1>1, <1>4, HandleLinkType
  <2>2. CASE ClearConnection
    <3>1. currentReport' = Up /\ ~Ready(conn)'
      BY <2>2 DEF ClearConnection, NoConnection, Ready, Connected
    <3>2. QED
      BY <1>1, <2>1, <3>1, HostIsLost
  <2>3. CASE ~ClearConnection
    <3>1. UNCHANGED currentReport
      BY <1>4, <2>3 DEF HandleLink, OnDisconnect, reportVars
    <3>2. QED
      BY <1>1, <2>1, <3>1, ReadinessChanges
  <2>4. QED
    BY <2>2, <2>3
<1>5. CASE HandleHost(e, f)
  <2>1. UNCHANGED <<adv, currentReport>>
    BY <1>5 DEF HandleHost, OnHost, OnCongest, OnAuthentication, OnWrite, advVars, reportVars
  <2>2. QED
    BY <1>1, <2>1, ReadinessChanges
<1>6. CASE e.type \in {"adv_start", "adv_stop"} /\ HandleAdvertising(e, f)
  <2>1. adv'.allowed = adv.allowed
    BY <1>1, <1>6, AdvertisingEventFields, OnAdvStartType, OnAdvStopType
    DEF Typed, HandleAdvertising
  <2>2. QED
    BY <1>1, <1>6, <2>1, ReadinessChanges DEF HandleAdvertising, reportVars
<1>7. QED
  BY <1>2, <1>3, <1>4, <1>5, <1>6

LEMMA LoopPort == Typed /\ Loop => [Port!PortNext]_PortState
<1> SUFFICES ASSUME Typed, Loop PROVE [Port!PortNext]_PortState
  OBVIOUS
<1>1. UNCHANGED <<quiesced, currentReport>>
  BY DEF Loop, LoopBuildTimeout, LoopRegister, LoopReport, reportVars
<1>2. PICK f : UNCHANGED advVars \/ LoopAdvertising(f)
  BY DEF Loop, LoopBuildTimeout, LoopRegister
<1>3. adv'.allowed = adv.allowed
  BY <1>2, LoopAdvertisingType DEF Typed, advVars
<1>4. QED
  BY <1>1, <1>3, ReadinessChanges

LEMMA SubmitReportPort ==
  ASSUME Typed, NEW r \in Reports, SubmitReport(r)
  PROVE  [Port!PortNext]_PortState
<1>1. UNCHANGED <<adv, quiesced, conn, servicesReady, failed>>
  BY DEF SubmitReport, advVars, buildVars
<1>2. PICK f : SendReport(r, f)
  BY DEF SubmitReport
<1>3. CASE quiesced
  BY <1>1, <1>2, <1>3, ReadinessChanges DEF SendReport, reportVars
<1>4. CASE ~quiesced
  <2>1. currentReport' = r /\ Ready(conn)' = Ready(conn)
    BY <1>1, <1>2, <1>4 DEF SendReport, Ready
  <2>2. PortState' = [PortState EXCEPT !.image = r]
    BY <1>1, <2>1 DEF PortState
  <2>3. PortState' = Port!Send(PortState, r)
    BY <1>4, <2>2 DEF Port!Send, PortState
  <2>4. QED
    BY <2>3 DEF Port!PortNext, Reports, PortState
<1>5. QED
  BY <1>3, <1>4

LEMMA GatePort ==
  ASSUME Typed, NEW allowed \in BOOLEAN, SetAdvertisingAllowed(allowed)
  PROVE  [Port!PortNext]_PortState
<1>1. adv'.allowed = allowed /\ (allowed => ~quiesced)
  BY SetAdvertisingAllowedType
<1>2. UNCHANGED <<quiesced, conn, currentReport, servicesReady, failed>>
  BY DEF SetAdvertisingAllowed, reportVars, buildVars
<1>3. Ready(conn)' = Ready(conn)
  BY <1>2 DEF Ready
<1>4. PortState' = [PortState EXCEPT !.allowed = allowed]
  BY <1>1, <1>2, <1>3 DEF PortState
<1>5. CASE allowed
  <2>1. PortState' = Port!Allow(PortState)
    BY <1>1, <1>4, <1>5 DEF Port!Allow, PortState
  <2>2. QED
    BY <2>1 DEF Port!PortNext, PortState
<1>6. CASE ~allowed
  <2>1. PortState' = Port!Disallow(PortState)
    BY <1>4, <1>6 DEF Port!Disallow
  <2>2. QED
    BY <2>1 DEF Port!PortNext, PortState
<1>7. QED
  BY <1>5, <1>6

LEMMA QuiescePort == Typed /\ Quiesce => [Port!PortNext]_PortState
<1> SUFFICES ASSUME Typed, Quiesce PROVE [Port!PortNext]_PortState
  OBVIOUS
<1>1. /\ ~quiesced /\ quiesced' = TRUE /\ currentReport' = Up
      /\ adv'.allowed = FALSE
  BY QuiesceType DEF Quiesce, QuiesceHost
<1>2. Ready(conn)' = FALSE
  BY <1>1 DEF Ready
<1>3. PortState' = [allowed |-> FALSE, halted |-> TRUE, ready |-> FALSE, image |-> Up]
  BY <1>1, <1>2 DEF PortState
<1>4. PortState' = Port!Halt(PortState)
  BY <1>1, <1>3 DEF Port!Halt, PortState
<1>5. QED
  BY <1>4 DEF Port!PortNext, PortState

LEMMA ResumePort == Typed /\ Resume => [Port!PortNext]_PortState
<1> SUFFICES ASSUME Typed, Resume PROVE [Port!PortNext]_PortState
  OBVIOUS
<1>1. /\ quiesced /\ quiesced' = FALSE /\ UNCHANGED currentReport
      /\ adv'.allowed = adv.allowed
  BY ResumeType DEF Resume
<1>2. Ready(conn)' \in BOOLEAN
  BY DEF Ready
<1>3. PICK ready \in BOOLEAN : ready = Ready(conn)'
  BY <1>2
<1>4. PortState' = [allowed |-> adv.allowed, halted |-> FALSE, ready |-> ready,
                    image |-> currentReport]
  BY <1>1, <1>3 DEF PortState
<1>5. PortState' = Port!Resumed(PortState, ready)
  BY <1>1, <1>4 DEF Port!Resumed, PortState
<1>6. QED
  BY <1>5 DEF Port!PortNext, PortState

LEMMA BeforeDisabledPort == BeforeDisabled => [Port!PortNext]_PortState
<1> SUFFICES ASSUME BeforeDisabled PROVE [Port!PortNext]_PortState
  OBVIOUS
<1>1. adv'.allowed = FALSE /\ quiesced' = quiesced /\ currentReport' = Up
  BY DEF BeforeDisabled, ClosedAdvertising
<1>2. Ready(conn)' = FALSE
  BY DEF BeforeDisabled, Ready
<1>3. PortState' = [allowed |-> FALSE, halted |-> quiesced, ready |-> FALSE, image |-> Up]
  BY <1>1, <1>2 DEF PortState
<1>4. PortState' = Port!Reset(PortState)
  BY <1>3 DEF PortState, Port!Reset
<1>5. QED
  BY <1>4 DEF Port!PortNext, PortState

LEMMA NextPort == Typed /\ QuiescedLater /\ [Next]_vars => [Port!PortNext]_PortState
<1> SUFFICES ASSUME Typed, QuiescedLater, [Next]_vars PROVE [Port!PortNext]_PortState
  OBVIOUS
<1>1. CASE Dispatch
  BY <1>1, DispatchPort
<1>2. CASE Loop
  BY <1>2, LoopPort
<1>3. CASE Quiesce
  BY <1>3, QuiescePort
<1>4. CASE Resume
  BY <1>4, ResumePort
<1>5. CASE BeforeDisabled
  BY <1>5, BeforeDisabledPort
<1>6. CASE \E r \in Reports : SubmitReport(r)
  BY <1>6, SubmitReportPort
<1>7. CASE \E allowed \in BOOLEAN : SetAdvertisingAllowed(allowed)
  BY <1>7, GatePort
<1>8. CASE Begin
  <2>1. UNCHANGED <<quiesced, currentReport, adv>>
    BY <1>8 DEF Begin, QuiescedLater, Typed, reportVars, advVars
  <2>2. QED
    BY <2>1, ReadinessChanges
<1>9. CASE \/ BleEnabled \/ OtherAdvertises \/ TimePasses \/ RequestCompletes \/ AdvertiserActs
           \/ \E h \in Hosts : HostConnects(h) \/ LinkCloses(h)
           \/ \E h \in Hosts, what \in HostActs : HostActsOn(h, what)
           \/ UNCHANGED vars
  <2>1. UNCHANGED <<quiesced, currentReport, adv>>
    BY <1>9 DEF BleEnabled, OtherAdvertises, TimePasses, RequestCompletes, AdvertiserActs,
                HostConnects, LinkCloses, HostActsOn, vars, reportVars, advVars, linkExcept, codeVars
  <2>2. QED
    BY <2>1, ReadinessChanges
<1>10. QED
  BY <1>1, <1>2, <1>3, <1>4, <1>5, <1>6, <1>7, <1>8, <1>9 DEF Next

LEMMA NextQuiescedLater == QuiescedLater /\ [Next]_vars => QuiescedLater'
<1> SUFFICES ASSUME QuiescedLater, [Next]_vars PROVE QuiescedLater'
  OBVIOUS
<1>1. CASE Begin \/ Quiesce \/ Resume
  <2>1. begun' = TRUE \/ (begun /\ begun' = begun)
    BY <1>1 DEF Begin, Quiesce, Resume
  <2>2. QED
    BY <2>1 DEF QuiescedLater
<1>2. CASE ~(Begin \/ Quiesce \/ Resume)
  <2>1. UNCHANGED <<begun, quiesced>>
    BY <1>2 DEF Next, Dispatch, Loop, BeforeDisabled, BleEnabled, OtherAdvertises, TimePasses,
                RequestCompletes, AdvertiserActs, HostConnects, LinkCloses, HostActsOn,
                SubmitReport, SetAdvertisingAllowed, vars, linkExcept, codeVars
  <2>2. QED
    BY <2>1 DEF QuiescedLater
<1>3. QED
  BY <1>1, <1>2

LEMMA InitPort == Init => Port!PortInit
<1> SUFFICES ASSUME Init PROVE Port!PortInit
  OBVIOUS
<1>1. Ready(conn) = FALSE
  BY DEF Init, Ready
<1>2. QED
  BY <1>1 DEF Init, ClosedAdvertising, Port!PortInit, Port!NewKeyboard

\* To the bridge HidKeyboard is the keyboard of KeyboardPort, for whatever the
\* stack loses or refuses and whatever hosts do: a closed or quiesced gate stays
\* so until the bridge opens it, readiness is never reported while quiesced, and
\* the report changes only by a call of the bridge or to the empty one.
THEOREM RefinesPort == Spec => ImplementsPort
<1>1. Init => Port!PortInit /\ QuiescedLater
  BY InitPort DEF Init, QuiescedLater
<1>2. Typed /\ QuiescedLater /\ [Next]_vars => QuiescedLater' /\ [Port!PortNext]_PortState
  BY NextPort, NextQuiescedLater
<1>3. QED
  BY <1>1, <1>2, Types, PTL DEF Spec, ImplementsPort, Port!PortSpec, PortState
-----------------------------------------------------------------------------
(* The links.                                                              *)

LinkEvent(type, h) == [type |-> type, host |-> h]
Awaits(type, h) == \E i \in Positions : events[i] = LinkEvent(type, h)

\* A link is that of the accepted host, one being turned away, or new.
LinksKnown ==
  ~failed => \A h \in linked : h = conn.peer \/ h \in closing \/ Awaits("connect", h)

\* The accepted host has a link, or is about to be missed.
HostLinked ==
  ~failed /\ Connected(conn) => conn.peer \in linked \/ Awaits("disconnect", conn.peer)

\* The last event of a host tells whether it has a link.
LastTells(h) ==
  \A i \in Positions :
    /\ h \in linked /\ events[i] = LinkEvent("disconnect", h) =>
         \E j \in Positions : i < j /\ events[j] = LinkEvent("connect", h)
    /\ h \notin linked /\ events[i] = LinkEvent("connect", h) =>
         \E j \in Positions : i < j /\ events[j] = LinkEvent("disconnect", h)

LinkInv == LinksKnown /\ HostLinked /\ \A h \in Hosts : LastTells(h)

LEMMA LinkEventsDiffer ==
  \A h, g : /\ LinkEvent("connect", h) # LinkEvent("disconnect", g)
            /\ \A t : LinkEvent(t, h).type = t /\ LinkEvent(t, h).host = h
BY DEF LinkEvent

\* What the queue still tells when its first event is taken, or one is added
\* that is not about this host's link.
LEMMA AwaitsOnTaken ==
  ASSUME events \in Seq(Event), events # <<>>, events' = Tail(events), NEW t, NEW h,
         Awaits(t, h), events[1] # LinkEvent(t, h)
  PROVE  Awaits(t, h)'
<1>1. PICK i \in Positions : events[i] = LinkEvent(t, h)
  BY DEF Awaits
<1>2. i # 1
  BY <1>1
<1>3. i - 1 \in Positions' /\ events'[i - 1] = LinkEvent(t, h)
  BY <1>1, <1>2, Dequeued
<1>4. QED
  BY <1>3 DEF Awaits

LEMMA LastTellsTaken ==
  ASSUME events \in Seq(Event), events # <<>>, events' = Tail(events), NEW h,
         UNCHANGED linked, LastTells(h)
  PROVE  LastTells(h)'
<1> SUFFICES ASSUME NEW i \in Positions'
             PROVE  /\ h \in linked /\ events'[i] = LinkEvent("disconnect", h) =>
                         \E j \in Positions' : i < j /\ events'[j] = LinkEvent("connect", h)
                    /\ h \notin linked /\ events'[i] = LinkEvent("connect", h) =>
                         \E j \in Positions' : i < j /\ events'[j] = LinkEvent("disconnect", h)
  BY DEF LastTells
<1>1. i \in Nat /\ i + 1 \in Positions /\ events'[i] = events[i + 1]
  BY Dequeued DEF Positions
<1>2. ASSUME NEW t, NEW j \in Positions, i + 1 < j, events[j] = LinkEvent(t, h)
      PROVE  \E k \in Positions' : i < k /\ events'[k] = LinkEvent(t, h)
  <2>1. j \in Nat /\ j # 1 /\ i < j - 1
    BY <1>1, <1>2, Dequeued DEF Positions
  <2>2. j - 1 \in Positions' /\ events'[j - 1] = LinkEvent(t, h)
    BY <1>2, <2>1, Dequeued
  <2>3. QED
    BY <2>1, <2>2
<1>3. QED
  BY <1>1, <1>2 DEF LastTells

LEMMA AwaitsOnAdded ==
  ASSUME events \in Seq(Event), NEW e \in Event, events' = Append(events, e), NEW t, NEW h
  PROVE  (Awaits(t, h) \/ e = LinkEvent(t, h)) => Awaits(t, h)'
<1>1. Len(events) + 1 \in Positions'
  BY Appended
<1>2. QED
  BY <1>1, Appended DEF Awaits

LEMMA LastTellsAdded ==
  ASSUME events \in Seq(Event), NEW e \in Event, events' = Append(events, e), NEW h,
         h \in linked <=> h \in linked', LastTells(h),
         h \in linked => e # LinkEvent("disconnect", h),
         h \notin linked => e # LinkEvent("connect", h)
  PROVE  LastTells(h)'
<1> SUFFICES ASSUME NEW i \in Positions'
             PROVE  /\ h \in linked' /\ events'[i] = LinkEvent("disconnect", h) =>
                         \E j \in Positions' : i < j /\ events'[j] = LinkEvent("connect", h)
                    /\ h \notin linked' /\ events'[i] = LinkEvent("connect", h) =>
                         \E j \in Positions' : i < j /\ events'[j] = LinkEvent("disconnect", h)
  BY DEF LastTells
<1>1. CASE i \in Positions
  <2>1. events'[i] = events[i]
    BY <1>1, Appended
  <2>2. \A j \in Positions : j \in Positions' /\ events'[j] = events[j]
    BY Appended
  <2>3. QED
    BY <1>1, <2>1, <2>2 DEF LastTells
<1>2. CASE events'[i] = e
  BY <1>2
<1>3. QED
  BY <1>1, <1>2, Appended

\* The event that tells of a new or lost link comes last.
LEMMA LastTellsNews ==
  ASSUME events \in Seq(Event), NEW t \in {"connect", "disconnect"}, NEW h \in Hosts,
         events' = Append(events, LinkEvent(t, h)), LinkEvent(t, h) \in Event,
         h \in linked' <=> t = "connect"
  PROVE  LastTells(h)'
<1>1. /\ Len(events) + 1 \in Positions' /\ Len(events) \in Nat
      /\ events'[Len(events) + 1] = LinkEvent(t, h)
      /\ \A i \in Positions' : i \in Nat /\ (i < Len(events) + 1 \/ i = Len(events) + 1)
  BY Appended
<1>2. \A i \in Positions' : events'[i] # LinkEvent(t, h) => i < Len(events) + 1
  BY <1>1
<1>3. CASE t = "connect"
  BY <1>1, <1>2, <1>3, LinkEventsDiffer DEF LastTells
<1>4. CASE t = "disconnect"
  BY <1>1, <1>2, <1>4, LinkEventsDiffer DEF LastTells
<1>5. QED
  BY <1>3, <1>4

\* Most steps are about no link.
LEMMA LinksKept ==
  ASSUME events \in Seq(Event), LinkInv, UNCHANGED linked, conn'.peer = conn.peer,
         closing \subseteq closing', failed => failed',
         \/ UNCHANGED events
         \/ \E e \in Event : /\ e.type \notin {"connect", "disconnect"}
                             /\ events' = Append(events, e)
  PROVE  LinkInv'
<1>1. ASSUME NEW t, NEW h, Awaits(t, h)
      PROVE  Awaits(t, h)'
  BY <1>1, AwaitsOnAdded DEF Awaits, Positions
<1>2. ASSUME NEW h \in Hosts
      PROVE  LastTells(h)'
  <2>1. LastTells(h)
    BY DEF LinkInv
  <2>2. CASE UNCHANGED events
    BY <2>1, <2>2 DEF LastTells, Positions
  <2>3. CASE \E e \in Event : /\ e.type \notin {"connect", "disconnect"}
                              /\ events' = Append(events, e)
    <3>1. PICK e \in Event : e.type \notin {"connect", "disconnect"} /\ events' = Append(events, e)
      BY <2>3
    <3>2. e # LinkEvent("connect", h) /\ e # LinkEvent("disconnect", h)
      BY <3>1, LinkEventsDiffer
    <3>3. QED
      BY <2>1, <3>1, <3>2, LastTellsAdded
  <2>4. QED
    BY <2>2, <2>3
<1>3. LinksKnown'
  BY <1>1 DEF LinkInv, LinksKnown
<1>4. HostLinked'
  BY <1>1 DEF LinkInv, HostLinked, Connected
<1>5. QED
  BY <1>2, <1>3, <1>4 DEF LinkInv
LEMMA OnConnectLinks ==
  ASSUME Typed, LinkInv, ~failed, NEW e \in Event, e.type = "connect", e = events[1],
         events # <<>>, events' = Tail(events), UNCHANGED linked, OnConnect(e)
  PROVE  LinksKnown' /\ HostLinked'
<1> DEFINE g == e.host
<1>1. g \in Hosts /\ e = LinkEvent("connect", g)
  BY LinkEventFields DEF LinkEvents, LinkEvent
<1>2. NoHost \notin Hosts /\ linked \subseteq Hosts
  BY HostAssumption DEF Typed, StackTyped
<1>3. ASSUME NEW h, Awaits("connect", h)
      PROVE  h = g \/ Awaits("connect", h)'
  BY <1>1, <1>3, AwaitsOnTaken, LinkEventsDiffer DEF Typed
<1>4. ASSUME NEW h, Awaits("disconnect", h)
      PROVE  Awaits("disconnect", h)'
  BY <1>1, <1>4, AwaitsOnTaken, LinkEventsDiffer DEF Typed
<1>5. \A h \in linked : h = conn.peer \/ h \in closing \/ Awaits("connect", h)
  BY DEF LinkInv, LinksKnown
<1>6. CASE TurnedAway(g)
  <2>1. conn' = conn /\ closing' = closing \union ({g} \intersect linked)
    BY <1>6 DEF OnConnect, Disconnect
  <2>2. LinksKnown'
    BY <1>3, <1>5, <2>1 DEF LinksKnown
  <2>3. HostLinked'
    BY <1>4, <2>1 DEF LinkInv, HostLinked
  <2>4. QED
    BY <2>2, <2>3
<1>7. CASE ~TurnedAway(g)
  <2>1. /\ conn'.peer = g /\ closing' = closing
        /\ ~Connected(conn) \/ conn.peer = g
    BY <1>7 DEF OnConnect, TurnedAway, NoConnection
  <2>2. \A h \in linked : h = conn.peer => h = g
    BY <1>2, <2>1 DEF Connected
  <2>3. LinksKnown'
    BY <1>3, <1>5, <2>1, <2>2 DEF LinksKnown
  <2>4. CASE g \in linked
    BY <2>1, <2>3, <2>4 DEF HostLinked
  <2>5. CASE g \notin linked
    <3>1. 1 \in Positions /\ events[1] = LinkEvent("connect", g)
      BY <1>1, Dequeued DEF Typed
    <3>2. LastTells(g)
      BY <1>1 DEF LinkInv
    <3>3. Awaits("disconnect", g)
      BY <2>5, <3>1, <3>2 DEF LastTells, Awaits
    <3>4. QED
      BY <1>4, <2>1, <2>3, <3>3 DEF HostLinked
  <2>6. QED
    BY <2>4, <2>5
<1>8. QED
  BY <1>6, <1>7

LEMMA OnDisconnectLinks ==
  ASSUME Typed, LinkInv, ~failed, NEW e \in Event, e.type = "disconnect", e = events[1],
         events # <<>>, events' = Tail(events), UNCHANGED <<linked, closing>>, OnDisconnect(e)
  PROVE  LinksKnown' /\ HostLinked'
<1> DEFINE g == e.host
<1>1. g \in Hosts /\ e = LinkEvent("disconnect", g)
  BY LinkEventFields DEF LinkEvents, LinkEvent
<1>2. ASSUME NEW h, Awaits("connect", h)
      PROVE  Awaits("connect", h)'
  BY <1>1, <1>2, AwaitsOnTaken, LinkEventsDiffer DEF Typed
<1>3. ASSUME NEW h, Awaits("disconnect", h)
      PROVE  h = g \/ Awaits("disconnect", h)'
  BY <1>1, <1>3, AwaitsOnTaken, LinkEventsDiffer DEF Typed
<1>4. \A h \in linked : h = conn.peer \/ h \in closing \/ Awaits("connect", h)
  BY DEF LinkInv, LinksKnown
<1>5. CASE Connected(conn) /\ conn.peer = g
  <2>1. ~Connected(conn')
    BY <1>5 DEF OnDisconnect, ClearConnection, NoConnection, Connected
  <2>2. g \in linked => Awaits("connect", g)
    <3>1. 1 \in Positions /\ events[1] = LinkEvent("disconnect", g)
      BY <1>1, Dequeued DEF Typed
    <3>2. LastTells(g)
      BY <1>1 DEF LinkInv
    <3>3. QED
      BY <3>1, <3>2 DEF LastTells, Awaits
  <2>3. LinksKnown'
    BY <1>2, <1>4, <1>5, <2>2 DEF LinksKnown
  <2>4. HostLinked'
    BY <2>1 DEF HostLinked, Connected
  <2>5. QED
    BY <2>3, <2>4
<1>6. CASE ~(Connected(conn) /\ conn.peer = g)
  <2>1. conn' = conn
    BY <1>6 DEF OnDisconnect
  <2>2. LinksKnown'
    BY <1>2, <1>4, <2>1 DEF LinksKnown
  <2>3. HostLinked'
    BY <1>3, <1>6, <2>1 DEF LinkInv, HostLinked
  <2>4. QED
    BY <2>2, <2>3
<1>7. QED
  BY <1>5, <1>6

LEMMA DispatchLinks == Typed /\ LinkInv /\ Dispatch => LinkInv'
<1> SUFFICES ASSUME Typed, LinkInv, Dispatch PROVE LinkInv'
  OBVIOUS
<1> DEFINE e == events[1]
<1> HIDE DEF e
<1>1. /\ e \in Event /\ e = events[1] /\ UNCHANGED linked
      /\ events \in Seq(Event) /\ events # <<>> /\ events' = Tail(events)
  BY DispatchEffect DEF e, Typed
<1>2. PICK f : \/ e.type \in BuildTypes /\ HandleBuild(e, f)
               \/ e.type \in {"connect", "disconnect"} /\ HandleLink(e)
               \/ e.type = "host" /\ HandleHost(e, f)
               \/ e.type \in {"adv_start", "adv_stop"} /\ HandleAdvertising(e, f)
  BY DispatchEffect DEF e
<1>3. \A h \in Hosts : LastTells(h)'
  BY <1>1, LastTellsTaken DEF LinkInv
<1>4. CASE failed /\ failed'
  BY <1>3, <1>4 DEF LinkInv, LinksKnown, HostLinked
<1>5. CASE ~failed /\ e.type = "connect" /\ HandleLink(e)
  <2>1. OnConnect(e)
    BY <1>5 DEF HandleLink
  <2>2. QED
    BY <1>1, <1>3, <1>5, <2>1, OnConnectLinks DEF LinkInv
<1>6. CASE ~failed /\ e.type = "disconnect" /\ HandleLink(e)
  <2>1. OnDisconnect(e) /\ UNCHANGED closing
    BY <1>6 DEF HandleLink
  <2>2. QED
    BY <1>1, <1>3, <1>6, <2>1, OnDisconnectLinks DEF LinkInv
<1>7. CASE e.type \notin {"connect", "disconnect"} /\ ~failed
  <2>1. UNCHANGED closing /\ conn'.peer = conn.peer
    <3>1. CASE HandleBuild(e, f)
      BY <3>1 DEF HandleBuild
    <3>2. CASE e.type = "host" /\ HandleHost(e, f)
      BY <1>1, <3>2, HostEventFields, OnHostType DEF Typed, HandleHost
    <3>3. CASE HandleAdvertising(e, f)
      BY <3>3 DEF HandleAdvertising
    <3>4. QED
      BY <1>2, <1>7, <3>1, <3>2, <3>3
  <2>2. ASSUME NEW t \in {"connect", "disconnect"}, NEW h, Awaits(t, h)
        PROVE  Awaits(t, h)'
    BY <1>1, <1>7, <2>2, AwaitsOnTaken, LinkEventsDiffer
  <2>3. LinksKnown'
    BY <1>1, <1>7, <2>1, <2>2 DEF LinkInv, LinksKnown
  <2>4. HostLinked'
    BY <1>1, <1>7, <2>1, <2>2 DEF LinkInv, HostLinked, Connected
  <2>5. QED
    BY <1>3, <2>3, <2>4 DEF LinkInv
<1>8. failed => failed'
  BY <1>2 DEF HandleBuild, HandleLink, HandleHost, HandleAdvertising, buildVars
<1>9. QED
  BY <1>2, <1>4, <1>5, <1>6, <1>7, <1>8 DEF BuildTypes

LEMMA HostConnectsLinks ==
  ASSUME Typed, LinkInv, NEW h \in Hosts, HostConnects(h)
  PROVE  LinkInv'
<1>1. /\ events \in Seq(Event) /\ LinkEvent("connect", h) \in Event
      /\ events' = Append(events, LinkEvent("connect", h))
      /\ h \notin linked /\ linked' = linked \union {h}
      /\ UNCHANGED <<conn, closing, failed>>
  BY DEF HostConnects, Typed, LinkEvent, Event, LinkEvents, linkExcept, codeVars
<1>2. \A t, g : Awaits(t, g) \/ LinkEvent("connect", h) = LinkEvent(t, g) => Awaits(t, g)'
  BY <1>1, AwaitsOnAdded
<1>3. LinksKnown'
  BY <1>1, <1>2 DEF LinkInv, LinksKnown
<1>4. HostLinked'
  BY <1>1, <1>2 DEF LinkInv, HostLinked
<1>5. LastTells(h)'
  BY <1>1, LastTellsNews
<1>6. ASSUME NEW g \in Hosts, g # h
      PROVE  LastTells(g)'
  <2>1. /\ LinkEvent("connect", h) # LinkEvent("disconnect", g)
        /\ LinkEvent("connect", h) # LinkEvent("connect", g)
    BY <1>6, LinkEventsDiffer
  <2>2. g \in linked <=> g \in linked'
    BY <1>1, <1>6
  <2>3. LastTells(g)
    BY DEF LinkInv
  <2>4. QED
    BY <1>1, <2>1, <2>2, <2>3, LastTellsAdded
<1>7. QED
  BY <1>3, <1>4, <1>5, <1>6 DEF LinkInv

LEMMA LinkClosesLinks ==
  ASSUME Typed, LinkInv, NEW h \in Hosts, LinkCloses(h)
  PROVE  LinkInv'
<1>1. /\ events \in Seq(Event) /\ LinkEvent("disconnect", h) \in Event
      /\ events' = Append(events, LinkEvent("disconnect", h))
      /\ h \in linked /\ linked' = linked \ {h} /\ closing' = closing \ {h}
      /\ UNCHANGED <<conn, failed>>
  BY DEF LinkCloses, Typed, LinkEvent, Event, LinkEvents, linkExcept, codeVars
<1>2. \A t, g : Awaits(t, g) \/ LinkEvent("disconnect", h) = LinkEvent(t, g) => Awaits(t, g)'
  BY <1>1, AwaitsOnAdded
<1>3. LinksKnown'
  BY <1>1, <1>2 DEF LinkInv, LinksKnown
<1>4. HostLinked'
  BY <1>1, <1>2 DEF LinkInv, HostLinked
<1>5. LastTells(h)'
  BY <1>1, LastTellsNews
<1>6. ASSUME NEW g \in Hosts, g # h
      PROVE  LastTells(g)'
  <2>1. /\ LinkEvent("disconnect", h) # LinkEvent("disconnect", g)
        /\ LinkEvent("disconnect", h) # LinkEvent("connect", g)
    BY <1>6, LinkEventsDiffer
  <2>2. g \in linked <=> g \in linked'
    BY <1>1, <1>6
  <2>3. LastTells(g)
    BY DEF LinkInv
  <2>4. QED
    BY <1>1, <2>1, <2>2, <2>3, LastTellsAdded
<1>7. QED
  BY <1>3, <1>4, <1>5, <1>6 DEF LinkInv
\* What the stack answers and what hosts do leaves the events of links alone.
LEMMA OtherEventsAdded ==
  ASSUME Typed,
         \/ RequestCompletes \/ AdvertiserActs
         \/ \E h \in Hosts, what \in HostActs : HostActsOn(h, what)
  PROVE  \/ UNCHANGED events
         \/ \E e \in Event : e.type \notin {"connect", "disconnect"} /\ events' = Append(events, e)
<1>1. CASE RequestCompletes
  <2>1. PICK f : Answer([type |-> request.op, stage |-> request.stage,
                         index |-> request.index, ok |-> f # "build_refused"], f)
    BY <1>1 DEF RequestCompletes
  <2>2. request \in WholeDatabase /\ request.op \in BuildTypes
    BY <1>1, StepFields DEF RequestCompletes, Typed, BuildTyped
  <2>3. PICK ok \in BOOLEAN : ok = (f # "build_refused")
    OBVIOUS
  <2>4. [type |-> request.op, stage |-> request.stage, index |-> request.index, ok |-> ok] \in Event
    BY <2>2, BuildEventType
  <2>5. QED
    BY <2>1, <2>2, <2>3, <2>4 DEF Answer, BuildTypes
<1>2. CASE AdvertiserActs
  <2>1. PICK f :
          LET start == Head(advCommands) = "start"
              refused == f = IF start THEN "start_refused" ELSE "stop_refused"
          IN Answer([type |-> IF start THEN "adv_start" ELSE "adv_stop", ok |-> ~refused], f)
    BY <1>2 DEF AdvertiserActs
  <2>2. PICK t \in {"adv_start", "adv_stop"} :
          t = IF Head(advCommands) = "start" THEN "adv_start" ELSE "adv_stop"
    OBVIOUS
  <2>3. PICK ok \in BOOLEAN :
          ok = ~(f = IF Head(advCommands) = "start" THEN "start_refused" ELSE "stop_refused")
    OBVIOUS
  <2>4. [type |-> t, ok |-> ok] \in Event
    BY DEF Event, AdvertisingEvents
  <2>5. QED
    BY <2>1, <2>2, <2>3, <2>4 DEF Answer
<1>3. CASE \E h \in Hosts, what \in HostActs : HostActsOn(h, what)
  <2>1. PICK h \in Hosts, what \in HostActs :
          events' = Append(events, [type |-> "host", host |-> h, what |-> what])
    BY <1>3 DEF HostActsOn
  <2>2. [type |-> "host", host |-> h, what |-> what] \in Event
    BY EnvironmentAssumption DEF Event, HostEvents
  <2>3. QED
    BY <2>1, <2>2
<1>4. QED
  BY <1>1, <1>2, <1>3

LEMMA NextLinks == Typed /\ LinkInv /\ [Next]_vars => LinkInv'
<1> SUFFICES ASSUME Typed, LinkInv, [Next]_vars PROVE LinkInv'
  OBVIOUS
<1>1. CASE Dispatch
  BY <1>1, DispatchLinks
<1>2. CASE \E h \in Hosts : HostConnects(h) \/ LinkCloses(h)
  BY <1>2, HostConnectsLinks, LinkClosesLinks
<1>3. CASE BeforeDisabled
  <2>1. /\ linked' = {} /\ events' = <<>> /\ conn' = NoConnection
        /\ \A h : h \notin linked'
    BY <1>3 DEF BeforeDisabled
  <2>2. Positions' = {} /\ ~Connected(conn')
    BY <2>1 DEF Positions, NoConnection, Connected
  <2>3. QED
    BY <2>1, <2>2 DEF LinkInv, LinksKnown, HostLinked, LastTells
<1>4. CASE Loop
  <2>1. UNCHANGED <<linked, conn, closing, events>>
    BY <1>4 DEF Loop, LoopBuildTimeout, LoopRegister, radioVars
  <2>2. ~failed
    BY <1>4 DEF Loop
  <2>3. QED
    BY <2>1, <2>2, LinksKept DEF Typed
<1>5. CASE Quiesce
  <2>1. UNCHANGED <<linked, conn, events, failed>> /\ closing \subseteq closing'
    BY <1>5 DEF Quiesce, QuiesceHost, Disconnect, radioVars, buildVars
  <2>2. QED
    BY <2>1, LinksKept DEF Typed
<1>6. CASE RequestCompletes \/ AdvertiserActs
           \/ \E h \in Hosts, what \in HostActs : HostActsOn(h, what)
  <2>1. UNCHANGED <<linked, conn, closing, failed>>
    BY <1>6 DEF RequestCompletes, AdvertiserActs, HostActsOn, linkExcept, codeVars
  <2>2. QED
    BY <1>6, <2>1, OtherEventsAdded, LinksKept DEF Typed
<1>7. CASE \/ Begin \/ Resume \/ BleEnabled \/ OtherAdvertises \/ TimePasses
           \/ \E r \in Reports : SubmitReport(r)
           \/ \E allowed \in BOOLEAN : SetAdvertisingAllowed(allowed)
           \/ UNCHANGED vars
  <2>1. UNCHANGED <<linked, conn, closing, events, failed>>
    BY <1>7 DEF Begin, Resume, BleEnabled, OtherAdvertises, TimePasses, SubmitReport,
                SetAdvertisingAllowed, vars, buildVars, radioVars, linkExcept, codeVars
  <2>2. QED
    BY <2>1, LinksKept DEF Typed
<1>8. QED
  BY <1>1, <1>2, <1>3, <1>4, <1>5, <1>6, <1>7 DEF Next

LEMMA InitLinks == Init => LinkInv
<1> SUFFICES ASSUME Init PROVE LinkInv
  OBVIOUS
<1>1. linked = {} /\ events = <<>> /\ conn = NoConnection
  BY DEF Init
<1>2. Positions = {} /\ ~Connected(conn)
  BY <1>1 DEF Positions, NoConnection, Connected
<1>3. QED
  BY <1>1, <1>2 DEF LinkInv, LinksKnown, HostLinked, LastTells

\* No link is forgotten: until its event is handled it is in the queue, and then
\* it is the accepted host's or is being closed, however often hosts come back
\* before the code has heard of their going; and a host whose link is gone is
\* not held as connected beyond the event that tells of it.
THEOREM LinksAccountedFor == Spec => []EveryLinkAccountedFor
<1>1. Typed /\ LinkInv /\ [Next]_vars => LinkInv'
  BY NextLinks
<1>2. LinkInv => EveryLinkAccountedFor
  BY DEF LinkInv, LinksKnown, HostLinked, EveryLinkAccountedFor, Awaits, LinkEvent, Positions
<1>3. QED
  BY <1>1, <1>2, InitLinks, Types, PTL DEF Spec
-----------------------------------------------------------------------------
(* No report is forgotten: the half of HostCatchesUp that is an invariant. *)

\* The accepted host has been told the current report, or a report is still due, or
\* the loss of the host is about to be handled.
ReportIsOwed ==
  /\ ~failed /\ ~quiesced
  /\ Connected(conn) /\ conn.peer \in linked
  /\ shown[conn.peer] # currentReport
  => pendingReport \/ Awaits("disconnect", conn.peer)

LEMMA OwedKept ==
  ASSUME ReportIsOwed, failed => failed', quiesced => quiesced' \/ pendingReport',
         conn'.peer = conn.peer, UNCHANGED <<currentReport, shown, linked>>,
         pendingReport => pendingReport',
         \A h : h = conn.peer /\ Awaits("disconnect", h) => Awaits("disconnect", h)'
  PROVE  ReportIsOwed'
<1>1. PICK h : h = conn.peer
  OBVIOUS
<1>2. Awaits("disconnect", h) => Awaits("disconnect", h)'
  BY <1>1
<1>3. Awaits("disconnect", h)' => Awaits("disconnect", conn.peer)'
  BY <1>1 DEF Awaits
<1>4. Awaits("disconnect", conn.peer) => Awaits("disconnect", h)
  BY <1>1
<1>5. QED
  BY <1>2, <1>3, <1>4 DEF ReportIsOwed, Connected

\* A notification tells the host, or leaves it to be told.
LEMMA NotifiedOrOwed ==
  ASSUME ReportTyped, NEW c, c.peer \in Hosts, c.peer \in linked, NEW r, NEW known, NEW f,
         NEW pending, Notify(c, r, known, f), pendingReport' = StillPending(c, pending, f)
  PROVE  \/ pendingReport'
         \/ shown'[c.peer] = r
         \/ ~CanNotify(c) /\ UNCHANGED shown /\ pendingReport' = pending
<1>1. CASE CanNotify(c) /\ f # "send_error"
  BY <1>1 DEF Notify, ReportTyped
<1>2. CASE CanNotify(c) /\ f = "send_error"
  BY <1>2 DEF StillPending
<1>3. CASE ~CanNotify(c)
  BY <1>3 DEF Notify, StillPending
<1>4. QED
  BY <1>1, <1>2, <1>3

\* So does an event of the host, whatever it says.
LEMMA OnHostOwed ==
  ASSUME Typed, ReportIsOwed, NEW e, e.what \in AllActs, NEW f, OnHost(e, f),
         UNCHANGED <<failed, quiesced, linked>>,
         \A h : h = conn.peer /\ Awaits("disconnect", h) => Awaits("disconnect", h)'
  PROVE  ReportIsOwed'
<1>1. conn' \in Connections /\ conn'.peer = conn.peer
  BY OnHostType DEF Typed
<1>2. CASE UNCHANGED reportVars
  BY <1>1, <1>2, OwedKept DEF reportVars
<1>3. ASSUME NEW c, NEW pending, conn' = c, UNCHANGED currentReport, pendingReport => pending,
             Notify(c, currentReport, {}, f), pendingReport' = StillPending(c, pending, f)
      PROVE  ReportIsOwed'
  <2>1. CASE Connected(conn) /\ conn.peer \in linked
    <3>1. c.peer = conn.peer /\ conn.peer \in Hosts
      BY <1>1, <1>3, <2>1 DEF Typed, Connections, Connected
    <3>2. \/ pendingReport'
          \/ shown'[c.peer] = currentReport
          \/ UNCHANGED shown /\ pendingReport' = pending
      BY <1>3, <2>1, <3>1, NotifiedOrOwed DEF Typed
    <3>3. QED
      BY <1>1, <1>3, <2>1, <3>1, <3>2 DEF ReportIsOwed
  <2>2. CASE ~(Connected(conn) /\ conn.peer \in linked)
    BY <1>1, <2>2 DEF ReportIsOwed, Connected
  <2>3. QED
    BY <2>1, <2>2
<1>4. CASE OnCongest(e, f)
  <2>1. CASE UNCHANGED reportVars
    BY <1>2, <2>1
  <2>2. CASE ~UNCHANGED reportVars
    BY <1>3, <1>4, <2>2 DEF OnCongest
  <2>3. QED
    BY <2>1, <2>2
<1>5. CASE OnWrite(e, f)
  BY <1>3, <1>5 DEF OnWrite
<1>6. QED
  BY <1>2, <1>4, <1>5 DEF OnHost, OnAuthentication

LEMMA DispatchOwed == Typed /\ LinkInv /\ ReportIsOwed /\ Dispatch => ReportIsOwed'
<1> SUFFICES ASSUME Typed, LinkInv, ReportIsOwed, Dispatch PROVE ReportIsOwed'
  OBVIOUS
<1> DEFINE e == events[1]
<1> HIDE DEF e
<1>1. /\ e \in Event /\ e = events[1] /\ UNCHANGED <<linked, quiesced>>
      /\ events \in Seq(Event) /\ events # <<>> /\ events' = Tail(events)
  BY DispatchEffect DEF e, Typed
<1>2. PICK f : \/ e.type \in BuildTypes /\ HandleBuild(e, f)
               \/ e.type \in {"connect", "disconnect"} /\ HandleLink(e)
               \/ e.type = "host" /\ HandleHost(e, f)
               \/ e.type \in {"adv_start", "adv_stop"} /\ HandleAdvertising(e, f)
  BY DispatchEffect DEF e
<1>3. ASSUME NEW h, e # LinkEvent("disconnect", h), Awaits("disconnect", h)
      PROVE  Awaits("disconnect", h)'
  BY <1>1, <1>3, AwaitsOnTaken
<1>4. ASSUME e.type # "disconnect", NEW h, Awaits("disconnect", h)
      PROVE  Awaits("disconnect", h)'
  BY <1>3, <1>4, LinkEventsDiffer
<1>5. ASSUME e.type # "disconnect", failed => failed', UNCHANGED <<conn, reportVars>>
      PROVE  ReportIsOwed'
  BY <1>1, <1>4, <1>5, OwedKept DEF reportVars
<1>6. CASE e.type \in BuildTypes /\ HandleBuild(e, f)
  <2>1. failed => failed'
    BY <1>6 DEF HandleBuild, buildVars
  <2>2. e.type # "disconnect" /\ UNCHANGED <<conn, reportVars>>
    BY <1>6, HandlesGrow DEF BuildTypes
  <2>3. QED
    BY <1>5, <2>1, <2>2
<1>7. CASE e.type = "connect" /\ HandleLink(e)
  <2>1. UNCHANGED <<failed, currentReport, shown>>
    BY <1>7 DEF HandleLink, buildVars, reportVars
  <2>2. CASE UNCHANGED <<conn, pendingReport>>
    BY <1>1, <1>4, <1>7, <2>1, <2>2, OwedKept
  <2>3. CASE pendingReport'
    BY <2>3 DEF ReportIsOwed
  <2>4. QED
    BY <1>7, <2>2, <2>3 DEF HandleLink, OnConnect, reportVars
<1>8. CASE e.type = "disconnect" /\ HandleLink(e)
  <2>1. UNCHANGED failed
    BY <1>8 DEF HandleLink, buildVars
  <2>2. CASE failed
    BY <2>1, <2>2 DEF ReportIsOwed
  <2>3. CASE ~failed /\ Connected(conn) /\ conn.peer = e.host
    <3>1. conn' = NoConnection
      BY <1>8, <2>3 DEF HandleLink, OnDisconnect, ClearConnection
    <3>2. QED
      BY <3>1 DEF ReportIsOwed, Connected, NoConnection
  <2>4. CASE ~failed /\ ~(Connected(conn) /\ conn.peer = e.host)
    <3>1. UNCHANGED <<conn, reportVars>>
      BY <1>8, <2>4 DEF HandleLink, OnDisconnect
    <3>2. CASE Connected(conn)
      <4>1. \A h : h = conn.peer => e # LinkEvent("disconnect", h)
        BY <2>4, <3>2, LinkEventsDiffer
      <4>2. QED
        BY <1>1, <1>3, <2>1, <3>1, <4>1, OwedKept DEF reportVars
    <3>3. CASE ~Connected(conn)
      BY <3>1, <3>3 DEF ReportIsOwed, Connected
    <3>4. QED
      BY <3>2, <3>3
  <2>5. QED
    BY <2>2, <2>3, <2>4
<1>9. CASE e.type = "host" /\ HandleHost(e, f)
  <2>1. OnHost(e, f) /\ UNCHANGED failed /\ e.what \in AllActs
    BY <1>1, <1>9, HostEventFields DEF HandleHost, buildVars
  <2>2. QED
    BY <1>1, <1>4, <1>9, <2>1, OnHostOwed
<1>10. CASE e.type \in {"adv_start", "adv_stop"} /\ HandleAdvertising(e, f)
  BY <1>5, <1>10 DEF HandleAdvertising, buildVars
<1>11. QED
  BY <1>2, <1>6, <1>7, <1>8, <1>9, <1>10
LEMMA LoopOwed == Typed /\ ReportIsOwed /\ Loop => ReportIsOwed'
<1> SUFFICES ASSUME Typed, ReportIsOwed, Loop PROVE ReportIsOwed'
  OBVIOUS
<1>1. UNCHANGED <<quiesced, conn, linked, events>>
  BY DEF Loop, LoopBuildTimeout, LoopRegister, radioVars
<1>2. \A h : Awaits("disconnect", h) => Awaits("disconnect", h)'
  BY <1>1 DEF Awaits, Positions
<1>3. PICK f : \/ failed'
               \/ UNCHANGED <<failed, reportVars>>
               \/ UNCHANGED failed /\ LoopReport(f)
  BY DEF Loop, LoopBuildTimeout, LoopRegister, buildVars
<1>4. CASE failed'
  BY <1>4 DEF ReportIsOwed
<1>5. CASE UNCHANGED <<failed, reportVars>>
  BY <1>1, <1>2, <1>5, OwedKept DEF reportVars
<1>6. CASE UNCHANGED <<failed, currentReport>> /\ Notify(conn, currentReport, {}, f)
           /\ pendingReport' = StillPending(conn, TRUE, f)
  <2>1. CASE Connected(conn) /\ conn.peer \in linked
    <3>1. conn.peer \in Hosts
      BY <2>1 DEF Typed, Connections, Connected
    <3>2. pendingReport' \/ shown'[conn.peer] = currentReport
      BY <1>6, <2>1, <3>1, NotifiedOrOwed DEF Typed
    <3>3. QED
      BY <1>1, <1>6, <3>2 DEF ReportIsOwed
  <2>2. QED
    BY <1>1, <2>1 DEF ReportIsOwed, Connected
<1>7. QED
  BY <1>3, <1>4, <1>5, <1>6 DEF LoopReport

LEMMA SubmitOwed ==
  ASSUME Typed, ReportIsOwed, NEW r \in Reports, SubmitReport(r)
  PROVE  ReportIsOwed'
<1>1. UNCHANGED <<failed, quiesced, conn, linked, events>>
  BY DEF SubmitReport, buildVars, radioVars
<1>2. PICK f : SendReport(r, f)
  BY DEF SubmitReport
<1>3. CASE quiesced
  BY <1>1, <1>3 DEF ReportIsOwed
<1>4. CASE ~quiesced /\ Connected(conn) /\ conn.peer \in linked
  <2>1. conn.peer \in Hosts
    BY <1>4 DEF Typed, Connections, Connected
  <2>2. /\ currentReport' = r /\ Notify(conn, r, handles, f)
        /\ pendingReport' = StillPending(conn, TRUE, f)
    BY <1>2, <1>4 DEF SendReport
  <2>3. pendingReport' \/ shown'[conn.peer] = currentReport'
    BY <1>4, <2>1, <2>2, NotifiedOrOwed DEF Typed
  <2>4. QED
    BY <1>1, <2>3 DEF ReportIsOwed
<1>5. CASE ~(Connected(conn) /\ conn.peer \in linked)
  BY <1>1, <1>5 DEF ReportIsOwed, Connected
<1>6. QED
  BY <1>3, <1>4, <1>5

LEMMA LinksOwed ==
  ASSUME Typed, LinkInv, ReportIsOwed, NEW h \in Hosts, HostConnects(h) \/ LinkCloses(h)
  PROVE  ReportIsOwed'
<1>1. UNCHANGED <<failed, quiesced, conn, currentReport, pendingReport>>
  BY DEF HostConnects, LinkCloses, linkExcept, codeVars
<1>2. CASE HostConnects(h)
  <2>1. /\ events \in Seq(Event) /\ LinkEvent("connect", h) \in Event
        /\ events' = Append(events, LinkEvent("connect", h))
        /\ h \notin linked /\ linked' = linked \union {h} /\ UNCHANGED shown
    BY <1>2 DEF HostConnects, Typed, LinkEvent, Event, LinkEvents, linkExcept
  <2>2. \A g : Awaits("disconnect", g) => Awaits("disconnect", g)'
    BY <2>1, AwaitsOnAdded
  <2>3. PICK g : g = conn.peer
    OBVIOUS
  <2>4. ~failed /\ Connected(conn) /\ g = h => Awaits("disconnect", g)
    BY <2>1, <2>3 DEF LinkInv, HostLinked
  <2>5. /\ Awaits("disconnect", conn.peer) => Awaits("disconnect", g)
        /\ Awaits("disconnect", g)' => Awaits("disconnect", conn.peer)'
    BY <1>1, <2>3 DEF Awaits
  <2>6. QED
    BY <1>1, <2>1, <2>2, <2>3, <2>4, <2>5 DEF ReportIsOwed, Connected
<1>3. CASE LinkCloses(h)
  <2>1. /\ events \in Seq(Event) /\ LinkEvent("disconnect", h) \in Event
        /\ events' = Append(events, LinkEvent("disconnect", h))
        /\ linked' = linked \ {h} /\ shown' = [shown EXCEPT ![h] = Up]
    BY <1>3 DEF LinkCloses, Typed, LinkEvent, Event, LinkEvents
  <2>2. \A g : Awaits("disconnect", g) => Awaits("disconnect", g)'
    BY <2>1, AwaitsOnAdded
  <2>3. \A g \in linked' : g \in linked /\ shown'[g] = shown[g]
    BY <2>1 DEF Typed, ReportTyped, StackTyped
  <2>4. PICK g : g = conn.peer
    OBVIOUS
  <2>5. /\ Awaits("disconnect", conn.peer) => Awaits("disconnect", g)
        /\ Awaits("disconnect", g)' => Awaits("disconnect", conn.peer)'
    BY <1>1, <2>4 DEF Awaits
  <2>6. QED
    BY <1>1, <2>2, <2>3, <2>4, <2>5 DEF ReportIsOwed, Connected
<1>4. QED
  BY <1>2, <1>3

LEMMA NextOwed ==
  Typed /\ LinkInv /\ QuiescedLater /\ ReportIsOwed /\ [Next]_vars => ReportIsOwed'
<1> SUFFICES ASSUME Typed, LinkInv, QuiescedLater, ReportIsOwed, [Next]_vars
             PROVE  ReportIsOwed'
  OBVIOUS
<1>1. CASE Dispatch
  BY <1>1, DispatchOwed
<1>2. CASE Loop
  BY <1>2, LoopOwed
<1>3. CASE Quiesce \/ Resume
  BY <1>3 DEF Quiesce, Resume, ReportIsOwed
<1>4. CASE \E r \in Reports : SubmitReport(r)
  BY <1>4, SubmitOwed
<1>5. CASE BeforeDisabled
  BY <1>5 DEF BeforeDisabled, ReportIsOwed
<1>6. CASE \E h \in Hosts : HostConnects(h) \/ LinkCloses(h)
  BY <1>6, LinksOwed
<1>7. CASE \/ RequestCompletes \/ AdvertiserActs
           \/ \E h \in Hosts, what \in HostActs : HostActsOn(h, what)
  <2>1. UNCHANGED <<failed, quiesced, conn, currentReport, pendingReport, shown, linked>>
    BY <1>7 DEF RequestCompletes, AdvertiserActs, HostActsOn, linkExcept, codeVars
  <2>2. \/ UNCHANGED events
        \/ \E e \in Event : events' = Append(events, e)
    BY <1>7, OtherEventsAdded
  <2>3. \A h : Awaits("disconnect", h) => Awaits("disconnect", h)'
    <3>1. CASE UNCHANGED events
      BY <3>1 DEF Awaits, Positions
    <3>2. QED
      BY <2>2, <3>1, AwaitsOnAdded DEF Typed
  <2>4. QED
    BY <2>1, <2>3, OwedKept
<1>8. CASE \/ Begin \/ BleEnabled \/ OtherAdvertises \/ TimePasses
           \/ \E allowed \in BOOLEAN : SetAdvertisingAllowed(allowed)
           \/ UNCHANGED vars
  <2>1. UNCHANGED <<failed, conn, currentReport, pendingReport, shown, linked, events>>
    BY <1>8 DEF Begin, BleEnabled, OtherAdvertises, TimePasses, SetAdvertisingAllowed, vars,
                buildVars, reportVars, radioVars, linkExcept, codeVars
  <2>2. UNCHANGED quiesced \/ ~begun
    BY <1>8 DEF Begin, BleEnabled, OtherAdvertises, TimePasses, SetAdvertisingAllowed, vars,
                linkExcept, codeVars
  <2>3. \A h : Awaits("disconnect", h) => Awaits("disconnect", h)'
    BY <2>1 DEF Awaits, Positions
  <2>4. QED
    BY <2>1, <2>2, <2>3, OwedKept DEF QuiescedLater
<1>9. QED
  BY <1>1, <1>2, <1>3, <1>4, <1>5, <1>6, <1>7, <1>8 DEF Next

\* A host that has not been told the current report is not forgotten, whatever was
\* refused, deferred, congested or suspended when it changed: pending_report_ is
\* still set for loop(), or the loss of the host is queued.  HostCatchesUp adds,
\* under fairness, that the report is then sent.
THEOREM NoReportForgotten == Spec => []ReportIsOwed
<1>1. Init => LinkInv /\ QuiescedLater /\ ReportIsOwed
  BY InitLinks DEF Init, QuiescedLater, ReportIsOwed, Connected, NoConnection
<1>2. Typed /\ LinkInv /\ QuiescedLater /\ ReportIsOwed /\ [Next]_vars =>
        LinkInv' /\ QuiescedLater' /\ ReportIsOwed'
  BY NextLinks, NextQuiescedLater, NextOwed
<1>3. QED
  BY <1>1, <1>2, Types, PTL DEF Spec
-----------------------------------------------------------------------------
(* The offer is never given up: the half of Discoverable that is an        *)
(* invariant.                                                              *)

\* While the keyboard is on offer and nobody is connected, advertising is desired.
OfferIsWanted == Offered /\ ~Connected(conn) => adv.desired

LEMMA AdvertiseWants ==
  ASSUME NEW a \in AdvertisingStates, NEW ready, NEW connected, NEW quiet,
         Advertise(a, ready, connected, quiet)
  PROVE  ready /\ a.allowed /\ ~quiet /\ ~failed => adv'.desired
<1> DEFINE wanted == [a EXCEPT !.desired = TRUE]
           started == [wanted EXCEPT !.startRequested = TRUE]
<1>1. wanted.desired /\ started.desired
  BY DEF AdvertisingStates
<1>2. ready /\ a.allowed /\ ~quiet /\ ~failed => adv' \in {wanted, started}
  BY DEF Advertise
<1> HIDE DEF wanted, started
<1>3. QED
  BY <1>1, <1>2

LEMMA StopWants ==
  ASSUME NEW a \in AdvertisingStates, NEW f, StopAdvertising(a, f)
  PROVE  a.desired => adv'.desired
<1> DEFINE inactive == [a EXCEPT !.active = FALSE]
           stopping == [a EXCEPT !.stopRequested = TRUE]
<1>1. a.desired => inactive.desired /\ stopping.desired
  BY DEF AdvertisingStates
<1>2. adv' \in {a, inactive, stopping}
  BY DEF StopAdvertising
<1> HIDE DEF inactive, stopping
<1>3. QED
  BY <1>1, <1>2

LEMMA OfferKept ==
  ASSUME OfferIsWanted, servicesReady' => servicesReady, failed => failed',
         quiesced' = quiesced, conn'.peer = conn.peer, adv'.allowed = adv.allowed,
         Offered /\ ~Connected(conn) /\ adv.desired => adv'.desired
  PROVE  OfferIsWanted'
BY DEF OfferIsWanted, Offered, Connected

LEMMA HandleAdvertisingOffer ==
  ASSUME Typed, OfferIsWanted, NEW e, e.ok \in BOOLEAN, NEW f, HandleAdvertising(e, f),
         UNCHANGED quiesced
  PROVE  OfferIsWanted'
<1>1. UNCHANGED <<servicesReady, failed, conn>>
  BY DEF HandleAdvertising, buildVars
<1>2. adv'.allowed = adv.allowed
  BY OnAdvStartType, OnAdvStopType DEF HandleAdvertising, Typed
<1>3. ASSUME Offered, ~Connected(conn), adv.desired
      PROVE  adv'.desired
  <2>1. PICK a \in AdvertisingStates :
          /\ a.desired = adv.desired /\ a.allowed = adv.allowed
          /\ \/ StopAdvertising(a, f)
             \/ Advertise(a, TRUE, FALSE, FALSE)
             \/ adv' = a
    <3> DEFINE started == [adv EXCEPT !.startRequested = FALSE, !.active = e.ok]
               stopped == [adv EXCEPT !.active = ~e.ok, !.startRequested = FALSE,
                                      !.stopRequested = FALSE]
    <3>1. /\ started \in AdvertisingStates /\ started.desired = adv.desired
          /\ started.allowed = adv.allowed
      BY DEF Typed, AdvertisingTyped, AdvertisingStates
    <3>2. /\ stopped \in AdvertisingStates /\ stopped.desired = adv.desired
          /\ stopped.allowed = adv.allowed
      BY DEF Typed, AdvertisingTyped, AdvertisingStates
    <3>3. OnAdvStart(e, f) => StopAdvertising(started, f) \/ adv' = started
      BY DEF OnAdvStart
    <3>4. OnAdvStop(e, f) =>
            StopAdvertising(stopped, f) \/ Advertise(stopped, TRUE, FALSE, FALSE) \/ adv' = stopped
      BY DEF OnAdvStop
    <3> HIDE DEF started, stopped
    <3>5. QED
      BY <3>1, <3>2, <3>3, <3>4 DEF HandleAdvertising
  <2>2. QED
    BY <1>3, <2>1, AdvertiseWants, StopWants DEF Offered
<1>4. QED
  BY <1>1, <1>2, <1>3, OfferKept

LEMMA DispatchOffer == Typed /\ OfferIsWanted /\ Dispatch => OfferIsWanted'
<1> SUFFICES ASSUME Typed, OfferIsWanted, Dispatch PROVE OfferIsWanted'
  OBVIOUS
<1> DEFINE e == events[1]
<1> HIDE DEF e
<1>1. e \in Event /\ UNCHANGED quiesced
  BY DispatchEffect DEF e
<1>2. PICK f : \/ e.type \in BuildTypes /\ HandleBuild(e, f)
               \/ e.type \in {"connect", "disconnect"} /\ HandleLink(e)
               \/ e.type = "host" /\ HandleHost(e, f)
               \/ e.type \in {"adv_start", "adv_stop"} /\ HandleAdvertising(e, f)
  BY DispatchEffect DEF e
<1>3. adv \in AdvertisingStates
  BY DEF Typed, AdvertisingTyped
<1>4. CASE HandleBuild(e, f)
  <2>1. UNCHANGED conn /\ (failed => failed')
    BY <1>4 DEF HandleBuild, buildVars
  <2>2. \/ (servicesReady' => servicesReady) /\ UNCHANGED adv
        \/ Advertise(adv, TRUE, Connected(conn), quiesced) /\ UNCHANGED failed
    BY <1>4 DEF HandleBuild, OnReg, OnCreate, OnInclude, OnAttribute, OnStart, BuildFails,
                buildVars, advVars
  <2>3. CASE (servicesReady' => servicesReady) /\ UNCHANGED adv
    BY <1>1, <2>1, <2>3, OfferKept
  <2>4. CASE Advertise(adv, TRUE, Connected(conn), quiesced) /\ UNCHANGED failed
    BY <1>1, <1>3, <2>4, AdvertiseWants, AdvertiseType DEF Typed, OfferIsWanted, Offered
  <2>5. QED
    BY <2>2, <2>3, <2>4
<1>5. CASE e.type \in {"connect", "disconnect"} /\ HandleLink(e)
  <2>1. UNCHANGED <<servicesReady, failed>>
    BY <1>5 DEF HandleLink, buildVars
  <2>2. CASE UNCHANGED <<adv, conn>>
    BY <1>1, <2>1, <2>2, OfferKept
  <2>3. CASE conn' = [NoConnection EXCEPT !.peer = e.host]
    <3>1. conn'.peer = e.host
      BY <2>3 DEF NoConnection
    <3>2. Connected(conn')
      BY <1>1, <1>5, <3>1, LinkEventFields, HostAssumption DEF Connected
    <3>3. QED
      BY <3>2 DEF OfferIsWanted, Connected
  <2>4. CASE Advertise(adv, servicesReady, FALSE, quiesced)
    BY <1>1, <1>3, <2>1, <2>4, AdvertiseWants, AdvertiseType DEF Typed, OfferIsWanted, Offered
  <2>5. QED
    BY <1>5, <2>2, <2>3, <2>4 DEF HandleLink, OnConnect, OnDisconnect, advVars
<1>6. CASE e.type = "host" /\ HandleHost(e, f)
  <2>1. conn'.peer = conn.peer /\ UNCHANGED <<servicesReady, failed, adv>>
    BY <1>1, <1>6, HostEventFields, OnHostType DEF HandleHost, Typed, buildVars, advVars
  <2>2. QED
    BY <1>1, <2>1, OfferKept
<1>7. CASE e.type \in {"adv_start", "adv_stop"} /\ HandleAdvertising(e, f)
  BY <1>1, <1>7, AdvertisingEventFields, HandleAdvertisingOffer
<1>8. QED
  BY <1>2, <1>4, <1>5, <1>6, <1>7

LEMMA LoopOffer == Typed /\ OfferIsWanted /\ Loop => OfferIsWanted'
<1> SUFFICES ASSUME Typed, OfferIsWanted, Loop PROVE OfferIsWanted'
  OBVIOUS
<1>1. UNCHANGED <<quiesced, conn, servicesReady>> /\ (failed => failed')
  BY DEF Loop, LoopBuildTimeout, LoopRegister, buildVars
<1>2. PICK f : UNCHANGED advVars \/ LoopAdvertising(f)
  BY DEF Loop, LoopBuildTimeout, LoopRegister
<1>3. CASE UNCHANGED advVars
  BY <1>1, <1>3, OfferKept DEF advVars
<1>4. CASE LoopAdvertising(f)
  <2>1. adv'.allowed = adv.allowed
    BY <1>4, LoopAdvertisingType DEF Typed
  <2>2. ASSUME Offered, ~Connected(conn), adv.desired
        PROVE  adv'.desired
    <3>1. PICK a \in AdvertisingStates :
            /\ a.desired = adv.desired /\ a.allowed = adv.allowed
            /\ Advertise(a, TRUE, FALSE, FALSE) \/ adv' = a
      <4> DEFINE cleared == [adv EXCEPT !.active = FALSE, !.startRequested = FALSE,
                                        !.stopRequested = FALSE]
                 a == IF Overdue THEN cleared ELSE adv
      <4>1. a \in AdvertisingStates /\ a.desired = adv.desired /\ a.allowed = adv.allowed
        BY DEF Typed, AdvertisingTyped, AdvertisingStates
      <4>2. ~StartMissing
        BY <2>2 DEF Offered, StartMissing
      <4>3. Advertise(a, TRUE, FALSE, FALSE) \/ adv' = a \/ UNCHANGED advVars
        BY <1>4, <4>2 DEF LoopAdvertising
      <4> HIDE DEF a
      <4>4. QED
        BY <4>1, <4>3 DEF advVars, Typed, AdvertisingTyped
    <3>2. QED
      BY <2>2, <3>1, AdvertiseWants DEF Offered
  <2>3. QED
    BY <1>1, <2>1, <2>2, OfferKept
<1>5. QED
  BY <1>2, <1>3, <1>4

LEMMA NextOffer == Typed /\ QuiescedLater /\ OfferIsWanted /\ [Next]_vars => OfferIsWanted'
<1> SUFFICES ASSUME Typed, QuiescedLater, OfferIsWanted, [Next]_vars PROVE OfferIsWanted'
  OBVIOUS
<1>1. CASE Dispatch
  BY <1>1, DispatchOffer
<1>2. CASE Loop
  BY <1>2, LoopOffer
<1>3. CASE Resume
  <2>1. UNCHANGED <<servicesReady, failed>> /\ adv'.allowed = adv.allowed
    BY <1>3, ResumeType DEF Resume, buildVars
  <2>2. QED
    BY <1>3, <2>1, AdvertiseWants DEF Resume, Typed, AdvertisingTyped, OfferIsWanted, Offered
<1>4. CASE Quiesce \/ BeforeDisabled
  BY <1>4 DEF Quiesce, BeforeDisabled, OfferIsWanted, Offered
<1>5. CASE \E allowed \in BOOLEAN : SetAdvertisingAllowed(allowed)
  <2>1. PICK allowed \in BOOLEAN : SetAdvertisingAllowed(allowed)
    BY <1>5
  <2>2. UNCHANGED <<servicesReady, failed, quiesced>> /\ adv'.allowed = allowed
    BY <2>1, SetAdvertisingAllowedType DEF SetAdvertisingAllowed, buildVars
  <2>3. CASE allowed
    <3> DEFINE a == [adv EXCEPT !.allowed = allowed, !.desired = allowed /\ @]
    <3>1. a \in AdvertisingStates /\ a.allowed
      BY <2>3 DEF Typed, AdvertisingTyped, AdvertisingStates
    <3>2. Advertise(a, servicesReady, Connected(conn), quiesced)
      BY <2>1, <2>3 DEF SetAdvertisingAllowed
    <3> HIDE DEF a
    <3>3. servicesReady /\ ~quiesced /\ ~failed => adv'.desired
      BY <3>1, <3>2, AdvertiseWants DEF Typed, BuildTyped
    <3>4. QED
      BY <2>2, <3>3 DEF OfferIsWanted, Offered
  <2>4. QED
    BY <2>2, <2>3 DEF OfferIsWanted, Offered
<1>6. CASE \/ Begin \/ BleEnabled \/ OtherAdvertises \/ TimePasses
           \/ \E r \in Reports : SubmitReport(r)
           \/ RequestCompletes \/ AdvertiserActs
           \/ \E h \in Hosts : HostConnects(h) \/ LinkCloses(h)
           \/ \E h \in Hosts, what \in HostActs : HostActsOn(h, what)
           \/ UNCHANGED vars
  <2>1. UNCHANGED <<servicesReady, failed, conn, adv>>
    BY <1>6 DEF Begin, BleEnabled, OtherAdvertises, TimePasses, SubmitReport,
                RequestCompletes, AdvertiserActs, HostConnects, LinkCloses, HostActsOn,
                vars, buildVars, advVars, linkExcept, codeVars
  <2>2. UNCHANGED quiesced \/ Begin
    BY <1>6 DEF BleEnabled, OtherAdvertises, TimePasses, SubmitReport,
                RequestCompletes, AdvertiserActs, HostConnects, LinkCloses, HostActsOn,
                vars, linkExcept, codeVars
  <2>3. UNCHANGED quiesced
    BY <2>2 DEF Begin, QuiescedLater, Typed
  <2>4. QED
    BY <2>1, <2>3, OfferKept
<1>7. QED
  BY <1>1, <1>2, <1>3, <1>4, <1>5, <1>6 DEF Next

\* An open gate is never forgotten: whatever order the gate, the database, a host's
\* coming and going, a quiesced bridge and the answers to advertising commands came
\* in, advertising_desired_ is set while a host could be let in, so that loop() goes
\* on trying.  Discoverable adds, under fairness, that it then succeeds.
THEOREM OfferNeverDropped == Spec => []OfferIsWanted
<1>1. Init => QuiescedLater /\ OfferIsWanted
  BY DEF Init, QuiescedLater, OfferIsWanted, Offered
<1>2. Typed /\ QuiescedLater /\ OfferIsWanted /\ [Next]_vars =>
        QuiescedLater' /\ OfferIsWanted'
  BY NextQuiescedLater, NextOffer
<1>3. QED
  BY <1>1, <1>2, Types, PTL DEF Spec

=============================================================================
