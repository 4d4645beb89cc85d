---------------------------- MODULE BridgeProofs -----------------------------
(***************************************************************************)
(* Proofs about Bridge for any set of reports and either environment: the  *)
(* types, the safety invariants, that the sessions it puts together are    *)
(* those of RideSession, that keys are not forgotten, and that the radio   *)
(* is quiet during an update.                                              *)
(*                                                                         *)
(* The invariant is a conjunction of parts over a state s, because the     *)
(* handlers are compositions of operators from state to state.  For each   *)
(* operator one lemma says what it does to the fields the invariant reads, *)
(* another that it keeps a sound state sound; the handlers follow by       *)
(* putting these together, and no handler is ever expanded as a whole.     *)
(***************************************************************************)
EXTENDS Bridge, TLAPS

-----------------------------------------------------------------------------
(* Types.                                                                  *)

Typed(s) == s \in States /\ (s.hasAddress => s.addressSelected)

LEMMA PortTypes ==
  ASSUME NEW k \in Port!Keyboards
  PROVE  /\ \A r \in Reports : Port!Send(k, r) \in Port!Keyboards
         /\ Port!Allow(k) \in Port!Keyboards
         /\ Port!Disallow(k) \in Port!Keyboards
         /\ Port!Halt(k) \in Port!Keyboards
         /\ Port!Reset(k) \in Port!Keyboards
         /\ Port!HostReady(k) \in Port!Keyboards
         /\ Port!HostUnready(k) \in Port!Keyboards
         /\ Port!HostLost(k) \in Port!Keyboards
         /\ \A ready \in BOOLEAN : Port!Resumed(k, ready) \in Port!Keyboards
<1> USE DEF Port!Keyboards, Reports
<1>1. \A r \in Reports : Port!Send(k, r) \in Port!Keyboards
  BY DEF Port!Send
<1>2. Port!Allow(k) \in Port!Keyboards /\ Port!Disallow(k) \in Port!Keyboards
  BY DEF Port!Allow, Port!Disallow
<1>3. Port!Halt(k) \in Port!Keyboards /\ Port!Reset(k) \in Port!Keyboards
  BY DEF Port!Halt, Port!Reset
<1>4. Port!HostReady(k) \in Port!Keyboards /\ Port!HostUnready(k) \in Port!Keyboards
      /\ Port!HostLost(k) \in Port!Keyboards
  BY DEF Port!HostReady, Port!HostUnready, Port!HostLost
<1>5. \A ready \in BOOLEAN : Port!Resumed(k, ready) \in Port!Keyboards
  BY DEF Port!Resumed
<1> QED BY <1>1, <1>2, <1>3, <1>4, <1>5

LEMMA KeyboardTyped == \A s \in States : s.kb \in Port!Keyboards
BY DEF States

LEMMA BleTyped == \A s \in States : s.bleActive \in BOOLEAN
BY DEF States

LEMMA UpReport == Up \in Reports
BY DEF Reports

LEMMA ClientTypes ==
  ASSUME NEW s, Typed(s)
  PROVE  Typed(ClientDisconnect(s)) /\ Typed(Enable(s)) /\ Typed(Disable(s))
<1>1. Typed(ClientDisconnect(s))
  <2>1. CASE s.client = "DISCOVERED"
    BY <2>1 DEF Typed, ClientDisconnect, States, ClientStates
  <2>2. CASE s.client # "DISCOVERED"
    BY <2>2 DEF Typed, ClientDisconnect, States, ClientStates
  <2> QED BY <2>1, <2>2
<1>2. Typed(Enable(s))
  BY ZenonT(60) DEF Typed, Enable, States
<1>3. \A t : Typed(t) => Typed([t EXCEPT !.enabled = FALSE])
  BY ZenonT(60) DEF Typed, States
<1> QED BY <1>1, <1>2, <1>3 DEF Disable

LEMMA ScannerTypes ==
  ASSUME NEW s, Typed(s)
  PROVE  Typed(StopScan(s)) /\ Typed(UpdateScannerPolicy(s)) /\ Typed(OnScannerState(s))
<1>1. Typed(StopScan(s))
  BY ZenonT(60) DEF Typed, StopScan, States, ScannerStates
<1>2. Typed([s EXCEPT !.continuous = TRUE,
                      !.scanner = IF @ = "IDLE" THEN "STARTING" ELSE @])
  BY ZenonT(60) DEF Typed, States, ScannerStates
<1> QED BY <1>1, <1>2 DEF UpdateScannerPolicy, OnScannerState

LEMMA ReportTypes ==
  ASSUME NEW s, Typed(s), NEW ok \in BOOLEAN
  PROVE  /\ Typed(QueueCurrentReport(s)) /\ Typed(SubmitPendingReport(s, ok))
         /\ Typed(ReleaseAll(s, ok))
<1>1. Typed(QueueCurrentReport(s))
  BY DEF Typed, QueueCurrentReport, States
<1>2. s.kb \in Port!Keyboards /\ s.pendingReport \in Reports
  BY DEF Typed, States
<1>3. Port!Send(s.kb, s.pendingReport) \in Port!Keyboards /\ Port!Send(s.kb, Up) \in Port!Keyboards
  BY <1>2, PortTypes, UpReport
<1>4. Typed(SubmitPendingReport(s, ok))
  <2>1. (~ok) \in BOOLEAN
    OBVIOUS
  <2>2. \A b \in BOOLEAN, k \in Port!Keyboards :
          Typed([s EXCEPT !.kb = k, !.reportPending = b])
    BY DEF Typed, States
  <2> QED BY <1>3, <2>1, <2>2 DEF SubmitPendingReport
<1>5. Typed(ReleaseAll(s, ok))
  BY <1>3, UpReport DEF Typed, ReleaseAll, States
<1> QED BY <1>1, <1>4, <1>5

LEMMA ForgetTypes ==
  ASSUME NEW s, Typed(s)
  PROVE  Typed(ForgetSuppression(s)) /\ Typed(CloseInput(s)) /\ Typed(ReopenInput(s))
<1>1. Typed(ForgetSuppression(s))
  BY DEF Typed, ForgetSuppression, States
<1>2. Typed(CloseInput(s))
  BY DEF Typed, CloseInput, States
<1>3. Typed([s EXCEPT !.sessionQuiesced = FALSE])
  BY DEF Typed, States
<1> QED BY <1>1, <1>2, <1>3 DEF ReopenInput

LEMMA WithKeyboard ==
  ASSUME NEW s, Typed(s), NEW k \in Port!Keyboards
  PROVE  Typed([s EXCEPT !.kb = k])
BY DEF Typed, States

LEMMA QuiesceTypes ==
  ASSUME NEW s, Typed(s), NEW ok \in BOOLEAN
  PROVE  Typed(QuiesceBridge(s, ok))
<1> DEFINE closed == CloseInput(ReleaseAll(UpdateScannerPolicy(ForgetSuppression(s)), ok))
<1>1. Typed(closed)
  BY ForgetTypes, ScannerTypes, ReportTypes
<1>2. Port!Halt(closed.kb) \in Port!Keyboards
  BY <1>1, KeyboardTyped, PortTypes DEF Typed
<1>3. Typed([closed EXCEPT !.kb = Port!Halt(closed.kb)])
  BY <1>1, <1>2, WithKeyboard
<1> QED BY <1>3, ClientTypes DEF QuiesceBridge

LEMMA SuppressionTypes ==
  ASSUME NEW s, Typed(s), NEW ready \in BOOLEAN, NEW ok \in BOOLEAN
  PROVE  Typed(EndSuppression(s, ready)) /\ Typed(DisconnectIdle(s, ok))
<1>1. Typed(EndSuppression(s, ready))
  <2> DEFINE t == Enable(ForgetSuppression(s))
  <2>1. Typed(t)
    BY ForgetTypes, ClientTypes
  <2> HIDE DEF t
  <2>2. t.kb \in Port!Keyboards /\ Port!Resumed(t.kb, ready) \in Port!Keyboards
    BY <2>1, KeyboardTyped, PortTypes DEF Typed
  <2>3. Typed([t EXCEPT !.kb = IF s.releaseHidWhenIdle THEN Port!Resumed(@, ready) ELSE @])
    BY <2>1, <2>2, WithKeyboard
  <2> QED BY <2>3 DEF EndSuppression, t
<1>2. Typed(DisconnectIdle(s, ok))
  <2> DEFINE t == ReleaseAll(CloseInput(s), ok)
             u == [t EXCEPT !.suppressed = TRUE, !.policySuppressed = TRUE,
                            !.kb = IF s.releaseHidWhenIdle THEN Port!Halt(@)
                                   ELSE Port!Disallow(@)]
  <2>1. Typed(t)
    BY ForgetTypes, ReportTypes
  <2> HIDE DEF t
  <2>2. t.kb \in Port!Keyboards /\ Port!Halt(t.kb) \in Port!Keyboards
        /\ Port!Disallow(t.kb) \in Port!Keyboards
    BY <2>1, KeyboardTyped, PortTypes DEF Typed
  <2>3. Typed(u)
    BY <2>1, <2>2 DEF Typed, States
  <2> HIDE DEF u
  <2>4. Typed(Disable(u))
    BY <2>3, ClientTypes
  <2> QED BY <2>4 DEF DisconnectIdle, t, u
<1> QED BY <1>1, <1>2

LEMMA SessionTypes ==
  ASSUME NEW s, Typed(s), NEW ok \in BOOLEAN
  PROVE  Typed(OnRideDisconnected(s, ok)) /\ Typed(SessionEnds(s, ok))
<1>1. \A t : Typed(t) => Typed(OnRideDisconnected(t, ok))
  <2> SUFFICES ASSUME NEW t, Typed(t) PROVE Typed(OnRideDisconnected(t, ok))
    OBVIOUS
  <2> DEFINE u == ReleaseAll(CloseInput(t), ok)
  <2>1. Typed(u)
    BY ForgetTypes, ReportTypes
  <2> HIDE DEF u
  <2>2. Port!Disallow(u.kb) \in Port!Keyboards
    BY <2>1, KeyboardTyped, PortTypes DEF Typed
  <2>3. Typed([u EXCEPT !.kb = Port!Disallow(u.kb)])
    BY <2>1, <2>2, WithKeyboard
  <2> QED BY <2>3 DEF OnRideDisconnected, u
<1>2. Typed([s EXCEPT !.phase = "closed"])
  BY DEF Typed, States
<1> QED BY <1>1, <1>2 DEF SessionEnds

LEMMA LoopTypes ==
  ASSUME NEW s, Typed(s), NEW ok \in BOOLEAN, NEW ready \in BOOLEAN,
         NEW stalled \in BOOLEAN, NEW buzz \in BOOLEAN, NEW verdict
  PROVE  /\ Typed(EnsureRideAddress(s)) /\ Typed(UpdateIdlePolicy(s, verdict, ok, ready))
         /\ Typed(RideClientLoop(s, stalled, ok)) /\ Typed(WatchHost(s, ok))
         /\ Typed(SubmitUnlessQuiet(s, ok, buzz))
<1>1. Typed(EnsureRideAddress(s))
  BY DEF Typed, EnsureRideAddress, States
<1>2. Typed([s EXCEPT !.policySuppressed = FALSE])
  BY DEF Typed, States
<1>3. Typed(UpdateIdlePolicy(s, verdict, ok, ready))
  BY <1>2, SuppressionTypes DEF UpdateIdlePolicy
<1>4. Typed(RideClientLoop(s, stalled, ok))
  BY SessionTypes, ClientTypes DEF RideClientLoop
<1>5. \A b \in BOOLEAN : Typed([s EXCEPT !.hidReadyLast = b])
  BY DEF Typed, States
<1>6. Typed(WatchHost(s, ok))
  BY <1>5, ReportTypes DEF WatchHost
<1>7. \A t : Typed(t) => Typed([t EXCEPT !.hapticPending = @ /\ ~(buzz /\ s.phase = "ready")])
  <2> SUFFICES ASSUME NEW t, Typed(t)
               PROVE  Typed([t EXCEPT !.hapticPending = @ /\ ~(buzz /\ s.phase = "ready")])
    OBVIOUS
  <2>1. (t.hapticPending /\ ~(buzz /\ s.phase = "ready")) \in BOOLEAN
    OBVIOUS
  <2>2. \A b \in BOOLEAN : Typed([t EXCEPT !.hapticPending = b])
    BY DEF Typed, States
  <2> QED BY <2>1, <2>2
<1>8. Typed(SubmitUnlessQuiet(s, ok, buzz))
  BY <1>7, ReportTypes DEF SubmitUnlessQuiet
<1> QED BY <1>1, <1>3, <1>4, <1>6, <1>8

LEMMA EventTypes ==
  ASSUME NEW s, Typed(s), NEW pulse \in BOOLEAN, NEW wakes \in BOOLEAN,
         NEW ready \in BOOLEAN, NEW ok \in BOOLEAN, NEW r \in Reports,
         NEW changed \in BOOLEAN
  PROVE  /\ Typed(OnRideReady(s, pulse)) /\ Typed(OnRideNotification(s, r, changed, pulse))
         /\ Typed(ParseDevice(s, wakes, ready)) /\ Typed(ClientParsesDevice(s))
         /\ Typed(ResumeAfterOta(s, ready)) /\ Typed(BeforeDisabled(s, ok))
<1>1. Typed(OnRideReady(s, pulse))
  <2> DEFINE t == ForgetSuppression(s)
  <2>1. Typed(t)
    BY ForgetTypes
  <2> HIDE DEF t
  <2>2. Port!Allow(t.kb) \in Port!Keyboards /\ (t.hapticPending \/ pulse) \in BOOLEAN
    BY <2>1, KeyboardTyped, PortTypes DEF Typed
  <2>3. \A k \in Port!Keyboards, b \in BOOLEAN :
          Typed([t EXCEPT !.rideReady = TRUE, !.kb = k, !.hapticPending = b])
    BY <2>1, ZenonT(60) DEF Typed, States
  <2> QED BY <2>2, <2>3 DEF OnRideReady, t
<1>2. Typed(OnRideNotification(s, r, changed, pulse))
  <2>1. (s.hapticPending \/ pulse) \in BOOLEAN
    OBVIOUS
  <2>2. \A b \in BOOLEAN : Typed([s EXCEPT !.active = r, !.hapticPending = b])
    BY DEF Typed, States
  <2> QED BY <2>1, <2>2, ReportTypes DEF OnRideNotification
<1>3. Typed(ParseDevice(s, wakes, ready))
  <2>1. Typed([s EXCEPT !.addressSelected = TRUE, !.hasAddress = TRUE])
    BY DEF Typed, States
  <2> QED BY <2>1, SuppressionTypes DEF ParseDevice
<1>4. Typed(ClientParsesDevice(s))
  BY DEF Typed, ClientParsesDevice, States, ClientStates
<1>5. Typed(ResumeAfterOta(s, ready))
  <2>1. Port!Resumed(s.kb, ready) \in Port!Keyboards
    BY KeyboardTyped, PortTypes DEF Typed
  <2>2. Typed([s EXCEPT !.otaActive = FALSE, !.kb = Port!Resumed(@, ready)])
    BY <2>1 DEF Typed, States
  <2> QED BY <2>2, ClientTypes DEF ResumeAfterOta
<1>6. Typed(BeforeDisabled(s, ok))
  <2> DEFINE t == ForgetSuppression(ReleaseAll(s, ok))
  <2>1. Typed(t)
    BY ForgetTypes, ReportTypes
  <2> HIDE DEF t
  <2>2. Port!Reset(t.kb) \in Port!Keyboards
    BY <2>1, KeyboardTyped, PortTypes DEF Typed
  <2>3. Typed([t EXCEPT !.sessionQuiesced = TRUE, !.rideReady = FALSE, !.kb = Port!Reset(@)])
    BY <2>1, <2>2 DEF Typed, States
  <2> QED BY <2>3 DEF BeforeDisabled, t
<1> QED BY <1>1, <1>2, <1>3, <1>4, <1>5, <1>6

LEMMA WithMember ==
  ASSUME NEW s, Typed(s)
  PROVE  /\ \A c \in ClientStates : Typed([s EXCEPT !.client = c])
         /\ \A p \in {"closed", "opening", "subscribed", "ready"} :
              /\ Typed([s EXCEPT !.phase = p])
              /\ \A c \in ClientStates : Typed([s EXCEPT !.client = c, !.phase = p])
         /\ \A c \in ScannerStates : Typed([s EXCEPT !.scanner = c])
         /\ \A b \in BOOLEAN : /\ Typed([s EXCEPT !.otaActive = b])
                               /\ Typed([s EXCEPT !.stopped = b])
                               /\ Typed([s EXCEPT !.silent = b])
<1>1. \A c \in ClientStates : Typed([s EXCEPT !.client = c])
  BY ZenonT(60) DEF Typed, States
<1>2. \A p \in {"closed", "opening", "subscribed", "ready"} :
        /\ Typed([s EXCEPT !.phase = p])
        /\ \A c \in ClientStates : Typed([s EXCEPT !.client = c, !.phase = p])
  BY ZenonT(60) DEF Typed, States
<1>3. \A c \in ScannerStates : Typed([s EXCEPT !.scanner = c])
  BY ZenonT(60) DEF Typed, States
<1>4. \A b \in BOOLEAN : /\ Typed([s EXCEPT !.otaActive = b])
                         /\ Typed([s EXCEPT !.stopped = b])
                         /\ Typed([s EXCEPT !.silent = b])
  BY ZenonT(60) DEF Typed, States
<1> QED BY <1>1, <1>2, <1>3, <1>4

LEMMA InitialType == Init => TypeOK
<1> SUFFICES ASSUME Init PROVE TypeOK
  OBVIOUS
<1>1. Port!NewKeyboard \in Port!Keyboards
  BY DEF Port!NewKeyboard, Port!Keyboards
<1>2. PICK pinned \in BOOLEAN, releaseHid \in BOOLEAN :
        st = [rideReady |-> FALSE, sessionQuiesced |-> FALSE, suppressed |-> FALSE,
              otaActive |-> FALSE, stopped |-> FALSE, hidReadyLast |-> FALSE,
              reportPending |-> FALSE, pendingReport |-> Up, hapticPending |-> FALSE,
              addressSelected |-> pinned, releaseHidWhenIdle |-> releaseHid,
              active |-> Up, policySuppressed |-> FALSE,
              phase |-> "closed", kb |-> Port!NewKeyboard,
              bleActive |-> TRUE, client |-> "IDLE", enabled |-> TRUE,
              hasAddress |-> pinned, scanner |-> "IDLE", continuous |-> TRUE,
              silent |-> FALSE]
  BY DEF Init
<1>3. st \in States
  BY <1>1, <1>2, UpReport DEF States, ClientStates, ScannerStates
<1>4. st.hasAddress => st.addressSelected
  BY <1>2
<1> QED BY <1>3, <1>4 DEF Init, TypeOK

LEMMA LoopStepType ==
  ASSUME Typed(st), NEW verdict, NEW stalled \in BOOLEAN, NEW ok \in BOOLEAN,
         NEW ready \in BOOLEAN, NEW buzz \in BOOLEAN
  PROVE  Typed(LoopStep(verdict, stalled, ok, ready, buzz))
<1> DEFINE polled == UpdateIdlePolicy(EnsureRideAddress(st), verdict, ok, ready)
           checked == RideClientLoop(UpdateScannerPolicy(polled), stalled, ok)
           sent == SubmitUnlessQuiet(WatchHost(checked, ok), ok, buzz)
<1>1. Typed(polled)
  BY LoopTypes
<1> HIDE DEF polled
<1>2. Typed(checked)
  BY <1>1, ScannerTypes, LoopTypes
<1> HIDE DEF checked
<1>3. Typed(sent)
  BY <1>2, LoopTypes
<1> HIDE DEF sent
<1>4. Typed([sent EXCEPT !.silent = FALSE])
  BY <1>3, WithMember
<1> QED BY <1>4 DEF LoopStep, polled, checked, sent

LEMMA StepKeepsType == TypeOK /\ [Next]_vars => TypeOK'
<1> SUFFICES ASSUME TypeOK, [Next]_vars PROVE TypeOK'
  OBVIOUS
<1> USE DEF ClientStates, ScannerStates
<1>1. Typed(st) /\ stale \in BOOLEAN
  BY DEF TypeOK, Typed
<1>2. SUFFICES Typed(st') /\ stale' \in BOOLEAN
  BY DEF TypeOK, Typed
<1>3. st.bleActive \in BOOLEAN
  BY <1>1 DEF Typed, States
<1>3a. Typed([st EXCEPT !.client = "IDLE"])
  BY <1>1, WithMember
<1>4. CASE Loop
  <2>1. PICK verdict : LoopWith(verdict)
    BY <1>4 DEF Loop
  <2>2. PICK stalled \in BOOLEAN, ok \in BOOLEAN, buzz \in BOOLEAN, ready \in {FALSE, st.bleActive} :
          st' = LoopStep(verdict, stalled, ok, ready, buzz)
    BY <2>1 DEF LoopWith
  <2>3. Typed(st')
    BY <1>1, <1>3, <2>2, LoopStepType
  <2> QED BY <1>1, <2>1, <2>3 DEF LoopWith, Quiesced, NotQuiesced
<1>5. CASE ConnectEvent
  <2>1. Typed([st EXCEPT !.phase = "opening"])
    BY <1>1, WithMember
  <2> QED BY <1>5, <2>1, ForgetTypes DEF ConnectEvent
<1>6. CASE OpenEvent
  <2>1. /\ Typed([st EXCEPT !.client = "CONNECTED", !.phase = "opening"])
        /\ Typed([st EXCEPT !.client = "CLOSING", !.phase = "opening"])
    BY <1>1, WithMember
  <2> QED BY <1>1, <1>6, <2>1, ForgetTypes DEF OpenEvent, NotQuiesced
<1>7. CASE OpenFails
  BY <1>1, <1>7, <1>3a, SessionTypes DEF OpenFails, NotQuiesced
<1>8. CASE Subscribed
  BY <1>1, <1>8, WithMember DEF Subscribed, NotQuiesced
<1>9. CASE SessionReady
  <2>1. Typed([st EXCEPT !.phase = "ready"])
    BY <1>1, WithMember
  <2>2. \A pulse \in BOOLEAN : Typed(OnRideReady([st EXCEPT !.phase = "ready"], pulse))
    BY <2>1, EventTypes, UpReport
  <2> QED BY <1>9, <1>1, <2>2 DEF SessionReady, NotQuiesced
<1>10. CASE \E r \in Reports : Notification(r)
  <2>1. PICK r \in Reports, changed \in BOOLEAN, pulse \in BOOLEAN :
          st' = OnRideNotification(st, r, changed, pulse /\ r # Up)
    BY <1>10 DEF Notification
  <2>2. (pulse /\ r # Up) \in BOOLEAN
    OBVIOUS
  <2> QED BY <1>1, <1>10, <2>1, <2>2, EventTypes DEF Notification
<1>11. CASE LinkEnds
  BY <1>1, <1>11, <1>3a, SessionTypes DEF LinkEnds, NotQuiesced
<1>12. CASE LinkEndsSilently
  <2>1. Typed([st EXCEPT !.client = "IDLE", !.silent = TRUE])
    BY <1>1 DEF Typed, States
  <2> QED BY <1>1, <1>12, <2>1 DEF LinkEndsSilently
<1>13. CASE Sighting
  <2>1. PICK wakes \in BOOLEAN, ready \in BOOLEAN :
          st' = ClientParsesDevice(ParseDevice(st, wakes, ready))
    BY <1>3, <1>13 DEF Sighting
  <2>2. Typed(ParseDevice(st, wakes, ready))
    BY <1>1, EventTypes, UpReport
  <2>3. Typed(ClientParsesDevice(ParseDevice(st, wakes, ready)))
    BY <2>2, EventTypes, UpReport
  <2> QED BY <1>1, <1>13, <2>1, <2>3 DEF Sighting
<1>14. CASE ScannerStarts \/ ScannerFails \/ ScannerStops
  <2>1. \A c \in ScannerStates : Typed([st EXCEPT !.scanner = c])
    BY <1>1, WithMember
  <2>2. Typed(OnScannerState([st EXCEPT !.scanner = "RUNNING"]))
    BY <2>1, ScannerTypes
  <2> QED BY <1>1, <1>14, <2>1, <2>2 DEF ScannerStarts, ScannerFails, ScannerStops
<1>15. CASE TrackerRestarts \/ TrackerPromotes
  <2>1. /\ Typed([st EXCEPT !.scanner = "STARTING"]) /\ Typed([st EXCEPT !.scanner = "STOPPING"])
        /\ Typed([st EXCEPT !.client = "CONNECTING"])
    BY <1>1, WithMember
  <2> QED BY <1>1, <1>15, <2>1 DEF TrackerRestarts, TrackerPromotes
<1>16. CASE HostSubscribes \/ HostLeaves
  BY <1>1, <1>16, WithKeyboard, KeyboardTyped, PortTypes
  DEF HostSubscribes, HostLeaves, Typed
<1>17. CASE OtaStarts
  <2>1. Typed([st EXCEPT !.otaActive = TRUE])
    BY <1>1, WithMember
  <2> QED BY <1>1, <1>17, <2>1, QuiesceTypes DEF OtaStarts, Quiesced
<1>18. CASE OtaStops
  BY <1>1, <1>3, <1>18, EventTypes, UpReport DEF OtaStops
<1>19. CASE Shutdown
  <2>1. Typed([st EXCEPT !.stopped = TRUE])
    BY <1>1, WithMember
  <2> QED BY <1>1, <1>19, <2>1, QuiesceTypes DEF Shutdown, Quiesced
<1>20. CASE BleDisabled
  <2>1. PICK ok \in BOOLEAN :
          st' = [BeforeDisabled(st, ok) EXCEPT !.bleActive = FALSE, !.client = "INIT",
                                              !.scanner = "IDLE", !.silent = FALSE]
    BY <1>20 DEF BleDisabled
  <2>2. Typed(BeforeDisabled(st, ok))
    BY <1>1, EventTypes, UpReport
  <2> DEFINE t == BeforeDisabled(st, ok)
  <2> HIDE DEF t
  <2>3. Typed([t EXCEPT !.bleActive = FALSE, !.client = "INIT", !.scanner = "IDLE",
                        !.silent = FALSE])
    BY <2>2, ZenonT(60) DEF Typed, States, t
  <2> QED BY <1>1, <1>20, <2>1, <2>3 DEF BleDisabled, Quiesced, t
<1>21. CASE BleEnabled
  <2>1. Typed([st EXCEPT !.bleActive = TRUE, !.client = "IDLE", !.silent = TRUE])
    BY <1>1 DEF Typed, States
  <2> QED BY <1>1, <1>21, <2>1 DEF BleEnabled
<1>22. CASE RequestReconnect
  BY <1>1, <1>3, <1>22, SuppressionTypes DEF RequestReconnect
<1>23. CASE UNCHANGED vars
  BY <1>1, <1>23 DEF vars
<1> QED
  BY <1>4, <1>5, <1>6, <1>7, <1>8, <1>9, <1>10, <1>11, <1>12, <1>13, <1>14, <1>15, <1>16,
     <1>17, <1>18, <1>19, <1>20, <1>21, <1>22, <1>23 DEF Next

\* Every member of the bridge, and what it knows of its parts, keeps its type.
THEOREM TypeCorrect == Spec => []TypeOK
BY InitialType, StepKeepsType, PTL DEF Spec

-----------------------------------------------------------------------------
(* The inductive invariant, of parts over a state s.                       *)

\* A ready session is a handshaken one that nothing has quiesced, and only a ready
\* session holds keys or has a pulse due.
ReadyIsSound(s) ==
  /\ s.rideReady => /\ s.phase = "ready" /\ ~s.sessionQuiesced
                    /\ ~s.otaActive /\ ~s.stopped /\ ~s.suppressed
  /\ s.active # Up \/ s.kb.image # Up => s.rideReady
  /\ s.hapticPending => s.phase = "ready"

\* The gate, and the reports.
KeyboardInStep(s) ==
  /\ s.kb.allowed = s.rideReady
  /\ s.reportPending => s.pendingReport = s.active
  /\ s.reportPending \/ s.kb.image \in {Up, s.active}

Parted == {"INIT", "IDLE", "DISCONNECTING"}

\* A halted keyboard is blank, and has a cause that ends with it.
HaltHasCause(s) ==
  s.kb.halted => /\ s.kb.image = Up /\ ~s.kb.ready
                 /\ \/ s.otaActive \/ s.stopped
                    \/ /\ s.releaseHidWhenIdle /\ ~s.enabled
                       /\ s.sessionQuiesced /\ s.client \in Parted

\* A suppression disables the client, for as long as it lasts.
SuppressionIsSound(s) ==
  /\ s.suppressed = s.policySuppressed
  /\ s.suppressed => /\ ~s.otaActive /\ ~s.stopped /\ ~s.enabled
                     /\ s.sessionQuiesced /\ s.client \in Parted
  /\ ~RestartsWhileSuppressed /\ ~s.enabled => s.suppressed \/ s.otaActive \/ s.stopped

\* Where the client is while a session is under way.
LinkFollowsClient(s) ==
  /\ s.phase \in {"subscribed", "ready"} =>
       s.client \in {"CONNECTED", "DISCONNECTING", "INIT", "IDLE"}
  /\ s.phase # "closed" => s.client # "DISCOVERED" /\ (s.client = "IDLE" => s.silent)
  /\ s.client \in {"DISCOVERED", "CONNECTING", "CONNECTED"} => s.enabled

\* A link that nobody is closing is one whose handshake will count, or has.
LinkCounts(s) ==
  ~LinksDuringUpdate =>
    /\ s.otaActive => s.client \notin {"DISCOVERED", "CONNECTING", "CONNECTED"}
    /\ s.client = "CONNECTED" /\ ~s.otaActive /\ ~s.stopped =>
         ~s.sessionQuiesced /\ (s.phase = "ready" => s.rideReady)

Sound(s) ==
  /\ ReadyIsSound(s) /\ KeyboardInStep(s) /\ HaltHasCause(s)
  /\ SuppressionIsSound(s) /\ LinkFollowsClient(s) /\ LinkCounts(s)

\* A session that was quiesced finds the input closed, or its link on the way out.
Outdated(s) ==
  /\ ~s.rideReady
  /\ s.client \notin {"CONNECTING", "DISCOVERED"}
  /\ s.sessionQuiesced \/ s.client \in {"CLOSING", "INIT", "IDLE"}

IInv ==
  /\ TypeOK
  /\ Sound(st)
  /\ stale => st.phase # "closed" /\ Outdated(st)

-----------------------------------------------------------------------------
(* What the steps do to what the invariant reads.                          *)

\* Who quiesced and where the session is: none of the steps below touches these.
SameSituation(s, t) ==
  /\ t.otaActive = s.otaActive /\ t.stopped = s.stopped
  /\ t.releaseHidWhenIdle = s.releaseHidWhenIdle
  /\ t.phase = s.phase /\ t.silent = s.silent
SameLink(s, t) == t.client = s.client /\ t.enabled = s.enabled
SameSuppression(s, t) ==
  t.suppressed = s.suppressed /\ t.policySuppressed = s.policySuppressed

\* No key is down, and none will be by a report that waits.
AllUp(s) ==
  /\ s.active = Up /\ s.kb.image = Up
  /\ s.reportPending => s.pendingReport = Up
InputClosed(s) == ~s.rideReady /\ s.sessionQuiesced /\ ~s.hapticPending

LEMMA CloseInputDoes ==
  ASSUME NEW s \in States, NEW t, t = CloseInput(s)
  PROVE  /\ InputClosed(t) /\ SameSituation(s, t) /\ SameLink(s, t) /\ SameSuppression(s, t)
         /\ t.kb = s.kb
BY DEF States, CloseInput, InputClosed, SameSituation, SameLink, SameSuppression

LEMMA ReleaseAllDoes ==
  ASSUME NEW s \in States, NEW t, NEW ok \in BOOLEAN, t = ReleaseAll(s, ok),
         s.kb.halted => s.kb.image = Up
  PROVE  /\ AllUp(t) /\ SameSituation(s, t) /\ SameLink(s, t) /\ SameSuppression(s, t)
         /\ t.rideReady = s.rideReady /\ t.sessionQuiesced = s.sessionQuiesced
         /\ t.hapticPending = s.hapticPending
         /\ t.kb.allowed = s.kb.allowed /\ t.kb.halted = s.kb.halted /\ t.kb.ready = s.kb.ready
BY DEF States, ReleaseAll, AllUp, SameSituation, SameLink, SameSuppression,
       Port!Send, Port!Keyboards

LEMMA OnRideDisconnectedDoes ==
  ASSUME NEW s, Typed(s), NEW t, NEW ok \in BOOLEAN, t = OnRideDisconnected(s, ok),
         s.kb.halted => s.kb.image = Up
  PROVE  /\ InputClosed(t) /\ AllUp(t) /\ SameSituation(s, t) /\ SameLink(s, t)
         /\ SameSuppression(s, t)
         /\ ~t.kb.allowed /\ t.kb.halted = s.kb.halted /\ t.kb.ready = s.kb.ready
<1> DEFINE c == CloseInput(s)
           r == ReleaseAll(c, ok)
<1>1. Typed(c) /\ Typed(r)
  BY ForgetTypes, ReportTypes
<1>2. InputClosed(c) /\ SameSituation(s, c) /\ SameLink(s, c) /\ SameSuppression(s, c)
      /\ c.kb = s.kb
  BY CloseInputDoes DEF Typed
<1>3. t = [r EXCEPT !.kb = Port!Disallow(@)]
  BY DEF OnRideDisconnected
<1> HIDE DEF c
<1>4. /\ AllUp(r) /\ SameSituation(c, r) /\ SameLink(c, r) /\ SameSuppression(c, r)
      /\ r.rideReady = c.rideReady /\ r.sessionQuiesced = c.sessionQuiesced
      /\ r.hapticPending = c.hapticPending
      /\ r.kb.allowed = c.kb.allowed /\ r.kb.halted = c.kb.halted /\ r.kb.ready = c.kb.ready
  BY <1>1, <1>2, ReleaseAllDoes DEF Typed
<1> HIDE DEF r
<1>5. /\ InputClosed(r) /\ SameSituation(s, r) /\ SameLink(s, r) /\ SameSuppression(s, r)
      /\ r.kb.halted = s.kb.halted /\ r.kb.ready = s.kb.ready
  BY <1>2, <1>4 DEF InputClosed, SameSituation, SameLink, SameSuppression
<1> QED
  BY <1>1, <1>3, <1>4, <1>5
  DEF Typed, States, Port!Keyboards, Port!Disallow, InputClosed, AllUp, SameSituation,
      SameLink, SameSuppression

\* The client after a disconnect.
Dropped(c) ==
  CASE c = "DISCOVERED" -> "IDLE"
    [] c = "CONNECTING" -> "ABORTING"
    [] c = "CONNECTED" -> "DISCONNECTING"
    [] OTHER -> c

\* The rest of what ClientDisconnect leaves alone.
SameRest(s, t) ==
  /\ SameSituation(s, t) /\ SameSuppression(s, t)
  /\ t.rideReady = s.rideReady /\ t.sessionQuiesced = s.sessionQuiesced
  /\ t.hapticPending = s.hapticPending /\ t.kb = s.kb /\ t.active = s.active
  /\ t.reportPending = s.reportPending /\ t.pendingReport = s.pendingReport

LEMMA ClientDisconnectDoes ==
  ASSUME NEW s \in States, NEW t, t = ClientDisconnect(s)
  PROVE  SameRest(s, t) /\ t.client = Dropped(s.client) /\ t.enabled = s.enabled
BY DEF States, ClientDisconnect, Dropped, SameRest, SameSituation, SameSuppression

LEMMA ForgetSuppressionDoes ==
  ASSUME NEW s \in States, NEW t, t = ForgetSuppression(s)
  PROVE  /\ SameSituation(s, t) /\ SameLink(s, t) /\ ~t.suppressed /\ ~t.policySuppressed
         /\ t.rideReady = s.rideReady /\ t.sessionQuiesced = s.sessionQuiesced
         /\ t.hapticPending = s.hapticPending /\ t.kb = s.kb
BY DEF States, ForgetSuppression, SameSituation, SameLink

LEMMA UpdateScannerPolicyDoes ==
  ASSUME NEW s \in States, NEW t, t = UpdateScannerPolicy(s)
  PROVE  SameRest(s, t) /\ SameLink(s, t)
BY DEF States, UpdateScannerPolicy, StopScan, SameRest, SameSituation, SameLink,
       SameSuppression

\* A halted keyboard shows nothing.
HaltIsBlank(s) == s.kb.halted => s.kb.image = Up /\ ~s.kb.allowed /\ ~s.kb.ready

LEMMA PortDoes ==
  ASSUME NEW k \in Port!Keyboards, k.image = Up,
         k.halted => ~k.allowed /\ ~k.ready
  PROVE  /\ LET h == Port!Halt(k)
            IN h.image = Up /\ h.halted /\ ~h.allowed /\ ~h.ready
         /\ LET d == Port!Disallow(k)
            IN d.image = Up /\ ~d.allowed /\ d.halted = k.halted /\ d.ready = k.ready
BY DEF Port!Halt, Port!Disallow, Port!Keyboards

LEMMA DisconnectIdleDoes ==
  ASSUME NEW s, Typed(s), NEW t, NEW ok \in BOOLEAN, t = DisconnectIdle(s, ok),
         ~s.kb.halted
  PROVE  /\ InputClosed(t) /\ AllUp(t) /\ SameSituation(s, t)
         /\ t.suppressed /\ t.policySuppressed /\ ~t.enabled
         /\ t.client = (IF s.enabled THEN Dropped(s.client) ELSE s.client)
         /\ ~t.kb.allowed
         /\ t.kb.halted => s.releaseHidWhenIdle /\ ~t.kb.ready
<1> DEFINE c == CloseInput(s)
           r == ReleaseAll(c, ok)
           u == [r EXCEPT !.suppressed = TRUE, !.policySuppressed = TRUE,
                          !.kb = IF s.releaseHidWhenIdle THEN Port!Halt(@)
                                 ELSE Port!Disallow(@)]
           d == ClientDisconnect(u)
<1>1. Typed(c) /\ Typed(r)
  BY ForgetTypes, ReportTypes
<1>2. InputClosed(c) /\ SameSituation(s, c) /\ SameLink(s, c) /\ c.kb = s.kb
  BY CloseInputDoes DEF Typed
<1>3. t = Disable(u)
  BY DEF DisconnectIdle
<1> HIDE DEF c
<1>4. /\ AllUp(r) /\ SameSituation(c, r) /\ SameLink(c, r)
      /\ r.rideReady = c.rideReady /\ r.sessionQuiesced = c.sessionQuiesced
      /\ r.hapticPending = c.hapticPending /\ r.kb.halted = c.kb.halted
  BY <1>1, <1>2, ReleaseAllDoes DEF Typed
<1> HIDE DEF r
<1>5. /\ InputClosed(r) /\ SameSituation(s, r) /\ SameLink(s, r)
      /\ r.kb.image = Up /\ ~r.kb.halted
  BY <1>2, <1>4 DEF InputClosed, SameSituation, SameLink, AllUp
<1>6. r.kb \in Port!Keyboards
  BY <1>1, KeyboardTyped DEF Typed
<1> DEFINE h == Port!Halt(r.kb)
           a == Port!Disallow(r.kb)
<1>7. /\ h \in Port!Keyboards /\ h.image = Up /\ ~h.allowed /\ ~h.ready
      /\ a \in Port!Keyboards /\ a.image = Up /\ ~a.allowed /\ ~a.halted
  BY <1>5, <1>6, PortTypes, PortDoes
<1> HIDE DEF h, a
<1>8. Typed(u)
  BY <1>1, <1>7 DEF Typed, States, h, a
<1> DEFINE k == IF s.releaseHidWhenIdle THEN h ELSE a
<1>9. /\ InputClosed(u) /\ AllUp(u) /\ SameSituation(s, u) /\ SameLink(s, u)
      /\ u.suppressed /\ u.policySuppressed /\ u.kb = k
  <2>1. u = [r EXCEPT !.suppressed = TRUE, !.policySuppressed = TRUE, !.kb = k]
    BY DEF h, a
  <2>2. k.image = Up
    BY <1>7
  <2> HIDE DEF k, u
  <2> QED
    BY <1>1, <1>4, <1>5, <2>1, <2>2
    DEF Typed, States, InputClosed, AllUp, SameSituation, SameLink
<1> HIDE DEF u
<1>10. Typed(d) /\ SameRest(u, d) /\ d.client = Dropped(u.client) /\ d.enabled = u.enabled
  BY <1>8, ClientTypes, ClientDisconnectDoes DEF Typed
<1> HIDE DEF d
<1>11. CASE u.enabled
  <2>1. t = [d EXCEPT !.enabled = FALSE]
    BY <1>3, <1>11 DEF Disable, d
  <2>2. SameRest(d, t) /\ t.client = d.client /\ ~t.enabled
    BY <1>10, <2>1 DEF Typed, States, SameRest, SameSituation, SameSuppression
  <2> QED
    BY <1>7, <1>9, <1>10, <1>11, <2>2
    DEF InputClosed, AllUp, SameRest, SameSituation, SameSuppression, SameLink
<1>12. CASE ~u.enabled
  BY <1>3, <1>7, <1>9, <1>12 DEF Disable, SameLink, AllUp
<1> QED BY <1>11, <1>12

LEMMA QuiesceBridgeDoes ==
  ASSUME NEW s, Typed(s), NEW t, NEW ok \in BOOLEAN, t = QuiesceBridge(s, ok),
         HaltIsBlank(s)
  PROVE  /\ InputClosed(t) /\ AllUp(t) /\ SameSituation(s, t)
         /\ ~t.suppressed /\ ~t.policySuppressed
         /\ t.client = Dropped(s.client) /\ t.enabled = s.enabled
         /\ t.kb.halted /\ ~t.kb.allowed /\ ~t.kb.ready
<1> DEFINE f == ForgetSuppression(s)
           p == UpdateScannerPolicy(f)
           r == ReleaseAll(p, ok)
           c == CloseInput(r)
           u == [c EXCEPT !.kb = Port!Halt(@)]
<1>1. Typed(f) /\ Typed(p) /\ Typed(r) /\ Typed(c)
  BY ForgetTypes, ReportTypes, ScannerTypes
<1>2. t = ClientDisconnect(u)
  BY DEF QuiesceBridge
<1>3. /\ SameSituation(s, f) /\ SameLink(s, f) /\ ~f.suppressed /\ ~f.policySuppressed
      /\ f.kb = s.kb
  BY ForgetSuppressionDoes DEF Typed
<1> HIDE DEF f
<1>4. SameRest(f, p) /\ SameLink(f, p)
  BY <1>1, UpdateScannerPolicyDoes DEF Typed
<1> HIDE DEF p
<1>5. /\ SameSituation(s, p) /\ SameLink(s, p) /\ ~p.suppressed /\ ~p.policySuppressed
      /\ p.kb = s.kb
  BY <1>3, <1>4 DEF SameRest, SameSituation, SameSuppression, SameLink
<1>6. /\ AllUp(r) /\ SameSituation(p, r) /\ SameLink(p, r) /\ SameSuppression(p, r)
      /\ r.kb.allowed = p.kb.allowed /\ r.kb.halted = p.kb.halted /\ r.kb.ready = p.kb.ready
  BY <1>1, <1>5, ReleaseAllDoes DEF Typed, HaltIsBlank
<1> HIDE DEF r
<1>7. /\ InputClosed(c) /\ SameSituation(r, c) /\ SameLink(r, c) /\ SameSuppression(r, c)
      /\ c.kb = r.kb /\ AllUp(c)
  <2>1. /\ InputClosed(c) /\ SameSituation(r, c) /\ SameLink(r, c) /\ SameSuppression(r, c)
        /\ c.kb = r.kb
    BY <1>1, CloseInputDoes DEF Typed
  <2>2. c.active = r.active /\ c.reportPending = r.reportPending
        /\ c.pendingReport = r.pendingReport
    BY <1>1 DEF Typed, States, CloseInput
  <2> QED BY <1>6, <2>1, <2>2 DEF AllUp
<1> HIDE DEF c
<1>8. c.kb \in Port!Keyboards
  BY <1>1, KeyboardTyped DEF Typed
<1> DEFINE h == Port!Halt(c.kb)
<1>9. h \in Port!Keyboards /\ h.image = Up /\ h.halted /\ ~h.allowed /\ ~h.ready
  BY <1>5, <1>6, <1>7, <1>8, PortTypes, PortDoes DEF AllUp, HaltIsBlank
<1> HIDE DEF h
<1>10. Typed(u)
  BY <1>1, <1>9 DEF Typed, States, h
<1>11. /\ InputClosed(u) /\ AllUp(u) /\ SameSituation(c, u) /\ SameLink(c, u)
       /\ SameSuppression(c, u) /\ u.kb = h
  BY <1>1, <1>7, <1>9
  DEF Typed, States, InputClosed, AllUp, SameSituation, SameLink, SameSuppression, h
<1> HIDE DEF u
<1>12. SameRest(u, t) /\ t.client = Dropped(u.client) /\ t.enabled = u.enabled
  BY <1>2, <1>10, ClientDisconnectDoes DEF Typed
<1> QED
  BY <1>5, <1>6, <1>7, <1>9, <1>11, <1>12
  DEF InputClosed, AllUp, SameRest, SameSituation, SameSuppression, SameLink

LEMMA BeforeDisabledDoes ==
  ASSUME NEW s, Typed(s), NEW t, NEW ok \in BOOLEAN, t = BeforeDisabled(s, ok),
         HaltIsBlank(s)
  PROVE  /\ AllUp(t) /\ SameSituation(s, t) /\ SameLink(s, t)
         /\ ~t.suppressed /\ ~t.policySuppressed
         /\ t.hapticPending = s.hapticPending /\ t.sessionQuiesced /\ ~t.rideReady
         /\ t.kb.halted = s.kb.halted /\ ~t.kb.allowed /\ ~t.kb.ready
<1> DEFINE r == ReleaseAll(s, ok)
           f == ForgetSuppression(r)
<1>1. Typed(r) /\ Typed(f)
  BY ForgetTypes, ReportTypes
<1>2. t = [f EXCEPT !.sessionQuiesced = TRUE, !.rideReady = FALSE, !.kb = Port!Reset(@)]
  BY DEF BeforeDisabled
<1>3. /\ AllUp(r) /\ SameSituation(s, r) /\ SameLink(s, r)
      /\ r.hapticPending = s.hapticPending /\ r.kb.halted = s.kb.halted
  BY ReleaseAllDoes DEF Typed, HaltIsBlank
<1> HIDE DEF r
<1>4. /\ AllUp(f) /\ SameSituation(r, f) /\ SameLink(r, f)
      /\ ~f.suppressed /\ ~f.policySuppressed
      /\ f.hapticPending = r.hapticPending /\ f.kb = r.kb
  BY <1>1, <1>3 DEF Typed, States, ForgetSuppression, AllUp, SameSituation, SameLink
<1> HIDE DEF f
<1>5. f.kb \in Port!Keyboards
  BY <1>1, KeyboardTyped DEF Typed
<1>6. LET k == Port!Reset(f.kb)
      IN k.image = Up /\ ~k.allowed /\ ~k.ready /\ k.halted = f.kb.halted
  BY <1>5 DEF Port!Reset, Port!Keyboards
<1>7. /\ AllUp(t) /\ SameSituation(f, t) /\ SameLink(f, t) /\ ~t.suppressed
      /\ ~t.policySuppressed /\ t.hapticPending = f.hapticPending
      /\ t.sessionQuiesced /\ ~t.rideReady /\ t.kb = Port!Reset(f.kb)
  BY <1>1, <1>2, <1>4, <1>6 DEF Typed, States, AllUp, SameSituation, SameLink
<1> QED BY <1>3, <1>4, <1>6, <1>7 DEF SameSituation, SameLink

-----------------------------------------------------------------------------
(* Each step keeps the state sound, and an outdated session outdated.      *)

\* What a step of loop() preserves.
Keeps(s, t) ==
  /\ Typed(t) /\ Sound(t)
  /\ Outdated(s) => Outdated(t)
  /\ t.phase \in {s.phase, "closed"}

LEMMA UnreadKeeps ==
  ASSUME NEW s, Sound(s), NEW t, SameRest(s, t), SameLink(s, t)
  PROVE  Sound(t) /\ (Outdated(s) => Outdated(t)) /\ t.phase = s.phase
BY DEF Sound, ReadyIsSound, KeyboardInStep, HaltHasCause, SuppressionIsSound,
       LinkFollowsClient, LinkCounts, Outdated, SameRest, SameLink, SameSituation,
       SameSuppression

LEMMA SoundHalts ==
  ASSUME NEW s, Typed(s), Sound(s)
  PROVE  HaltIsBlank(s) /\ (s.rideReady => ~s.kb.halted)
BY DEF Typed, States, Sound, ReadyIsSound, KeyboardInStep, HaltHasCause, HaltIsBlank

LEMMA EnsureRideAddressKeeps ==
  ASSUME NEW s, Typed(s), Sound(s)
  PROVE  Keeps(s, EnsureRideAddress(s))
<1> DEFINE t == EnsureRideAddress(s)
<1>1. Typed(t)
  BY DEF Typed, EnsureRideAddress, States
<1>2. SameRest(s, t) /\ SameLink(s, t)
  BY DEF Typed, States, EnsureRideAddress, SameRest, SameLink, SameSituation, SameSuppression
<1> HIDE DEF t
<1> QED BY <1>1, <1>2, UnreadKeeps DEF Keeps, t

LEMMA ScannerPolicyKeeps ==
  ASSUME NEW s, Typed(s), Sound(s)
  PROVE  Keeps(s, UpdateScannerPolicy(s))
<1> DEFINE t == UpdateScannerPolicy(s)
<1>1. Typed(t)
  BY ScannerTypes
<1>2. SameRest(s, t) /\ SameLink(s, t)
  BY UpdateScannerPolicyDoes DEF Typed
<1> HIDE DEF t
<1> QED BY <1>1, <1>2, UnreadKeeps DEF Keeps, t

LEMMA DisconnectIdleKeeps ==
  ASSUME NEW s, Typed(s), Sound(s), NEW ok \in BOOLEAN, s.rideReady
  PROVE  Keeps(s, DisconnectIdle(s, ok)) /\ Outdated(DisconnectIdle(s, ok))
<1> DEFINE t == DisconnectIdle(s, ok)
<1>1. ~s.kb.halted
  BY SoundHalts
<1>2. Typed(t)
  BY SuppressionTypes
<1>3. /\ InputClosed(t) /\ AllUp(t) /\ SameSituation(s, t)
      /\ t.suppressed /\ t.policySuppressed /\ ~t.enabled
      /\ t.client = (IF s.enabled THEN Dropped(s.client) ELSE s.client)
      /\ ~t.kb.allowed
      /\ t.kb.halted => s.releaseHidWhenIdle /\ ~t.kb.ready
  BY <1>1, DisconnectIdleDoes
<1> HIDE DEF t
<1>4. s.phase = "ready" /\ ~s.otaActive /\ ~s.stopped
  BY DEF Sound, ReadyIsSound
<1>5. t.client \in Parted
  BY <1>3, <1>4 DEF Sound, LinkFollowsClient, Parted, Dropped
<1>6. ReadyIsSound(t) /\ KeyboardInStep(t) /\ HaltHasCause(t) /\ SuppressionIsSound(t)
  <2>1. t.kb.allowed = t.rideReady
    BY <1>2, <1>3 DEF Typed, States, Port!Keyboards, InputClosed
  <2> QED
    BY <1>3, <1>4, <1>5, <2>1
    DEF InputClosed, AllUp, SameSituation, ReadyIsSound, KeyboardInStep, HaltHasCause,
        SuppressionIsSound
<1>7. LinkFollowsClient(t) /\ LinkCounts(t)
  BY <1>3, <1>4, <1>5
  DEF SameSituation, Sound, LinkFollowsClient, LinkCounts, Parted, Dropped
<1>8. Outdated(t)
  BY <1>3, <1>5 DEF InputClosed, Outdated, Parted
<1> QED BY <1>2, <1>3, <1>6, <1>7, <1>8 DEF Keeps, Sound, SameSituation, t

LEMMA EndSuppressionKeeps ==
  ASSUME NEW s, Typed(s), Sound(s), NEW ready \in BOOLEAN, s.suppressed
  PROVE  /\ Keeps(s, EndSuppression(s, ready))
         /\ EndSuppression(s, ready).phase = s.phase
         /\ EndSuppression(s, ready).silent = s.silent
         /\ EndSuppression(s, ready).client = s.client
         /\ EndSuppression(s, ready).otaActive = s.otaActive
<1>1. Typed(EndSuppression(s, ready))
  BY SuppressionTypes
<1>2. Sound(EndSuppression(s, ready))
  BY SMTT(30)
  DEF Typed, States, Sound, ReadyIsSound, KeyboardInStep, HaltHasCause, SuppressionIsSound,
      LinkFollowsClient, LinkCounts, Parted, EndSuppression, Enable, ForgetSuppression,
      Port!Resumed, Port!Keyboards
<1>3. /\ Outdated(s) => Outdated(EndSuppression(s, ready))
      /\ EndSuppression(s, ready).phase = s.phase
      /\ EndSuppression(s, ready).silent = s.silent
      /\ EndSuppression(s, ready).client = s.client
      /\ EndSuppression(s, ready).otaActive = s.otaActive
  BY DEF Typed, States, Outdated, EndSuppression, Enable, ForgetSuppression
<1> QED BY <1>1, <1>2, <1>3 DEF Keeps

\* The verdict is one that the state allows.
LEMMA UpdateIdlePolicyKeeps ==
  ASSUME NEW s, Typed(s), Sound(s), NEW verdict \in Verdicts(s), NEW ok \in BOOLEAN,
         NEW ready \in BOOLEAN
  PROVE  /\ Keeps(s, UpdateIdlePolicy(s, verdict, ok, ready))
         /\ verdict = "disconnect" => Outdated(UpdateIdlePolicy(s, verdict, ok, ready))
<1>1. CASE verdict = "disconnect"
  <2>1. s.rideReady
    BY <1>1 DEF Verdicts
  <2> QED BY <1>1, <2>1, DisconnectIdleKeeps DEF UpdateIdlePolicy
<1>2. CASE verdict = "rearm"
  <2>1. s.suppressed
    BY <1>2 DEF Verdicts, Sound, SuppressionIsSound
  <2> QED BY <1>2, <2>1, EndSuppressionKeeps DEF UpdateIdlePolicy
<1>3. CASE verdict \notin {"disconnect", "rearm"}
  <2> DEFINE t == [s EXCEPT !.policySuppressed = FALSE]
  <2>1. CASE s.rideReady
    <3>1. ~s.suppressed /\ ~s.policySuppressed
      BY <2>1 DEF Sound, ReadyIsSound, SuppressionIsSound
    <3>2. Typed(t)
      BY DEF Typed, States
    <3>3. SameRest(s, t) /\ SameLink(s, t)
      BY <3>1 DEF Typed, States, SameRest, SameLink, SameSituation, SameSuppression
    <3> HIDE DEF t
    <3>4. Keeps(s, t) /\ Keeps(s, s)
      BY <3>2, <3>3, UnreadKeeps DEF Keeps
    <3> QED BY <1>3, <3>4 DEF UpdateIdlePolicy, t
  <2>2. CASE ~s.rideReady
    BY <1>3, <2>2 DEF UpdateIdlePolicy, Keeps
  <2> QED BY <2>1, <2>2
<1> QED BY <1>1, <1>2, <1>3

\* The session of a client that is idle ends.
LEMMA SessionEndsKeeps ==
  ASSUME NEW s, Typed(s), NEW ok \in BOOLEAN, s.client = "IDLE",
         ReadyIsSound(s), KeyboardInStep(s), HaltHasCause(s), SuppressionIsSound(s)
  PROVE  LET t == SessionEnds(s, ok)
         IN Typed(t) /\ Sound(t) /\ Outdated(t) /\ t.phase = "closed"
<1>1. CASE s.phase = "closed"
  BY <1>1 DEF ReadyIsSound, SessionEnds, Sound, LinkFollowsClient, LinkCounts, Outdated
<1>2. CASE s.phase # "closed"
  <2> DEFINE c == [s EXCEPT !.phase = "closed"]
             t == OnRideDisconnected(c, ok)
  <2>1. Typed(c)
    BY WithMember
  <2>2. SameLink(s, c) /\ SameSuppression(s, c) /\ c.phase = "closed" /\ c.kb = s.kb
        /\ c.otaActive = s.otaActive /\ c.stopped = s.stopped
        /\ c.releaseHidWhenIdle = s.releaseHidWhenIdle
    BY DEF Typed, States, SameLink, SameSuppression
  <2>3. Typed(t)
    BY <2>1, SessionTypes
  <2> HIDE DEF c
  <2>4. /\ InputClosed(t) /\ AllUp(t) /\ SameSituation(c, t) /\ SameLink(c, t)
        /\ SameSuppression(c, t)
        /\ ~t.kb.allowed /\ t.kb.halted = c.kb.halted /\ t.kb.ready = c.kb.ready
    BY <2>1, <2>2, OnRideDisconnectedDoes DEF HaltHasCause
  <2> HIDE DEF t
  <2>5. t.phase = "closed" /\ t.client = "IDLE"
    BY <2>2, <2>4 DEF SameSituation, SameLink
  <2>6. ReadyIsSound(t) /\ KeyboardInStep(t)
    <3>1. t.kb.allowed = t.rideReady
      BY <2>3, <2>4 DEF Typed, States, Port!Keyboards, InputClosed
    <3> QED BY <2>4, <3>1 DEF InputClosed, AllUp, ReadyIsSound, KeyboardInStep
  <2>7. HaltHasCause(t) /\ SuppressionIsSound(t)
    BY <2>2, <2>4, <2>5
    DEF InputClosed, AllUp, SameSituation, SameLink, SameSuppression, HaltHasCause,
        SuppressionIsSound, Parted
  <2>8. LinkFollowsClient(t) /\ LinkCounts(t) /\ Outdated(t)
    BY <2>4, <2>5 DEF InputClosed, LinkFollowsClient, LinkCounts, Outdated
  <2> QED BY <1>2, <2>3, <2>5, <2>6, <2>7, <2>8 DEF SessionEnds, Sound, t, c
<1> QED BY <1>1, <1>2

LEMMA ClientDisconnectKeeps ==
  ASSUME NEW s, Typed(s), Sound(s), s.phase # "closed"
  PROVE  Keeps(s, ClientDisconnect(s)) /\ (s.client # "IDLE" => ClientDisconnect(s).client # "IDLE")
<1> DEFINE t == ClientDisconnect(s)
<1>1. Typed(t)
  BY ClientTypes
<1>2. SameRest(s, t) /\ t.client = Dropped(s.client) /\ t.enabled = s.enabled
  BY ClientDisconnectDoes DEF Typed
<1> HIDE DEF t
<1>3. s.client # "DISCOVERED"
  BY DEF Sound, LinkFollowsClient
<1>4. ReadyIsSound(t) /\ KeyboardInStep(t)
  BY <1>2 DEF Sound, ReadyIsSound, KeyboardInStep, SameRest, SameSituation, SameSuppression
<1>5. HaltHasCause(t) /\ SuppressionIsSound(t)
  BY <1>2, <1>3 DEF Sound, HaltHasCause, SuppressionIsSound, SameRest, SameSituation, SameSuppression,
                Dropped, Parted
<1>6. LinkFollowsClient(t) /\ LinkCounts(t)
  BY <1>2, <1>3 DEF Sound, LinkFollowsClient, LinkCounts, SameRest, SameSituation, Dropped
<1>7. (Outdated(s) => Outdated(t)) /\ (s.client # "IDLE" => t.client # "IDLE")
  BY <1>2, <1>3 DEF Outdated, SameRest, Dropped
<1> QED BY <1>1, <1>2, <1>4, <1>5, <1>6, <1>7 DEF Keeps, Sound, SameRest, SameSituation, t

\* After ride_client_.loop() no session is left on an idle client.
Settled(s) == s.client = "IDLE" => s.phase = "closed"

LEMMA RideClientLoopKeeps ==
  ASSUME NEW s, Typed(s), Sound(s), NEW ok \in BOOLEAN, NEW stalled \in BOOLEAN
  PROVE  LET t == RideClientLoop(s, stalled, ok) IN Keeps(s, t) /\ Settled(t)
<1>1. CASE s.client = "IDLE"
  BY <1>1, SessionEndsKeeps DEF RideClientLoop, Sound, Keeps, Settled
<1>2. CASE s.client # "IDLE" /\ stalled /\ s.phase \in {"opening", "subscribed"}
  BY <1>2, ClientDisconnectKeeps DEF RideClientLoop, Settled
<1>3. CASE s.client # "IDLE" /\ ~(stalled /\ s.phase \in {"opening", "subscribed"})
  BY <1>3 DEF RideClientLoop, Settled, Keeps
<1> QED BY <1>1, <1>2, <1>3

LEMMA ReleaseAllKeeps ==
  ASSUME NEW s, Typed(s), Sound(s), NEW ok \in BOOLEAN
  PROVE  LET t == ReleaseAll(s, ok)
         IN Keeps(s, t) /\ SameSituation(s, t) /\ SameLink(s, t)
<1> DEFINE t == ReleaseAll(s, ok)
<1>1. Typed(t)
  BY ReportTypes
<1>2. /\ AllUp(t) /\ SameSituation(s, t) /\ SameLink(s, t) /\ SameSuppression(s, t)
      /\ t.rideReady = s.rideReady /\ t.sessionQuiesced = s.sessionQuiesced
      /\ t.hapticPending = s.hapticPending
      /\ t.kb.allowed = s.kb.allowed /\ t.kb.halted = s.kb.halted /\ t.kb.ready = s.kb.ready
  BY ReleaseAllDoes, SoundHalts DEF Typed, HaltIsBlank
<1> HIDE DEF t
<1>3. ReadyIsSound(t) /\ KeyboardInStep(t) /\ HaltHasCause(t)
  BY <1>2 DEF Sound, ReadyIsSound, KeyboardInStep, HaltHasCause, AllUp, SameSituation, SameLink,
              SameSuppression
<1>4. SuppressionIsSound(t) /\ LinkFollowsClient(t) /\ LinkCounts(t) /\ (Outdated(s) => Outdated(t))
  BY <1>2 DEF Sound, SuppressionIsSound, LinkFollowsClient, LinkCounts, Outdated, SameSituation,
              SameLink, SameSuppression
<1> QED BY <1>1, <1>2, <1>3, <1>4 DEF Keeps, Sound, SameSituation, t

LEMMA WatchHostKeeps ==
  ASSUME NEW s, Typed(s), Sound(s), NEW ok \in BOOLEAN
  PROVE  LET t == WatchHost(s, ok)
         IN Keeps(s, t) /\ (Settled(s) => Settled(t))
<1>1. CASE s.kb.ready = s.hidReadyLast
  BY <1>1 DEF WatchHost, Keeps, Settled
<1>2. CASE s.kb.ready # s.hidReadyLast /\ s.kb.ready
  <2> DEFINE t == QueueCurrentReport([s EXCEPT !.hidReadyLast = TRUE])
  <2>1. Typed([s EXCEPT !.hidReadyLast = TRUE])
    BY DEF Typed, States
  <2>2. Typed(t)
    BY <2>1, ReportTypes
  <2>3. /\ SameSituation(s, t) /\ SameLink(s, t) /\ SameSuppression(s, t)
        /\ t.rideReady = s.rideReady /\ t.sessionQuiesced = s.sessionQuiesced
        /\ t.hapticPending = s.hapticPending /\ t.kb = s.kb /\ t.active = s.active
        /\ t.reportPending /\ t.pendingReport = t.active
    BY DEF Typed, States, QueueCurrentReport, SameSituation, SameLink, SameSuppression
  <2> HIDE DEF t
  <2>4. Sound(t) /\ (Outdated(s) => Outdated(t)) /\ (Settled(s) => Settled(t))
    BY <2>3 DEF Sound, ReadyIsSound, KeyboardInStep, HaltHasCause, SuppressionIsSound,
       LinkFollowsClient, LinkCounts, Outdated, Settled, SameSituation, SameLink, SameSuppression
  <2> QED BY <1>2, <2>2, <2>3, <2>4 DEF WatchHost, Keeps, SameSituation, t
<1>3. CASE s.kb.ready # s.hidReadyLast /\ ~s.kb.ready
  <2> DEFINE u == [s EXCEPT !.hidReadyLast = FALSE]
  <2>1. Typed(u) /\ SameRest(s, u) /\ SameLink(s, u)
    BY DEF Typed, States, SameRest, SameSituation, SameSuppression, SameLink
  <2> HIDE DEF u
  <2>2. Keeps(s, u)
    BY <2>1, UnreadKeeps DEF Keeps
  <2>3. LET t == ReleaseAll(u, ok) IN Keeps(u, t) /\ SameSituation(u, t) /\ SameLink(u, t)
    BY <2>2, ReleaseAllKeeps DEF Keeps
  <2> QED BY <1>3, <2>1, <2>2, <2>3
          DEF WatchHost, Keeps, Settled, SameRest, SameSituation, SameLink, u
<1> QED BY <1>1, <1>2, <1>3 DEF Typed, States, Port!Keyboards

LEMMA SubmitUnlessQuietKeeps ==
  ASSUME NEW s, Typed(s), Sound(s), NEW ok \in BOOLEAN, NEW buzz \in BOOLEAN
  PROVE  LET t == SubmitUnlessQuiet(s, ok, buzz)
         IN Keeps(s, t) /\ (Settled(s) => Settled(t))
<1>1. CASE s.otaActive \/ s.stopped
  BY <1>1 DEF SubmitUnlessQuiet, Keeps
<1>2. CASE ~s.otaActive /\ ~s.stopped
  <2> DEFINE u == SubmitPendingReport(s, ok)
             t == SubmitUnlessQuiet(s, ok, buzz)
  <2>1. Typed(u)
    BY ReportTypes
  <2>2. Typed(t)
    <3>1. TRUE \in BOOLEAN
      OBVIOUS
    <3> QED BY <3>1, LoopTypes
  <2>3. Sound(u)
    BY SMTT(30)
    DEF Typed, States, Sound, ReadyIsSound, KeyboardInStep, HaltHasCause, SuppressionIsSound,
      LinkFollowsClient, LinkCounts, Parted, SubmitPendingReport, Port!Send, Port!Keyboards
  <2>4. SameSituation(s, u) /\ SameLink(s, u) /\ u.sessionQuiesced = s.sessionQuiesced
        /\ u.rideReady = s.rideReady
    BY DEF Typed, States, SubmitPendingReport, SameSituation, SameLink
  <2>5. t = [u EXCEPT !.hapticPending = @ /\ ~(buzz /\ s.phase = "ready")]
    BY <1>2 DEF SubmitUnlessQuiet
  <2> HIDE DEF u, t
  <2>6. /\ SameSituation(u, t) /\ SameLink(u, t) /\ SameSuppression(u, t)
        /\ t.rideReady = u.rideReady /\ t.sessionQuiesced = u.sessionQuiesced
        /\ t.kb = u.kb /\ t.active = u.active
        /\ t.reportPending = u.reportPending /\ t.pendingReport = u.pendingReport
        /\ (t.hapticPending => u.hapticPending)
    BY <2>1, <2>5 DEF Typed, States, SameSituation, SameLink, SameSuppression
  <2>7. Sound(t)
    BY <2>3, <2>6 DEF Sound, ReadyIsSound, KeyboardInStep, HaltHasCause, SuppressionIsSound,
       LinkFollowsClient, LinkCounts, SameSituation, SameLink, SameSuppression
  <2>8. (Outdated(s) => Outdated(t)) /\ (Settled(s) => Settled(t))
    BY <2>4, <2>6 DEF Outdated, Settled, SameSituation, SameLink
  <2> QED BY <2>2, <2>4, <2>6, <2>7, <2>8 DEF Keeps, SameSituation, t
<1> QED BY <1>1, <1>2

LEMMA LoopStepKeeps ==
  ASSUME Typed(st), Sound(st), NEW verdict \in Verdicts(st), NEW stalled \in BOOLEAN,
         NEW ok \in BOOLEAN, NEW ready \in BOOLEAN, NEW buzz \in BOOLEAN
  PROVE  LET t == LoopStep(verdict, stalled, ok, ready, buzz)
         IN Keeps(st, t) /\ (verdict = "disconnect" => Outdated(t))
<1> DEFINE found == EnsureRideAddress(st)
           polled == UpdateIdlePolicy(found, verdict, ok, ready)
           scanned == UpdateScannerPolicy(polled)
           checked == RideClientLoop(scanned, stalled, ok)
           watched == WatchHost(checked, ok)
           sent == SubmitUnlessQuiet(watched, ok, buzz)
           t == [sent EXCEPT !.silent = FALSE]
<1>1. Keeps(st, found)
  BY EnsureRideAddressKeeps
<1>2. verdict \in Verdicts(found)
  BY DEF Typed, States, EnsureRideAddress, Verdicts
<1> HIDE DEF found
<1>3. Keeps(found, polled) /\ (verdict = "disconnect" => Outdated(polled))
  BY <1>1, <1>2, UpdateIdlePolicyKeeps DEF Keeps
<1> HIDE DEF polled
<1>4. Keeps(polled, scanned)
  BY <1>3, ScannerPolicyKeeps DEF Keeps
<1> HIDE DEF scanned
<1>5. Keeps(scanned, checked) /\ Settled(checked)
  BY <1>4, RideClientLoopKeeps DEF Keeps
<1> HIDE DEF checked
<1>6. Keeps(checked, watched) /\ Settled(watched)
  BY <1>5, WatchHostKeeps DEF Keeps
<1> HIDE DEF watched
<1>7. Keeps(watched, sent) /\ Settled(sent)
  BY <1>6, SubmitUnlessQuietKeeps DEF Keeps
<1> HIDE DEF sent
<1>8. Typed(t)
  BY <1>7, WithMember DEF Keeps
<1>9. /\ SameLink(sent, t) /\ SameSuppression(sent, t) /\ t.phase = sent.phase
      /\ t.otaActive = sent.otaActive /\ t.stopped = sent.stopped
      /\ t.releaseHidWhenIdle = sent.releaseHidWhenIdle
      /\ t.rideReady = sent.rideReady /\ t.sessionQuiesced = sent.sessionQuiesced
      /\ t.hapticPending = sent.hapticPending /\ t.kb = sent.kb /\ t.active = sent.active
      /\ t.reportPending = sent.reportPending /\ t.pendingReport = sent.pendingReport
  BY <1>7 DEF Keeps, Typed, States, SameLink, SameSuppression
<1>10. t = LoopStep(verdict, stalled, ok, ready, buzz)
  BY DEF LoopStep, sent, watched, checked, scanned, polled, found
<1> HIDE DEF t
<1>11. Sound(t) /\ (Outdated(sent) => Outdated(t))
  BY <1>7, <1>9
  DEF Keeps, Settled, Sound, ReadyIsSound, KeyboardInStep, HaltHasCause, SuppressionIsSound,
      LinkFollowsClient, LinkCounts, Outdated, SameLink, SameSuppression
<1>12. t.phase \in {st.phase, "closed"}
  BY <1>1, <1>3, <1>4, <1>5, <1>6, <1>7, <1>9 DEF Keeps
<1> QED BY <1>1, <1>3, <1>4, <1>5, <1>6, <1>7, <1>8, <1>10, <1>11, <1>12 DEF Keeps

-----------------------------------------------------------------------------
(* Every step of the bridge and of its surroundings keeps the invariant.   *)

\* The invariant after a step that leaves all of it but a few fields alone.
LEMMA KeepsIInv ==
  ASSUME IInv, Keeps(st, st'), stale' \in BOOLEAN,
         stale' => (stale \/ Outdated(st')) /\ st'.phase # "closed"
  PROVE  IInv'
BY DEF IInv, Keeps, TypeOK, Typed

LEMMA InitialInv == Init => IInv
<1> SUFFICES ASSUME Init PROVE IInv
  OBVIOUS
<1>1. PICK pinned \in BOOLEAN, releaseHid \in BOOLEAN :
        st = [rideReady |-> FALSE, sessionQuiesced |-> FALSE, suppressed |-> FALSE,
              otaActive |-> FALSE, stopped |-> FALSE, hidReadyLast |-> FALSE,
              reportPending |-> FALSE, pendingReport |-> Up, hapticPending |-> FALSE,
              addressSelected |-> pinned, releaseHidWhenIdle |-> releaseHid,
              active |-> Up, policySuppressed |-> FALSE,
              phase |-> "closed", kb |-> Port!NewKeyboard,
              bleActive |-> TRUE, client |-> "IDLE", enabled |-> TRUE,
              hasAddress |-> pinned, scanner |-> "IDLE", continuous |-> TRUE,
              silent |-> FALSE]
  BY DEF Init
<1>2. Sound(st)
  BY <1>1
  DEF Port!NewKeyboard, Sound, ReadyIsSound, KeyboardInStep, HaltHasCause, SuppressionIsSound,
      LinkFollowsClient, LinkCounts
<1> QED BY <1>2, InitialType DEF IInv, Init

LEMMA LoopKeepsInv == IInv /\ Loop => IInv'
<1> SUFFICES ASSUME IInv, Loop PROVE IInv'
  OBVIOUS
<1>1. Typed(st) /\ Sound(st) /\ stale \in BOOLEAN
  BY DEF IInv, TypeOK, Typed
<1>2. PICK verdict \in Verdicts(st) : LoopWith(verdict)
  BY DEF Loop, LoopWith
<1>3. PICK stalled \in BOOLEAN, ok \in BOOLEAN, buzz \in BOOLEAN, ready \in BOOLEAN :
        st' = LoopStep(verdict, stalled, ok, ready, buzz)
  BY <1>1, <1>2 DEF LoopWith, Typed, States
<1>4. Keeps(st, st') /\ (verdict = "disconnect" => Outdated(st'))
  BY <1>1, <1>3, LoopStepKeeps
<1>5. CASE verdict = "disconnect"
  BY <1>2, <1>4, <1>5, KeepsIInv DEF LoopWith, Quiesced
<1>6. CASE verdict # "disconnect"
  BY <1>1, <1>2, <1>4, <1>6, KeepsIInv DEF LoopWith, NotQuiesced
<1> QED BY <1>5, <1>6

\* The events of the controller's session.
LEMMA ConnectEventKeepsInv == IInv /\ ConnectEvent => IInv'
<1> SUFFICES ASSUME IInv, ConnectEvent PROVE IInv'
  OBVIOUS
<1>1. TypeOK'
  BY StepKeepsType DEF IInv, Next
<1>2. Sound(st')
  BY SMTT(30)
  DEF IInv, TypeOK, States, ConnectEvent, ReopenInput, Sound, ReadyIsSound, KeyboardInStep,
      HaltHasCause, SuppressionIsSound, LinkFollowsClient, LinkCounts, Parted
<1> QED BY <1>1, <1>2 DEF IInv, ConnectEvent

LEMMA OpenEventKeepsInv == IInv /\ OpenEvent => IInv'
<1> SUFFICES ASSUME IInv, OpenEvent PROVE IInv'
  OBVIOUS
<1>1. TypeOK'
  BY StepKeepsType DEF IInv, Next
<1>2. Sound(st')
  <2> USE DEF IInv, TypeOK, States, ReopenInput, Sound, ReadyIsSound, KeyboardInStep,
              HaltHasCause, SuppressionIsSound, LinkFollowsClient, LinkCounts, Parted
  <2>1. CASE /\ st.client = "CONNECTING"
             /\ st' = ReopenInput([st EXCEPT !.client = "CONNECTED", !.phase = "opening"])
    BY <2>1, SMTT(30)
  <2> DEFINE opened == [st EXCEPT !.client = "CLOSING", !.phase = "opening"]
  <2>2. CASE st.client = "ABORTING" /\ st' = opened
    BY <2>2, SMTT(30)
  <2>3. CASE st.client = "ABORTING" /\ st' = ReopenInput(opened)
    BY <2>3, SMTT(30)
  <2> QED BY <2>1, <2>2, <2>3 DEF OpenEvent
<1>3. stale' => st'.phase # "closed" /\ Outdated(st')
  BY DEF IInv, TypeOK, States, OpenEvent, NotQuiesced, ReopenInput, Outdated
<1> QED BY <1>1, <1>2, <1>3 DEF IInv

\* OpenFails and LinkEnds
LEMMA EndKeepsInv ==
  ASSUME IInv, NEW ok \in BOOLEAN, st' = SessionEnds([st EXCEPT !.client = "IDLE"], ok),
         NotQuiesced
  PROVE  IInv'
<1> DEFINE s == [st EXCEPT !.client = "IDLE"]
<1>1. Typed(st) /\ Sound(st)
  BY DEF IInv, TypeOK, Typed
<1>2. Typed(s)
  BY <1>1, WithMember DEF ClientStates
<1>3. /\ s.client = "IDLE" /\ SameRest(st, s) /\ s.enabled = st.enabled
  BY <1>1 DEF Typed, States, SameRest, SameSituation, SameSuppression
<1> HIDE DEF s
<1>4. ReadyIsSound(s) /\ KeyboardInStep(s) /\ HaltHasCause(s) /\ SuppressionIsSound(s)
  BY <1>1, <1>3
  DEF Sound, ReadyIsSound, KeyboardInStep, HaltHasCause, SuppressionIsSound, Parted, SameRest,
      SameSituation, SameSuppression
<1>5. Typed(st') /\ Sound(st') /\ st'.phase = "closed"
  BY <1>2, <1>3, <1>4, SessionEndsKeeps DEF s
<1> QED BY <1>5 DEF IInv, TypeOK, Typed, NotQuiesced

LEMMA SubscribedKeepsInv == IInv /\ Subscribed => IInv'
<1> SUFFICES ASSUME IInv, Subscribed PROVE IInv'
  OBVIOUS
<1>1. TypeOK'
  BY StepKeepsType DEF IInv, Next
<1>2. Sound(st')
  BY SMTT(30)
  DEF IInv, TypeOK, States, Subscribed, Sound, ReadyIsSound, KeyboardInStep,
      HaltHasCause, SuppressionIsSound, LinkFollowsClient, LinkCounts, Parted
<1>3. stale' => st'.phase # "closed" /\ Outdated(st')
  BY DEF IInv, TypeOK, States, Subscribed, NotQuiesced, Outdated
<1> QED BY <1>1, <1>2, <1>3 DEF IInv

LEMMA SessionReadyKeepsInv == IInv /\ SessionReady => IInv'
<1> SUFFICES ASSUME IInv, SessionReady PROVE IInv'
  OBVIOUS
<1>1. TypeOK'
  BY StepKeepsType DEF IInv, Next
<1>2. PICK pulse \in BOOLEAN : st' = OnRideReady([st EXCEPT !.phase = "ready"], pulse)
  BY DEF SessionReady
<1>3. Sound(st')
  <2>1. st \in States /\ Sound(st)
    BY DEF IInv, TypeOK
  <2>2. CASE st.otaActive \/ st.stopped \/ st.sessionQuiesced
    <3>1. st' = [st EXCEPT !.phase = "ready"]
      BY <1>2, <2>2, <2>1 DEF OnRideReady, States
    <3> QED
      BY <2>1, <2>2, <3>1, SMTT(30)
      DEF States, SessionReady, Sound, ReadyIsSound, KeyboardInStep, HaltHasCause,
          SuppressionIsSound, LinkFollowsClient, LinkCounts, Parted
  <2>3. CASE ~st.otaActive /\ ~st.stopped /\ ~st.sessionQuiesced
    <3>1. ~st.kb.halted /\ ~st.suppressed
      BY <2>1, <2>3 DEF Sound, HaltHasCause, SuppressionIsSound
    <3> DEFINE k == [st.kb EXCEPT !.allowed = TRUE]
    <3>2. Port!Allow(st.kb) = k
      BY <3>1 DEF Port!Allow
    <3>3. st' = [st EXCEPT !.phase = "ready", !.suppressed = FALSE, !.policySuppressed = FALSE,
                           !.rideReady = TRUE, !.kb = k, !.hapticPending = @ \/ pulse]
      BY <1>2, <2>1, <2>3, <3>2 DEF OnRideReady, ForgetSuppression, States
    <3>4. k.allowed /\ ~k.halted /\ k.image = st.kb.image
      BY <2>1, <3>1 DEF States, Port!Keyboards
    <3> HIDE DEF k
    <3>5. /\ st'.phase = "ready" /\ ~st'.suppressed /\ ~st'.policySuppressed /\ st'.rideReady
          /\ st'.kb = k /\ SameLink(st, st') /\ st'.silent = st.silent
          /\ ~st'.otaActive /\ ~st'.stopped /\ ~st'.sessionQuiesced /\ st'.active = st.active
          /\ st'.reportPending = st.reportPending /\ st'.pendingReport = st.pendingReport
      BY <2>1, <2>3, <3>3 DEF States, SameLink
    <3>6. st'.kb.allowed = st'.rideReady /\ st'.suppressed = st'.policySuppressed
      BY <1>1, <3>4, <3>5 DEF TypeOK, States, Port!Keyboards
    <3>7. ReadyIsSound(st') /\ KeyboardInStep(st') /\ HaltHasCause(st')
      BY <2>1, <3>4, <3>5, <3>6 DEF Sound, ReadyIsSound, KeyboardInStep, HaltHasCause
    <3>8. SuppressionIsSound(st') /\ LinkFollowsClient(st') /\ LinkCounts(st')
      BY <2>1, <2>3, <3>1, <3>5, <3>6
      DEF SessionReady, Sound, SuppressionIsSound, LinkFollowsClient, LinkCounts, SameLink
    <3> QED BY <3>7, <3>8 DEF Sound
  <2> QED BY <2>2, <2>3
<1>4. stale' => st'.phase # "closed" /\ Outdated(st')
  BY <1>2 DEF IInv, TypeOK, States, SessionReady, OnRideReady, ForgetSuppression, NotQuiesced,
              Outdated
<1> QED BY <1>1, <1>3, <1>4 DEF IInv

LEMMA NotificationKeepsInv ==
  ASSUME IInv, NEW r \in Reports, Notification(r)
  PROVE  IInv'
<1>1. TypeOK'
  BY StepKeepsType DEF IInv, Next
<1>2. PICK changed \in BOOLEAN, pulse \in BOOLEAN :
        st' = OnRideNotification(st, r, changed, pulse /\ r # Up)
  BY DEF Notification
<1>3. Sound(st')
  BY <1>2, SMTT(30)
  DEF IInv, TypeOK, States, Notification, OnRideNotification, QueueCurrentReport,
      Sound, ReadyIsSound, KeyboardInStep,
      HaltHasCause, SuppressionIsSound, LinkFollowsClient, LinkCounts, Parted
<1>4. stale' => st'.phase # "closed" /\ Outdated(st')
  BY <1>2 DEF IInv, TypeOK, States, Notification, OnRideNotification, QueueCurrentReport, Outdated
<1> QED BY <1>1, <1>3, <1>4 DEF IInv

\* ESPHome's client and scanner.
LEMMA LinkEndsSilentlyKeepsInv == IInv /\ (LinkEndsSilently \/ BleEnabled) => IInv'
<1> SUFFICES ASSUME IInv, LinkEndsSilently \/ BleEnabled PROVE IInv'
  OBVIOUS
<1>1. TypeOK'
  BY StepKeepsType DEF IInv, Next
<1>2. /\ SameSuppression(st, st') /\ st'.otaActive = st.otaActive /\ st'.stopped = st.stopped
      /\ st'.releaseHidWhenIdle = st.releaseHidWhenIdle /\ st'.phase = st.phase
      /\ st'.rideReady = st.rideReady /\ st'.sessionQuiesced = st.sessionQuiesced
      /\ st'.hapticPending = st.hapticPending /\ st'.kb = st.kb /\ st'.active = st.active
      /\ st'.reportPending = st.reportPending /\ st'.pendingReport = st.pendingReport
      /\ st'.enabled = st.enabled /\ st'.client = "IDLE" /\ st'.silent /\ stale' = stale
  BY ZenonT(60) DEF IInv, TypeOK, States, LinkEndsSilently, BleEnabled, SameSuppression
<1>3. Sound(st')
  BY <1>2
  DEF IInv, Sound, ReadyIsSound, KeyboardInStep, HaltHasCause, SuppressionIsSound, LinkFollowsClient,
      LinkCounts, Parted, SameSuppression
<1> QED BY <1>1, <1>2, <1>3 DEF IInv, Outdated

LEMMA SightingKeepsInv == IInv /\ Sighting => IInv'
<1> SUFFICES ASSUME IInv, Sighting PROVE IInv'
  OBVIOUS
<1>1. Typed(st) /\ Sound(st) /\ TypeOK'
  BY StepKeepsType DEF IInv, TypeOK, Typed, Next
<1>2. PICK wakes \in BOOLEAN, ready \in BOOLEAN :
        st' = ClientParsesDevice(ParseDevice(st, wakes, ready))
  BY <1>1 DEF Sighting, Typed, States
<1> DEFINE p == ParseDevice(st, wakes, ready)
<1>3. Keeps(st, p) /\ p.phase = st.phase /\ p.silent = st.silent /\ p.client = st.client
  <2>1. CASE p = EndSuppression(st, ready) /\ st.policySuppressed
    <3>1. st.suppressed
      BY <1>1, <2>1 DEF Sound, SuppressionIsSound
    <3> QED BY <1>1, <2>1, <3>1, EndSuppressionKeeps
  <2>2. CASE p = [st EXCEPT !.addressSelected = TRUE, !.hasAddress = TRUE]
    <3> HIDE DEF p
    <3>1. Typed(p) /\ SameRest(st, p) /\ SameLink(st, p)
      BY <1>1, <2>2 DEF Typed, States, SameRest, SameLink, SameSituation, SameSuppression
    <3> QED BY <1>1, <3>1, UnreadKeeps DEF Keeps, SameRest, SameLink, SameSituation
  <2>3. CASE p = st
    BY <1>1, <2>3 DEF Keeps
  <2> QED BY <2>1, <2>2, <2>3 DEF ParseDevice
<1> HIDE DEF p
<1>4. p.client = "IDLE" => p.phase = "closed"
  BY <1>1, <1>3 DEF Sighting, Sound, LinkFollowsClient
<1>5. CASE st' = p
  BY <1>3, <1>5, KeepsIInv DEF Sighting, IInv, TypeOK
<1>6. CASE st' # p
  <2>1. /\ st' = [p EXCEPT !.client = "DISCOVERED"]
        /\ p.enabled /\ p.client = "IDLE" /\ (LinksDuringUpdate \/ ~p.otaActive)
    BY <1>2, <1>6 DEF ClientParsesDevice, p
  <2>2. SameRest(p, st') /\ st'.client = "DISCOVERED" /\ st'.enabled = p.enabled
    BY <1>3, <2>1 DEF Keeps, Typed, States, SameRest, SameSituation, SameSuppression
  <2>3. Sound(st')
    BY <1>3, <1>4, <2>1, <2>2
    DEF Keeps, Sound, ReadyIsSound, KeyboardInStep, HaltHasCause, SuppressionIsSound,
        LinkFollowsClient, LinkCounts, Parted, SameRest, SameSituation, SameSuppression
  <2>4. ~stale'
    BY <1>3, <1>4, <2>1 DEF Sighting, IInv
  <2> QED BY <1>1, <2>3, <2>4 DEF IInv
<1> QED BY <1>5, <1>6

LEMMA ScannerKeepsInv ==
  IInv /\ (ScannerStarts \/ ScannerFails \/ ScannerStops \/ TrackerRestarts) => IInv'
<1> SUFFICES ASSUME IInv, ScannerStarts \/ ScannerFails \/ ScannerStops \/ TrackerRestarts
             PROVE  IInv'
  OBVIOUS
<1>1. TypeOK' /\ stale' = stale
  BY StepKeepsType DEF IInv, Next, ScannerStarts, ScannerFails, ScannerStops, TrackerRestarts
<1>2. SameRest(st, st') /\ SameLink(st, st')
  BY ZenonT(60)
  DEF IInv, TypeOK, States, ScannerStarts, ScannerFails, ScannerStops, TrackerRestarts,
         OnScannerState, StopScan, SameRest, SameLink, SameSituation, SameSuppression
<1> QED BY <1>1, <1>2, UnreadKeeps DEF IInv, SameRest, SameSituation

LEMMA TrackerPromotesKeepsInv == IInv /\ TrackerPromotes => IInv'
<1> SUFFICES ASSUME IInv, TrackerPromotes PROVE IInv'
  OBVIOUS
<1>1. TypeOK' /\ stale' = stale /\ ~stale
  BY StepKeepsType DEF IInv, Next, TrackerPromotes, Outdated
<1>2. /\ SameRest(st, st') /\ st'.enabled = st.enabled
      /\ st.client = "DISCOVERED" /\ st'.client \in {"DISCOVERED", "CONNECTING"}
  BY DEF IInv, TypeOK, States, TrackerPromotes, SameRest, SameSituation, SameSuppression
<1>3. Sound(st')
  BY <1>2
  DEF IInv, Sound, ReadyIsSound, KeyboardInStep, HaltHasCause, SuppressionIsSound,
      LinkFollowsClient, LinkCounts, Parted, SameRest, SameSituation, SameSuppression
<1> QED BY <1>1, <1>3 DEF IInv

LEMMA HostKeepsInv == IInv /\ (HostSubscribes \/ HostLeaves) => IInv'
<1> SUFFICES ASSUME IInv, HostSubscribes \/ HostLeaves PROVE IInv'
  OBVIOUS
<1>1. TypeOK' /\ stale' = stale
  BY StepKeepsType DEF IInv, Next, HostSubscribes, HostLeaves
<1>2. /\ SameSituation(st, st') /\ SameLink(st, st') /\ SameSuppression(st, st')
      /\ st'.rideReady = st.rideReady /\ st'.sessionQuiesced = st.sessionQuiesced
      /\ st'.hapticPending = st.hapticPending /\ st'.active = st.active
      /\ st'.reportPending = st.reportPending /\ st'.pendingReport = st.pendingReport
  BY DEF IInv, TypeOK, States, HostSubscribes, HostLeaves, SameSituation, SameLink, SameSuppression
<1>3. /\ st'.kb.allowed = st.kb.allowed /\ st'.kb.halted = st.kb.halted
      /\ st'.kb.image \in {Up, st.kb.image} /\ (st.kb.halted => ~st'.kb.ready)
  <2>1. st \in States /\ st.kb \in Port!Keyboards
    BY KeyboardTyped DEF IInv, TypeOK
  <2>2. \/ st'.kb = Port!HostReady(st.kb) /\ ~st.kb.halted
        \/ st'.kb = Port!HostUnready(st.kb)
        \/ st'.kb = Port!HostLost(st.kb)
    BY <2>1 DEF HostSubscribes, HostLeaves, States
  <2> QED BY <2>1, <2>2 DEF Port!HostReady, Port!HostUnready, Port!HostLost, Port!Keyboards
<1>4. Sound(st') /\ (Outdated(st) => Outdated(st'))
  BY <1>2, <1>3
  DEF IInv, Sound, ReadyIsSound, KeyboardInStep, HaltHasCause, SuppressionIsSound,
      LinkFollowsClient, LinkCounts, Outdated, SameLink, SameSituation, SameSuppression
<1> QED BY <1>1, <1>2, <1>4 DEF IInv, SameSituation

\* Updates, shutdown and restarts.
LEMMA QuiesceKeepsInv == IInv /\ (OtaStarts \/ Shutdown) => IInv'
<1> SUFFICES ASSUME IInv, OtaStarts \/ Shutdown PROVE IInv'
  OBVIOUS
<1>1. Typed(st) /\ Sound(st) /\ HaltIsBlank(st)
  BY SoundHalts DEF IInv, TypeOK, Typed
<1>2. PICK s \in {[st EXCEPT !.otaActive = TRUE], [st EXCEPT !.stopped = TRUE]}, ok \in BOOLEAN :
        st' = QuiesceBridge(s, ok)
  BY DEF OtaStarts, Shutdown
<1>3. Typed(s)
  BY <1>1, <1>2, WithMember
<1>4. /\ SameLink(st, s) /\ s.kb = st.kb /\ s.phase = st.phase /\ s.silent = st.silent
      /\ s.otaActive \/ s.stopped
      /\ s.stopped => st.stopped \/ s.otaActive = st.otaActive
  BY <1>1, <1>2 DEF Typed, States, SameLink
<1>5. /\ InputClosed(st') /\ AllUp(st') /\ SameSituation(s, st')
      /\ ~st'.suppressed /\ ~st'.policySuppressed
      /\ st'.client = Dropped(s.client) /\ st'.enabled = s.enabled
      /\ st'.kb.halted /\ ~st'.kb.allowed /\ ~st'.kb.ready
  BY <1>1, <1>2, <1>3, <1>4, QuiesceBridgeDoes DEF HaltIsBlank
<1>6. Typed(st')
  BY <1>2, <1>3, QuiesceTypes
<1>7. ReadyIsSound(st') /\ KeyboardInStep(st')
  <2>1. st'.kb.allowed = st'.rideReady
    BY <1>5, <1>6 DEF Typed, States, Port!Keyboards, InputClosed
  <2> QED BY <1>5, <2>1 DEF InputClosed, AllUp, ReadyIsSound, KeyboardInStep
<1>8. HaltHasCause(st') /\ SuppressionIsSound(st')
  <2>1. st'.suppressed = st'.policySuppressed
    BY <1>5, <1>6 DEF Typed, States
  <2> QED BY <1>4, <1>5, <2>1 DEF AllUp, SameSituation, HaltHasCause, SuppressionIsSound
<1>9. LinkFollowsClient(st') /\ LinkCounts(st')
  BY <1>1, <1>4, <1>5
  DEF Sound, LinkFollowsClient, LinkCounts, SameSituation, SameLink, Dropped
<1>10. Outdated(st')
  BY <1>5 DEF Outdated, InputClosed, Dropped
<1>11. stale' = (st'.phase # "closed")
  BY DEF OtaStarts, Shutdown, Quiesced
<1> QED BY <1>6, <1>7, <1>8, <1>9, <1>10, <1>11 DEF IInv, TypeOK, Typed, Sound

LEMMA OtaStopsKeepsInv == IInv /\ OtaStops => IInv'
<1> SUFFICES ASSUME IInv, OtaStops PROVE IInv'
  OBVIOUS
<1>1. TypeOK'
  BY StepKeepsType DEF IInv, Next
<1>2. PICK ready \in BOOLEAN : st' = ResumeAfterOta(st, ready)
  BY BleTyped DEF OtaStops, IInv, TypeOK
<1>3. Sound(st')
  BY <1>2, SMTT(30)
  DEF IInv, TypeOK, States, OtaStops, ResumeAfterOta, Enable, Port!Resumed, Port!Keyboards,
      Sound, ReadyIsSound, KeyboardInStep,
      HaltHasCause, SuppressionIsSound, LinkFollowsClient, LinkCounts, Parted
<1>4. stale' => st'.phase # "closed" /\ Outdated(st')
  BY <1>2 DEF IInv, TypeOK, States, OtaStops, ResumeAfterOta, Enable, Outdated
<1> QED BY <1>1, <1>3, <1>4 DEF IInv

LEMMA BleDisabledKeepsInv == IInv /\ BleDisabled => IInv'
<1> SUFFICES ASSUME IInv, BleDisabled PROVE IInv'
  OBVIOUS
<1>1. Typed(st) /\ Sound(st) /\ HaltIsBlank(st) /\ TypeOK'
  BY SoundHalts, StepKeepsType DEF IInv, TypeOK, Typed, Next
<1>2. PICK ok \in BOOLEAN :
        st' = [BeforeDisabled(st, ok) EXCEPT !.bleActive = FALSE, !.client = "INIT",
                                            !.scanner = "IDLE", !.silent = FALSE]
  BY DEF BleDisabled
<1> DEFINE b == BeforeDisabled(st, ok)
<1>3. Typed(b)
  BY <1>1, EventTypes, UpReport
<1>4. /\ AllUp(b) /\ SameSituation(st, b) /\ SameLink(st, b)
      /\ ~b.suppressed /\ ~b.policySuppressed
      /\ b.hapticPending = st.hapticPending /\ b.sessionQuiesced /\ ~b.rideReady
      /\ b.kb.halted = st.kb.halted /\ ~b.kb.allowed /\ ~b.kb.ready
  BY <1>1, BeforeDisabledDoes
<1>5. st' = [b EXCEPT !.bleActive = FALSE, !.client = "INIT", !.scanner = "IDLE", !.silent = FALSE]
  BY <1>2
<1> HIDE DEF b
<1>6. /\ AllUp(st') /\ st'.otaActive = st.otaActive /\ st'.stopped = st.stopped
      /\ st'.releaseHidWhenIdle = st.releaseHidWhenIdle /\ st'.phase = st.phase
      /\ st'.enabled = st.enabled /\ st'.client = "INIT"
      /\ ~st'.suppressed /\ ~st'.policySuppressed
      /\ st'.hapticPending = st.hapticPending /\ st'.sessionQuiesced /\ ~st'.rideReady
      /\ st'.kb.halted = st.kb.halted /\ ~st'.kb.allowed /\ ~st'.kb.ready
  BY <1>3, <1>4, <1>5 DEF Typed, States, AllUp, SameSituation, SameLink
<1>7. /\ st'.kb.allowed = st'.rideReady /\ st'.suppressed = st'.policySuppressed
  BY <1>1, <1>6 DEF TypeOK, States, Port!Keyboards
<1>8. ReadyIsSound(st') /\ KeyboardInStep(st')
  BY <1>1, <1>6, <1>7 DEF Sound, AllUp, ReadyIsSound, KeyboardInStep
<1>9. HaltHasCause(st') /\ SuppressionIsSound(st')
  BY <1>1, <1>6, <1>7 DEF Sound, AllUp, HaltHasCause, SuppressionIsSound, Parted, BleDisabled
<1>10. LinkFollowsClient(st') /\ LinkCounts(st') /\ Outdated(st')
  BY <1>6 DEF LinkFollowsClient, LinkCounts, Outdated
<1> QED BY <1>1, <1>8, <1>9, <1>10 DEF IInv, Sound, BleDisabled, Quiesced

LEMMA RequestReconnectKeepsInv == IInv /\ RequestReconnect => IInv'
<1> SUFFICES ASSUME IInv, RequestReconnect PROVE IInv'
  OBVIOUS
<1>1. Typed(st) /\ Sound(st)
  BY DEF IInv, TypeOK, Typed
<1>2. PICK ready \in BOOLEAN : st' = EndSuppression(st, ready)
  BY <1>1, BleTyped DEF RequestReconnect, Typed
<1>3. Keeps(st, st') /\ st'.phase = st.phase
  BY <1>1, <1>2, EndSuppressionKeeps DEF RequestReconnect
<1> QED BY <1>3, KeepsIInv DEF RequestReconnect, IInv, TypeOK

LEMMA StepKeepsInv == IInv /\ [Next]_vars => IInv'
<1> SUFFICES ASSUME IInv, [Next]_vars PROVE IInv'
  OBVIOUS
<1>1. CASE Loop
  BY <1>1, LoopKeepsInv
<1>2. CASE ConnectEvent \/ OpenEvent
  BY <1>2, ConnectEventKeepsInv, OpenEventKeepsInv
<1>3. CASE OpenFails \/ LinkEnds
  BY <1>3, EndKeepsInv DEF OpenFails, LinkEnds
<1>4. CASE Subscribed \/ SessionReady
  BY <1>4, SubscribedKeepsInv, SessionReadyKeepsInv
<1>5. CASE \E r \in Reports : Notification(r)
  BY <1>5, NotificationKeepsInv
<1>6. CASE LinkEndsSilently \/ BleEnabled
  BY <1>6, LinkEndsSilentlyKeepsInv
<1>7. CASE Sighting
  BY <1>7, SightingKeepsInv
<1>8. CASE ScannerStarts \/ ScannerFails \/ ScannerStops \/ TrackerRestarts
  BY <1>8, ScannerKeepsInv
<1>9. CASE TrackerPromotes
  BY <1>9, TrackerPromotesKeepsInv
<1>10. CASE HostSubscribes \/ HostLeaves
  BY <1>10, HostKeepsInv
<1>11. CASE OtaStarts \/ Shutdown
  BY <1>11, QuiesceKeepsInv
<1>12. CASE OtaStops
  BY <1>12, OtaStopsKeepsInv
<1>13. CASE BleDisabled
  BY <1>13, BleDisabledKeepsInv
<1>14. CASE RequestReconnect
  BY <1>14, RequestReconnectKeepsInv
<1>15. CASE UNCHANGED vars
  BY <1>15 DEF vars, IInv, TypeOK
<1> QED
  BY <1>1, <1>2, <1>3, <1>4, <1>5, <1>6, <1>7, <1>8, <1>9, <1>10, <1>11, <1>12, <1>13,
     <1>14, <1>15 DEF Next

LEMMA Invariance == Spec => []IInv
BY InitialInv, StepKeepsInv, PTL DEF Spec

-----------------------------------------------------------------------------
(* What the invariant says of the properties.                              *)

LEMMA IInvImplies ==
  IInv => /\ KeysOnlyInSession /\ GateFollowsSession /\ ReportIsCurrent
          /\ PulseInSession /\ SessionIsFresh
<1> SUFFICES ASSUME IInv
             PROVE  /\ KeysOnlyInSession /\ GateFollowsSession /\ ReportIsCurrent
                    /\ PulseInSession /\ SessionIsFresh
  OBVIOUS
<1>1. KeysOnlyInSession /\ PulseInSession
  BY DEF IInv, Sound, ReadyIsSound, KeysOnlyInSession, PulseInSession
<1>2. GateFollowsSession /\ ReportIsCurrent
  BY DEF IInv, Sound, KeyboardInStep, GateFollowsSession, ReportIsCurrent
<1>3. SessionIsFresh
  BY DEF IInv, Sound, ReadyIsSound, LinkFollowsClient, Outdated, SessionIsFresh
<1> QED BY <1>1, <1>2, <1>3

\* A key is down only while a handshaken session stands and nothing is quiesced.
THEOREM KeysReleased == Spec => []KeysOnlyInSession
BY Invariance, IInvImplies, PTL

\* The keyboard's gate follows the session.
THEOREM GateCorrect == Spec => []GateFollowsSession
BY Invariance, IInvImplies, PTL

\* No report that is out of date is sent, or left with the host.
THEOREM ReportsCurrent == Spec => []ReportIsCurrent
BY Invariance, IInvImplies, PTL

\* A pulse that is due never outlives its session.
THEOREM PulsesEnd == Spec => []PulseInSession
BY Invariance, IInvImplies, PTL

\* A session that was quiesced never counts again.
THEOREM SessionsFresh == Spec => []SessionIsFresh
BY Invariance, IInvImplies, PTL

\* Unless a controller is taken up during an update, a handshake counts.
THEOREM HandshakesCount ==
  ASSUME ~LinksDuringUpdate
  PROVE  Spec => []HandshakeCounts
<1>1. IInv => HandshakeCounts
  BY DEF IInv, Sound, LinkCounts, HandshakeCounts
<1> QED BY <1>1, Invariance, PTL

\* Unless the BLE stack restarts while the client is disabled, the client is never
\* left disabled.
THEOREM NeverLeftDisabled ==
  ASSUME ~RestartsWhileSuppressed
  PROVE  Spec => []DisabledOnlyWhileSuppressed
<1>1. IInv => DisabledOnlyWhileSuppressed
  BY DEF IInv, Sound, SuppressionIsSound, DisabledOnlyWhileSuppressed
<1> QED BY <1>1, Invariance, PTL

-----------------------------------------------------------------------------
(* The session, as RideSession has it.                                     *)

\* How the phase of the session may change.
PhaseSteps ==
  \/ st'.phase \in {st.phase, "closed"}
  \/ st.phase # "ready" /\ st'.phase = "opening"
  \/ st.phase = "opening" /\ st'.phase = "subscribed"
  \/ st.phase \in {"opening", "subscribed"} /\ st'.phase = "ready"

LEMMA NextPhase == IInv /\ [Next]_vars => PhaseSteps
<1> SUFFICES ASSUME IInv, [Next]_vars PROVE PhaseSteps
  OBVIOUS
<1>1. Typed(st) /\ Sound(st)
  BY DEF IInv, TypeOK, Typed
<1>2. CASE Loop
  <2>1. PICK verdict \in Verdicts(st) : LoopWith(verdict)
    BY <1>2 DEF Loop, LoopWith
  <2>2. PICK stalled \in BOOLEAN, ok \in BOOLEAN, buzz \in BOOLEAN, ready \in BOOLEAN :
          st' = LoopStep(verdict, stalled, ok, ready, buzz)
    BY <1>1, <2>1 DEF LoopWith, Typed, States
  <2>3. Keeps(st, st')
    BY <1>1, <2>2, LoopStepKeeps
  <2> QED BY <2>3 DEF Keeps, PhaseSteps
<1>3. CASE ConnectEvent \/ OpenEvent
  <2>1. st.phase # "ready"
    BY <1>1, <1>3 DEF ConnectEvent, OpenEvent, Sound, LinkFollowsClient
  <2>2. st'.phase = "opening"
    BY <1>1, <1>3 DEF ConnectEvent, OpenEvent, ReopenInput, Typed, States
  <2> QED BY <2>1, <2>2 DEF PhaseSteps
<1>4. CASE OpenFails \/ LinkEnds
  <2> DEFINE s == [st EXCEPT !.client = "IDLE"]
  <2>1. PICK ok \in BOOLEAN : st' = SessionEnds(s, ok)
    BY <1>4 DEF OpenFails, LinkEnds
  <2>2. Typed(s)
    BY <1>1, WithMember DEF ClientStates
  <2>3. /\ s.client = "IDLE" /\ SameRest(st, s) /\ s.enabled = st.enabled
    BY <1>1 DEF Typed, States, SameRest, SameSituation, SameSuppression
  <2> HIDE DEF s
  <2>4. ReadyIsSound(s) /\ KeyboardInStep(s) /\ HaltHasCause(s) /\ SuppressionIsSound(s)
    BY <1>1, <2>3
    DEF Sound, ReadyIsSound, KeyboardInStep, HaltHasCause, SuppressionIsSound, Parted, SameRest,
        SameSituation, SameSuppression
  <2>5. st'.phase = "closed"
    BY <2>1, <2>2, <2>3, <2>4, SessionEndsKeeps
  <2> QED BY <2>5 DEF PhaseSteps
<1>5. CASE Subscribed
  BY <1>1, <1>5 DEF Subscribed, Typed, States, PhaseSteps
<1>6. CASE SessionReady
  <2>1. \A pulse \in BOOLEAN : OnRideReady([st EXCEPT !.phase = "ready"], pulse).phase = "ready"
    BY <1>1 DEF OnRideReady, ForgetSuppression, Typed, States
  <2> QED BY <1>6, <2>1 DEF SessionReady, PhaseSteps
<1>7. CASE \E r \in Reports : Notification(r)
  BY <1>1, <1>7 DEF Notification, OnRideNotification, QueueCurrentReport, Typed, States, PhaseSteps
<1>8. CASE LinkEndsSilently \/ BleEnabled
  BY <1>1, <1>8 DEF LinkEndsSilently, BleEnabled, Typed, States, PhaseSteps
<1>9. CASE Sighting
  <2>1. PICK wakes \in BOOLEAN, ready \in BOOLEAN :
          st' = ClientParsesDevice(ParseDevice(st, wakes, ready))
    BY <1>1, <1>9 DEF Sighting, Typed, States
  <2>2. \A s : Typed(s) => ClientParsesDevice(s).phase = s.phase
    BY DEF ClientParsesDevice, Typed, States
  <2>3. Typed(ParseDevice(st, wakes, ready))
    BY <1>1, EventTypes, UpReport
  <2>4. ParseDevice(st, wakes, ready).phase = st.phase
    BY <1>1 DEF ParseDevice, EndSuppression, Enable, ForgetSuppression, Typed, States
  <2> QED BY <2>1, <2>2, <2>3, <2>4 DEF PhaseSteps
<1>10. CASE ScannerStarts \/ ScannerFails \/ ScannerStops \/ TrackerRestarts \/ TrackerPromotes
  BY <1>1, <1>10
  DEF ScannerStarts, ScannerFails, ScannerStops, TrackerRestarts, TrackerPromotes, OnScannerState,
      StopScan, Typed, States, PhaseSteps
<1>11. CASE HostSubscribes \/ HostLeaves
  BY <1>1, <1>11 DEF HostSubscribes, HostLeaves, Typed, States, PhaseSteps
<1>12. CASE OtaStarts \/ Shutdown
  <2>1. PICK s \in {[st EXCEPT !.otaActive = TRUE], [st EXCEPT !.stopped = TRUE]},
             ok \in BOOLEAN : st' = QuiesceBridge(s, ok)
    BY <1>12 DEF OtaStarts, Shutdown
  <2>2. Typed(s) /\ s.phase = st.phase /\ s.kb = st.kb
    <3>1. Typed(s)
      BY <1>1, <2>1, WithMember
    <3> QED BY <1>1, <2>1, <3>1 DEF Typed, States
  <2>3. HaltIsBlank(s)
    BY <1>1, <2>2, SoundHalts DEF HaltIsBlank
  <2>4. st'.phase = s.phase
    BY <2>1, <2>2, <2>3, QuiesceBridgeDoes DEF SameSituation
  <2> QED BY <2>2, <2>4 DEF PhaseSteps
<1>13. CASE OtaStops
  BY <1>1, <1>13 DEF OtaStops, ResumeAfterOta, Enable, Typed, States, PhaseSteps
<1>14. CASE BleDisabled
  <2>1. PICK ok \in BOOLEAN :
          st' = [BeforeDisabled(st, ok) EXCEPT !.bleActive = FALSE, !.client = "INIT",
                                              !.scanner = "IDLE", !.silent = FALSE]
    BY <1>14 DEF BleDisabled
  <2> DEFINE b == BeforeDisabled(st, ok)
  <2>2. Typed(b)
    BY <1>1, EventTypes, UpReport
  <2>3. b.phase = st.phase
    BY <1>1, SoundHalts, BeforeDisabledDoes DEF SameSituation
  <2>4. st'.phase = b.phase
    <3> HIDE DEF b
    <3>1. st' = [b EXCEPT !.bleActive = FALSE, !.client = "INIT", !.scanner = "IDLE",
                          !.silent = FALSE]
      BY <2>1 DEF b
    <3> QED BY <2>2, <3>1 DEF Typed, States
  <2> QED BY <2>3, <2>4 DEF PhaseSteps
<1>15. CASE RequestReconnect
  BY <1>1, <1>15 DEF RequestReconnect, EndSuppression, Enable, ForgetSuppression, Typed, States,
                     PhaseSteps
<1>16. CASE UNCHANGED vars
  BY <1>16 DEF vars, PhaseSteps
<1> QED
  BY <1>2, <1>3, <1>4, <1>5, <1>6, <1>7, <1>8, <1>9, <1>10, <1>11, <1>12, <1>13, <1>14, <1>15,
     <1>16 DEF Next

\* The bridge, its client and the scanner put RideClient's sessions together the way
\* RideSession says: none is reopened while it is ready.
THEOREM SessionsHonoured == Spec => HonoursSession
<1>1. Init => Session!SessionInit
  BY DEF Init, Session!SessionInit
<1>2. IInv /\ [Next]_vars => [Session!SessionNext]_(Session!sessionVars)
  <2> SUFFICES ASSUME IInv, [Next]_vars PROVE [Session!SessionNext]_(Session!sessionVars)
    OBVIOUS
  <2>1. PhaseSteps
    BY NextPhase
  <2> QED
    BY <2>1
    DEF PhaseSteps, Session!SessionNext, Session!Open, Session!Subscribe, Session!Ready,
        Session!Close, Session!sessionVars
<1> QED BY <1>1, <1>2, Invariance, PTL DEF Spec, HonoursSession, Session!SessionSpec
-----------------------------------------------------------------------------
(* No keys are forgotten: the half of KeysReachHost that is an invariant.  *)

\* A ready host that does not hold the current keys is about to be told, or its
\* readiness has yet to be noticed.
Owed(s) == s.kb.ready /\ s.kb.image # s.active => s.reportPending \/ ~s.hidReadyLast
KeysAreOwed == Owed(st)

SameReports(s, t) ==
  /\ t.kb = s.kb /\ t.active = s.active
  /\ t.reportPending = s.reportPending /\ t.hidReadyLast = s.hidReadyLast

LEMMA SameReportsOwed ==
  ASSUME NEW s, NEW t, SameReports(s, t), Owed(s)
  PROVE  Owed(t)
BY DEF SameReports, Owed

\* Without a ready session there are no keys.
LEMMA NothingOwed ==
  ASSUME NEW s, Sound(s), ~s.rideReady
  PROVE  Owed(s)
BY DEF Sound, ReadyIsSound, Owed

LEMMA PolicyOwed ==
  ASSUME NEW s, Typed(s), Sound(s), Owed(s), NEW verdict \in Verdicts(s),
         NEW ok \in BOOLEAN, NEW ready \in BOOLEAN
  PROVE  Owed(UpdateIdlePolicy(s, verdict, ok, ready))
<1> DEFINE t == UpdateIdlePolicy(s, verdict, ok, ready)
<1>1. Sound(t) /\ (verdict = "disconnect" => Outdated(t))
  BY UpdateIdlePolicyKeeps DEF Keeps
<1>2. CASE verdict = "disconnect"
  BY <1>1, <1>2, NothingOwed DEF Outdated
<1>3. CASE verdict = "rearm"
  <2>1. s.suppressed /\ ~s.rideReady
    BY <1>3 DEF Verdicts, Sound, SuppressionIsSound
  <2>2. t = EndSuppression(s, ready)
    BY <1>3 DEF UpdateIdlePolicy
  <2>3. EndSuppression(s, ready).rideReady = s.rideReady
    BY DEF Typed, States, EndSuppression, Enable, ForgetSuppression
  <2> QED BY <1>1, <2>1, <2>2, <2>3, NothingOwed
<1>4. CASE verdict \notin {"disconnect", "rearm"}
  <2>1. t \in {s, [s EXCEPT !.policySuppressed = FALSE]}
    BY <1>4 DEF UpdateIdlePolicy
  <2>2. SameReports(s, [s EXCEPT !.policySuppressed = FALSE])
    BY DEF Typed, States, SameReports
  <2> HIDE DEF t
  <2> QED BY <2>1, <2>2, SameReportsOwed DEF t
<1> QED BY <1>2, <1>3, <1>4

LEMMA RideClientLoopOwed ==
  ASSUME NEW s, Typed(s), Sound(s), Owed(s), NEW ok \in BOOLEAN, NEW stalled \in BOOLEAN
  PROVE  Owed(RideClientLoop(s, stalled, ok))
<1> DEFINE t == RideClientLoop(s, stalled, ok)
<1>1. CASE s.client = "IDLE"
  <2>1. t = SessionEnds(s, ok)
    BY <1>1 DEF RideClientLoop
  <2>2. Sound(t) /\ Outdated(t)
    BY <1>1, <2>1, SessionEndsKeeps DEF Sound
  <2> QED BY <2>2, NothingOwed DEF Outdated
<1>2. CASE s.client # "IDLE"
  <2>1. t \in {s, ClientDisconnect(s)}
    BY <1>2 DEF RideClientLoop
  <2>2. SameReports(s, ClientDisconnect(s))
    BY DEF Typed, States, ClientDisconnect, SameReports
  <2> HIDE DEF t
  <2> QED BY <2>1, <2>2, SameReportsOwed DEF t
<1> QED BY <1>1, <1>2

LEMMA WatchHostOwed ==
  ASSUME NEW s, Typed(s), Sound(s), Owed(s), NEW ok \in BOOLEAN
  PROVE  Owed(WatchHost(s, ok))
<1>1. CASE s.kb.ready = s.hidReadyLast
  BY <1>1 DEF WatchHost
<1>2. CASE s.kb.ready # s.hidReadyLast /\ s.kb.ready
  <2>1. \A n \in {TRUE} : QueueCurrentReport([s EXCEPT !.hidReadyLast = n]).reportPending
    BY DEF Typed, States, QueueCurrentReport
  <2> QED BY <1>2, <2>1 DEF WatchHost, Owed
<1>3. CASE s.kb.ready # s.hidReadyLast /\ ~s.kb.ready
  <2> DEFINE u == [s EXCEPT !.hidReadyLast = FALSE]
  <2>1. Typed(u) /\ u.kb = s.kb
    BY DEF Typed, States
  <2> HIDE DEF u
  <2>2. AllUp(ReleaseAll(u, ok))
    BY <2>1, ReleaseAllDoes, SoundHalts DEF Typed, HaltIsBlank
  <2> QED BY <1>3, <2>2 DEF WatchHost, Owed, AllUp, u
<1> QED BY <1>1, <1>2, <1>3 DEF Typed, States, Port!Keyboards

LEMMA SubmitOwed ==
  ASSUME NEW s, Typed(s), Sound(s), Owed(s), NEW ok \in BOOLEAN, NEW buzz \in BOOLEAN
  PROVE  Owed(SubmitUnlessQuiet(s, ok, buzz))
<1> DEFINE u == SubmitPendingReport(s, ok)
           t == SubmitUnlessQuiet(s, ok, buzz)
<1>1. CASE s.otaActive \/ s.stopped
  BY <1>1 DEF SubmitUnlessQuiet
<1>2. CASE ~s.otaActive /\ ~s.stopped
  <2>1. Typed(u)
    BY ReportTypes
  <2>2. Owed(u)
    <3>1. CASE s.reportPending /\ s.kb.ready
      <4>1. u = [s EXCEPT !.kb = Port!Send(@, s.pendingReport), !.reportPending = ~ok]
        BY <3>1 DEF SubmitPendingReport
      <4>2. s.pendingReport = s.active /\ ~s.kb.halted
        BY <3>1, SoundHalts DEF Sound, KeyboardInStep, HaltIsBlank
      <4>3. u.kb = Port!Send(s.kb, s.pendingReport) /\ u.active = s.active
        BY <4>1 DEF Typed, States
      <4>4. Port!Send(s.kb, s.pendingReport).image = s.pendingReport
        BY <4>2 DEF Typed, States, Port!Send, Port!Keyboards
      <4> QED BY <4>2, <4>3, <4>4 DEF Owed
    <3>2. CASE ~(s.reportPending /\ s.kb.ready)
      BY <3>2 DEF SubmitPendingReport
    <3> QED BY <3>1, <3>2
  <2>3. t = [u EXCEPT !.hapticPending = @ /\ ~(buzz /\ s.phase = "ready")]
    BY <1>2 DEF SubmitUnlessQuiet
  <2> HIDE DEF u, t
  <2>4. SameReports(u, t)
    BY <2>1, <2>3 DEF Typed, States, SameReports
  <2> QED BY <2>2, <2>4, SameReportsOwed DEF t
<1> QED BY <1>1, <1>2

LEMMA LoopStepOwed ==
  ASSUME Typed(st), Sound(st), Owed(st), NEW verdict \in Verdicts(st),
         NEW stalled \in BOOLEAN, NEW ok \in BOOLEAN, NEW ready \in BOOLEAN,
         NEW buzz \in BOOLEAN
  PROVE  Owed(LoopStep(verdict, stalled, ok, ready, buzz))
<1> DEFINE found == EnsureRideAddress(st)
           polled == UpdateIdlePolicy(found, verdict, ok, ready)
           scanned == UpdateScannerPolicy(polled)
           checked == RideClientLoop(scanned, stalled, ok)
           watched == WatchHost(checked, ok)
           sent == SubmitUnlessQuiet(watched, ok, buzz)
           t == [sent EXCEPT !.silent = FALSE]
<1>1. Typed(found) /\ Sound(found) /\ Owed(found) /\ verdict \in Verdicts(found)
  <2>1. Keeps(st, found)
    BY EnsureRideAddressKeeps
  <2>2. SameReports(st, found)
    BY DEF Typed, States, EnsureRideAddress, SameReports
  <2>3. verdict \in Verdicts(found)
    BY DEF Typed, States, EnsureRideAddress, Verdicts
  <2> HIDE DEF found
  <2> QED BY <2>1, <2>2, <2>3, SameReportsOwed DEF Keeps
<1> HIDE DEF found
<1>2. Typed(polled) /\ Sound(polled) /\ Owed(polled)
  BY <1>1, UpdateIdlePolicyKeeps, PolicyOwed DEF Keeps
<1> HIDE DEF polled
<1>3. Typed(scanned) /\ Sound(scanned) /\ Owed(scanned)
  <2>1. Keeps(polled, scanned)
    BY <1>2, ScannerPolicyKeeps
  <2>2. SameReports(polled, scanned)
    BY <1>2 DEF Typed, States, UpdateScannerPolicy, StopScan, SameReports
  <2> HIDE DEF scanned
  <2> QED BY <1>2, <2>1, <2>2, SameReportsOwed DEF Keeps
<1> HIDE DEF scanned
<1>4. Typed(checked) /\ Sound(checked) /\ Owed(checked)
  BY <1>3, RideClientLoopKeeps, RideClientLoopOwed DEF Keeps
<1> HIDE DEF checked
<1>5. Typed(watched) /\ Sound(watched) /\ Owed(watched)
  BY <1>4, WatchHostKeeps, WatchHostOwed DEF Keeps
<1> HIDE DEF watched
<1>6. Typed(sent) /\ Owed(sent)
  BY <1>5, SubmitUnlessQuietKeeps, SubmitOwed DEF Keeps
<1> HIDE DEF sent
<1>7. Owed(t)
  <2>1. SameReports(sent, t)
    BY <1>6 DEF Typed, States, SameReports
  <2> HIDE DEF t
  <2> QED BY <1>6, <2>1, SameReportsOwed
<1>8. t = LoopStep(verdict, stalled, ok, ready, buzz)
  BY DEF LoopStep, sent, watched, checked, scanned, polled, found
<1> QED BY <1>7, <1>8

LEMMA StepOwed == IInv /\ Owed(st) /\ [Next]_vars => Owed(st')
<1> SUFFICES ASSUME IInv, Owed(st), [Next]_vars PROVE Owed(st')
  OBVIOUS
<1>1. Typed(st) /\ Sound(st)
  BY DEF IInv, TypeOK, Typed
<1>2. Sound(st')
  BY StepKeepsInv DEF IInv
<1>3. CASE Loop
  <2>1. PICK verdict \in Verdicts(st) : LoopWith(verdict)
    BY <1>3 DEF Loop, LoopWith
  <2>2. PICK stalled \in BOOLEAN, ok \in BOOLEAN, buzz \in BOOLEAN, ready \in BOOLEAN :
          st' = LoopStep(verdict, stalled, ok, ready, buzz)
    BY <1>1, <2>1 DEF LoopWith, Typed, States
  <2> QED BY <1>1, <2>2, LoopStepOwed
<1>4. CASE ConnectEvent \/ OpenEvent \/ Subscribed
  <2>1. st'.phase # "ready"
    BY <1>1, <1>4 DEF ConnectEvent, OpenEvent, Subscribed, ReopenInput, Typed, States
  <2> QED BY <1>2, <2>1, NothingOwed DEF Sound, ReadyIsSound
<1>5. CASE OpenFails \/ LinkEnds
  <2> DEFINE s == [st EXCEPT !.client = "IDLE"]
  <2>1. PICK ok \in BOOLEAN : st' = SessionEnds(s, ok)
    BY <1>5 DEF OpenFails, LinkEnds
  <2>2. Typed(s)
    BY <1>1, WithMember DEF ClientStates
  <2>3. /\ s.client = "IDLE" /\ SameRest(st, s) /\ s.enabled = st.enabled
    BY <1>1 DEF Typed, States, SameRest, SameSituation, SameSuppression
  <2> HIDE DEF s
  <2>4. ReadyIsSound(s) /\ KeyboardInStep(s) /\ HaltHasCause(s) /\ SuppressionIsSound(s)
    BY <1>1, <2>3
    DEF Sound, ReadyIsSound, KeyboardInStep, HaltHasCause, SuppressionIsSound, Parted, SameRest,
        SameSituation, SameSuppression
  <2>5. Outdated(st')
    BY <2>1, <2>2, <2>3, <2>4, SessionEndsKeeps
  <2> QED BY <1>2, <2>5, NothingOwed DEF Outdated
<1>6. CASE SessionReady
  <2> DEFINE s == [st EXCEPT !.phase = "ready"]
  <2>1. PICK pulse \in BOOLEAN : st' = OnRideReady(s, pulse)
    BY <1>6 DEF SessionReady
  <2>2. Typed(s) /\ SameReports(st, s)
    BY <1>1 DEF Typed, States, SameReports
  <2> HIDE DEF s
  <2>3. CASE st' = s
    BY <2>2, <2>3, SameReportsOwed
  <2>4. CASE st' # s
    <3> DEFINE g == ForgetSuppression(s)
    <3>1. Typed(g) /\ SameReports(s, g)
      BY <2>2 DEF Typed, States, ForgetSuppression, SameReports
    <3>2. st' = [g EXCEPT !.rideReady = TRUE, !.kb = Port!Allow(@),
                          !.hapticPending = @ \/ pulse]
      BY <2>1, <2>4 DEF OnRideReady
    <3> HIDE DEF g
    <3>3. /\ st'.kb = Port!Allow(g.kb) /\ st'.active = g.active
          /\ st'.reportPending = g.reportPending /\ st'.hidReadyLast = g.hidReadyLast
      BY <3>1, <3>2 DEF Typed, States
    <3>4. Port!Allow(g.kb).image = g.kb.image /\ Port!Allow(g.kb).ready = g.kb.ready
      BY <3>1 DEF Typed, States, Port!Allow, Port!Keyboards
    <3> QED BY <2>2, <3>1, <3>3, <3>4 DEF Owed, SameReports
  <2> QED BY <2>3, <2>4
<1>7. CASE \E r \in Reports : Notification(r)
  <2>1. PICK r \in Reports : \E changed, pulse : st' = OnRideNotification(st, r, changed, pulse)
    BY <1>7 DEF Notification
  <2>2. st' = st \/ st'.reportPending
    BY <1>1, <2>1 DEF OnRideNotification, QueueCurrentReport, Typed, States
  <2> QED BY <2>2 DEF Owed
<1>8. CASE LinkEndsSilently \/ BleEnabled \/ TrackerPromotes
           \/ ScannerStarts \/ ScannerFails \/ ScannerStops \/ TrackerRestarts
  <2>1. SameReports(st, st')
    BY <1>1, <1>8, ZenonT(60)
    DEF LinkEndsSilently, BleEnabled, TrackerPromotes, ScannerStarts, ScannerFails, ScannerStops,
        TrackerRestarts, OnScannerState, StopScan, Typed, States, SameReports
  <2> QED BY <2>1, SameReportsOwed
<1>9. CASE Sighting
  <2>1. PICK wakes \in BOOLEAN, ready \in BOOLEAN :
          st' = ClientParsesDevice(ParseDevice(st, wakes, ready))
    BY <1>1, <1>9 DEF Sighting, Typed, States
  <2> DEFINE p == ParseDevice(st, wakes, ready)
  <2>2. Typed(p)
    BY <1>1, EventTypes, UpReport
  <2>3. p.rideReady = st.rideReady /\ (SameReports(st, p) \/ ~st.rideReady)
    <3>1. CASE st.policySuppressed
      <4>1. ~st.rideReady
        BY <1>1, <3>1 DEF Sound, SuppressionIsSound, ReadyIsSound
      <4>2. p.rideReady = st.rideReady
        BY <1>1 DEF ParseDevice, EndSuppression, Enable, ForgetSuppression, Typed, States
      <4> QED BY <4>1, <4>2
    <3>2. CASE ~st.policySuppressed
      BY <1>1, <3>2 DEF ParseDevice, Typed, States, SameReports
    <3> QED BY <3>1, <3>2
  <2> HIDE DEF p
  <2>4. st'.rideReady = p.rideReady /\ SameReports(p, st')
    BY <2>1, <2>2 DEF ClientParsesDevice, Typed, States, SameReports, p
  <2>5. CASE ~st.rideReady
    BY <1>2, <2>3, <2>4, <2>5, NothingOwed
  <2>6. CASE st.rideReady
    BY <2>3, <2>4, <2>6, SameReportsOwed
  <2> QED BY <2>5, <2>6
<1>10. CASE HostSubscribes \/ HostLeaves
  <2>1. ~st'.kb.ready \/ ~st'.hidReadyLast
    BY <1>1, <1>10 DEF HostSubscribes, HostLeaves, Typed, States, Port!HostReady,
                       Port!HostUnready, Port!HostLost, Port!Keyboards
  <2> QED BY <2>1 DEF Owed
<1>11. CASE OtaStarts \/ Shutdown \/ BleDisabled
  <2>1. ~st'.rideReady
    <3>1. CASE OtaStarts \/ Shutdown
      <4>1. PICK s \in {[st EXCEPT !.otaActive = TRUE], [st EXCEPT !.stopped = TRUE]},
                 ok \in BOOLEAN : st' = QuiesceBridge(s, ok)
        BY <3>1 DEF OtaStarts, Shutdown
      <4>2. Typed(s) /\ s.kb = st.kb
        <5>1. Typed(s)
          BY <1>1, <4>1, WithMember
        <5> QED BY <1>1, <4>1, <5>1 DEF Typed, States
      <4>3. HaltIsBlank(s)
        BY <1>1, <4>2, SoundHalts DEF HaltIsBlank
      <4> QED BY <4>1, <4>2, <4>3, QuiesceBridgeDoes DEF InputClosed
    <3>2. CASE BleDisabled
      <4>1. PICK ok \in BOOLEAN :
              st' = [BeforeDisabled(st, ok) EXCEPT !.bleActive = FALSE, !.client = "INIT",
                                                  !.scanner = "IDLE", !.silent = FALSE]
        BY <3>2 DEF BleDisabled
      <4> DEFINE b == BeforeDisabled(st, ok)
      <4>2. Typed(b) /\ ~b.rideReady
        BY <1>1, EventTypes, UpReport, SoundHalts, BeforeDisabledDoes
      <4>3. st' = [b EXCEPT !.bleActive = FALSE, !.client = "INIT", !.scanner = "IDLE",
                            !.silent = FALSE]
        BY <4>1
      <4> HIDE DEF b
      <4> QED BY <4>2, <4>3 DEF Typed, States
    <3> QED BY <1>11, <3>1, <3>2
  <2> QED BY <1>2, <2>1, NothingOwed
<1>12. CASE OtaStops \/ RequestReconnect
  <2>1. ~st.rideReady
    BY <1>1, <1>12 DEF OtaStops, RequestReconnect, Sound, ReadyIsSound
  <2>2. st'.rideReady = st.rideReady
    BY <1>1, <1>12 DEF OtaStops, ResumeAfterOta, RequestReconnect, EndSuppression, Enable,
                       ForgetSuppression, Typed, States
  <2> QED BY <1>2, <2>1, <2>2, NothingOwed
<1>13. CASE UNCHANGED vars
  BY <1>13 DEF vars
<1> QED
  BY <1>3, <1>4, <1>5, <1>6, <1>7, <1>8, <1>9, <1>10, <1>11, <1>12, <1>13 DEF Next

\* No keys are forgotten: when a ready host does not hold the keys that are held on
\* the controller, their report waits to be sent, or loop() has yet to see that the
\* host is ready and will queue it, through updates, idle periods, restarts of the
\* stack and hosts that come and go.  KeysReachHost adds, under fairness, that the
\* report is then sent.
THEOREM NoKeysForgotten == Spec => []KeysAreOwed
<1>1. Init => KeysAreOwed
  <2> SUFFICES ASSUME Init PROVE Owed(st)
    BY DEF KeysAreOwed
  <2>1. Sound(st)
    BY InitialInv DEF IInv
  <2>2. ~st.rideReady
    BY DEF Init
  <2> QED BY <2>1, <2>2, NothingOwed
<1>2. IInv /\ KeysAreOwed /\ [Next]_vars => KeysAreOwed'
  BY StepOwed DEF KeysAreOwed
<1> QED BY <1>1, <1>2, Invariance, PTL DEF Spec
-----------------------------------------------------------------------------
(* The radio is quiet: the half of UpdateStopsScanning that is an          *)
(* invariant.                                                              *)

\* Nothing is scanned for during an update, or once the bridge is shut down.
RadioQuiet == st.otaActive \/ st.stopped => st.scanner # "RUNNING"

\* Nor without a stack, which is why a bridge that quiesces meanwhile need not
\* stop the scanner.
Quiet(s) ==
  /\ s.otaActive \/ s.stopped => s.scanner # "RUNNING"
  /\ ~s.bleActive => s.scanner = "IDLE"

RadioMembers == {"otaActive", "stopped", "bleActive", "scanner"}

\* A step that has nothing to do with the radio.
SameRadio(s, t) ==
  /\ RadioMembers \subseteq DOMAIN t
  /\ t.otaActive = s.otaActive /\ t.stopped = s.stopped
  /\ t.bleActive = s.bleActive /\ t.scanner = s.scanner

LEMMA SameRadioQuiet ==
  ASSUME NEW s, NEW t, SameRadio(s, t), Quiet(s)
  PROVE  Quiet(t)
BY DEF SameRadio, Quiet

LEMMA SameRadioAgain ==
  ASSUME NEW s, NEW t, NEW u, SameRadio(s, t), SameRadio(t, u)
  PROVE  SameRadio(s, u)
BY DEF SameRadio

LEMMA StepsSameRadio ==
  ASSUME NEW s, RadioMembers \subseteq DOMAIN s, NEW ok, NEW k
  PROVE  /\ SameRadio(s, s) /\ SameRadio(s, [s EXCEPT !.kb = k])
         /\ SameRadio(s, ClientDisconnect(s)) /\ SameRadio(s, Enable(s))
         /\ SameRadio(s, ForgetSuppression(s)) /\ SameRadio(s, CloseInput(s))
         /\ SameRadio(s, QueueCurrentReport(s)) /\ SameRadio(s, SubmitPendingReport(s, ok))
         /\ SameRadio(s, ReleaseAll(s, ok)) /\ SameRadio(s, EnsureRideAddress(s))
         /\ SameRadio(s, ReopenInput(s))
<1> USE DEF SameRadio, RadioMembers
<1>1. SameRadio(s, s) /\ SameRadio(s, [s EXCEPT !.kb = k])
  OBVIOUS
<1>2. SameRadio(s, ClientDisconnect(s)) /\ SameRadio(s, Enable(s))
  BY DEF ClientDisconnect, Enable
<1>3. SameRadio(s, ForgetSuppression(s)) /\ SameRadio(s, CloseInput(s))
  BY DEF ForgetSuppression, CloseInput
<1>4. SameRadio(s, QueueCurrentReport(s)) /\ SameRadio(s, SubmitPendingReport(s, ok))
  BY DEF QueueCurrentReport, SubmitPendingReport
<1>5. SameRadio(s, ReleaseAll(s, ok)) /\ SameRadio(s, EnsureRideAddress(s))
  BY DEF ReleaseAll, EnsureRideAddress
<1>6. SameRadio(s, ReopenInput(s))
  BY DEF ReopenInput
<1> QED BY <1>1, <1>2, <1>3, <1>4, <1>5, <1>6

LEMMA SessionSameRadio ==
  ASSUME NEW s, RadioMembers \subseteq DOMAIN s, NEW ok
  PROVE  SameRadio(s, SessionEnds(s, ok))
<1>1. CASE s.phase = "closed"
  BY <1>1, StepsSameRadio DEF SessionEnds
<1>2. CASE s.phase # "closed"
  <2> DEFINE c == [s EXCEPT !.phase = "closed"]
             i == CloseInput(c)
             r == ReleaseAll(i, ok)
             t == [r EXCEPT !.kb = Port!Disallow(r.kb)]
  <2>1. SameRadio(s, c)
    BY DEF SameRadio, RadioMembers
  <2> HIDE DEF c
  <2>2. SameRadio(c, i)
    BY <2>1, StepsSameRadio DEF SameRadio
  <2> HIDE DEF i
  <2>3. SameRadio(i, r)
    BY <2>2, StepsSameRadio DEF SameRadio
  <2> HIDE DEF r
  <2>4. SameRadio(r, t)
    BY <2>3, StepsSameRadio DEF SameRadio
  <2>5. SameRadio(s, t)
    BY <2>1, <2>2, <2>3, <2>4, SameRadioAgain
  <2>6. SessionEnds(s, ok) = t
    BY <1>2 DEF SessionEnds, OnRideDisconnected, t, r, i, c
  <2> QED BY <2>5, <2>6
<1> QED BY <1>1, <1>2

LEMMA SuppressionSameRadio ==
  ASSUME NEW s, RadioMembers \subseteq DOMAIN s, NEW ok, NEW ready
  PROVE  SameRadio(s, EndSuppression(s, ready)) /\ SameRadio(s, DisconnectIdle(s, ok))
<1>1. SameRadio(s, EndSuppression(s, ready))
  <2> DEFINE f == ForgetSuppression(s)
             e == Enable(f)
             k == IF s.releaseHidWhenIdle THEN Port!Resumed(e.kb, ready) ELSE e.kb
             t == [e EXCEPT !.kb = k]
  <2>1. SameRadio(s, f)
    BY StepsSameRadio
  <2> HIDE DEF f
  <2>2. SameRadio(f, e)
    BY <2>1, StepsSameRadio DEF SameRadio
  <2> HIDE DEF e
  <2>3. SameRadio(e, t)
    BY <2>2, StepsSameRadio DEF SameRadio
  <2>4. SameRadio(s, t)
    BY <2>1, <2>2, <2>3, SameRadioAgain
  <2>5. EndSuppression(s, ready) = t
    BY DEF EndSuppression, t, k, e, f
  <2> QED BY <2>4, <2>5
<1>2. SameRadio(s, DisconnectIdle(s, ok))
  <2> DEFINE i == CloseInput(s)
             r == ReleaseAll(i, ok)
             u == [r EXCEPT !.suppressed = TRUE, !.policySuppressed = TRUE,
                            !.kb = IF s.releaseHidWhenIdle THEN Port!Halt(@)
                                   ELSE Port!Disallow(@)]
             c == ClientDisconnect(u)
  <2>1. SameRadio(s, i)
    BY StepsSameRadio
  <2> HIDE DEF i
  <2>2. SameRadio(i, r)
    BY <2>1, StepsSameRadio DEF SameRadio
  <2> HIDE DEF r
  <2>3. SameRadio(r, u)
    BY <2>2 DEF SameRadio, RadioMembers
  <2> HIDE DEF u
  <2>4. SameRadio(u, c)
    BY <2>3, StepsSameRadio DEF SameRadio
  <2> HIDE DEF c
  <2>5. SameRadio(c, [c EXCEPT !.enabled = FALSE])
    BY <2>4 DEF SameRadio, RadioMembers
  <2>6. SameRadio(s, u) /\ SameRadio(s, [c EXCEPT !.enabled = FALSE])
    BY <2>1, <2>2, <2>3, <2>4, <2>5, SameRadioAgain
  <2>7. DisconnectIdle(s, ok) \in {u, [c EXCEPT !.enabled = FALSE]}
    BY DEF DisconnectIdle, Disable, c, u, r, i
  <2> QED BY <2>6, <2>7
<1> QED BY <1>1, <1>2

\* What loop() does before and after it sees to the scanner.
LEMMA LoopSameRadio ==
  ASSUME NEW s, RadioMembers \subseteq DOMAIN s, NEW verdict, NEW ok, NEW ready,
         NEW stalled, NEW buzz
  PROVE  /\ SameRadio(s, UpdateIdlePolicy(s, verdict, ok, ready))
         /\ SameRadio(s, RideClientLoop(s, stalled, ok))
         /\ SameRadio(s, WatchHost(s, ok)) /\ SameRadio(s, SubmitUnlessQuiet(s, ok, buzz))
<1>1. SameRadio(s, UpdateIdlePolicy(s, verdict, ok, ready))
  <2>1. SameRadio(s, [s EXCEPT !.policySuppressed = FALSE])
    BY DEF SameRadio, RadioMembers
  <2> QED BY <2>1, StepsSameRadio, SuppressionSameRadio DEF UpdateIdlePolicy
<1>2. SameRadio(s, RideClientLoop(s, stalled, ok))
  BY StepsSameRadio, SessionSameRadio DEF RideClientLoop
<1>3. SameRadio(s, WatchHost(s, ok))
  <2>1. \A n : SameRadio(s, [s EXCEPT !.hidReadyLast = n])
    BY DEF SameRadio, RadioMembers
  <2>2. \A u : SameRadio(s, u) =>
          SameRadio(s, QueueCurrentReport(u)) /\ SameRadio(s, ReleaseAll(u, ok))
    BY StepsSameRadio, SameRadioAgain DEF SameRadio
  <2> QED BY <2>1, <2>2, StepsSameRadio DEF WatchHost
<1>4. SameRadio(s, SubmitUnlessQuiet(s, ok, buzz))
  <2> DEFINE u == SubmitPendingReport(s, ok)
  <2>1. SameRadio(s, u)
    BY StepsSameRadio
  <2> HIDE DEF u
  <2>2. SameRadio(u, [u EXCEPT !.hapticPending = @ /\ ~(buzz /\ s.phase = "ready")])
    BY <2>1 DEF SameRadio, RadioMembers
  <2>3. SameRadio(s, [u EXCEPT !.hapticPending = @ /\ ~(buzz /\ s.phase = "ready")])
    BY <2>1, <2>2, SameRadioAgain
  <2> QED BY <2>3, StepsSameRadio DEF SubmitUnlessQuiet, u
<1> QED BY <1>1, <1>2, <1>3, <1>4

\* Whatever the scanner was doing, the policy leaves it as it should be.
LEMMA ScannerPolicyQuiet ==
  ASSUME NEW s, RadioMembers \subseteq DOMAIN s,
         ~s.bleActive => s.scanner = "IDLE", NEW t, t = UpdateScannerPolicy(s)
  PROVE  /\ Quiet(t) /\ RadioMembers \subseteq DOMAIN t
         /\ t.otaActive = s.otaActive /\ t.stopped = s.stopped /\ t.bleActive = s.bleActive
BY DEF UpdateScannerPolicy, ScannerWanted, StopScan, Quiet, RadioMembers

LEMMA LoopQuiet ==
  ASSUME Typed(st), Quiet(st), NEW verdict, NEW stalled, NEW ok, NEW ready, NEW buzz
  PROVE  Quiet(LoopStep(verdict, stalled, ok, ready, buzz))
<1> DEFINE found == EnsureRideAddress(st)
           polled == UpdateIdlePolicy(found, verdict, ok, ready)
           scanned == UpdateScannerPolicy(polled)
           checked == RideClientLoop(scanned, stalled, ok)
           watched == WatchHost(checked, ok)
           sent == SubmitUnlessQuiet(watched, ok, buzz)
           t == [sent EXCEPT !.silent = FALSE]
<1>1. SameRadio(st, found)
  BY StepsSameRadio DEF Typed, States, RadioMembers
<1> HIDE DEF found
<1>2. SameRadio(found, polled)
  <2>1. RadioMembers \subseteq DOMAIN found
    BY <1>1 DEF SameRadio
  <2> QED BY ONLY <2>1, LoopSameRadio DEF polled
<1> HIDE DEF polled
<1>3. Quiet(polled) /\ RadioMembers \subseteq DOMAIN polled
  BY <1>1, <1>2, SameRadioQuiet, SameRadioAgain DEF SameRadio
<1>4. Quiet(scanned) /\ RadioMembers \subseteq DOMAIN scanned
  BY <1>3, ScannerPolicyQuiet DEF Quiet
<1> HIDE DEF scanned
<1>5. SameRadio(scanned, checked)
  BY <1>4, LoopSameRadio
<1> HIDE DEF checked
<1>6. SameRadio(checked, watched)
  BY <1>5, LoopSameRadio DEF SameRadio
<1> HIDE DEF watched
<1>7. SameRadio(watched, sent)
  <2>1. RadioMembers \subseteq DOMAIN watched
    BY <1>6 DEF SameRadio
  <2> QED BY ONLY <2>1, LoopSameRadio DEF sent
<1> HIDE DEF sent
<1>8. SameRadio(sent, t)
  BY <1>7 DEF SameRadio, RadioMembers
<1> HIDE DEF t
<1>9. Quiet(t)
  BY <1>4, <1>5, <1>6, <1>7, <1>8, SameRadioQuiet
<1>10. t = LoopStep(verdict, stalled, ok, ready, buzz)
  BY DEF LoopStep, t, sent, watched, checked, scanned, polled, found
<1> QED BY <1>9, <1>10
\* The handlers that leave the radio alone.
LEMMA HandlerSameRadio ==
  ASSUME Typed(st),
         \/ ConnectEvent \/ OpenEvent \/ OpenFails \/ Subscribed \/ SessionReady
         \/ \E r \in Reports : Notification(r)
         \/ LinkEnds \/ LinkEndsSilently \/ Sighting
         \/ HostSubscribes \/ HostLeaves \/ RequestReconnect
  PROVE  SameRadio(st, st')
<1>1. RadioMembers \subseteq DOMAIN st
  BY DEF Typed, States, RadioMembers
<1>2. \A s, t : SameRadio(st, s) => RadioMembers \subseteq DOMAIN s
  BY DEF SameRadio
<1>3. \A s, t : SameRadio(st, s) /\ SameRadio(s, t) => SameRadio(st, t)
  BY SameRadioAgain
<1>4. \A c, p, k :
        /\ SameRadio(st, [st EXCEPT !.phase = p])
        /\ SameRadio(st, [st EXCEPT !.client = c])
        /\ SameRadio(st, [st EXCEPT !.kb = k])
        /\ SameRadio(st, [st EXCEPT !.client = c, !.phase = p])
  BY <1>1 DEF SameRadio, RadioMembers
<1>5. CASE ConnectEvent \/ OpenEvent
  <2>1. PICK s : SameRadio(st, s) /\ st' \in {s, ReopenInput(s)}
    BY <1>4, <1>5 DEF ConnectEvent, OpenEvent
  <2> QED BY <1>2, <1>3, <2>1, StepsSameRadio
<1>6. CASE OpenFails \/ LinkEnds
  <2>1. PICK ok \in BOOLEAN : st' = SessionEnds([st EXCEPT !.client = "IDLE"], ok)
    BY <1>6 DEF OpenFails, LinkEnds
  <2> DEFINE s == [st EXCEPT !.client = "IDLE"]
  <2>2. SameRadio(st, s)
    BY <1>4
  <2>3. st' = SessionEnds(s, ok)
    BY <2>1
  <2> HIDE DEF s
  <2> QED BY <1>2, <1>3, <2>2, <2>3, SessionSameRadio
<1>7. CASE Subscribed \/ LinkEndsSilently \/ HostSubscribes \/ HostLeaves
  <2>1. CASE Subscribed \/ LinkEndsSilently
    <3>1. st' \in {[st EXCEPT !.phase = "subscribed"],
                  [st EXCEPT !.client = "IDLE", !.silent = TRUE]}
      BY <2>1 DEF Subscribed, LinkEndsSilently
    <3>2. SameRadio(st, [st EXCEPT !.client = "IDLE", !.silent = TRUE])
      BY <1>1 DEF SameRadio, RadioMembers
    <3> QED BY <1>4, <3>1, <3>2
  <2>2. CASE HostSubscribes \/ HostLeaves
    <3>1. PICK k : st' = [st EXCEPT !.kb = k]
      BY <2>2 DEF HostSubscribes, HostLeaves
    <3> QED BY <1>4, <3>1
  <2> QED BY <1>7, <2>1, <2>2
<1>8. CASE SessionReady
  <2>1. PICK pulse \in BOOLEAN :
          st' = OnRideReady([st EXCEPT !.phase = "ready"], pulse)
    BY <1>8 DEF SessionReady
  <2> DEFINE s == [st EXCEPT !.phase = "ready"]
             f == ForgetSuppression(s)
  <2>2. SameRadio(st, s)
    BY <1>4
  <2>3. st' = OnRideReady(s, pulse)
    BY <2>1
  <2> HIDE DEF s
  <2>4. SameRadio(st, f)
    BY <1>2, <1>3, <2>2, StepsSameRadio
  <2>5. st' \in {s, [f EXCEPT !.rideReady = TRUE, !.kb = Port!Allow(@),
                              !.hapticPending = @ \/ pulse]}
    BY <2>3 DEF OnRideReady, f
  <2> HIDE DEF f
  <2>6. SameRadio(f, [f EXCEPT !.rideReady = TRUE, !.kb = Port!Allow(@),
                               !.hapticPending = @ \/ pulse])
    BY <2>4 DEF SameRadio, RadioMembers
  <2> QED BY <1>3, <2>2, <2>4, <2>5, <2>6
<1>9. CASE \E r \in Reports : Notification(r)
  <2>1. PICK r \in Reports, changed \in BOOLEAN, pulse \in BOOLEAN :
          st' = OnRideNotification(st, r, changed, pulse /\ r # Up)
    BY <1>9 DEF Notification
  <2> DEFINE s == [st EXCEPT !.active = r, !.hapticPending = @ \/ (pulse /\ r # Up)]
  <2>2. SameRadio(st, s)
    BY <1>1 DEF SameRadio, RadioMembers
  <2>3. st' \in {st, QueueCurrentReport(s)}
    BY <2>1 DEF OnRideNotification
  <2> HIDE DEF s
  <2> QED BY <1>1, <1>2, <1>3, <2>2, <2>3, StepsSameRadio
<1>10. CASE Sighting
  <2>1. PICK wakes \in BOOLEAN, ready \in {FALSE, st.bleActive} :
          st' = ClientParsesDevice(ParseDevice(st, wakes, ready))
    BY <1>10 DEF Sighting
  <2> DEFINE p == ParseDevice(st, wakes, ready)
  <2>2. SameRadio(st, p)
    <3>1. SameRadio(st, [st EXCEPT !.addressSelected = TRUE, !.hasAddress = TRUE])
      BY <1>1 DEF SameRadio, RadioMembers
    <3> QED BY <1>1, <3>1, StepsSameRadio, SuppressionSameRadio DEF ParseDevice
  <2>3. st' = ClientParsesDevice(p)
    BY <2>1
  <2> HIDE DEF p
  <2>4. SameRadio(p, [p EXCEPT !.client = "DISCOVERED"]) /\ SameRadio(p, p)
    BY <2>2 DEF SameRadio, RadioMembers
  <2> QED BY <1>3, <2>2, <2>3, <2>4 DEF ClientParsesDevice
<1>11. CASE RequestReconnect
  BY <1>1, <1>11, SuppressionSameRadio DEF RequestReconnect
<1> QED BY <1>5, <1>6, <1>7, <1>8, <1>9, <1>10, <1>11

\* The start of an update and a shutdown stop the scanner, whatever it was doing.
LEMMA QuiesceQuiet ==
  ASSUME NEW s, RadioMembers \subseteq DOMAIN s,
         ~s.bleActive => s.scanner = "IDLE", NEW ok
  PROVE  Quiet(QuiesceBridge(s, ok))
<1> DEFINE f == ForgetSuppression(s)
           u == UpdateScannerPolicy(f)
           r == ReleaseAll(u, ok)
           i == CloseInput(r)
           h == [i EXCEPT !.kb = Port!Halt(@)]
           t == ClientDisconnect(h)
<1>1. SameRadio(s, f)
  BY StepsSameRadio
<1> HIDE DEF f
<1>2. Quiet(u) /\ RadioMembers \subseteq DOMAIN u
  BY <1>1, ScannerPolicyQuiet DEF SameRadio
<1> HIDE DEF u
<1>3. SameRadio(u, r)
  BY <1>2, StepsSameRadio
<1> HIDE DEF r
<1>4. SameRadio(r, i)
  BY <1>3, StepsSameRadio DEF SameRadio
<1> HIDE DEF i
<1>5. SameRadio(i, h)
  BY <1>4 DEF SameRadio, RadioMembers
<1> HIDE DEF h
<1>6. SameRadio(h, t)
  BY <1>5, StepsSameRadio DEF SameRadio
<1> HIDE DEF t
<1>7. Quiet(t)
  BY <1>2, <1>3, <1>4, <1>5, <1>6, SameRadioQuiet
<1>8. QuiesceBridge(s, ok) = t
  BY DEF QuiesceBridge, t, h, i, r, u, f
<1> QED BY <1>7, <1>8

LEMMA StepQuiet ==
  ASSUME Typed(st), Quiet(st), [Next]_vars
  PROVE  Quiet(st')
<1>1. RadioMembers \subseteq DOMAIN st
  BY DEF Typed, States, RadioMembers
<1>2. CASE Loop
  <2>1. PICK verdict, stalled, ok, ready, buzz :
          st' = LoopStep(verdict, stalled, ok, ready, buzz)
    BY <1>2 DEF Loop, LoopWith
  <2> QED BY <2>1, LoopQuiet
<1>3. CASE \/ ConnectEvent \/ OpenEvent \/ OpenFails \/ Subscribed \/ SessionReady
           \/ \E r \in Reports : Notification(r)
           \/ LinkEnds \/ LinkEndsSilently \/ Sighting
           \/ HostSubscribes \/ HostLeaves \/ RequestReconnect
  BY <1>3, HandlerSameRadio, SameRadioQuiet
<1>4. CASE ScannerStarts
  <2>1. st' = OnScannerState([st EXCEPT !.scanner = "RUNNING"])
    BY <1>4 DEF ScannerStarts
  <2>2. st.bleActive
    BY <1>4 DEF ScannerStarts, Quiet
  <2> QED BY <1>1, <2>1, <2>2 DEF OnScannerState, StopScan, ScannerWanted, Quiet, RadioMembers
<1>5. CASE ScannerFails \/ ScannerStops \/ TrackerRestarts
  BY <1>1, <1>5 DEF ScannerFails, ScannerStops, TrackerRestarts, Quiet, RadioMembers
<1>6. CASE TrackerPromotes
  BY <1>1, <1>6 DEF TrackerPromotes, Quiet, RadioMembers
<1>7. CASE OtaStarts \/ Shutdown
  <2>1. PICK s \in {[st EXCEPT !.otaActive = TRUE], [st EXCEPT !.stopped = TRUE]},
             ok \in BOOLEAN : st' = QuiesceBridge(s, ok)
    BY <1>7 DEF OtaStarts, Shutdown
  <2>2. RadioMembers \subseteq DOMAIN s /\ (~s.bleActive => s.scanner = "IDLE")
    BY <1>1, <2>1 DEF Quiet, RadioMembers
  <2> QED BY <2>1, <2>2, QuiesceQuiet
<1>8. CASE OtaStops
  <2>1. PICK ready : st' = ResumeAfterOta(st, ready)
    BY <1>8 DEF OtaStops
  <2>2. \A k : Quiet(Enable([st EXCEPT !.otaActive = FALSE, !.kb = k]))
    BY <1>1 DEF Enable, Quiet, RadioMembers
  <2> QED BY <2>1, <2>2 DEF ResumeAfterOta
<1>9. CASE BleDisabled
  <2>1. PICK ok \in BOOLEAN :
          st' = [BeforeDisabled(st, ok) EXCEPT !.bleActive = FALSE, !.client = "INIT",
                                              !.scanner = "IDLE", !.silent = FALSE]
    BY <1>9 DEF BleDisabled
  <2> DEFINE b == BeforeDisabled(st, ok)
  <2>2. RadioMembers \subseteq DOMAIN b
    BY <1>1 DEF BeforeDisabled, ForgetSuppression, ReleaseAll
  <2> HIDE DEF b
  <2>3. Quiet([b EXCEPT !.bleActive = FALSE, !.client = "INIT", !.scanner = "IDLE",
                        !.silent = FALSE])
    BY <2>2 DEF Quiet, RadioMembers
  <2> QED BY <2>1, <2>3 DEF b
<1>10. CASE BleEnabled
  BY <1>1, <1>10 DEF BleEnabled, Quiet, RadioMembers
<1>11. CASE UNCHANGED vars
  BY <1>11 DEF vars, Quiet
<1> QED BY <1>2, <1>3, <1>4, <1>5, <1>6, <1>7, <1>8, <1>9, <1>10, <1>11 DEF Next

\* The radio stays quiet: whatever the scanner was doing when an update began or the
\* bridge was shut down, starting or stopping or waiting for its tracker, it never
\* runs until the update is over, and never again after a shutdown.
\* UpdateStopsScanning adds, under fairness, that no start of it stays under way.
THEOREM RadioStaysQuiet == Spec => []RadioQuiet
<1>1. Init => Quiet(st)
  BY DEF Init, Quiet
<1>2. IInv /\ Quiet(st) /\ [Next]_vars => Quiet(st)'
  BY StepQuiet DEF IInv, TypeOK, Typed, Quiet
<1>3. Quiet(st) => RadioQuiet
  BY DEF Quiet, RadioQuiet
<1> QED BY <1>1, <1>2, <1>3, Invariance, PTL DEF Spec

=============================================================================
