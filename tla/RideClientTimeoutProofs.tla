----------------------- MODULE RideClientTimeoutProofs ------------------------
(***************************************************************************)
(* Proofs about the watchdogs of RideClient and about the gate that lets   *)
(* one haptic write out at a time, for every clock, every timeout and every *)
(* bound.                                                                  *)
(*                                                                         *)
(* The watchdogs are punctual because loop() runs between two ticks: a     *)
(* deadline that was just reached is one loop() has still to see.          *)
(*                                                                         *)
(* The gate is about what a completion may be mistaken for.  The completion *)
(* of the RideOn write and those of haptic writes look alike, so the proof *)
(* counts both: none of an earlier connection is left behind the opening   *)
(* of the next, and the handshake's own is spent before READY.             *)
(***************************************************************************)
EXTENDS RideClientProofs, FiniteSetTheorems, FunctionTheorems

\* A deadline that loop() meets: it is passed at no time, and reached only
\* while loop() has yet to run.
Punctual(startedAt, timeout) ==
  /\ Elapsed(startedAt) <= timeout
  /\ Elapsed(startedAt) = timeout => loopDue

DeadlinesKept ==
  /\ StateTimeout # 0 => Punctual(stateStartedAt, StateTimeout)
  /\ hapticPending => Punctual(hapticStartedAt, HapticTimeout)

\* What a handler may do to the two watchdogs.
StepTimerKept == UNCHANGED <<state, stateStartedAt>> \/ \E s \in States : EnterState(s)
HapticTimerKept == UNCHANGED hapticVars \/ ClearHaptic
TimersKept == StepTimerKept /\ HapticTimerKept

-----------------------------------------------------------------------------
(* The handlers and the two watchdogs.                                     *)

LEMMA StateNames ==
  {"DISCOVERING", "SENDING_HANDSHAKE", "SUBSCRIBING_ASYNC", "SUBSCRIBING_SYNC_TX",
   "DISCONNECTED", "READY", "ERROR"} \subseteq States
BY DEF States, SetupStates

LEMMA FailSetupTimers ==
  ASSUME NEW c, FailSetup(c)
  PROVE  TimersKept
<1>1. "ERROR" \in States
  BY StateNames
<1>2. QED
  BY <1>1 DEF FailSetup, Fail, TimersKept, StepTimerKept, HapticTimerKept

LEMMA FailTimers ==
  ASSUME NEW c, Fail(c)
  PROVE  TimersKept
BY StateNames DEF Fail, TimersKept, StepTimerKept, HapticTimerKept

LEMMA MarkReadyTimers ==
  ASSUME NEW enabled, MarkReady(enabled), UNCHANGED hapticVars
  PROVE  TimersKept
<1>1. "READY" \in States
  BY StateNames
<1>2. QED
  BY <1>1 DEF MarkReady, TimersKept, StepTimerKept, HapticTimerKept

LEMMA BeginConnectionTimers ==
  ASSUME NEW l, BeginConnection(l)
  PROVE  TimersKept
BY StateNames DEF BeginConnection, ResetMembers, TimersKept, StepTimerKept, HapticTimerKept

LEMMA ReportDisconnectedTimers == ReportDisconnected => TimersKept
BY StateNames DEF ReportDisconnected, ResetMembers, TimersKept, StepTimerKept, HapticTimerKept

LEMMA IgnoreTimers == Ignore => TimersKept
BY DEF Ignore, TimersKept, StepTimerKept, HapticTimerKept, machineVars

LEMMA DispatchTimers == Dispatch => TimersKept
<1> SUFFICES ASSUME Dispatch PROVE TimersKept
  OBVIOUS
<1> DEFINE e == Head(events)
<1>1. Handle(e)
  BY DEF Dispatch
<1> HIDE DEF e
<1>2. CASE OnConnect(e)
  BY <1>2, BeginConnectionTimers DEF OnConnect
<1>3. CASE OnOpen(e)
  BY <1>3, BeginConnectionTimers, ReportDisconnectedTimers, IgnoreTimers DEF OnOpen
<1>4. CASE OnSearchComplete(e)
  <2>1. CASE Ignore
    BY <2>1, IgnoreTimers
  <2>2. CASE FailSetup(client)
    BY <2>2, FailSetupTimers
  <2>3. CASE SendHandshake
    <3>1. CASE EnterState("SENDING_HANDSHAKE") /\ UNCHANGED hapticVars
      BY <3>1, StateNames DEF TimersKept, StepTimerKept, HapticTimerKept
    <3>2. CASE Fail(client)
      BY <3>2, FailTimers
    <3>3. QED
      BY <2>3, <3>1, <3>2 DEF SendHandshake
  <2>4. QED
    BY <1>4, <2>1, <2>2, <2>3 DEF OnSearchComplete
<1>5. CASE OnWriteChar(e)
  <2>1. CASE SubscribeAsync
    <3>1. CASE EnterState("SUBSCRIBING_ASYNC") /\ UNCHANGED hapticVars
      BY <3>1, StateNames DEF TimersKept, StepTimerKept, HapticTimerKept
    <3>2. CASE Fail(client)
      BY <3>2, FailTimers
    <3>3. QED
      BY <2>1, <3>1, <3>2 DEF SubscribeAsync
  <2>2. CASE FailSetup(client)
    BY <2>2, FailSetupTimers
  <2>3. CASE UNCHANGED <<state, stateStartedAt>> /\ (ClearHaptic \/ UNCHANGED hapticVars)
    BY <2>3 DEF TimersKept, StepTimerKept, HapticTimerKept
  <2>4. QED
    BY <1>5, <2>1, <2>2, <2>3 DEF OnWriteChar
<1>6. CASE OnRegisterForNotify(e)
  <2>1. CASE FailSetup(client)
    BY <2>1, FailSetupTimers
  <2>2. CASE MarkReady(asyncEnabled) /\ UNCHANGED hapticVars
    BY <2>2, MarkReadyTimers
  <2>3. CASE Ignore
    BY <2>3, IgnoreTimers
  <2>4. QED
    BY <1>6, <2>1, <2>2, <2>3 DEF OnRegisterForNotify
<1>7. CASE OnWriteDescriptor(e)
  <2>1. CASE FailSetup(client)
    BY <2>1, FailSetupTimers
  <2>2. CASE SubscribeSyncTxOrReady /\ UNCHANGED hapticVars
    <3>1. CASE MarkReady(TRUE)
      BY <2>2, <3>1, MarkReadyTimers
    <3>2. CASE EnterState("SUBSCRIBING_SYNC_TX")
      BY <2>2, <3>2, StateNames DEF TimersKept, StepTimerKept, HapticTimerKept
    <3>3. QED
      BY <2>2, <3>1, <3>2 DEF SubscribeSyncTxOrReady
  <2>3. CASE MarkReady(asyncEnabled) /\ UNCHANGED hapticVars
    BY <2>3, MarkReadyTimers
  <2>4. CASE Ignore
    BY <2>4, IgnoreTimers
  <2>5. QED
    BY <1>7, <2>1, <2>2, <2>3, <2>4 DEF OnWriteDescriptor
<1>8. CASE OnNotify(e)
  BY <1>8 DEF OnNotify, machineVars, TimersKept, StepTimerKept, HapticTimerKept
<1>9. CASE OnDisconnect(e) \/ OnClose(e)
  BY <1>9, ReportDisconnectedTimers DEF OnDisconnect, OnClose
<1>10. QED
  BY <1>1, <1>2, <1>3, <1>4, <1>5, <1>6, <1>7, <1>8, <1>9 DEF Handle

-----------------------------------------------------------------------------
(* Deadlines are kept.                                                     *)

LEMMA StateTimeoutType == StateTimeout \in {0, DiscoveryTimeout, OperationTimeout}
BY DEF StateTimeout

\* Elapsed, of any two readings of the clock.
Times == 0..(ClockPeriod - 1)
Age(t, s) == IF t >= s THEN t - s ELSE t + ClockPeriod - s

\* A watchdog started now has run for no time.
LEMMA FreshStamp ==
  ASSUME NEW t \in Times
  PROVE  Age(t, t) = 0
BY TimeAssumption DEF Age, Times

\* One tick ages a stamp by one, across the wrap of the clock.
LEMMA TickAges ==
  ASSUME NEW t \in Times, NEW s \in Times, NEW u, u = IF t + 1 = ClockPeriod THEN 0 ELSE t + 1,
         Age(t, s) + 1 < ClockPeriod
  PROVE  Age(u, s) = Age(t, s) + 1
BY TimeAssumption DEF Age, Times

\* A deadline not yet reached is not passed by one tick.
LEMMA KeptOverTick ==
  ASSUME NEW t \in Times, NEW s \in Times, NEW u, u = IF t + 1 = ClockPeriod THEN 0 ELSE t + 1,
         NEW timeout \in Nat, timeout < ClockPeriod, Age(t, s) < timeout
  PROVE  Age(u, s) <= timeout
<1>1. Age(t, s) \in Nat
  BY TimeAssumption DEF Age, Times
<1>2. Age(u, s) = Age(t, s) + 1
  BY <1>1, TickAges, TimeAssumption
<1>3. QED
  BY <1>1, <1>2

LEMMA AgeType ==
  ASSUME NEW t \in Times, NEW s \in Times
  PROVE  Age(t, s) \in Nat
BY TimeAssumption DEF Age, Times

\* DeadlinesKept, with the clock as a parameter.
LEMMA DeadlinesAsAges ==
  /\ DeadlinesKept <=>
       /\ StateTimeout # 0 =>
            /\ Age(now, stateStartedAt) <= StateTimeout
            /\ Age(now, stateStartedAt) = StateTimeout => loopDue
       /\ hapticPending =>
            /\ Age(now, hapticStartedAt) <= HapticTimeout
            /\ Age(now, hapticStartedAt) = HapticTimeout => loopDue
  /\ \A s : Elapsed(s) = Age(now, s)
BY DEF DeadlinesKept, Punctual, Elapsed, Age

LEMMA TimesInType ==
  ASSUME TypeOK
  PROVE  now \in Times /\ stateStartedAt \in Times /\ hapticStartedAt \in Times
BY DEF TypeOK, Times

\* Handlers leave the clock alone, so that the watchdogs they start are fresh.
LEMMA TimersKeptDeadlines ==
  ASSUME TypeOK, DeadlinesKept, TimersKept, UNCHANGED timeVars
  PROVE  DeadlinesKept'
<1>1. now \in Times /\ UNCHANGED <<now, loopDue>>
  BY TimesInType DEF timeVars
<1>2. ASSUME StateTimeout' # 0 PROVE Punctual(stateStartedAt, StateTimeout)'
  <2>1. CASE UNCHANGED <<state, stateStartedAt>>
    BY <1>1, <1>2, <2>1 DEF DeadlinesKept, Punctual, Elapsed, StateTimeout
  <2>2. ASSUME NEW s \in States, EnterState(s) PROVE Punctual(stateStartedAt, StateTimeout)'
    <3>1. state' \in SetupStates
      BY <1>2 DEF StateTimeout, SetupStates
    <3>2. stateStartedAt' = now' /\ now' \in Times
      BY <1>1, <2>2, <3>1 DEF EnterState
    <3>3. Elapsed(stateStartedAt)' = 0
      BY <3>2, FreshStamp DEF Elapsed, Age
    <3>4. StateTimeout' \in Nat \ {0}
      BY <1>2, TimeAssumption DEF StateTimeout
    <3>5. QED
      BY <3>3, <3>4 DEF Punctual
  <2>3. QED
    BY <2>1, <2>2 DEF TimersKept, StepTimerKept
<1>3. ASSUME hapticPending' PROVE Punctual(hapticStartedAt, HapticTimeout)'
  <2>1. UNCHANGED hapticVars
    BY <1>3 DEF TimersKept, HapticTimerKept, ClearHaptic
  <2>2. QED
    BY <1>1, <1>3, <2>1 DEF DeadlinesKept, Punctual, Elapsed, hapticVars
<1>4. QED
  BY <1>2, <1>3 DEF DeadlinesKept

LEMMA LoopDeadlines == TypeOK /\ DeadlinesKept /\ Loop => DeadlinesKept'
<1> SUFFICES ASSUME TypeOK, DeadlinesKept, Loop PROVE DeadlinesKept'
  OBVIOUS
<1>1. now' = now
  BY DEF Loop
<1>2. CASE LoopOnIdleClient
  BY <1>2 DEF LoopOnIdleClient, ReportDisconnected, ResetMembers, ClearHaptic, EnterState,
    DeadlinesKept, StateTimeout, SetupStates
<1>3. CASE LoopWatchdogs /\ StepExpired
  <2>1. FailSetup(client) /\ state \notin {"ERROR", "DISCONNECTED"}
    BY <1>3 DEF LoopWatchdogs, StepExpired, StateTimeout, SetupStates
  <2>2. state' = "ERROR" /\ ~hapticPending'
    BY <2>1 DEF FailSetup, Fail, EnterState, ClearHaptic
  <2>3. QED
    BY <2>2 DEF DeadlinesKept, StateTimeout, SetupStates
<1>4. CASE LoopWatchdogs /\ ~StepExpired
  <2>1. UNCHANGED <<state, stateStartedAt>> /\ StateTimeout' = StateTimeout
    BY <1>4 DEF LoopWatchdogs, machineVars, StateTimeout
  <2>2. hapticPending' => ~HapticExpired /\ hapticPending /\ UNCHANGED hapticStartedAt
    BY <1>4 DEF LoopWatchdogs, ClearHaptic, HapticExpired, hapticVars
  <2>3. StateTimeout # 0 => Elapsed(stateStartedAt) # StateTimeout
    <3>1. StateTimeout \in Nat
      BY StateTimeoutType, TimeAssumption
    <3>2. QED
      BY <1>4, <3>1 DEF StepExpired, TimeoutElapsed
  <2>4. hapticPending' => Elapsed(hapticStartedAt) # HapticTimeout
    BY <2>2, TimeAssumption DEF HapticExpired, TimeoutElapsed
  <2>5. QED
    BY <1>1, <2>1, <2>2, <2>3, <2>4 DEF DeadlinesKept, Punctual, Elapsed
<1>5. QED
  BY <1>2, <1>3, <1>4 DEF Loop

LEMMA VibrateDeadlines == TypeOK /\ DeadlinesKept /\ Vibrate => DeadlinesKept'
<1> SUFFICES ASSUME TypeOK, DeadlinesKept, Vibrate PROVE DeadlinesKept'
  OBVIOUS
<1>1. /\ UNCHANGED <<now, loopDue, state, stateStartedAt>>
      /\ hapticStartedAt' = now' /\ now' \in Times
  BY TimesInType DEF Vibrate, timeVars, machineVars
<1>2. Elapsed(hapticStartedAt)' = 0
  BY <1>1, FreshStamp DEF Elapsed, Age
<1>3. HapticTimeout \in Nat \ {0}
  BY TimeAssumption
<1>4. Punctual(hapticStartedAt, HapticTimeout)'
  BY <1>2, <1>3 DEF Punctual
<1>5. QED
  BY <1>1, <1>4 DEF DeadlinesKept, Punctual, Elapsed, StateTimeout

LEMMA TickDeadlines == TypeOK /\ DeadlinesKept /\ Tick => DeadlinesKept'
<1> SUFFICES ASSUME TypeOK, DeadlinesKept, Tick PROVE DeadlinesKept'
  OBVIOUS
<1>1. /\ UNCHANGED <<state, stateStartedAt, hapticPending, hapticStartedAt>>
      /\ now' = IF now + 1 = ClockPeriod THEN 0 ELSE now + 1
      /\ ~loopDue /\ loopDue'
  BY DEF Tick, machineVars, hapticVars
<1>2. now \in Times /\ stateStartedAt \in Times /\ hapticStartedAt \in Times
  BY TimesInType
<1>3. StateTimeout' = StateTimeout
  BY <1>1 DEF StateTimeout
<1>4. ASSUME StateTimeout # 0 PROVE Age(now', stateStartedAt) <= StateTimeout
  <2>1. StateTimeout \in Nat /\ StateTimeout < ClockPeriod
    BY <1>4, StateTimeoutType, TimeAssumption
  <2>2. Age(now, stateStartedAt) < StateTimeout
    BY <1>1, <1>2, <1>4, <2>1, AgeType, DeadlinesAsAges
  <2>3. QED
    BY <1>1, <1>2, <2>1, <2>2, KeptOverTick
<1>5. ASSUME hapticPending PROVE Age(now', hapticStartedAt) <= HapticTimeout
  <2>1. HapticTimeout \in Nat /\ HapticTimeout < ClockPeriod
    BY TimeAssumption
  <2>2. Age(now, hapticStartedAt) < HapticTimeout
    BY <1>1, <1>2, <1>5, <2>1, AgeType, DeadlinesAsAges
  <2>3. QED
    BY <1>1, <1>2, <2>1, <2>2, KeptOverTick
<1>6. QED
  BY <1>1, <1>3, <1>4, <1>5 DEF DeadlinesKept, Punctual, Elapsed, Age

LEMMA NextDeadlines == TypeOK /\ DeadlinesKept /\ [Next]_vars => DeadlinesKept'
<1> SUFFICES ASSUME TypeOK, DeadlinesKept, [Next]_vars PROVE DeadlinesKept'
  OBVIOUS
<1>1. CASE Dispatch
  BY <1>1, DispatchTimers, TimersKeptDeadlines DEF Dispatch
<1>2. CASE Loop
  BY <1>2, LoopDeadlines
<1>3. CASE Vibrate
  BY <1>3, VibrateDeadlines
<1>4. CASE Tick
  BY <1>4, TickDeadlines
<1>5. CASE \/ ClientConnect \/ ClientDisconnect \/ ClientWatchdog \/ LinkUp \/ OpenFails \/ LinkDown
           \/ OperationCompletes \/ HapticCompletes \/ CompletionLost \/ ControllerNotifies
  <2>1. UNCHANGED <<machineVars, hapticVars, timeVars>>
    BY <1>5 DEF ClientConnect, ClientDisconnect, ClientWatchdog, LinkUp, OpenFails, LinkDown,
      OperationCompletes, HapticCompletes, CompletionLost, ControllerNotifies, EnvironmentUnchanged
  <2>2. QED
    BY <2>1, TimersKeptDeadlines DEF TimersKept, StepTimerKept, HapticTimerKept, machineVars
<1>6. CASE UNCHANGED vars
  BY <1>6, TimersKeptDeadlines DEF vars, TimersKept, StepTimerKept, HapticTimerKept, machineVars
<1>7. QED
  BY <1>1, <1>2, <1>3, <1>4, <1>5, <1>6 DEF Next

\* Every setup step, and every haptic write, is looked at by loop() no later
\* than its own deadline, however the clock wraps and whatever arrives when.
THEOREM Punctuality == Spec => []WatchdogsOnTime
<1>1. Init => TypeOK /\ DeadlinesKept
  BY InitInv DEF IInv, Init, DeadlinesKept, StateTimeout, SetupStates
<1>2. TypeOK /\ DeadlinesKept /\ [Next]_vars => TypeOK' /\ DeadlinesKept'
  BY NextType, NextDeadlines
<1>3. DeadlinesKept => WatchdogsOnTime
  BY DEF DeadlinesKept, Punctual, WatchdogsOnTime
<1>4. QED
  BY <1>1, <1>2, <1>3, PTL DEF Spec

-----------------------------------------------------------------------------
(* The gate: what is queued, and what it may be mistaken for.              *)

\* Queued completions of a write to Sync-RX, the handshake's or a haptic one.
Writes == {i \in Positions : events[i].type = "WRITE_CHAR"}

\* Service discovery is still to come: under way, or queued, or to be started
\* by the opening of a connection that is queued.
SearchAhead ==
  \/ "search" \in inflight
  \/ \E i \in Positions : events[i].type = "SEARCH_CMPL" \/ Opening(events[i])

\* Before discovery is over nothing has been written, and what is left of the
\* connection before comes ahead of the opening.
NoWriteAhead ==
  SearchAhead =>
    /\ haptics = 0
    /\ "rideon" \notin inflight
    /\ \A i \in Writes : \E j \in Positions : i < j /\ Opening(events[j])

\* Haptic writes are submitted when READY, and outlive only the session.
HapticsWhenReady == state \notin {"READY", "DISCONNECTED"} => haptics = 0

\* The completion of the handshake comes once, and is spent by the step from it.
OneHandshake ==
  /\ state \in {"SUBSCRIBING_ASYNC", "SUBSCRIBING_SYNC_TX"} => Writes = {}
  /\ state \in {"SUBSCRIBING_ASYNC", "SUBSCRIBING_SYNC_TX", "READY"} => "rideon" \notin inflight
  /\ state = "SENDING_HANDSHAKE" =>
       /\ \A i, j \in Writes : i = j
       /\ "rideon" \in inflight => Writes = {}

\* Each haptic write, outstanding or completed in the queue, is the one the gate
\* waits for or one that timed out.
WritesCounted ==
  state = "READY" /\ hapticTimeouts < MaxHaptics =>
    haptics + Cardinality(Writes) <= hapticTimeouts + (IF hapticPending THEN 1 ELSE 0)

WInv ==
  /\ haptics <= MaxHaptics
  /\ HapticGate
  /\ NoWriteAhead
  /\ HapticsWhenReady
  /\ OneHandshake
  /\ WritesCounted

LEMMA WritesFinite ==
  ASSUME TypeOK
  PROVE  /\ IsFiniteSet(Writes) /\ Cardinality(Writes) \in Nat
         /\ Writes = {} => Cardinality(Writes) = 0
<1>1. Len(events) \in Nat
  BY DEF TypeOK
<1>2. IsFiniteSet(Positions)
  BY <1>1, FS_Interval DEF Positions
<1>3. IsFiniteSet(Writes)
  BY <1>2, FS_Subset DEF Writes
<1>4. QED
  BY <1>3, FS_CardinalityType, FS_EmptySet

\* Taking the oldest event takes at most one completion, and moves the others.
LEMMA WritesDequeued ==
  ASSUME TypeOK, TypeOK', events # <<>>, events' = Tail(events)
  PROVE  /\ \A i \in Writes' : i + 1 \in Writes /\ i + 1 # 1
         /\ Cardinality(Writes') =
              IF 1 \in Writes THEN Cardinality(Writes) - 1 ELSE Cardinality(Writes)
<1>1. /\ 1 \in Positions /\ Len(events) \in Nat
      /\ Positions' = 1..(Len(events) - 1)
      /\ \A i \in Positions' : i \in Nat /\ i + 1 \in Positions /\ events'[i] = events[i + 1]
  BY Dequeue DEF Positions, TypeOK
<1>2. \A i \in Writes' : i \in Nat /\ i + 1 \in Writes /\ i + 1 # 1
  <2>1. \A i \in Writes' : i \in Positions' /\ events'[i].type = "WRITE_CHAR"
    BY DEF Writes
  <2>2. QED
    BY <1>1, <2>1 DEF Writes
<1>3. \A i \in Writes \ {1} : i \in Nat /\ i - 1 \in Writes'
  <2> SUFFICES ASSUME NEW i \in Writes \ {1} PROVE i \in Nat /\ i - 1 \in Writes'
    OBVIOUS
  <2>1. i \in 1..Len(events) /\ i # 1 /\ events[i].type = "WRITE_CHAR"
    BY DEF Writes, Positions
  <2>2. i - 1 \in Positions' /\ (i - 1) + 1 = i
    BY <1>1, <2>1
  <2>3. events'[i - 1] = events[i]
    BY <1>1, <2>2
  <2>4. QED
    BY <2>1, <2>2, <2>3 DEF Writes
<1> DEFINE f == [i \in Writes \ {1} |-> i - 1]
<1>4. f \in Bijection(Writes \ {1}, Writes')
  <2>1. f \in [Writes \ {1} -> Writes']
    BY <1>3
  <2>2. \A i, j \in Writes \ {1} : f[i] = f[j] => i = j
    BY <1>3
  <2>3. \A k \in Writes' : \E i \in Writes \ {1} : f[i] = k
    <3> SUFFICES ASSUME NEW k \in Writes' PROVE \E i \in Writes \ {1} : f[i] = k
      OBVIOUS
    <3>1. k + 1 \in Writes \ {1} /\ f[k + 1] = k
      BY <1>2
    <3>2. QED
      BY <3>1
  <2>4. QED
    BY <2>1, <2>2, <2>3, Fun_IsBij
<1>5. IsFiniteSet(Writes) /\ Cardinality(Writes) \in Nat
  BY WritesFinite
<1>6. IsFiniteSet(Writes \ {1})
  BY <1>5, FS_Subset
<1>7. Cardinality(Writes') = Cardinality(Writes \ {1})
  <2>1. ExistsBijection(Writes \ {1}, Writes')
    BY <1>4 DEF ExistsBijection
  <2>2. QED
    BY <1>6, <2>1, FS_Bijection
<1>8. CASE 1 \in Writes
  BY <1>2, <1>5, <1>7, <1>8, FS_RemoveElement
<1>9. CASE 1 \notin Writes
  <2>1. Writes \ {1} = Writes
    BY <1>9
  <2>2. QED
    BY <1>2, <1>7, <1>9, <2>1
<1>10. QED
  BY <1>2, <1>8, <1>9

\* A completion that is queued is one more.
LEMMA WriteQueued ==
  ASSUME TypeOK, NEW w \in Event, w.type = "WRITE_CHAR", Enqueue(<<w>>)
  PROVE  /\ Writes' = Writes \union {Len(events) + 1}
         /\ Cardinality(Writes') = Cardinality(Writes) + 1
         /\ \A i \in Positions : i \in Positions' /\ events'[i] = events[i]
         /\ \A i \in Positions' : i \in Positions \/ events'[i] = w
<1>1. /\ <<w>> \in Seq(Event) /\ Len(<<w>>) = 1
      /\ 1 \in 1..Len(<<w>>) /\ <<w>>[1] = w
  OBVIOUS
<1>2. /\ Len(events) \in Nat
      /\ Positions' = 1..(Len(events) + 1)
      /\ \A i \in Positions : i \in Positions' /\ i <= Len(events) /\ events'[i] = events[i]
      /\ events'[Len(events) + 1] = w
  BY <1>1, Enqueued
<1>3. \A i \in Positions' : i \in Positions \/ i = Len(events) + 1
  BY <1>2 DEF Positions
<1>4. Len(events) + 1 \in Positions' /\ Len(events) + 1 \notin Writes
  BY <1>2 DEF Writes
<1>5. Writes' = Writes \union {Len(events) + 1}
  BY <1>2, <1>3, <1>4 DEF Writes
<1>6. Cardinality(Writes \union {Len(events) + 1}) = Cardinality(Writes) + 1
  BY <1>4, WritesFinite, FS_AddElement
<1>7. QED
  BY <1>2, <1>3, <1>5, <1>6

\* Steps that queue no completion of a write and begin no discovery.
LEMMA WritesKept ==
  ASSUME TypeOK, WInv, UNCHANGED <<state, hapticPending, hapticTimeouts>>,
         Writes' = Writes, SearchAhead' => SearchAhead,
         \A i \in Positions : i \in Positions' /\ events'[i] = events[i],
         "rideon" \in inflight' => "rideon" \in inflight,
         haptics' \in Nat, haptics' <= haptics
  PROVE  WInv'
<1>1. haptics \in Nat /\ hapticTimeouts \in Nat /\ MaxHaptics \in Nat /\ Cardinality(Writes) \in Nat
  BY WritesFinite, BoundAssumption DEF TypeOK
<1>2. haptics' <= MaxHaptics /\ HapticGate'
  BY <1>1 DEF WInv, HapticGate
<1>3. NoWriteAhead'
  <2> SUFFICES ASSUME SearchAhead'
               PROVE  /\ haptics' = 0
                      /\ "rideon" \notin inflight'
                      /\ \A i \in Writes' : \E j \in Positions' : i < j /\ Opening(events'[j])
    BY DEF NoWriteAhead, Opening
  <2>1. /\ haptics = 0 /\ "rideon" \notin inflight
        /\ \A i \in Writes : \E j \in Positions : i < j /\ Opening(events[j])
    BY DEF WInv, NoWriteAhead
  <2>2. \A j \in Positions : Opening(events[j]) => j \in Positions' /\ Opening(events'[j])
    OBVIOUS
  <2>3. QED
    BY <1>1, <2>1, <2>2
<1>4. HapticsWhenReady'
  BY <1>1 DEF WInv, HapticsWhenReady
<1>5. OneHandshake'
  BY DEF WInv, OneHandshake
<1>6. WritesCounted'
  <2>1. Cardinality(Writes)' = Cardinality(Writes)
    OBVIOUS
  <2>2. QED
    BY <1>1, <2>1 DEF WInv, WritesCounted
<1>7. QED
  BY <1>2, <1>3, <1>4, <1>5, <1>6 DEF WInv

\* A handler may start the handshake after a search, and clears the gate only for
\* the completion of a write.
LEMMA DispatchWrites ==
  ASSUME IInv, Dispatch
  PROVE  /\ "rideon" \in inflight' =>
              \/ "rideon" \in inflight
              \/ events[1].type = "SEARCH_CMPL" /\ state \in {"DISCOVERING", "ERROR"}
         /\ state = "READY" /\ state' = "READY" /\ events[1].type # "WRITE_CHAR"
              => hapticPending' = hapticPending
<1> DEFINE e == events[1]
<1>1. TypeOK /\ MembersAgree /\ OneSearch /\ e \in Event /\ 1 \in Positions /\ e = Head(events)
  BY Dequeue DEF IInv, Dispatch
<1>2. Handle(e)
  BY <1>1 DEF Dispatch
<1>3. e.type = "SEARCH_CMPL" => state \in Early
  BY <1>1 DEF OneSearch
<1>4. Opening(e) => state \in Early
  BY <1>1 DEF IInv, OpeningInOrder
<1> HIDE DEF e
<1>5. CASE e.type = "CONNECT" /\ OnConnect(e)
  BY <1>4, <1>5 DEF OnConnect, Opening, Early, e
<1>6. CASE e.type = "OPEN" /\ OnOpen(e)
  BY <1>4, <1>6 DEF OnOpen, Opening, Early, ReportDisconnected, EnterState, e
<1>7. CASE e.type = "SEARCH_CMPL" /\ OnSearchComplete(e)
  <2>1. CASE inflight' = inflight
    BY <1>3, <1>7, <2>1 DEF Early, e
  <2>2. CASE ConnectionMatches(e.link)
    BY <1>1, <1>3, <1>7, <2>2, NoMatchWhenDisconnected DEF Early, e
  <2>3. QED
    BY <1>7, <2>1, <2>2 DEF OnSearchComplete
<1>8. CASE e.type = "WRITE_CHAR" /\ OnWriteChar(e)
  BY <1>8 DEF OnWriteChar, SubscribeAsync, e
<1>9. CASE e.type = "REG_FOR_NOTIFY" /\ OnRegisterForNotify(e)
  <2>1. "rideon" \in inflight' => "rideon" \in inflight
    BY <1>9 DEF OnRegisterForNotify
  <2>2. QED
    BY <1>9, <2>1 DEF OnRegisterForNotify, Ignore, hapticVars, e
<1>10. CASE e.type = "WRITE_DESCR" /\ OnWriteDescriptor(e)
  <2>1. "rideon" \in inflight' => "rideon" \in inflight
    <3>1. CASE inflight' = inflight
      BY <3>1
    <3>2. CASE SubscribeSyncTxOrReady
      BY <3>2 DEF SubscribeSyncTxOrReady, MarkReady
    <3>3. QED
      BY <1>10, <3>1, <3>2 DEF OnWriteDescriptor
  <2>2. QED
    BY <1>10, <2>1 DEF OnWriteDescriptor, Ignore, hapticVars, e
<1>11. CASE e.type = "NOTIFY" /\ OnNotify(e)
  BY <1>11 DEF OnNotify, hapticVars, e
<1>12. CASE OnDisconnect(e) \/ OnClose(e)
  BY <1>12 DEF OnDisconnect, OnClose, ReportDisconnected, EnterState, e
<1>13. QED
  BY <1>2, <1>5, <1>6, <1>7, <1>8, <1>9, <1>10, <1>11, <1>12 DEF Handle

LEMMA DispatchWInv == IInv /\ WInv /\ Dispatch => WInv'
<1> SUFFICES ASSUME IInv, WInv, Dispatch PROVE WInv'
  OBVIOUS
<1> DEFINE e == events[1]
<1>1. MachineEffect(e) /\ ClientEffect(e)
  BY DispatchEffect
<1>2. UNCHANGED <<haptics, hapticTimeouts>> /\ events # <<>> /\ events' = Tail(events)
  BY DEF Dispatch
<1>3. TypeOK /\ TypeOK'
  BY DispatchType DEF IInv
<1>4. /\ 1 \in Positions
      /\ \A i \in Positions' : i \in Nat /\ i + 1 \in Positions /\ 1 < i + 1 /\ events'[i] = events[i + 1]
      /\ Positions' = 1..(Len(events) - 1) /\ Len(events) \in Nat
  BY <1>2, <1>3, Dequeue DEF Positions, TypeOK
<1>5. /\ \A i \in Writes' : i + 1 \in Writes /\ i + 1 # 1
      /\ Cardinality(Writes') = IF 1 \in Writes THEN Cardinality(Writes) - 1 ELSE Cardinality(Writes)
  BY <1>2, <1>3, WritesDequeued
<1>6. 1 \in Writes <=> e.type = "WRITE_CHAR"
  BY <1>4 DEF Writes
<1>7. /\ haptics \in Nat /\ hapticTimeouts \in Nat /\ MaxHaptics \in Nat /\ Cardinality(Writes) \in Nat
      /\ Writes = {} => Cardinality(Writes) = 0
  BY <1>3, WritesFinite, BoundAssumption DEF TypeOK
<1>8. \A i \in Positions' : i \in Positions
  BY <1>4 DEF Positions
<1>9. SearchAhead' => SearchAhead
  <2>1. "search" \in inflight' => "search" \in inflight \/ Opening(e)
    BY <1>1 DEF ClientEffect, Opening
  <2>2. QED
    BY <1>4, <2>1 DEF SearchAhead, Opening
\* A search that ends leaves no write and no opening queued, and no other search.
<1>10. ASSUME e.type = "SEARCH_CMPL", state # "DISCONNECTED"
       PROVE  Writes = {} /\ "rideon" \notin inflight /\ ~SearchAhead'
  <2>1. SearchAhead
    BY <1>4, <1>10 DEF SearchAhead
  <2>2. \A j \in Positions : ~Opening(events[j])
    BY <1>4, <1>10 DEF IInv, OpeningInOrder, Opening, Positions
  <2>3. Writes = {} /\ "rideon" \notin inflight
    BY <2>1, <2>2 DEF WInv, NoWriteAhead
  <2>4. "search" \notin inflight'
    <3>1. "search" \notin inflight
      BY <1>4, <1>10 DEF IInv, OneSearch
    <3>2. QED
      BY <1>1, <1>10, <3>1 DEF ClientEffect
  <2>5. \A i \in Positions' : events'[i].type # "SEARCH_CMPL"
    BY <1>4, <1>10 DEF IInv, OneSearch
  <2>6. QED
    BY <1>4, <2>2, <2>3, <2>4, <2>5 DEF SearchAhead, Opening
<1>11. ASSUME "rideon" \in inflight'
       PROVE  "rideon" \in inflight \/ (e.type = "SEARCH_CMPL" /\ state \in {"DISCOVERING", "ERROR"})
  BY <1>11, DispatchWrites
<1>12. state = "READY" /\ state' = "READY" /\ e.type # "WRITE_CHAR" => hapticPending' = hapticPending
  BY DispatchWrites
<1>13. Opening(e) => haptics = 0
  BY <1>4 DEF WInv, NoWriteAhead, SearchAhead
<1> HIDE DEF e
<1>14. NoWriteAhead'
  <2> SUFFICES ASSUME SearchAhead'
               PROVE  /\ haptics' = 0
                      /\ "rideon" \notin inflight'
                      /\ \A i \in Writes' : \E j \in Positions' : i < j /\ Opening(events'[j])
    BY DEF NoWriteAhead, Opening
  <2>1. /\ haptics = 0 /\ "rideon" \notin inflight
        /\ \A i \in Writes : \E j \in Positions : i < j /\ Opening(events[j])
    BY <1>9 DEF WInv, NoWriteAhead
  <2>2. "rideon" \notin inflight'
    BY <1>10, <1>11, <2>1
  <2>3. ASSUME NEW i \in Writes' PROVE \E j \in Positions' : i < j /\ Opening(events'[j])
    <3>1. PICK k \in Positions : i + 1 < k /\ Opening(events[k])
      BY <1>5, <2>1, <2>3
    <3>2. i \in Positions' /\ i \in Nat /\ 1 <= i /\ k \in 1..Len(events)
      BY <1>4 DEF Writes, Positions
    <3>3. k - 1 \in Positions' /\ i < k - 1 /\ (k - 1) + 1 = k
      BY <1>4, <3>1, <3>2
    <3>4. events'[k - 1] = events[k]
      BY <1>4, <3>3
    <3>5. QED
      BY <3>1, <3>3, <3>4
  <2>4. QED
    BY <1>2, <2>1, <2>2, <2>3
<1>15. HapticsWhenReady'
  <2> SUFFICES ASSUME state' \notin {"READY", "DISCONNECTED"} PROVE haptics = 0
    BY <1>2 DEF HapticsWhenReady
  <2>1. CASE Opening(e)
    BY <1>13, <2>1
  <2>2. CASE ReportDisconnected
    BY <2>2 DEF ReportDisconnected, EnterState
  <2>3. CASE Fails
    BY <2>3 DEF Fails, SetupStates, WInv, HapticsWhenReady
  <2>4. CASE Advances(e)
    BY <2>4 DEF Advances, WInv, HapticsWhenReady
  <2>5. CASE Stays
    BY <2>5 DEF Stays, WInv, HapticsWhenReady
  <2>6. QED
    BY <1>1, <2>1, <2>2, <2>3, <2>4, <2>5 DEF MachineEffect
\* Where a handler may leave the session.
<1>16. \/ state' \in {"DISCOVERING", "DISCONNECTED", "ERROR"}
       \/ state' = state
       \/ state' = "SENDING_HANDSHAKE" /\ e.type = "SEARCH_CMPL" /\ state \in {"DISCOVERING", "ERROR"}
       \/ state' = "SUBSCRIBING_ASYNC" /\ e.type = "WRITE_CHAR" /\ state = "SENDING_HANDSHAKE"
       \/ state' \in {"SUBSCRIBING_SYNC_TX", "READY"}
            /\ state \in {"SUBSCRIBING_ASYNC", "SUBSCRIBING_SYNC_TX"}
  BY <1>1 DEF MachineEffect, BeginConnection, ReportDisconnected, Fails, Advances, Stays, EnterState
<1>17. OneHandshake'
  <2>1. ASSUME state' \in {"SUBSCRIBING_ASYNC", "SUBSCRIBING_SYNC_TX"}
        PROVE  Writes' = {} /\ "rideon" \notin inflight'
    <3>1. CASE e.type = "WRITE_CHAR" /\ state = "SENDING_HANDSHAKE"
      <4>1. 1 \in Writes /\ (\A i, j \in Writes : i = j) /\ "rideon" \notin inflight
        BY <1>6, <3>1 DEF WInv, OneHandshake
      <4>2. QED
        BY <1>5, <1>11, <3>1, <4>1
    <3>2. CASE state \in {"SUBSCRIBING_ASYNC", "SUBSCRIBING_SYNC_TX"}
      BY <1>5, <1>11, <3>2 DEF WInv, OneHandshake
    <3>3. QED
      BY <1>16, <2>1, <3>1, <3>2
  <2>2. ASSUME state' = "READY" PROVE "rideon" \notin inflight'
    BY <1>11, <1>16, <2>2 DEF WInv, OneHandshake
  <2>3. ASSUME state' = "SENDING_HANDSHAKE"
        PROVE  (\A i, j \in Writes' : i = j) /\ ("rideon" \in inflight' => Writes' = {})
    <3>1. CASE e.type = "SEARCH_CMPL" /\ state \in {"DISCOVERING", "ERROR"}
      BY <1>5, <1>10, <3>1
    <3>2. CASE state = "SENDING_HANDSHAKE"
      <4>1. (\A i, j \in Writes : i = j) /\ ("rideon" \in inflight => Writes = {})
        BY <3>2 DEF WInv, OneHandshake
      <4>2. \A i \in Writes' : i \in Nat
        BY <1>4 DEF Writes
      <4>3. \A i, j \in Writes' : i = j
        <5> SUFFICES ASSUME NEW i \in Writes', NEW j \in Writes' PROVE i = j
          OBVIOUS
        <5>1. i + 1 = j + 1
          BY <1>5, <4>1
        <5>2. QED
          BY <4>2, <5>1
      <4>4. QED
        BY <1>5, <1>11, <3>2, <4>1, <4>3
    <3>3. QED
      BY <1>16, <2>3, <3>1, <3>2
  <2>4. QED
    BY <2>1, <2>2, <2>3 DEF OneHandshake
<1>18. WritesCounted'
  <2> SUFFICES ASSUME state' = "READY", hapticTimeouts < MaxHaptics
               PROVE  haptics + Cardinality(Writes)' <= hapticTimeouts + (IF hapticPending' THEN 1 ELSE 0)
    BY <1>2 DEF WritesCounted
  <2>1. CASE state \in {"SUBSCRIBING_ASYNC", "SUBSCRIBING_SYNC_TX"}
    <3>1. haptics = 0 /\ Writes = {}
      BY <2>1 DEF WInv, OneHandshake, HapticsWhenReady
    <3>2. Cardinality(Writes') = 0
      BY <1>5, <1>7, <3>1
    <3>3. QED
      BY <1>7, <3>1, <3>2
  <2>2. CASE state = "READY"
    <3>1. haptics + Cardinality(Writes) <= hapticTimeouts + (IF hapticPending THEN 1 ELSE 0)
      BY <2>2 DEF WInv, WritesCounted
    <3>2. CASE e.type = "WRITE_CHAR"
      BY <1>5, <1>6, <1>7, <3>1, <3>2
    <3>3. CASE e.type # "WRITE_CHAR"
      BY <1>5, <1>6, <1>12, <2>2, <3>1, <3>3
    <3>4. QED
      BY <3>2, <3>3
  <2>3. QED
    BY <1>16, <2>1, <2>2
<1>19. haptics' <= MaxHaptics /\ HapticGate'
  BY <1>2 DEF WInv, HapticGate
<1>20. QED
  BY <1>14, <1>15, <1>17, <1>18, <1>19 DEF WInv

LEMMA LoopWInv == IInv /\ WInv /\ Loop => WInv'
<1> SUFFICES ASSUME IInv, WInv, Loop PROVE WInv'
  OBVIOUS
<1>1. TypeOK
  BY DEF IInv
<1>2. /\ haptics \in Nat /\ hapticTimeouts \in Nat /\ MaxHaptics \in Nat /\ Cardinality(Writes) \in Nat
      /\ hapticTimeouts' \in Nat /\ hapticPending \in BOOLEAN /\ hapticPending' \in BOOLEAN
  BY <1>1, WritesFinite, LoopType, BoundAssumption DEF TypeOK
<1>3. UNCHANGED <<inflight, haptics, events, Positions, Writes>>
  BY DEF Loop, Positions, Writes
<1>4. state' \in {"DISCONNECTED", "ERROR", state} /\ (state' = "ERROR" => state # "READY" /\ state # "DISCONNECTED")
  <2>1. CASE LoopOnIdleClient
    BY <2>1 DEF LoopOnIdleClient, ReportDisconnected, EnterState
  <2>2. CASE LoopWatchdogs /\ StepExpired
    <3>1. state \in SetupStates
      BY <2>2 DEF StepExpired, StateTimeout, SetupStates
    <3>2. QED
      BY <2>2, <3>1 DEF LoopWatchdogs, FailSetup, Fail, EnterState, SetupStates
  <2>3. CASE LoopWatchdogs /\ ~StepExpired
    <3>1. UNCHANGED state
      BY <2>3 DEF LoopWatchdogs, machineVars
    <3>2. state = "ERROR" => state # "READY" /\ state # "DISCONNECTED"
      OBVIOUS
    <3>3. QED
      BY <3>1, <3>2
  <2>4. QED
    BY <2>1, <2>2, <2>3 DEF Loop
\* The gate opens without a completion only when a timeout is counted.
<1>5. /\ hapticTimeouts <= hapticTimeouts'
      /\ state' = "READY" /\ hapticTimeouts' < MaxHaptics =>
           hapticTimeouts + (IF hapticPending THEN 1 ELSE 0)
             <= hapticTimeouts' + (IF hapticPending' THEN 1 ELSE 0)
  <2>1. CASE LoopOnIdleClient
    BY <1>2, <2>1 DEF LoopOnIdleClient, ReportDisconnected, EnterState
  <2>2. CASE LoopWatchdogs
    <3>1. hapticTimeouts' = IF HapticExpired /\ hapticTimeouts < MaxHaptics
                            THEN hapticTimeouts + 1 ELSE hapticTimeouts
      BY <2>2 DEF LoopWatchdogs
    <3>2. ASSUME state' = "READY" PROVE IF HapticExpired THEN ~hapticPending' ELSE hapticPending' = hapticPending
      <4>1. ~(StepExpired /\ FailSetup(client))
        BY <3>2 DEF StepExpired, StateTimeout, SetupStates, FailSetup, Fail, EnterState
      <4>2. QED
        BY <2>2, <4>1 DEF LoopWatchdogs, ClearHaptic, hapticVars
    <3>3. HapticExpired => hapticPending
      BY DEF HapticExpired
    <3>4. CASE HapticExpired
      BY <1>2, <3>1, <3>2, <3>3, <3>4
    <3>5. CASE ~HapticExpired
      BY <1>2, <3>1, <3>2, <3>5
    <3>6. QED
      BY <3>4, <3>5
  <2>3. QED
    BY <2>1, <2>2 DEF Loop
<1>c. hapticTimeouts' = hapticTimeouts \/ hapticTimeouts' = hapticTimeouts + 1
  BY DEF Loop, LoopOnIdleClient, LoopWatchdogs
<1>6. haptics' <= MaxHaptics /\ HapticGate'
  <2>1. haptics <= MaxHaptics /\ haptics <= 1 + hapticTimeouts
    BY DEF WInv, HapticGate
  <2>2. CASE hapticTimeouts' = hapticTimeouts
    BY <1>2, <1>3, <2>1, <2>2 DEF HapticGate
  <2>3. CASE hapticTimeouts' = hapticTimeouts + 1
    BY <1>2, <1>3, <2>1, <2>3 DEF HapticGate
  <2>4. QED
    BY <1>c, <2>2, <2>3
<1>7. NoWriteAhead' /\ HapticsWhenReady' /\ OneHandshake'
  BY <1>3, <1>4 DEF WInv, NoWriteAhead, SearchAhead, Opening, HapticsWhenReady, OneHandshake
<1>8. WritesCounted'
  <2>1. Cardinality(Writes)' = Cardinality(Writes)
    BY <1>3
  <2> SUFFICES ASSUME state' = "READY", hapticTimeouts' < MaxHaptics
               PROVE  haptics + Cardinality(Writes) <= hapticTimeouts' + (IF hapticPending' THEN 1 ELSE 0)
    BY <1>3, <2>1 DEF WritesCounted
  <2>2. state = "READY" /\ hapticTimeouts < MaxHaptics
    BY <1>2, <1>4, <1>5
  <2>3. haptics + Cardinality(Writes) <= hapticTimeouts + (IF hapticPending THEN 1 ELSE 0)
    BY <2>2 DEF WInv, WritesCounted
  <2>4. hapticTimeouts + (IF hapticPending THEN 1 ELSE 0)
          <= hapticTimeouts' + (IF hapticPending' THEN 1 ELSE 0)
    BY <1>5
  <2>5. CASE hapticTimeouts' = hapticTimeouts
    BY <1>2, <2>3, <2>4, <2>5
  <2>6. CASE hapticTimeouts' = hapticTimeouts + 1
    BY <1>2, <2>3, <2>4, <2>6
  <2>7. QED
    BY <1>c, <2>5, <2>6
<1>9. QED
  BY <1>6, <1>7, <1>8 DEF WInv

LEMMA VibrateWInv == IInv /\ WInv /\ Vibrate => WInv'
<1> SUFFICES ASSUME IInv, WInv, Vibrate PROVE WInv'
  OBVIOUS
<1>1. TypeOK
  BY DEF IInv
<1>2. /\ haptics \in Nat /\ hapticTimeouts \in Nat /\ MaxHaptics \in Nat /\ Cardinality(Writes) \in Nat
  BY <1>1, WritesFinite, BoundAssumption DEF TypeOK
<1>3. /\ UNCHANGED <<state, inflight, events, hapticTimeouts, Positions, Writes>>
      /\ state = "READY" /\ ~hapticPending /\ hapticPending'
      /\ haptics < MaxHaptics /\ haptics' \in {haptics, haptics + 1}
  BY DEF Vibrate, MayVibrate, machineVars, Positions, Writes
<1>4. ~SearchAhead /\ ~SearchAhead'
  <2>1. ~SearchAhead
    BY <1>3 DEF SearchAhead, IInv, OneSearch, OpeningInOrder, Early
  <2>2. QED
    BY <1>3, <2>1 DEF SearchAhead, Opening
<1>5. hapticTimeouts < MaxHaptics => haptics + Cardinality(Writes) <= hapticTimeouts
  BY <1>2, <1>3 DEF WInv, WritesCounted
<1>6. haptics' <= MaxHaptics /\ HapticGate'
  BY <1>2, <1>3, <1>5 DEF HapticGate
<1>7. NoWriteAhead' /\ HapticsWhenReady' /\ OneHandshake'
  BY <1>3, <1>4 DEF WInv, NoWriteAhead, HapticsWhenReady, OneHandshake
<1>8. WritesCounted'
  <2>1. Cardinality(Writes)' = Cardinality(Writes)
    BY <1>3
  <2>2. QED
    BY <1>2, <1>3, <1>5, <2>1 DEF WritesCounted
<1>9. QED
  BY <1>6, <1>7, <1>8 DEF WInv

\* The opening of a link leaves behind it every write of the one before.
LEMMA LinkUpWInv == IInv /\ WInv /\ LinkUp => WInv'
<1> SUFFICES ASSUME IInv, WInv, LinkUp PROVE WInv'
  OBVIOUS
<1>1. TypeOK /\ TypeOK'
  BY NextType DEF IInv, Next
<1>2. state = "DISCONNECTED" /\ state' = "DISCONNECTED"
  BY DEF IInv, AskedWhenIdle, LinkUp, EnvironmentUnchanged, machineVars
<1>3. inflight' = {} /\ haptics' = 0 /\ hapticTimeouts' = 0
  BY DEF LinkUp
<1> DEFINE connect == ConnectionEvent("CONNECT", link', TRUE)
           open == ConnectionEvent("OPEN", link', TRUE)
<1>4. /\ connect \in Event /\ connect.type = "CONNECT"
      /\ open \in Event /\ open.type = "OPEN" /\ open.ok
  BY <1>1, ConnectionEventType DEF TypeOK, EventTypes, ConnectionEvent
<1> HIDE DEF connect, open
<1>5. PICK es \in {<<open>>, <<connect, open>>, <<open, connect>>} : Enqueue(es)
  BY DEF LinkUp, connect, open
<1>6. es \in Seq(Event) /\ Len(es) \in {1, 2} /\ \A k \in 1..Len(es) : Opening(es[k]) /\ es[k].type # "WRITE_CHAR"
  <2>1. CASE es = <<open>>
    BY <1>4, <2>1 DEF Opening
  <2>2. CASE es = <<connect, open>>
    BY <1>4, <2>2 DEF Opening
  <2>3. CASE es = <<open, connect>>
    BY <1>4, <2>3 DEF Opening
  <2>4. QED
    BY <1>5, <2>1, <2>2, <2>3
<1>7. /\ Len(events) \in Nat
      /\ \A i \in Positions : i \in Nat /\ i <= Len(events)
      /\ \A i \in Positions' : i \in Positions \/ \E k \in 1..Len(es) : i = Len(events) + k
      /\ \A k \in 1..Len(es) : events'[Len(events) + k] = es[k] /\ Len(events) + k \in Positions'
  BY <1>1, <1>5, <1>6, Enqueued DEF Positions
<1>8. Len(events) + 1 \in Positions' /\ Opening(events'[Len(events) + 1])
  <2>1. 1 \in 1..Len(es)
    BY <1>6
  <2>2. QED
    BY <1>6, <1>7, <2>1 DEF Opening
<1>9. \A i \in Writes' : i < Len(events) + 1
  <2> SUFFICES ASSUME NEW i \in Writes' PROVE i < Len(events) + 1
    OBVIOUS
  <2>1. i \in Positions' /\ events'[i].type = "WRITE_CHAR"
    BY DEF Writes
  <2>2. i \in Positions
    BY <1>6, <1>7, <2>1
  <2>3. QED
    BY <1>7, <2>2
<1>10. NoWriteAhead'
  BY <1>3, <1>8, <1>9 DEF NoWriteAhead, Opening
<1>11. HapticsWhenReady' /\ OneHandshake' /\ WritesCounted'
  BY <1>2 DEF HapticsWhenReady, OneHandshake, WritesCounted
<1>12. haptics' <= MaxHaptics /\ HapticGate'
  BY <1>3, BoundAssumption DEF HapticGate
<1>13. QED
  BY <1>10, <1>11, <1>12 DEF WInv

\* A completion of a write: the handshake's, or that of a haptic write.
LEMMA WriteCompletesWInv ==
  ASSUME IInv, WInv, TypeOK', NEW w \in Event, w.type = "WRITE_CHAR", Enqueue(<<w>>),
         UNCHANGED <<state, hapticPending, hapticTimeouts>>,
         \/ "rideon" \in inflight /\ inflight' = inflight \ {"rideon"} /\ haptics' = haptics
         \/ haptics > 0 /\ haptics' = haptics - 1 /\ inflight' = inflight
  PROVE  WInv'
<1>1. TypeOK
  BY DEF IInv
<1>2. /\ haptics \in Nat /\ hapticTimeouts \in Nat /\ MaxHaptics \in Nat /\ Cardinality(Writes) \in Nat
  BY <1>1, WritesFinite, BoundAssumption DEF TypeOK
<1>3. /\ Writes' = Writes \union {Len(events) + 1}
      /\ Cardinality(Writes') = Cardinality(Writes) + 1
      /\ \A i \in Positions : i \in Positions' /\ events'[i] = events[i]
      /\ \A i \in Positions' : i \in Positions \/ events'[i] = w
  BY <1>1, WriteQueued
<1>4. ~SearchAhead
  BY <1>2 DEF WInv, NoWriteAhead
<1>5. ~SearchAhead'
  <2>1. "search" \notin inflight'
    BY <1>4 DEF SearchAhead
  <2>2. \A i \in Positions' : events'[i].type # "SEARCH_CMPL" /\ ~Opening(events'[i])
    BY <1>3, <1>4 DEF SearchAhead, Opening
  <2>3. QED
    BY <2>1, <2>2 DEF SearchAhead, Opening
<1>6. haptics' <= haptics /\ haptics' \in Nat
  BY <1>2
<1>7. haptics' <= MaxHaptics /\ HapticGate' /\ HapticsWhenReady'
  BY <1>2, <1>6 DEF WInv, HapticGate, HapticsWhenReady
<1>8. state \notin {"SUBSCRIBING_ASYNC", "SUBSCRIBING_SYNC_TX"}
  BY <1>2 DEF WInv, HapticsWhenReady, OneHandshake
<1>9. OneHandshake'
  <2>1. ASSUME state = "SENDING_HANDSHAKE" PROVE Writes = {} /\ "rideon" \notin inflight'
    BY <1>2, <2>1 DEF WInv, HapticsWhenReady, OneHandshake
  <2>2. QED
    BY <1>3, <1>8, <2>1 DEF WInv, OneHandshake
<1>10. WritesCounted'
  <2> SUFFICES ASSUME state = "READY", hapticTimeouts < MaxHaptics
               PROVE  haptics' + Cardinality(Writes') <= hapticTimeouts + (IF hapticPending THEN 1 ELSE 0)
    BY DEF WritesCounted
  <2>1. haptics' = haptics - 1
    BY DEF WInv, OneHandshake
  <2>2. haptics + Cardinality(Writes) <= hapticTimeouts + (IF hapticPending THEN 1 ELSE 0)
    BY DEF WInv, WritesCounted
  <2>3. QED
    BY <1>2, <1>3, <2>1, <2>2
<1>11. QED
  BY <1>5, <1>7, <1>9, <1>10 DEF WInv, NoWriteAhead

\* Events that complete no write leave the writes where they are, and those that
\* open no connection and end no discovery announce none.
LEMMA OthersQueued ==
  ASSUME TypeOK, NEW es \in Seq(Event), Enqueue(es),
         \A k \in 1..Len(es) : es[k].type # "WRITE_CHAR"
  PROVE  /\ Writes' = Writes
         /\ \A i \in Positions : i \in Positions' /\ events'[i] = events[i]
         /\ (/\ \A k \in 1..Len(es) : es[k].type # "SEARCH_CMPL" /\ ~Opening(es[k])
             /\ "search" \in inflight' => "search" \in inflight) =>
              (SearchAhead' => SearchAhead)
<1>1. /\ \A i \in Positions : i \in Positions' /\ events'[i] = events[i]
      /\ \A i \in Positions' : i \in Positions \/ \E k \in 1..Len(es) : events'[i] = es[k]
  BY Enqueued
<1>2. \A i \in Writes' : i \in Writes
  BY <1>1 DEF Writes
<1>3. \A i \in Writes : i \in Writes'
  BY <1>1 DEF Writes
<1>4. ASSUME \A k \in 1..Len(es) : es[k].type # "SEARCH_CMPL" /\ ~Opening(es[k]),
             "search" \in inflight' => "search" \in inflight, SearchAhead'
      PROVE  SearchAhead
  BY <1>1, <1>4 DEF SearchAhead, Opening
<1>5. QED
  BY <1>1, <1>2, <1>3, <1>4

\* A step that leaves the queue alone.
LEMMA QueueKept ==
  ASSUME UNCHANGED events, "search" \in inflight' => "search" \in inflight
  PROVE  /\ Writes' = Writes
         /\ \A i \in Positions : i \in Positions' /\ events'[i] = events[i]
         /\ SearchAhead' => SearchAhead
BY DEF Writes, Positions, SearchAhead, Opening

LEMMA InitWInv == Init => WInv
<1> SUFFICES ASSUME Init PROVE WInv
  OBVIOUS
<1>1. Positions = {} /\ Writes = {} /\ ~SearchAhead
  BY DEF Init, Positions, Writes, SearchAhead
<1>2. QED
  BY <1>1, BoundAssumption
  DEF Init, WInv, HapticGate, NoWriteAhead, HapticsWhenReady, OneHandshake, WritesCounted

LEMMA LinkDownWInv == IInv /\ WInv /\ LinkDown => WInv'
<1> SUFFICES ASSUME IInv, WInv, LinkDown PROVE WInv'
  OBVIOUS
<1>1. TypeOK
  BY DEF IInv
<1>2. UNCHANGED <<state, hapticPending, hapticTimeouts>>
  BY DEF LinkDown, EnvironmentUnchanged, machineVars, hapticVars
<1>3. inflight' = inflight \intersect {"open"} /\ haptics' = 0
  BY DEF LinkDown
<1> DEFINE disconnect == ConnectionEvent("DISCONNECT", link, TRUE)
           close == ConnectionEvent("CLOSE", link, TRUE)
<1>4. /\ disconnect \in Event /\ disconnect.type = "DISCONNECT"
      /\ close \in Event /\ close.type = "CLOSE"
  BY <1>1, ConnectionEventType DEF TypeOK, EventTypes, ConnectionEvent
<1> HIDE DEF disconnect, close
<1>5. PICK es \in {<<>>, <<disconnect>>, <<close>>, <<disconnect, close>>, <<close, disconnect>>} :
        Enqueue(es)
  BY DEF LinkDown, disconnect, close
<1>6. es \in Seq(Event) /\ \A k \in 1..Len(es) : es[k].type \in {"DISCONNECT", "CLOSE"}
  <2>1. CASE es = <<>>
    BY <2>1
  <2>2. CASE es = <<disconnect>>
    BY <1>4, <2>2
  <2>3. CASE es = <<close>>
    BY <1>4, <2>3
  <2>4. CASE es = <<disconnect, close>>
    BY <1>4, <2>4
  <2>5. CASE es = <<close, disconnect>>
    BY <1>4, <2>5
  <2>6. QED
    BY <1>5, <2>1, <2>2, <2>3, <2>4, <2>5
<1>7. \A k \in 1..Len(es) : es[k].type \notin {"WRITE_CHAR", "SEARCH_CMPL"} /\ ~Opening(es[k])
  BY <1>6 DEF Opening
<1>8. /\ Writes' = Writes /\ (SearchAhead' => SearchAhead)
      /\ \A i \in Positions : i \in Positions' /\ events'[i] = events[i]
  BY <1>1, <1>3, <1>5, <1>6, <1>7, OthersQueued
<1>9. haptics' \in Nat /\ haptics' <= haptics
  BY <1>1, <1>3 DEF TypeOK
<1>10. QED
  BY <1>1, <1>2, <1>3, <1>8, <1>9, WritesKept

LEMMA OperationCompletesWInv == IInv /\ WInv /\ OperationCompletes => WInv'
<1> SUFFICES ASSUME IInv, WInv, OperationCompletes PROVE WInv'
  OBVIOUS
<1>1. TypeOK /\ TypeOK'
  BY NextType DEF IInv, Next
<1>2. UNCHANGED <<state, hapticPending, hapticTimeouts, haptics>>
  BY DEF OperationCompletes, EnvironmentUnchanged, machineVars, hapticVars
<1>3. PICK op \in inflight \ {"open"}, ok \in BOOLEAN :
        inflight' = inflight \ {op} /\ Enqueue(<<Completion(op, ok)>>)
  BY DEF OperationCompletes
<1>4. op \in Operations \ {"open"}
  BY <1>1 DEF TypeOK
<1>5. Completion(op, ok) \in Event
  BY <1>1, <1>4, CompletionType
<1>6. /\ Completion(op, ok).type = "WRITE_CHAR" => op = "rideon"
      /\ op = "rideon" => Completion(op, ok).type = "WRITE_CHAR"
      /\ Completion(op, ok).type \in {"SEARCH_CMPL", "WRITE_CHAR", "REG_FOR_NOTIFY", "WRITE_DESCR"}
      /\ Completion(op, ok).type = "SEARCH_CMPL" => op = "search"
  BY <1>4 DEF Completion, Operations
<1>7. CASE op = "rideon"
  BY <1>1, <1>2, <1>3, <1>5, <1>6, <1>7, WriteCompletesWInv
<1>8. CASE op # "rideon"
  <2> DEFINE e == Completion(op, ok)
  <2> HIDE DEF e
  <2>1. /\ e \in Event /\ Enqueue(<<e>>) /\ e.type # "WRITE_CHAR"
        /\ ~Opening(e) /\ (e.type = "SEARCH_CMPL" => op = "search")
    BY <1>3, <1>5, <1>6, <1>8 DEF e, Opening
  <2>2. <<e>> \in Seq(Event) /\ \A k \in 1..Len(<<e>>) : <<e>>[k] = e
    BY <2>1
  <2>3. /\ Writes' = Writes
        /\ \A i \in Positions : i \in Positions' /\ events'[i] = events[i]
        /\ e.type # "SEARCH_CMPL" => (SearchAhead' => SearchAhead)
    BY <1>1, <1>3, <2>1, <2>2, OthersQueued
  <2>4. op = "search" => SearchAhead
    BY <1>3 DEF SearchAhead
  <2>5. haptics' \in Nat /\ haptics' <= haptics
    BY <1>1, <1>2 DEF TypeOK
  <2>6. QED
    BY <1>1, <1>2, <1>3, <2>1, <2>3, <2>4, <2>5, WritesKept
<1>9. QED
  BY <1>7, <1>8

LEMMA HapticCompletesWInv == IInv /\ WInv /\ HapticCompletes => WInv'
<1> SUFFICES ASSUME IInv, WInv, HapticCompletes PROVE WInv'
  OBVIOUS
<1>1. TypeOK /\ TypeOK'
  BY NextType DEF IInv, Next
<1>2. UNCHANGED <<state, hapticPending, hapticTimeouts, inflight>>
  BY DEF HapticCompletes, EnvironmentUnchanged, machineVars, hapticVars
<1>3. PICK ok \in BOOLEAN : Enqueue(<<Completion("rideon", ok)>>)
  BY DEF HapticCompletes
<1>4. Completion("rideon", ok) \in Event /\ Completion("rideon", ok).type = "WRITE_CHAR"
  <2>1. "rideon" \in Operations \ {"open"}
    BY DEF Operations
  <2>2. QED
    BY <1>1, <2>1, CompletionType DEF Completion
<1>5. haptics > 0 /\ haptics' = haptics - 1
  BY DEF HapticCompletes
<1>6. QED
  BY <1>1, <1>2, <1>3, <1>4, <1>5, WriteCompletesWInv

LEMMA NextWInv == IInv /\ WInv /\ [Next]_vars => WInv'
<1> SUFFICES ASSUME IInv, WInv, [Next]_vars PROVE WInv'
  OBVIOUS
<1>1. TypeOK /\ TypeOK'
  BY NextType DEF IInv
<1>2. haptics \in Nat /\ haptics' \in Nat
  BY <1>1 DEF TypeOK
<1>3. CASE Dispatch
  BY <1>3, DispatchWInv
<1>4. CASE Loop
  BY <1>4, LoopWInv
<1>5. CASE Vibrate
  BY <1>5, VibrateWInv
<1>6. CASE LinkUp
  BY <1>6, LinkUpWInv
<1>7. CASE LinkDown
  BY <1>7, LinkDownWInv
<1>8. CASE OperationCompletes
  BY <1>8, OperationCompletesWInv
<1>9. CASE HapticCompletes
  BY <1>9, HapticCompletesWInv
<1>10. CASE OpenFails
  <2>1. /\ UNCHANGED <<state, hapticPending, hapticTimeouts, haptics>>
        /\ inflight' = inflight \ {"open"}
    BY <1>10 DEF OpenFails, EnvironmentUnchanged, machineVars, hapticVars
  <2> DEFINE e == ConnectionEvent("OPEN", link, FALSE)
  <2>2. e \in Event /\ e.type = "OPEN" /\ ~Opening(e)
    BY <1>1, ConnectionEventType DEF TypeOK, EventTypes, ConnectionEvent, Opening
  <2>3. Enqueue(<<e>>)
    BY <1>10 DEF OpenFails
  <2> HIDE DEF e
  <2>4. <<e>> \in Seq(Event) /\ \A k \in 1..Len(<<e>>) : <<e>>[k] = e
    BY <2>2
  <2>5. /\ Writes' = Writes /\ (SearchAhead' => SearchAhead)
        /\ \A i \in Positions : i \in Positions' /\ events'[i] = events[i]
    BY <1>1, <2>1, <2>2, <2>3, <2>4, OthersQueued
  <2>6. haptics' <= haptics
    BY <1>2, <2>1
  <2>7. QED
    BY <1>1, <1>2, <2>1, <2>5, <2>6, WritesKept
<1>11. CASE ControllerNotifies
  <2>1. UNCHANGED <<state, hapticPending, hapticTimeouts, haptics, inflight>>
    BY <1>11 DEF ControllerNotifies, EnvironmentUnchanged, machineVars, hapticVars
  <2> DEFINE e == [type |-> "NOTIFY", link |-> link, handle |-> "async", ok |-> TRUE]
  <2>2. e \in Event /\ e.type = "NOTIFY" /\ ~Opening(e)
    BY <1>1 DEF TypeOK, Event, EventTypes, Handles, Opening
  <2>3. Enqueue(<<e>>)
    BY <1>11 DEF ControllerNotifies
  <2> HIDE DEF e
  <2>4. <<e>> \in Seq(Event) /\ \A k \in 1..Len(<<e>>) : <<e>>[k] = e
    BY <2>2
  <2>5. /\ Writes' = Writes /\ (SearchAhead' => SearchAhead)
        /\ \A i \in Positions : i \in Positions' /\ events'[i] = events[i]
    BY <1>1, <2>1, <2>2, <2>3, <2>4, OthersQueued
  <2>6. haptics' <= haptics
    BY <1>2, <2>1
  <2>7. QED
    BY <1>1, <1>2, <2>1, <2>5, <2>6, WritesKept
<1>12. CASE CompletionLost
  <2>1. UNCHANGED <<state, hapticPending, hapticTimeouts, events>>
    BY <1>12 DEF CompletionLost, EnvironmentUnchanged, machineVars, hapticVars
  <2>2. inflight' \subseteq inflight /\ haptics' <= haptics
    BY <1>2, <1>12 DEF CompletionLost
  <2>3. QED
    BY <1>1, <1>2, <2>1, <2>2, QueueKept, WritesKept
<1>13. CASE Tick \/ ClientConnect \/ ClientDisconnect \/ ClientWatchdog \/ UNCHANGED vars
  <2>1. /\ UNCHANGED <<state, hapticPending, hapticTimeouts, haptics, events>>
        /\ inflight' \in {inflight, inflight \union {"open"}}
    BY <1>13 DEF Tick, ClientConnect, ClientDisconnect, ClientWatchdog, EnvironmentUnchanged,
                 vars, machineVars, hapticVars, stackVars
  <2>2. QED
    BY <1>1, <1>2, <2>1, QueueKept, WritesKept
<1>14. QED
  BY <1>3, <1>4, <1>5, <1>6, <1>7, <1>8, <1>9, <1>10, <1>11, <1>12, <1>13 DEF Next

\* The stack never holds more than one haptic write of this session that no
\* timeout accounts for, whichever completions are late, lost, or mistaken for
\* the one awaited: vibrate() after a reconnect does not trust the answer to a
\* write of the connection before, nor the handshake's.
THEOREM OneWriteAtATime == Spec => []HapticGate
<1>1. Init => IInv /\ WInv
  BY InitInv, InitWInv
<1>2. IInv /\ WInv /\ [Next]_vars => (IInv /\ WInv)'
  BY NextInv, NextWInv
<1>3. WInv => HapticGate
  BY DEF WInv
<1>4. QED
  BY <1>1, <1>2, <1>3, PTL DEF Spec
=============================================================================
