-------------------------- MODULE IdlePolicyProofs ---------------------------
(***************************************************************************)
(* Proofs about IdlePolicy for every configuration the schema accepts and  *)
(* every period of the clock: the types, that nothing learned survives a   *)
(* suppression, that only a quiet session is dropped and that suppression  *)
(* is capped.                                                              *)
(*                                                                         *)
(* The two deadlines are argued in the same way: the distance of the stamp *)
(* from the clock is the time that really passed, because the deadline is  *)
(* shorter than the clock's period, and when it is reached a poll is due   *)
(* before the clock can move past it.                                      *)
(***************************************************************************)
EXTENDS IdlePolicy, SequenceTheorems, TLAPS

\* A live session is never a suppressed one, and the quiet time of a session
\* is what the policy measures.
SessionClock ==
  /\ sessionReady => ~suppressed
  /\ sessionReady /\ IdleTimeout # 0 =>
       /\ Difference(now, lastActivity) = quiet
       /\ quiet = IdleTimeout => loopDue

\* So is the age of a suppression.
SuppressionClock ==
  suppressed /\ MaxSuppression # 0 =>
    /\ Difference(now, suppressedSince) = suppressedFor
    /\ suppressedFor <= MaxSuppression
    /\ suppressedFor = MaxSuppression => loopDue

IInv ==
  /\ TypeOK
  /\ NoStaleEvidence
  /\ SessionClock
  /\ SuppressionClock

-----------------------------------------------------------------------------
(* The clock and the rate window.                                          *)

LEMMA ConfigNat ==
  /\ {IdleTimeout, SleepConfirm, MaxSuppression, SlowRate, WakeRate, RateSampleCount,
      BurstMinSpacing, ClockPeriod} \subseteq Nat
  /\ IdleTimeout < ClockPeriod /\ MaxSuppression < ClockPeriod
  /\ 0 \in Times
BY ConfigAssumption DEF Times

LEMMA CapacityNat == RateCapacity \in Nat /\ RateCapacity >= 3
BY ConfigNat DEF RateCapacity, MaxRateSampleCount

\* A stamp taken now has age zero.
LEMMA FreshStamp ==
  ASSUME NEW t \in Times
  PROVE  Difference(t, t) = 0
BY DEF Difference, Times

\* A tick adds one to every age that is short of the clock's period.
LEMMA TickAges ==
  ASSUME NEW t \in Times, NEW s \in Times, NEW u \in Times,
         u = IF t + 1 = ClockPeriod THEN 0 ELSE t + 1,
         Difference(t, s) + 1 < ClockPeriod
  PROVE  Difference(u, s) = Difference(t, s) + 1
BY ConfigNat DEF Difference, Times

LEMMA WindowType ==
  ASSUME TypeOK
  PROVE  RecordRateSample \in Seq(Times) /\ Len(RecordRateSample) <= RateCapacity
<1>1. /\ rateTimes \in Seq(Times) /\ Len(rateTimes) \in Nat /\ Len(rateTimes) <= RateCapacity
      /\ now \in Times /\ RateCapacity \in Nat /\ RateCapacity >= 3
  BY CapacityNat DEF TypeOK
<1>2. CASE Len(rateTimes) # 0 /\ Difference(now, rateTimes[Len(rateTimes)]) < BurstMinSpacing
  <2>1. RecordRateSample = [rateTimes EXCEPT ![Len(rateTimes)] = now]
    BY <1>2 DEF RecordRateSample
  <2>2. Len(rateTimes) \in 1..Len(rateTimes)
    BY <1>1, <1>2
  <2>3. QED
    BY <1>1, <2>1, <2>2, ExceptSeq
<1>3. CASE /\ ~(Len(rateTimes) # 0 /\ Difference(now, rateTimes[Len(rateTimes)]) < BurstMinSpacing)
           /\ Len(rateTimes) < RateCapacity
  <2>1. RecordRateSample = Append(rateTimes, now)
    BY <1>3 DEF RecordRateSample
  <2>2. QED
    BY <1>1, <1>3, <2>1
<1>4. CASE /\ ~(Len(rateTimes) # 0 /\ Difference(now, rateTimes[Len(rateTimes)]) < BurstMinSpacing)
           /\ ~(Len(rateTimes) < RateCapacity)
  <2>1. RecordRateSample = Append(Tail(rateTimes), now)
    BY <1>4 DEF RecordRateSample
  <2>2. rateTimes # <<>> /\ Tail(rateTimes) \in Seq(Times) /\ Len(Tail(rateTimes)) = Len(rateTimes) - 1
    BY <1>1, <1>4
  <2>3. QED
    BY <1>1, <1>4, <2>1, <2>2
<1>5. QED
  BY <1>2, <1>3, <1>4

LEMMA EmptyWindow == <<>> \in Seq(Times) /\ Len(<<>>) <= RateCapacity
BY CapacityNat

-----------------------------------------------------------------------------
(* Type correctness.                                                       *)

\* The part of TypeOK about the policy's latches and window.
LatchesOK ==
  /\ suppressed \in BOOLEAN
  /\ sleepConfirmed \in BOOLEAN
  /\ slowed \in BOOLEAN
  /\ rateTimes \in Seq(Times)
  /\ Len(rateTimes) <= RateCapacity

LEMMA ClearLatchesType == ClearLatches => LatchesOK'
BY EmptyWindow DEF ClearLatches, LatchesOK

LEMMA SightingType ==
  ASSUME TypeOK, OnAdvertisement
  PROVE  /\ LatchesOK' /\ lastAdvertisement' \in Times /\ hasAdvertisement' \in BOOLEAN
         /\ ended' \in Reasons /\ UNCHANGED <<lastActivity, suppressedSince>>
<1>1. CASE ~suppressed /\ rateTimes' = <<>> /\ UNCHANGED <<suppressed, sleepConfirmed, slowed, ended>>
  BY <1>1, EmptyWindow DEF OnAdvertisement, TypeOK, LatchesOK
<1>2. CASE ClearLatches /\ ended' = "woke"
  BY <1>2, ClearLatchesType DEF OnAdvertisement, TypeOK, Reasons
<1>3. CASE /\ rateTimes' = RecordRateSample
           /\ slowed' \in BOOLEAN
           /\ UNCHANGED <<suppressed, sleepConfirmed, ended>>
  BY <1>3, WindowType DEF OnAdvertisement, TypeOK, LatchesOK
<1>4. QED
  BY <1>1, <1>2, <1>3 DEF OnAdvertisement, TypeOK

LEMMA PollType == TypeOK /\ Poll => TypeOK'
<1> SUFFICES ASSUME TypeOK, Poll PROVE TypeOK'
  OBVIOUS
<1>1. IdleTimeout \in Nat /\ MaxSuppression \in Nat /\ 0 \in 0..IdleTimeout
      /\ 0 \in 0..(MaxSuppression + 1) /\ 0 \in 0..MaxMissed /\ ReleaseDelay \in Nat
  BY ConfigNat, RadioAssumption
<1>2. CASE PollLiveSession
  <2>1. LatestActivity \in Times /\ quiet' \in 0..IdleTimeout
    BY <1>1, <1>2 DEF PollLiveSession, LatestActivity, TypeOK
  <2>2. CASE ClearLatches /\ lastActivity' = now /\ UNCHANGED <<suppressedSince, lastAdvertisement, hasAdvertisement, callerVars, radioVars, suppressedFor, wokeUp>>
    <3>1. LatchesOK'
      BY <2>2, ClearLatchesType
    <3>2. QED
      BY <2>1, <2>2, <3>1 DEF Poll, TypeOK, LatchesOK, callerVars, radioVars
  <2>3. CASE /\ lastActivity' = LatestActivity
             /\ BeginSuppression /\ sessionReady' = FALSE /\ regime' = "fast"
             /\ untilAd' = ReleaseDelay /\ missed' = 0 /\ suppressedFor' = 0 /\ wokeUp' = FALSE
             /\ ended' = "none" /\ UNCHANGED held
    BY <1>1, <2>1, <2>3, EmptyWindow DEF Poll, BeginSuppression, TypeOK, Regimes, Reasons
  <2>4. CASE /\ lastActivity' = LatestActivity
             /\ UNCHANGED <<latchVars, suppressedSince, lastAdvertisement, hasAdvertisement,
                            callerVars, radioVars, suppressedFor, wokeUp>>
    BY <2>1, <2>4 DEF Poll, TypeOK, latchVars, callerVars, radioVars
  <2>5. QED
    BY <1>2, <2>2, <2>3, <2>4 DEF PollLiveSession
<1>3. CASE PollNoSession
  <2>1. LatchesOK' /\ ended' \in Reasons
    <3>1. CASE UNCHANGED <<latchVars, ended>>
      BY <3>1 DEF TypeOK, LatchesOK, latchVars
    <3>2. CASE ClearLatches /\ ended' = "cap"
      BY <3>2, ClearLatchesType DEF Reasons
    <3>3. CASE /\ slowed' \in BOOLEAN /\ sleepConfirmed' \in BOOLEAN
               /\ rateTimes' \in {<<>>, rateTimes} /\ UNCHANGED <<suppressed, ended>>
      BY <3>3, EmptyWindow DEF TypeOK, LatchesOK
    <3>4. QED
      BY <1>3, <3>1, <3>2, <3>3 DEF PollNoSession, TypeOK
  <2>2. QED
    BY <1>3, <2>1 DEF Poll, PollNoSession, TypeOK, LatchesOK, stampVars, radioVars, historyVars
<1>4. QED
  BY <1>2, <1>3 DEF Poll

LEMMA NextType == TypeOK /\ [Next]_vars => TypeOK'
<1> SUFFICES ASSUME TypeOK, [Next]_vars PROVE TypeOK'
  OBVIOUS
<1>1. IdleTimeout \in Nat /\ MaxSuppression \in Nat /\ 0 \in 0..IdleTimeout /\ ClockPeriod \in Nat
      /\ 0 \in 0..MaxMissed /\ ReleaseDelay \in Nat /\ MaxMissed \in Nat
      /\ \A r \in Regimes : Interval(r) \in Nat
  BY ConfigNat, RadioAssumption DEF Interval
<1>2. CASE Poll
  BY <1>2, PollType
<1>3. CASE SessionReady
  <2>1. LatchesOK'
    BY <1>3, ClearLatchesType DEF SessionReady, OnSessionReady
  <2>2. QED
    BY <1>1, <1>3, <2>1 DEF SessionReady, OnSessionReady, TypeOK, LatchesOK, Regimes
<1>4. CASE Transition
  BY <1>1, <1>4 DEF Transition, TypeOK, latchVars, radioVars
<1>5. CASE SessionLost
  BY <1>1, <1>5 DEF SessionLost, TypeOK, latchVars, stampVars, historyVars, Regimes
<1>6. CASE RequestReconnect
  <2>1. LatchesOK'
    BY <1>6, ClearLatchesType DEF RequestReconnect
  <2>2. QED
    BY <1>6, <2>1 DEF RequestReconnect, TypeOK, LatchesOK, radioVars, historyVars, Reasons
<1>7. CASE Reset
  <2>1. LatchesOK'
    BY <1>7, ClearLatchesType DEF Reset, OnSessionReady
  <2>2. regime' \in Regimes /\ untilAd' \in Nat
    BY <1>1, <1>7 DEF Reset, TypeOK, Regimes
  <2>3. QED
    BY <1>7, <2>1, <2>2 DEF Reset, OnSessionReady, TypeOK, LatchesOK, historyVars, Reasons
<1>8. CASE Sighting
  <2>1. /\ LatchesOK' /\ lastAdvertisement' \in Times /\ hasAdvertisement' \in BOOLEAN
        /\ ended' \in Reasons /\ UNCHANGED <<lastActivity, suppressedSince>>
    BY <1>8, SightingType DEF Sighting
  <2>2. QED
    BY <1>1, <1>8, <2>1 DEF Sighting, TypeOK, LatchesOK, historyVars
<1>9. CASE DuplicateSighting
  <2>1. /\ LatchesOK' /\ lastAdvertisement' \in Times /\ hasAdvertisement' \in BOOLEAN
        /\ ended' \in Reasons /\ UNCHANGED <<lastActivity, suppressedSince>>
    BY <1>9, SightingType DEF DuplicateSighting
  <2>2. QED
    BY <1>9, <2>1 DEF DuplicateSighting, TypeOK, LatchesOK, radioVars, historyVars
<1>10. CASE MissedAdvertisement
  BY <1>1, <1>10 DEF MissedAdvertisement, TypeOK, latchVars, stampVars, callerVars, historyVars
<1>11. ASSUME NEW from, NEW to \in Regimes, ControllerChanges(from, to)
       PROVE  TypeOK'
  BY <1>1, <1>11 DEF ControllerChanges, TypeOK, latchVars, stampVars, callerVars
<1>12. CASE ControllerSlows \/ ControllerStops \/ ControllerWakes
  BY <1>11, <1>12 DEF ControllerSlows, ControllerStops, ControllerWakes, Regimes
<1>13. CASE Tick
  <2>1. now' \in Times
    BY <1>1, <1>13 DEF Tick, TypeOK, Times
  <2>2. untilAd' \in Nat
    BY <1>13 DEF Tick, TypeOK, Emits
  <2>3. quiet' \in 0..IdleTimeout /\ suppressedFor' \in 0..(MaxSuppression + 1)
    BY <1>1, <1>13 DEF Tick, TypeOK, AtMost
  <2>4. QED
    BY <1>13, <2>1, <2>2, <2>3 DEF Tick, TypeOK, latchVars, stampVars, callerVars
<1>14. CASE UNCHANGED vars
  BY <1>14 DEF vars, latchVars, stampVars, callerVars, radioVars, historyVars, TypeOK
<1>15. QED
  BY <1>2, <1>3, <1>4, <1>5, <1>6, <1>7, <1>8, <1>9, <1>10, <1>12, <1>13, <1>14 DEF Next

LEMMA InitInv == Init => IInv
<1> SUFFICES ASSUME Init PROVE IInv
  OBVIOUS
<1>1. 0 \in 0..MaxMissed /\ 0 \in 0..IdleTimeout /\ 0 \in 0..(MaxSuppression + 1)
  BY ConfigNat, RadioAssumption
<1>2. rateTimes \in Seq(Times) /\ Len(rateTimes) <= RateCapacity
  BY EmptyWindow DEF Init
<1>3. TypeOK
  BY <1>1, <1>2, ConfigNat DEF Init, TypeOK, Regimes, Reasons
<1>4. QED
  BY <1>3 DEF Init, IInv, NoStaleEvidence, SessionClock, SuppressionClock

\* Every variable of the policy keeps its type; the rate window never grows
\* past its capacity.
THEOREM TypeCorrect == Spec => []TypeOK
<1>1. Init => TypeOK
  BY InitInv DEF IInv
<1>2. QED
  BY <1>1, NextType, PTL DEF Spec

-----------------------------------------------------------------------------
(* The inductive invariant.                                                *)

LEMMA ClearLatchesForget == ClearLatches => NoStaleEvidence' /\ ~suppressed'
BY DEF ClearLatches, NoStaleEvidence

\* A sighting may end a suppression, never begin one.
LEMMA SightingInv ==
  ASSUME IInv, OnAdvertisement
  PROVE  NoStaleEvidence' /\ (suppressed' => suppressed)
         /\ UNCHANGED <<lastActivity, suppressedSince>>
BY ClearLatchesForget DEF OnAdvertisement, IInv, NoStaleEvidence

LEMMA PollLiveInv == IInv /\ Poll /\ PollLiveSession =>
                       NoStaleEvidence' /\ SessionClock' /\ SuppressionClock'
<1> SUFFICES ASSUME IInv, Poll, PollLiveSession
             PROVE  NoStaleEvidence' /\ SessionClock' /\ SuppressionClock'
  OBVIOUS
<1>1. ~suppressed /\ sessionReady /\ now' = now /\ loopDue' = FALSE /\ now \in Times
  BY DEF IInv, SessionClock, PollLiveSession, Poll, TypeOK
<1>2. Difference(now, now) = 0
  BY <1>1, FreshStamp
<1>3. CASE QuietTooLong(LatestActivity)
  <2>1. /\ suppressed' /\ ~sessionReady'
        /\ suppressedSince' = now /\ suppressedFor' = 0
    BY <1>1, <1>3 DEF PollLiveSession, BeginSuppression
  <2>2. Difference(now', suppressedSince') = 0
    BY <1>1, <1>2, <2>1
  <2>3. SuppressionClock'
    BY <2>1, <2>2, ConfigNat DEF SuppressionClock
  <2>4. QED
    BY <2>1, <2>3 DEF NoStaleEvidence, SessionClock
<1>4. CASE ~QuietTooLong(LatestActivity)
  <2>1. /\ UNCHANGED <<suppressed, sleepConfirmed, slowed, rateTimes, sessionReady>>
        /\ lastActivity' = LatestActivity
        /\ quiet' = IF held THEN 0 ELSE quiet
    BY <1>1, <1>4 DEF PollLiveSession, latchVars, callerVars
  <2>2. ASSUME IdleTimeout # 0
        PROVE  Difference(now', lastActivity') = quiet' /\ quiet' # IdleTimeout
    <3>1. ~(Difference(now, LatestActivity) >= IdleTimeout)
      BY <1>4, <2>2 DEF QuietTooLong, TimeoutElapsed
    <3>2. CASE held
      BY <1>1, <1>2, <2>1, <2>2, <3>2 DEF LatestActivity
    <3>3. CASE ~held
      <4>1. Difference(now, lastActivity) = quiet /\ quiet \in Nat
        BY <1>1, <2>2, ConfigNat DEF IInv, SessionClock, TypeOK
      <4>2. QED
        BY <1>1, <2>1, <3>1, <3>3, <4>1, ConfigNat DEF LatestActivity
    <3>4. QED
      BY <3>2, <3>3
  <2>3. QED
    BY <1>1, <2>1, <2>2 DEF IInv, NoStaleEvidence, SessionClock, SuppressionClock
<1>5. QED
  BY <1>3, <1>4

LEMMA PollNoInv == IInv /\ Poll /\ PollNoSession =>
                     NoStaleEvidence' /\ SessionClock' /\ SuppressionClock'
<1> SUFFICES ASSUME IInv, Poll, PollNoSession
             PROVE  NoStaleEvidence' /\ SessionClock' /\ SuppressionClock'
  OBVIOUS
<1>1. ~sessionReady' /\ now' = now /\ UNCHANGED <<suppressedSince, suppressedFor>>
  BY DEF PollNoSession, Poll, stampVars, historyVars
<1>2. SessionClock'
  BY <1>1 DEF SessionClock
<1>3. CASE ~suppressed /\ UNCHANGED latchVars
  BY <1>2, <1>3 DEF IInv, NoStaleEvidence, SuppressionClock, latchVars
<1>4. CASE ClearLatches
  BY <1>2, <1>4, ClearLatchesForget DEF SuppressionClock
<1>5. CASE suppressed /\ ~CapReached /\ UNCHANGED suppressed
  <2>1. NoStaleEvidence'
    BY <1>5 DEF NoStaleEvidence
  <2>2. ASSUME MaxSuppression # 0
        PROVE  suppressedFor # MaxSuppression
    <3>1. Difference(now, suppressedSince) = suppressedFor /\ suppressedFor \in Nat
      BY <1>5, <2>2, ConfigNat DEF IInv, SuppressionClock, TypeOK
    <3>2. QED
      BY <1>5, <2>2, <3>1, ConfigNat DEF CapReached, TimeoutElapsed
  <2>3. QED
    BY <1>1, <1>2, <1>5, <2>1, <2>2 DEF IInv, SuppressionClock
<1>6. QED
  BY <1>3, <1>4, <1>5 DEF PollNoSession

\* Time passes only when the last poll is done with, so a deadline that was
\* reached has been acted on.
LEMMA TickInv == IInv /\ Tick => NoStaleEvidence' /\ SessionClock' /\ SuppressionClock'
<1> SUFFICES ASSUME IInv, Tick PROVE NoStaleEvidence' /\ SessionClock' /\ SuppressionClock'
  OBVIOUS
<1>1. /\ UNCHANGED <<suppressed, sleepConfirmed, slowed, rateTimes, lastActivity,
                     suppressedSince, sessionReady>>
      /\ now' = IF now + 1 = ClockPeriod THEN 0 ELSE now + 1
      /\ loopDue' = TRUE /\ loopDue = FALSE
  BY DEF Tick, latchVars, stampVars, callerVars, IInv, TypeOK
<1>2. now \in Times /\ lastActivity \in Times /\ suppressedSince \in Times /\ now' \in Times
  <2>1. now \in Times /\ lastActivity \in Times /\ suppressedSince \in Times
    BY DEF IInv, TypeOK
  <2>2. QED
    BY <1>1, <2>1, ConfigNat DEF Times
<1>3. ASSUME sessionReady, IdleTimeout # 0
      PROVE  Difference(now', lastActivity) = quiet'
  <2>1. /\ Difference(now, lastActivity) = quiet
        /\ quiet \in Nat /\ quiet <= IdleTimeout /\ quiet # IdleTimeout
    BY <1>1, <1>3, ConfigNat DEF IInv, SessionClock, TypeOK
  <2>2. Difference(now', lastActivity) = quiet + 1
    BY <1>1, <1>2, <2>1, ConfigNat, TickAges
  <2>3. quiet' = quiet + 1
    <3>1. quiet' = IF quiet + 1 < IdleTimeout THEN quiet + 1 ELSE IdleTimeout
      BY <1>3 DEF Tick, AtMost
    <3>2. IdleTimeout \in Nat
      BY ConfigNat
    <3>3. CASE quiet + 1 < IdleTimeout
      BY <3>1, <3>3
    <3>4. CASE ~(quiet + 1 < IdleTimeout)
      BY <2>1, <3>1, <3>2, <3>4
    <3>5. QED
      BY <3>3, <3>4
  <2>4. QED
    BY <2>2, <2>3
<1>4. ASSUME suppressed, MaxSuppression # 0
      PROVE  Difference(now', suppressedSince) = suppressedFor' /\ suppressedFor' <= MaxSuppression
  <2>1. /\ Difference(now, suppressedSince) = suppressedFor
        /\ suppressedFor \in Nat /\ suppressedFor <= MaxSuppression
        /\ suppressedFor # MaxSuppression
    BY <1>1, <1>4, ConfigNat DEF IInv, SuppressionClock, TypeOK
  <2>2. Difference(now', suppressedSince) = suppressedFor + 1
    BY <1>1, <1>2, <2>1, ConfigNat, TickAges
  <2>3. suppressedFor' = suppressedFor + 1
    <3>1. suppressedFor' = IF suppressedFor + 1 < MaxSuppression + 1 THEN suppressedFor + 1
                           ELSE MaxSuppression + 1
      BY <1>4 DEF Tick, AtMost
    <3>2. QED
      BY <2>1, <3>1, ConfigNat
  <2>4. QED
    BY <2>1, <2>2, <2>3, ConfigNat
<1>5. QED
  BY <1>1, <1>3, <1>4 DEF IInv, NoStaleEvidence, SessionClock, SuppressionClock

LEMMA NextInv == IInv /\ [Next]_vars => IInv'
<1> SUFFICES ASSUME IInv, [Next]_vars PROVE NoStaleEvidence' /\ SessionClock' /\ SuppressionClock'
  BY NextType DEF IInv
<1>1. CASE Poll
  BY <1>1, PollLiveInv, PollNoInv DEF Poll
<1>2. CASE SessionReady
  <2>1. NoStaleEvidence' /\ ~suppressed'
    BY <1>2, ClearLatchesForget DEF SessionReady, OnSessionReady
  <2>2. Difference(now', lastActivity') = 0 /\ quiet' = 0
    BY <1>2, FreshStamp DEF SessionReady, OnSessionReady, IInv, TypeOK
  <2>3. QED
    BY <2>1, <2>2 DEF SessionClock, SuppressionClock
<1>3. CASE Transition
  <2>1. Difference(now', lastActivity') = 0 /\ quiet' = 0
    BY <1>3, FreshStamp DEF Transition, IInv, TypeOK
  <2>2. QED
    BY <1>3, <2>1 DEF Transition, latchVars, IInv, NoStaleEvidence, SessionClock, SuppressionClock
<1>4. CASE SessionLost
  BY <1>4 DEF SessionLost, latchVars, stampVars, historyVars, IInv, NoStaleEvidence,
              SessionClock, SuppressionClock
<1>5. CASE RequestReconnect
  BY <1>5, ClearLatchesForget DEF RequestReconnect, IInv, SessionClock, SuppressionClock
<1>6. CASE Reset
  BY <1>6, ClearLatchesForget DEF Reset, OnSessionReady, SessionClock, SuppressionClock
<1>7. CASE Sighting \/ DuplicateSighting
  <2>1. NoStaleEvidence' /\ (suppressed' => suppressed)
        /\ UNCHANGED <<lastActivity, suppressedSince>>
    BY <1>7, SightingInv DEF Sighting, DuplicateSighting
  <2>2. UNCHANGED <<sessionReady, now, loopDue, quiet, suppressedFor>>
    BY <1>7 DEF Sighting, DuplicateSighting, historyVars
  <2>3. QED
    BY <2>1, <2>2 DEF IInv, SessionClock, SuppressionClock
<1>8. CASE UNCHANGED <<latchVars, stampVars, sessionReady, now, loopDue, quiet, suppressedFor>>
  BY <1>8 DEF latchVars, stampVars, IInv, NoStaleEvidence, SessionClock, SuppressionClock
<1>9. CASE MissedAdvertisement \/ ControllerSlows \/ ControllerStops \/ ControllerWakes
  BY <1>8, <1>9 DEF MissedAdvertisement, ControllerSlows, ControllerStops, ControllerWakes,
                    ControllerChanges, callerVars, historyVars
<1>10. CASE Tick
  BY <1>10, TickInv
<1>11. CASE UNCHANGED vars
  BY <1>8, <1>11 DEF vars, callerVars, historyVars
<1>12. QED
  BY <1>1, <1>2, <1>3, <1>4, <1>5, <1>6, <1>7, <1>9, <1>10, <1>11 DEF Next

LEMMA Inductive == Spec => []IInv
<1>1. QED
  BY InitInv, NextInv, PTL DEF Spec

-----------------------------------------------------------------------------
(* The theorems.                                                           *)

\* Whichever of the five ways out suppression ends by (a wake, the cap, a
\* request, a reset, a session), no latch and no sample is left behind.
THEOREM NoStale == Spec => []NoStaleEvidence
<1>1. IInv => NoStaleEvidence
  BY DEF IInv
<1>2. QED
  BY <1>1, Inductive, PTL

\* The cap holds whatever the clock reads when suppression begins, and though
\* the clock wraps during it.
THEOREM Capped == Spec => []SuppressionIsCapped
<1>1. IInv => SuppressionIsCapped
  BY DEF IInv, SuppressionClock, SuppressionIsCapped
<1>2. QED
  BY <1>1, Inductive, PTL

LEMMA QuietStep ==
  IInv /\ [Next]_vars => [sessionReady /\ suppressed' => ~held /\ quiet = IdleTimeout]_vars
<1> SUFFICES ASSUME IInv, Next, sessionReady, suppressed'
             PROVE  ~held /\ quiet = IdleTimeout
  OBVIOUS
<1>1. ~suppressed
  BY DEF IInv, SessionClock
<1>2. Poll
  BY <1>1 DEF Next, SessionReady, OnSessionReady, ClearLatches, Transition, SessionLost,
     RequestReconnect, Reset, Sighting, DuplicateSighting, OnAdvertisement,
     MissedAdvertisement, ControllerSlows, ControllerStops, ControllerWakes,
     ControllerChanges, Tick, latchVars
<1>3. QuietTooLong(LatestActivity)
  BY <1>1, <1>2 DEF Poll, PollLiveSession, PollNoSession, latchVars
<1>4. IdleTimeout # 0 /\ Difference(now, LatestActivity) >= IdleTimeout
  BY <1>3 DEF QuietTooLong, TimeoutElapsed
<1>5. ~held
  BY <1>4, FreshStamp, ConfigNat DEF LatestActivity, IInv, TypeOK
<1>6. Difference(now, lastActivity) = quiet /\ quiet \in Nat /\ quiet <= IdleTimeout
  BY <1>4, ConfigNat DEF IInv, SessionClock, TypeOK
<1>7. QED
  BY <1>4, <1>5, <1>6, ConfigNat DEF LatestActivity

\* No session is dropped before a whole idle window has passed without input,
\* whatever the timeout and wherever in its period the clock is.
THEOREM QuietOnly == Spec => DisconnectOnlyWhenQuiet
<1>1. QED
  BY Inductive, QuietStep, PTL DEF Spec, DisconnectOnlyWhenQuiet

=============================================================================
