----------------------------- MODULE IdlePolicy ------------------------------
(***************************************************************************)
(* When to let the controllers go and when to take them back: class        *)
(* RideIdlePolicy of src/components/zwift_ride_hid/idle_policy.{h,cpp}.    *)
(* A session that stays quiet is disconnected and the bridge refuses to    *)
(* reconnect ("suppressed") until the controller has left its fast         *)
(* advertising rate and come back to it, a cap is reached, or somebody     *)
(* asks.                                                                   *)
(*                                                                         *)
(* The policy keeps timestamps of the 32-bit millis() clock, here a clock  *)
(* of period ClockPeriod, and a window of sighting times.  Its caller is   *)
(* the bridge (update_idle_policy_, note_ride_advertisement_); the         *)
(* controller and the radio are external: a controller advertises fast     *)
(* after it is released, then slowly, then not at all, and returns to the  *)
(* fast rate when it is used (the measurements quoted in idle_policy.h);   *)
(* the scanner may miss sightings or see one twice.                        *)
(***************************************************************************)
EXTENDS Naturals, Sequences

CONSTANTS
  \* RideIdleConfig, in ticks
  IdleTimeout, SleepConfirm, MaxSuppression, SlowRate, WakeRate,
  RateSampleCount, BurstMinSpacing,
  ClockPeriod,
  \* the controller and the radio
  FastInterval,   \* ticks between two fast advertisements
  SlowInterval,   \* ticks between two slow ones
  ReleaseDelay,   \* ticks from the disconnect to the first advertisement
  MaxMissed       \* bound: advertisements missed in a row

MaxRateSampleCount == 12

\* The configuration schema (__init__.py) and the rollover comment of
\* timeout_elapsed.
ASSUME ConfigAssumption ==
  /\ {IdleTimeout, SleepConfirm, MaxSuppression, SlowRate, WakeRate,
      RateSampleCount, BurstMinSpacing, ClockPeriod} \subseteq Nat
  /\ WakeRate < SlowRate
  /\ MaxSuppression = 0 \/ SleepConfirm < MaxSuppression
  /\ \A t \in {IdleTimeout, SleepConfirm, MaxSuppression, SlowRate} : t < ClockPeriod
ASSUME RadioAssumption ==
  /\ {FastInterval, SlowInterval} \subseteq Nat \ {0}
  /\ {ReleaseDelay, MaxMissed} \subseteq Nat

VARIABLES
  \* RideIdlePolicy's members
  suppressed,          \* suppressed_
  sleepConfirmed,      \* sleep_confirmed_
  slowed,              \* slowed_
  rateTimes,           \* rate_times_, the first rate_length_ of them
  lastActivity,        \* last_activity_ms_
  suppressedSince,     \* suppressed_since_ms_
  lastAdvertisement,   \* last_advertisement_ms_
  hasAdvertisement,    \* has_advertisement_
  \* the caller
  sessionReady,        \* ride_ready_
  held,                \* a control is held: active_actions() is not zero
  ended,               \* why the last suppression ended, if it has
  \* the controller and the radio (external)
  regime,              \* how the controller advertises
  untilAd,             \* ticks to its next advertisement
  missed,              \* advertisements missed in a row
  \* time, and what really happened, for the properties
  now, loopDue,
  quiet,               \* ticks since input or the session's start, up to IdleTimeout
  suppressedFor,       \* ticks of the last suppression, up to MaxSuppression + 1
  wokeUp               \* the controller came back to its fast rate since it began

latchVars == <<suppressed, sleepConfirmed, slowed, rateTimes>>
stampVars == <<lastActivity, suppressedSince, lastAdvertisement, hasAdvertisement>>
callerVars == <<sessionReady, held, ended>>
radioVars == <<regime, untilAd, missed>>
historyVars == <<quiet, suppressedFor, wokeUp>>
vars == <<latchVars, stampVars, callerVars, radioVars, now, loopDue, historyVars>>

Regimes == {"linked", "fast", "slow", "silent"}
Reasons == {"none", "woke", "cap", "request", "reset"}
Times == 0..(ClockPeriod - 1)

\* rate_capacity_
RateCapacity ==
  IF RateSampleCount < 3 THEN 3
  ELSE IF RateSampleCount > MaxRateSampleCount THEN MaxRateSampleCount
  ELSE RateSampleCount

TypeOK ==
  /\ suppressed \in BOOLEAN
  /\ sleepConfirmed \in BOOLEAN
  /\ slowed \in BOOLEAN
  /\ rateTimes \in Seq(Times)
  /\ Len(rateTimes) <= RateCapacity
  /\ lastActivity \in Times
  /\ suppressedSince \in Times
  /\ lastAdvertisement \in Times
  /\ hasAdvertisement \in BOOLEAN
  /\ sessionReady \in BOOLEAN
  /\ held \in BOOLEAN
  /\ ended \in Reasons
  /\ regime \in Regimes
  /\ untilAd \in Nat
  /\ missed \in 0..MaxMissed
  /\ now \in Times
  /\ loopDue \in BOOLEAN
  /\ quiet \in 0..IdleTimeout
  /\ suppressedFor \in 0..(MaxSuppression + 1)
  /\ wokeUp \in BOOLEAN

Init ==
  /\ suppressed = FALSE
  /\ sleepConfirmed = FALSE
  /\ slowed = FALSE
  /\ rateTimes = <<>>
  /\ lastActivity = 0
  /\ suppressedSince = 0
  /\ lastAdvertisement = 0
  /\ hasAdvertisement = FALSE
  /\ sessionReady = FALSE
  /\ held = FALSE
  /\ ended = "none"
  /\ regime = "fast"
  /\ untilAd = 0
  /\ missed = 0
  /\ now = 0
  /\ loopDue = FALSE
  /\ quiet = 0
  /\ suppressedFor = 0
  /\ wokeUp = FALSE

-----------------------------------------------------------------------------
(* Time.                                                                   *)

\* now - since in unsigned arithmetic, and between two stamps.
Difference(later, earlier) ==
  IF later >= earlier THEN later - earlier ELSE later + ClockPeriod - earlier

TimeoutElapsed(since, timeout) == Difference(now, since) >= timeout

-----------------------------------------------------------------------------
(* The rate estimate.                                                      *)

\* Mutant: a full window keeps growing.
RecordRateSampleUnbounded ==
  LET n == Len(rateTimes)
  IN IF n # 0 /\ Difference(now, rateTimes[n]) < BurstMinSpacing
     THEN [rateTimes EXCEPT ![n] = now]
     ELSE Append(rateTimes, now)

\* Mutant: every sighting counts, duplicates of one advertisement included.
RecordRateSampleUncollapsed ==
  IF Len(rateTimes) < RateCapacity THEN Append(rateTimes, now)
  ELSE Append(Tail(rateTimes), now)

\* record_rate_sample_: a sighting too close to the last one is the same
\* advertisement seen on another channel and replaces it.
RecordRateSample ==
  LET n == Len(rateTimes)
  IN IF n # 0 /\ Difference(now, rateTimes[n]) < BurstMinSpacing
     THEN [rateTimes EXCEPT ![n] = now]
     ELSE IF n < RateCapacity THEN Append(rateTimes, now)
     ELSE Append(Tail(rateTimes), now)

\* Mutant: the span of the window instead of the mean gap.
AdvertisingRateSpan(times) ==
  IF Len(times) < RateCapacity THEN 0
  ELSE Difference(times[RateCapacity], times[1])

\* advertising_rate_ms, 0 before the window is full.
AdvertisingRate(times) ==
  IF Len(times) < RateCapacity THEN 0
  ELSE Difference(times[RateCapacity], times[1]) \div (RateCapacity - 1)

-----------------------------------------------------------------------------
(* The policy's entry points.                                              *)

\* Mutant: the window survives the suppression it was measured in.
ClearLatchesKeepingRate ==
  /\ suppressed' = FALSE
  /\ sleepConfirmed' = FALSE
  /\ slowed' = FALSE
  /\ UNCHANGED rateTimes

ClearLatches ==
  /\ suppressed' = FALSE
  /\ sleepConfirmed' = FALSE
  /\ slowed' = FALSE
  /\ rateTimes' = <<>>

\* on_session_ready, and reset.
OnSessionReady ==
  /\ ClearLatches
  /\ lastActivity' = now
  /\ UNCHANGED <<suppressedSince, lastAdvertisement, hasAdvertisement>>

\* on_advertisement: hysteresis on the measured rate.
OnAdvertisement ==
  LET times == RecordRateSample
      rate == AdvertisingRate(times)
  IN /\ lastAdvertisement' = now
     /\ hasAdvertisement' = TRUE
     /\ UNCHANGED <<lastActivity, suppressedSince>>
     /\ \/ /\ ~suppressed
           /\ rateTimes' = <<>>
           /\ UNCHANGED <<suppressed, sleepConfirmed, slowed, ended>>
        \/ /\ suppressed
           /\ rate # 0 /\ slowed /\ rate <= WakeRate
           /\ ClearLatches
           /\ ended' = "woke"
        \/ /\ suppressed
           /\ ~(rate # 0 /\ slowed /\ rate <= WakeRate)
           /\ rateTimes' = times
           /\ slowed' = (slowed \/ (rate # 0 /\ rate >= SlowRate))
           /\ UNCHANGED <<suppressed, sleepConfirmed, ended>>

\* begin_suppression_
BeginSuppression ==
  /\ suppressed' = TRUE
  /\ sleepConfirmed' = FALSE
  /\ slowed' = FALSE
  /\ rateTimes' = <<>>
  /\ suppressedSince' = now
  /\ lastAdvertisement' = now
  /\ hasAdvertisement' = TRUE

\* advertising(): the controller counts as awake and broadcasting.
Advertising ==
  hasAdvertisement /\ ~TimeoutElapsed(lastAdvertisement, SleepConfirm)

\* Mutant: a held control is not use.
LatestActivityIgnoringHeld == lastActivity

\* A held control is use, though it makes no transition.
LatestActivity == IF held THEN now ELSE lastActivity

QuietTooLong(since) == IdleTimeout # 0 /\ TimeoutElapsed(since, IdleTimeout)

\* poll, and what update_idle_policy_ does around it.  The controller released
\* here starts to advertise soon.
PollLiveSession ==
  LET since == LatestActivity
  IN /\ sessionReady
     /\ quiet' = IF held THEN 0 ELSE quiet
     /\ IF suppressed
        THEN /\ ClearLatches
             /\ lastActivity' = now
             /\ UNCHANGED <<suppressedSince, lastAdvertisement, hasAdvertisement,
                            callerVars, radioVars, suppressedFor, wokeUp>>
        ELSE /\ lastActivity' = since
             /\ \/ /\ QuietTooLong(since)
                   /\ BeginSuppression
                   /\ sessionReady' = FALSE
                   /\ regime' = "fast"
                   /\ untilAd' = ReleaseDelay
                   /\ missed' = 0
                   /\ suppressedFor' = 0
                   /\ wokeUp' = FALSE
                   /\ ended' = "none"
                   /\ UNCHANGED held
                \/ /\ ~QuietTooLong(since)
                   /\ UNCHANGED <<latchVars, suppressedSince, lastAdvertisement,
                                  hasAdvertisement, callerVars, radioVars,
                                  suppressedFor, wokeUp>>

\* Mutant: the cap compares absolute times.
CapReachedAbsolute == MaxSuppression # 0 /\ now >= suppressedSince + MaxSuppression

CapReached == MaxSuppression # 0 /\ TimeoutElapsed(suppressedSince, MaxSuppression)

PollNoSession ==
  /\ ~sessionReady
  /\ UNCHANGED <<stampVars, sessionReady, held, radioVars, historyVars>>
  /\ \/ /\ ~suppressed
        /\ UNCHANGED <<latchVars, ended>>
     \/ /\ suppressed
        /\ CapReached
        /\ ClearLatches
        /\ ended' = "cap"
     \/ /\ suppressed
        /\ ~CapReached
        /\ LET silent == ~slowed /\ TimeoutElapsed(lastAdvertisement, SlowRate)
           IN /\ slowed' = (slowed \/ silent)
              /\ rateTimes' = IF silent THEN <<>> ELSE rateTimes
        /\ sleepConfirmed' = (sleepConfirmed \/ TimeoutElapsed(lastAdvertisement, SleepConfirm))
        /\ UNCHANGED <<suppressed, ended>>

Poll ==
  /\ PollLiveSession \/ PollNoSession
  /\ loopDue' = FALSE
  /\ UNCHANGED now

-----------------------------------------------------------------------------
(* The rest of the caller.                                                 *)

\* The handshake completes; only a client that may connect gets that far.
SessionReady ==
  /\ ~sessionReady
  /\ ~suppressed
  /\ OnSessionReady
  /\ sessionReady' = TRUE
  /\ held' = FALSE
  /\ regime' = "linked"
  /\ quiet' = 0
  /\ UNCHANGED <<ended, untilAd, missed, now, loopDue, suppressedFor, wokeUp>>

\* A press or a release (on_activity).
Transition ==
  /\ sessionReady
  /\ held' = ~held
  /\ lastActivity' = now
  /\ quiet' = 0
  /\ UNCHANGED <<latchVars, suppressedSince, lastAdvertisement, hasAdvertisement,
                 sessionReady, ended, radioVars, now, loopDue, suppressedFor, wokeUp>>

\* The link is lost; inputs are released and the controller advertises again.
SessionLost ==
  /\ sessionReady
  /\ sessionReady' = FALSE
  /\ held' = FALSE
  /\ regime' = "fast"
  /\ untilAd' = ReleaseDelay
  /\ UNCHANGED <<latchVars, stampVars, ended, missed, now, loopDue, historyVars>>

\* request_reconnect
RequestReconnect ==
  /\ suppressed
  /\ ClearLatches
  /\ lastActivity' = now
  /\ ended' = "request"
  /\ UNCHANGED <<suppressedSince, lastAdvertisement, hasAdvertisement, sessionReady,
                 held, radioVars, now, loopDue, historyVars>>

\* reset: an update, a shutdown or a restart of the BLE stack takes the link.
Reset ==
  /\ OnSessionReady
  /\ sessionReady' = FALSE
  /\ held' = FALSE
  /\ ended' = "reset"
  /\ IF sessionReady
     THEN regime' = "fast" /\ untilAd' = ReleaseDelay
     ELSE UNCHANGED <<regime, untilAd>>
  /\ UNCHANGED <<missed, now, loopDue, historyVars>>

-----------------------------------------------------------------------------
(* The controller and the radio.                                           *)

Interval(r) == IF r = "slow" THEN SlowInterval ELSE FastInterval

Emits == regime \in {"fast", "slow"} /\ untilAd = 0

\* The scanner sees an advertisement ...
Sighting ==
  /\ Emits
  /\ untilAd' = Interval(regime)
  /\ missed' = 0
  /\ OnAdvertisement
  /\ UNCHANGED <<sessionReady, held, regime, now, loopDue, historyVars>>

\* ... or sees the one just seen once more, on another channel ...
DuplicateSighting ==
  /\ regime \in {"fast", "slow"}
  /\ untilAd = Interval(regime)
  /\ missed = 0
  /\ lastAdvertisement = now
  /\ OnAdvertisement
  /\ UNCHANGED <<sessionReady, held, radioVars, now, loopDue, historyVars>>

\* ... or misses it.
MissedAdvertisement ==
  /\ Emits
  /\ missed < MaxMissed
  /\ missed' = missed + 1
  /\ untilAd' = Interval(regime)
  /\ UNCHANGED <<latchVars, stampVars, callerVars, regime, now, loopDue, historyVars>>

ControllerChanges(from, to) ==
  /\ regime \in from
  /\ regime' = to
  /\ untilAd' = Interval(to)
  /\ missed' = 0
  /\ wokeUp' = (to = "fast" \/ wokeUp)
  /\ UNCHANGED <<latchVars, stampVars, callerVars, now, loopDue, quiet, suppressedFor>>

ControllerSlows == ControllerChanges({"fast"}, "slow")
ControllerStops == ControllerChanges({"slow"}, "silent")
ControllerWakes == ControllerChanges({"slow", "silent"}, "fast")

AtMost(n, bound) == IF n < bound THEN n ELSE bound

\* The bridge polls at least once in a tick, and an advertisement goes out
\* when it is due.
Tick ==
  /\ ~loopDue
  /\ ~Emits
  /\ now' = IF now + 1 = ClockPeriod THEN 0 ELSE now + 1
  /\ untilAd' = IF regime \in {"fast", "slow"} THEN untilAd - 1 ELSE untilAd
  /\ loopDue' = TRUE
  /\ quiet' = IF sessionReady THEN AtMost(quiet + 1, IdleTimeout) ELSE quiet
  /\ suppressedFor' = IF suppressed THEN AtMost(suppressedFor + 1, MaxSuppression + 1)
                      ELSE suppressedFor
  /\ UNCHANGED <<latchVars, stampVars, callerVars, regime, missed, wokeUp>>

Next ==
  \/ Poll
  \/ SessionReady \/ Transition \/ SessionLost \/ RequestReconnect \/ Reset
  \/ Sighting \/ DuplicateSighting \/ MissedAdvertisement
  \/ ControllerSlows \/ ControllerStops \/ ControllerWakes
  \/ Tick

Spec == Init /\ [][Next]_vars

Fairness == WF_vars(Poll) /\ WF_vars(Tick) /\ WF_vars(Sighting)

LiveSpec == Spec /\ Fairness

-----------------------------------------------------------------------------
(* Properties.                                                             *)

\* Nothing learned during one suppression outlives it: the next one starts
\* with no latch set and an empty window (five code paths leave suppression).
NoStaleEvidence ==
  ~suppressed => ~slowed /\ ~sleepConfirmed /\ rateTimes = <<>>

\* A session is given up only after a full window without input: not one that
\* is in use, not one with a control held, not one that has just begun, and
\* not because the clock wrapped.
DisconnectOnlyWhenQuiet ==
  [][sessionReady /\ suppressed' => ~held /\ quiet = IdleTimeout]_vars

\* With a cap configured, suppression lasts no longer than the cap.
SuppressionIsCapped ==
  suppressed /\ MaxSuppression # 0 => suppressedFor <= MaxSuppression

\* A controller that is merely winding down is left alone: sightings end
\* suppression neither during the fast advertising that follows a release nor
\* at the slow rate after it, only once the controller came back to its fast rate.
WindDownIsNotAWake == ended = "woke" => wokeUp

\* Once armed, the policy takes back a controller that advertises fast again.
WakeIsRecognised == ~<>[](suppressed /\ slowed /\ regime = "fast")

\* advertising() reading false means that the next advertisement reconnects.
SilenceArms == [][suppressed /\ ~Advertising /\ lastAdvertisement' # lastAdvertisement
                    => ~suppressed']_vars

=============================================================================
