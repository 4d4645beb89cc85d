---------------------------- MODULE MCIdlePolicy -----------------------------
(***************************************************************************)
(* IdlePolicy on small clocks.  RelativeState makes the state space small: *)
(* every comparison of the policy is a difference with the present, so two *)
(* states that differ by a shift of the clock behave alike, and so do two  *)
(* that differ in a stamp which is written before it is read again         *)
(* (last_activity_ms_ outside a session, suppressed_since_ms_ outside a    *)
(* suppression).                                                           *)
(***************************************************************************)
EXTENDS IdlePolicy

Age(stamp) == Difference(now, stamp)

RelativeState ==
  <<suppressed, sleepConfirmed, slowed,
    [i \in 1..Len(rateTimes) |-> Age(rateTimes[i])],
    callerVars, radioVars, loopDue, historyVars, hasAdvertisement,
    IF sessionReady THEN Age(lastActivity) ELSE 0,
    IF suppressed THEN <<Age(suppressedSince), Age(lastAdvertisement)>>
                  ELSE <<0, IF lastAdvertisement = now THEN 0 ELSE 1>>>>

=============================================================================
