--------------------------- MODULE IdleRateProofs ----------------------------
(***************************************************************************)
(* Proof that a controller that is winding down is not taken for one that  *)
(* woke up, for every configuration and every radio whose rates tell the   *)
(* two regimes apart.                                                      *)
(*                                                                         *)
(* The policy sees a mean over a window.  The argument is about the gaps:  *)
(* while the slow rate is not latched no gap exceeds SlowRate, so a mean   *)
(* of SlowRate needs every gap of the window to be that long; once it is   *)
(* latched every gap exceeds WakeRate, and so does their mean.  A gap is   *)
(* compared with the others through the ages of the two sightings, for all *)
(* pairs of sightings, so no sum over the window has to be formed.         *)
(***************************************************************************)
EXTENDS IdlePolicyProofs

Age(stamp) == Difference(now, stamp)

\* The longest gap between two sightings of a controller that is winding down.
Longest == SlowRate + (MaxMissed + 1) * SlowInterval

\* The rates tell the regimes apart: two sightings at the fast rate are less
\* than SlowRate apart though advertisements are missed, two slow ones are more
\* than WakeRate apart, duplicates are closer than any two advertisements; and
\* without a cap the clock does not wrap within a window.
RatesTell ==
  /\ BurstMinSpacing \in 1..FastInterval
  /\ FastInterval <= SlowInterval
  /\ WakeRate < SlowInterval
  /\ ReleaseDelay + MaxMissed * FastInterval < SlowRate
  /\ (MaxMissed + 1) * FastInterval < SlowRate
  /\ MaxSuppression # 0 \/ RateCapacity * Longest < ClockPeriod

\* The longest gap that the current regime can have left unlatched.
Most == IF regime = "fast" THEN SlowRate - 1 ELSE SlowRate

\* Sightings are further apart than WakeRate on the average ...
Apart(w) ==
  \A i, j \in 1..Len(w) : i < j => Age(w[j]) + (j - i) * (WakeRate + 1) <= Age(w[i])

\* ... or nowhere further apart than Most.
Spaced(w) ==
  \A i, j \in 1..Len(w) : i < j => /\ Age(w[j]) <= Age(w[i])
                                   /\ Age(w[i]) <= Age(w[j]) + (j - i) * Most

Winding == suppressed /\ ~wokeUp /\ regime # "silent"

\* Ticks until the next sighting at the latest.
Latest == untilAd + (MaxMissed - missed) * Interval(regime)

WindowEnds ==
  rateTimes # <<>> => rateTimes[Len(rateTimes)] = lastAdvertisement
NoneTooSoon ==
  rateTimes # <<>> \/ regime = "slow" => Interval(regime) <= Age(lastAdvertisement) + untilAd
FastIsSeen ==
  regime = "fast" => ~slowed /\ Age(lastAdvertisement) + Latest < SlowRate
SilenceLatches ==
  ~slowed => /\ Age(lastAdvertisement) <= SlowRate
             /\ Age(lastAdvertisement) = SlowRate => loopDue
GapsTell == IF slowed THEN Apart(rateTimes) ELSE Spaced(rateTimes)
\* No stamp in use is older than the clock's period.
Recent ==
  IF MaxSuppression # 0
  THEN /\ Age(lastAdvertisement) <= suppressedFor
       /\ \A i \in 1..Len(rateTimes) : Age(rateTimes[i]) <= suppressedFor
  ELSE /\ Age(lastAdvertisement) + Latest <= Longest
       /\ \A i \in 1..Len(rateTimes) :
            Age(rateTimes[i]) <= Age(lastAdvertisement) + (Len(rateTimes) - i) * Longest

WindDown ==
  /\ regime \in {"fast", "slow"}
  /\ WindowEnds
  /\ NoneTooSoon
  /\ FastIsSeen
  /\ SilenceLatches
  /\ GapsTell
  /\ Recent

WindInv ==
  /\ WindDownIsNotAWake
  /\ Winding => WindDown

-----------------------------------------------------------------------------
(* Arithmetic.                                                             *)

LEMMA RatesNat ==
  ASSUME RatesTell
  PROVE  /\ {SlowRate, WakeRate, BurstMinSpacing, FastInterval, SlowInterval, ReleaseDelay,
             MaxMissed, MaxSuppression, ClockPeriod, Longest, MaxMissed + 1} \subseteq Nat
         /\ MaxSuppression < ClockPeriod
         /\ FastInterval >= 1 /\ SlowInterval >= 1 /\ SlowRate >= 1
         /\ WakeRate < SlowRate
         /\ MaxMissed * FastInterval \in Nat
         /\ MaxMissed * SlowInterval \in Nat
         /\ MaxMissed * FastInterval <= MaxMissed * SlowInterval
         /\ MaxMissed * SlowInterval + SlowInterval + SlowRate = Longest
         /\ MaxMissed * FastInterval + FastInterval < SlowRate
<1>1. /\ {SlowRate, WakeRate, BurstMinSpacing, FastInterval, SlowInterval, ReleaseDelay,
          MaxMissed, MaxSuppression, ClockPeriod} \subseteq Nat
      /\ FastInterval >= 1 /\ SlowInterval >= 1 /\ WakeRate < SlowRate
      /\ FastInterval <= SlowInterval
      /\ MaxSuppression < ClockPeriod
  BY ConfigAssumption, RadioAssumption DEF RatesTell
<1>2. \A m, x, y \in Nat : /\ m * x \in Nat
                           /\ (m + 1) * x = m * x + x
                           /\ x <= y => m * x <= m * y
  <2> SUFFICES ASSUME NEW m \in Nat, NEW x \in Nat, NEW y \in Nat
               PROVE  /\ m * x \in Nat
                      /\ (m + 1) * x = m * x + x
                      /\ x <= y => m * x <= m * y
    OBVIOUS
  <2>1. m * x \in Nat /\ (m + 1) * x = m * x + x
    OBVIOUS
  <2>2. ASSUME x <= y PROVE m * x <= m * y
    <3>1. PICK d \in Nat : y = x + d
      BY <2>2
    <3>2. m * y = m * x + m * d /\ m * d \in Nat
      BY <3>1
    <3>3. QED
      BY <2>1, <3>2
  <2>3. QED
    BY <2>1, <2>2
<1>3. /\ MaxMissed * FastInterval \in Nat
      /\ MaxMissed * SlowInterval \in Nat
      /\ MaxMissed * FastInterval <= MaxMissed * SlowInterval
      /\ (MaxMissed + 1) * FastInterval = MaxMissed * FastInterval + FastInterval
      /\ (MaxMissed + 1) * SlowInterval = MaxMissed * SlowInterval + SlowInterval
  BY <1>1, <1>2
<1> DEFINE mf == MaxMissed * FastInterval
<1> DEFINE ms == MaxMissed * SlowInterval
<1>4. mf + FastInterval < SlowRate
  BY <1>3 DEF RatesTell
<1>5. Longest = SlowRate + (ms + SlowInterval)
  BY <1>3 DEF Longest
<1>6. QED
  <2> HIDE DEF mf, ms
  <2>1. mf \in Nat /\ ms \in Nat /\ mf <= ms
    BY <1>3 DEF mf, ms
  <2>2. Longest \in Nat /\ ms + SlowInterval + SlowRate = Longest /\ MaxMissed + 1 \in Nat
        /\ mf + FastInterval < SlowRate /\ SlowRate >= 1
    BY <1>1, <1>4, <1>5, <2>1
  <2>3. QED
    BY <1>1, <2>1, <2>2 DEF mf, ms

\* What a mean of at least, or at most, a rate says of the whole span.
LEMMA MeanAtLeast ==
  ASSUME NEW n \in Nat, n >= 1, NEW a \in Nat, NEW r \in Nat, a \div n >= r
  PROVE  n * r <= a
<1>1. PICK q \in Nat : q = a \div n /\ n * q <= a
  <2>1. a \div n \in Nat
    OBVIOUS
  <2>2. n * (a \div n) <= a
    OBVIOUS
  <2>3. QED
    BY <2>1, <2>2
<1>2. PICK d \in Nat : q = r + d
  BY <1>1
<1>3. n * q = n * r + n * d /\ n * d \in Nat /\ n * r \in Nat
  BY <1>2
<1>4. QED
  BY <1>1, <1>3

LEMMA MeanAtMost ==
  ASSUME NEW n \in Nat, n >= 1, NEW a \in Nat, NEW r \in Nat, a \div n <= r
  PROVE  a < n * (r + 1)
<1>1. PICK q \in Nat : q = a \div n /\ a < n * q + n
  <2>1. a \div n \in Nat
    OBVIOUS
  <2>2. a < n * (a \div n) + n
    OBVIOUS
  <2>3. QED
    BY <2>1, <2>2
<1>2. PICK d \in Nat : r = q + d
  BY <1>1
<1>3. n * (r + 1) = n * q + n * d + n /\ n * d \in Nat /\ n * q \in Nat
  BY <1>1, <1>2
<1>4. QED
  BY <1>1, <1>3
LEMMA AgeNat ==
  ASSUME NEW s \in Times, now \in Times
  PROVE  Age(s) \in Nat /\ Age(now) = 0
BY ConfigNat DEF Age, Difference, Times

-----------------------------------------------------------------------------
(* What a full window that ends now shows.                                 *)

LEMMA RateOfWindow ==
  ASSUME now \in Times, NEW w \in Seq(Times), w # <<>>, w[Len(w)] = now,
         AdvertisingRate(w) # 0
  PROVE  /\ Len(w) >= RateCapacity
         /\ Len(w) = RateCapacity => AdvertisingRate(w) = Age(w[1]) \div (RateCapacity - 1)
BY CapacityNat DEF AdvertisingRate, Age

LEMMA ApartIsSlow ==
  ASSUME now \in Times, NEW w \in Seq(Times), w # <<>>, w[Len(w)] = now,
         Len(w) <= RateCapacity, Apart(w), AdvertisingRate(w) # 0
  PROVE  ~(AdvertisingRate(w) <= WakeRate)
<1>1. PICK n \in Nat : n >= 1 /\ RateCapacity = n + 1 /\ Len(w) = n + 1
  <2>1. Len(w) = RateCapacity /\ RateCapacity \in Nat /\ RateCapacity >= 3
    BY RateOfWindow, CapacityNat
  <2>2. QED
    BY <2>1
<1>2. AdvertisingRate(w) = Age(w[1]) \div n
  <2>1. RateCapacity - 1 = n
    BY <1>1
  <2>2. AdvertisingRate(w) = Age(w[1]) \div (RateCapacity - 1)
    BY <1>1, RateOfWindow
  <2>3. QED
    BY <2>1, <2>2
<1>3. w[1] \in Times /\ Age(w[1]) \in Nat /\ Age(w[n + 1]) = 0 /\ WakeRate \in Nat
  <2>1. w[1] \in Times /\ w[n + 1] = now
    BY <1>1
  <2>2. Age(w[1]) \in Nat /\ Age(w[n + 1]) = 0
    BY <2>1, AgeNat
  <2>3. QED
    BY <2>1, <2>2, ConfigNat
<1>4. n * (WakeRate + 1) <= Age(w[1])
  <2>1. Age(w[n + 1]) + ((n + 1) - 1) * (WakeRate + 1) <= Age(w[1])
    BY <1>1 DEF Apart
  <2>2. QED
    BY <1>3, <2>1
<1>5. ASSUME AdvertisingRate(w) <= WakeRate PROVE FALSE
  <2>1. Age(w[1]) < n * (WakeRate + 1)
    BY <1>1, <1>2, <1>3, <1>5, MeanAtMost
  <2>2. n * (WakeRate + 1) \in Nat
    BY <1>3
  <2>3. QED
    BY <1>3, <1>4, <2>1, <2>2
<1>6. QED
  BY <1>5

LEMMA SpacedIsSlow ==
  ASSUME now \in Times, NEW w \in Seq(Times), w # <<>>, w[Len(w)] = now,
         Len(w) <= RateCapacity, Spaced(w), AdvertisingRate(w) # 0,
         AdvertisingRate(w) >= SlowRate
  PROVE  regime # "fast" /\ Apart(w)
<1>1. PICK n \in Nat : n >= 1 /\ RateCapacity = n + 1 /\ Len(w) = n + 1
  <2>1. Len(w) = RateCapacity /\ RateCapacity \in Nat /\ RateCapacity >= 3
    BY RateOfWindow, CapacityNat
  <2>2. QED
    BY <2>1
<1>2. AdvertisingRate(w) = Age(w[1]) \div n
  <2>1. RateCapacity - 1 = n
    BY <1>1
  <2>2. AdvertisingRate(w) = Age(w[1]) \div (RateCapacity - 1)
    BY <1>1, RateOfWindow
  <2>3. QED
    BY <2>1, <2>2
<1>3. SlowRate \in Nat /\ SlowRate >= 1 /\ WakeRate \in Nat /\ WakeRate + 1 <= SlowRate
  BY ConfigAssumption
<1>4. \A i \in 1..(n + 1) : Age(w[i]) \in Nat
  BY <1>1, AgeNat
<1>5. Age(w[n + 1]) = 0
  BY <1>1, AgeNat
<1>6. n * SlowRate <= Age(w[1])
  BY <1>1, <1>2, <1>3, <1>4, MeanAtLeast
<1>7. regime # "fast"
  <2> SUFFICES ASSUME regime = "fast" PROVE FALSE
    OBVIOUS
  <2>1. Age(w[1]) <= Age(w[n + 1]) + ((n + 1) - 1) * (SlowRate - 1)
    BY <1>1 DEF Spaced, Most
  <2>2. n * (SlowRate - 1) = n * SlowRate - n /\ n * SlowRate \in Nat
    BY <1>3
  <2>3. QED
    BY <1>1, <1>4, <1>5, <1>6, <2>1, <2>2
<1>8. Apart(w)
  <2> SUFFICES ASSUME NEW i \in 1..Len(w), NEW j \in 1..Len(w), i < j
               PROVE  Age(w[j]) + (j - i) * (WakeRate + 1) <= Age(w[i])
    BY DEF Apart
  <2>1. PICK a \in Nat, b \in Nat, c \in Nat : i = a + 1 /\ j = i + b /\ n + 1 = j + c
    <3>1. i - 1 \in Nat /\ j - i \in Nat /\ n + 1 - j \in Nat
      BY <1>1
    <3>2. i = (i - 1) + 1 /\ j = i + (j - i) /\ n + 1 = j + (n + 1 - j)
      BY <1>1
    <3>3. QED
      BY <3>1, <3>2
  <2>2. Age(w[1]) <= Age(w[i]) + a * SlowRate
    <3>1. CASE i = 1
      BY <1>1, <1>3, <1>4, <2>1, <3>1
    <3>2. CASE 1 < i
      <4>1. Age(w[1]) <= Age(w[i]) + (i - 1) * SlowRate
        BY <1>1, <1>7, <3>2 DEF Spaced, Most
      <4>2. QED
        BY <2>1, <4>1
    <3>3. QED
      BY <1>1, <3>1, <3>2
  <2>3. Age(w[j]) <= c * SlowRate
    <3>1. CASE j = n + 1
      BY <1>3, <1>5, <2>1, <3>1
    <3>2. CASE j < n + 1
      <4>1. Age(w[j]) <= Age(w[n + 1]) + ((n + 1) - j) * SlowRate
        BY <1>1, <1>7, <3>2 DEF Spaced, Most
      <4>2. QED
        BY <1>3, <1>5, <2>1, <4>1
    <3>3. QED
      BY <1>1, <3>1, <3>2
  <2>4. n * SlowRate = a * SlowRate + b * SlowRate + c * SlowRate
        /\ {a * SlowRate, b * SlowRate, c * SlowRate} \subseteq Nat
    <3>1. n = a + b + c
      BY <2>1
    <3>2. QED
      BY <1>3, <3>1
  <2>5. b * (WakeRate + 1) <= b * SlowRate /\ b * (WakeRate + 1) \in Nat
    <3>1. PICK d \in Nat : SlowRate = (WakeRate + 1) + d
      BY <1>3
    <3>2. b * SlowRate = b * (WakeRate + 1) + b * d /\ b * d \in Nat /\ b * (WakeRate + 1) \in Nat
      BY <1>3, <3>1
    <3>3. QED
      BY <3>2
  <2>6. j - i = b /\ Age(w[i]) \in Nat /\ Age(w[j]) \in Nat /\ Age(w[1]) \in Nat
    BY <1>1, <1>4, <2>1
  <2> DEFINE x == a * SlowRate
  <2> DEFINE y == b * SlowRate
  <2> DEFINE z == c * SlowRate
  <2> DEFINE m == b * (WakeRate + 1)
  <2>7. Age(w[j]) + m <= Age(w[i])
    <3>1. /\ x + y + z <= Age(w[1]) /\ Age(w[1]) <= Age(w[i]) + x /\ Age(w[j]) <= z /\ m <= y
          /\ {x, y, z, m} \subseteq Nat
      BY <1>6, <2>2, <2>3, <2>4, <2>5
    <3> HIDE DEF x, y, z, m
    <3>2. QED
      BY <2>6, <3>1
  <2>8. QED
    BY <2>6, <2>7
<1>9. QED
  BY <1>7, <1>8
-----------------------------------------------------------------------------
(* What a sighting does to the window.                                     *)

\* r is w with one more sighting, taken now, and maybe without its oldest.
Grown(w, r) ==
  \E k \in {0, 1} :
    /\ Len(r) = Len(w) + 1 - k
    /\ r # <<>> /\ r[Len(r)] = now
    /\ \A i \in 1..(Len(r) - 1) : i + k \in 1..Len(w) /\ r[i] = w[i + k]

LEMMA SameWindow ==
  ASSUME RatesTell, TypeOK, rateTimes # <<>>, rateTimes[Len(rateTimes)] = now
  PROVE  RecordRateSample = rateTimes
<1>1. /\ rateTimes \in Seq(Times) /\ Len(rateTimes) \in Nat /\ Len(rateTimes) # 0
      /\ Difference(now, now) = 0
  BY FreshStamp DEF TypeOK
<1>2. RecordRateSample = [rateTimes EXCEPT ![Len(rateTimes)] = now]
  <2>1. 0 < BurstMinSpacing
    BY RadioAssumption DEF RatesTell
  <2>2. Difference(now, rateTimes[Len(rateTimes)]) < BurstMinSpacing
    BY <1>1, <2>1
  <2>3. QED
    BY <1>1, <2>2 DEF RecordRateSample
<1>3. QED
  BY <1>1, <1>2

LEMMA GrownWindow ==
  ASSUME TypeOK,
         rateTimes # <<>> => ~(Difference(now, rateTimes[Len(rateTimes)]) < BurstMinSpacing)
  PROVE  Grown(rateTimes, RecordRateSample)
<1>1. /\ rateTimes \in Seq(Times) /\ Len(rateTimes) \in Nat /\ Len(rateTimes) <= RateCapacity
      /\ now \in Times /\ RateCapacity \in Nat /\ RateCapacity >= 3
  BY CapacityNat DEF TypeOK
<1>2. RecordRateSample = IF Len(rateTimes) < RateCapacity THEN Append(rateTimes, now)
                         ELSE Append(Tail(rateTimes), now)
  <2>1. ~(Len(rateTimes) # 0 /\ Difference(now, rateTimes[Len(rateTimes)]) < BurstMinSpacing)
    BY <1>1
  <2>2. QED
    BY <2>1 DEF RecordRateSample
<1>3. CASE Len(rateTimes) < RateCapacity
  <2> DEFINE r == Append(rateTimes, now)
  <2>1. Len(r) = Len(rateTimes) + 1 - 0 /\ r # <<>> /\ r[Len(r)] = now
    BY <1>1
  <2>2. \A i \in 1..(Len(r) - 1) : i + 0 \in 1..Len(rateTimes) /\ r[i] = rateTimes[i + 0]
    BY <1>1
  <2>3. Grown(rateTimes, r)
    BY <2>1, <2>2 DEF Grown
  <2>4. QED
    BY <1>2, <1>3, <2>3
<1>4. CASE ~(Len(rateTimes) < RateCapacity)
  <2> DEFINE r == Append(Tail(rateTimes), now)
  <2>1. Tail(rateTimes) \in Seq(Times) /\ Len(Tail(rateTimes)) = Len(rateTimes) - 1
        /\ \A i \in 1..(Len(rateTimes) - 1) : Tail(rateTimes)[i] = rateTimes[i + 1]
    BY <1>1, <1>4
  <2>2. Len(r) = Len(rateTimes) + 1 - 1 /\ r # <<>> /\ r[Len(r)] = now
    BY <1>1, <2>1
  <2>3. \A i \in 1..(Len(r) - 1) : i + 1 \in 1..Len(rateTimes) /\ r[i] = rateTimes[i + 1]
    BY <1>1, <2>1, <2>2
  <2>4. Grown(rateTimes, r)
    BY <2>2, <2>3 DEF Grown
  <2>5. QED
    BY <1>2, <1>4, <2>4
<1>5. QED
  BY <1>3, <1>4

\* A window stays apart, or spaced, when the gap to the new sighting is as the
\* others are.
LEMMA GrownApart ==
  ASSUME now \in Times, NEW w \in Seq(Times), NEW r \in Seq(Times), Grown(w, r), Apart(w),
         w # <<>> => WakeRate + 1 <= Age(w[Len(w)])
  PROVE  Apart(r)
<1> SUFFICES ASSUME NEW i \in 1..Len(r), NEW j \in 1..Len(r), i < j
             PROVE  Age(r[j]) + (j - i) * (WakeRate + 1) <= Age(r[i])
  BY DEF Apart
<1>1. PICK k \in {0, 1} :
        /\ Len(r) = Len(w) + 1 - k /\ r[Len(r)] = now
        /\ \A m \in 1..(Len(r) - 1) : m + k \in 1..Len(w) /\ r[m] = w[m + k]
  BY DEF Grown
<1>2. i + k \in 1..Len(w) /\ r[i] = w[i + k] /\ Len(w) \in Nat /\ WakeRate \in Nat
  <2>1. Len(w) \in Nat /\ i \in 1..(Len(r) - 1)
    OBVIOUS
  <2>2. QED
    BY <1>1, <2>1, ConfigNat
<1>3. CASE j < Len(r)
  <2>1. j + k \in 1..Len(w) /\ r[j] = w[j + k]
    BY <1>1, <1>3
  <2>2. Age(w[j + k]) + ((j + k) - (i + k)) * (WakeRate + 1) <= Age(w[i + k])
    BY <1>2, <2>1 DEF Apart
  <2>3. (j + k) - (i + k) = j - i
    OBVIOUS
  <2>4. QED
    BY <1>2, <2>1, <2>2, <2>3
<1>4. CASE j = Len(r)
  <2>1. Age(r[j]) = 0 /\ w[Len(w)] \in Times /\ Age(w[Len(w)]) \in Nat /\ Age(w[i + k]) \in Nat
    <3>1. r[j] = now /\ w[Len(w)] \in Times /\ w[i + k] \in Times
      BY <1>1, <1>2, <1>4
    <3>2. QED
      BY <3>1, AgeNat
  <2>2. w # <<>>
    BY <1>2
  <2>3. PICK d \in Nat : Len(w) = i + k + d /\ j - i = d + 1
    <3>1. Len(w) - (i + k) \in Nat /\ j - i = (Len(w) - (i + k)) + 1
          /\ Len(w) = i + k + (Len(w) - (i + k))
      BY <1>1, <1>2, <1>4
    <3>2. QED
      BY <3>1
  <2>4. Age(w[Len(w)]) + d * (WakeRate + 1) <= Age(w[i + k])
    <3>1. CASE d = 0
      BY <1>2, <2>1, <2>3, <3>1
    <3>2. CASE d # 0
      <4>1. i + k < Len(w) /\ Len(w) \in 1..Len(w) /\ Len(w) - (i + k) = d
        BY <1>2, <2>3, <3>2
      <4>2. Age(w[Len(w)]) + (Len(w) - (i + k)) * (WakeRate + 1) <= Age(w[i + k])
        BY <1>2, <4>1 DEF Apart
      <4>3. QED
        BY <4>1, <4>2
    <3>3. QED
      BY <3>1, <3>2
  <2>5. (d + 1) * (WakeRate + 1) = d * (WakeRate + 1) + (WakeRate + 1) /\ d * (WakeRate + 1) \in Nat
    BY <1>2
  <2>6. QED
    BY <1>2, <2>1, <2>2, <2>3, <2>4, <2>5
<1>5. QED
  BY <1>3, <1>4

LEMMA GrownSpaced ==
  ASSUME now \in Times, NEW w \in Seq(Times), NEW r \in Seq(Times), Grown(w, r), Spaced(w),
         w # <<>> => Age(w[Len(w)]) <= Most
  PROVE  Spaced(r)
<1> SUFFICES ASSUME NEW i \in 1..Len(r), NEW j \in 1..Len(r), i < j
             PROVE  Age(r[j]) <= Age(r[i]) /\ Age(r[i]) <= Age(r[j]) + (j - i) * Most
  BY DEF Spaced
<1>1. PICK k \in {0, 1} :
        /\ Len(r) = Len(w) + 1 - k /\ r[Len(r)] = now
        /\ \A m \in 1..(Len(r) - 1) : m + k \in 1..Len(w) /\ r[m] = w[m + k]
  BY DEF Grown
<1>2. i + k \in 1..Len(w) /\ r[i] = w[i + k] /\ Len(w) \in Nat /\ Most \in Nat
  <2>1. Len(w) \in Nat /\ i \in 1..(Len(r) - 1)
    OBVIOUS
  <2>2. Most \in Nat
    BY ConfigAssumption DEF Most
  <2>3. QED
    BY <1>1, <2>1, <2>2
<1>3. CASE j < Len(r)
  <2>1. j + k \in 1..Len(w) /\ r[j] = w[j + k]
    BY <1>1, <1>3
  <2>2. /\ Age(w[j + k]) <= Age(w[i + k])
        /\ Age(w[i + k]) <= Age(w[j + k]) + ((j + k) - (i + k)) * Most
    BY <1>2, <2>1 DEF Spaced
  <2>3. (j + k) - (i + k) = j - i
    OBVIOUS
  <2>4. QED
    BY <1>2, <2>1, <2>2, <2>3
<1>4. CASE j = Len(r)
  <2>1. Age(r[j]) = 0 /\ w[Len(w)] \in Times /\ Age(w[Len(w)]) \in Nat /\ Age(w[i + k]) \in Nat
    <3>1. r[j] = now /\ w[Len(w)] \in Times /\ w[i + k] \in Times
      BY <1>1, <1>2, <1>4
    <3>2. QED
      BY <3>1, AgeNat
  <2>2. w # <<>>
    BY <1>2
  <2>3. PICK d \in Nat : Len(w) = i + k + d /\ j - i = d + 1
    <3>1. Len(w) - (i + k) \in Nat /\ j - i = (Len(w) - (i + k)) + 1
          /\ Len(w) = i + k + (Len(w) - (i + k))
      BY <1>1, <1>2, <1>4
    <3>2. QED
      BY <3>1
  <2>4. Age(w[i + k]) <= Age(w[Len(w)]) + d * Most
    <3>1. CASE d = 0
      BY <1>2, <2>1, <2>3, <3>1
    <3>2. CASE d # 0
      <4>1. i + k < Len(w) /\ Len(w) \in 1..Len(w) /\ Len(w) - (i + k) = d
        BY <1>2, <2>3, <3>2
      <4>2. Age(w[i + k]) <= Age(w[Len(w)]) + (Len(w) - (i + k)) * Most
        BY <1>2, <4>1 DEF Spaced
      <4>3. QED
        BY <4>1, <4>2
    <3>3. QED
      BY <3>1, <3>2
  <2>5. (d + 1) * Most = d * Most + Most /\ d * Most \in Nat
    BY <1>2
  <2>6. QED
    BY <1>2, <2>1, <2>2, <2>3, <2>4, <2>5
<1>5. QED
  BY <1>3, <1>4
-----------------------------------------------------------------------------
(* A sighting.                                                             *)

LEMMA LatestNat ==
  ASSUME RatesTell, TypeOK
  PROVE  /\ Interval(regime) \in Nat /\ Interval(regime) >= 1
         /\ (MaxMissed - missed) * Interval(regime) \in Nat
         /\ Latest \in Nat /\ untilAd \in Nat /\ untilAd <= Latest
<1>1. Interval(regime) \in Nat /\ Interval(regime) >= 1
  BY RadioAssumption DEF Interval
<1>2. PICK m \in Nat : m = MaxMissed - missed
  BY RadioAssumption DEF TypeOK
<1>3. m * Interval(regime) \in Nat /\ untilAd \in Nat
  BY <1>1 DEF TypeOK
<1>4. QED
  BY <1>1, <1>2, <1>3 DEF Latest

\* The next window tells the same as the last.
LEMMA SightedWindow ==
  ASSUME RatesTell, TypeOK, WindDown, Emits \/ lastAdvertisement = now
  PROVE  /\ RecordRateSample \in Seq(Times) /\ Len(RecordRateSample) <= RateCapacity
         /\ RecordRateSample # <<>> /\ RecordRateSample[Len(RecordRateSample)] = now
         /\ IF slowed THEN Apart(RecordRateSample) ELSE Spaced(RecordRateSample)
         /\ \/ Grown(rateTimes, RecordRateSample)
            \/ RecordRateSample = rateTimes /\ lastAdvertisement = now
<1>1. RecordRateSample \in Seq(Times) /\ Len(RecordRateSample) <= RateCapacity
  BY WindowType
<1>2. rateTimes \in Seq(Times) /\ now \in Times /\ lastAdvertisement \in Times
      /\ slowed \in BOOLEAN /\ Age(lastAdvertisement) \in Nat
  BY AgeNat DEF TypeOK
<1>3. CASE rateTimes # <<>> /\ lastAdvertisement = now
  <2>1. rateTimes[Len(rateTimes)] = now
    BY <1>3 DEF WindDown, WindowEnds
  <2>2. RecordRateSample = rateTimes
    BY <1>3, <2>1, SameWindow
  <2>3. IF slowed THEN Apart(rateTimes) ELSE Spaced(rateTimes)
    BY DEF WindDown, GapsTell
  <2>4. QED
    BY <1>1, <1>3, <2>1, <2>2, <2>3
<1>4. CASE rateTimes = <<>> \/ Emits
  <2>1. ASSUME rateTimes # <<>>
        PROVE  /\ rateTimes[Len(rateTimes)] = lastAdvertisement
               /\ Interval(regime) <= Age(lastAdvertisement)
    <3>1. untilAd = 0
      BY <1>4, <2>1 DEF Emits
    <3>2. Interval(regime) <= Age(lastAdvertisement) + untilAd
      BY <2>1 DEF WindDown, NoneTooSoon
    <3>3. QED
      BY <1>2, <2>1, <3>1, <3>2 DEF WindDown, WindowEnds
  <2>2. regime \in {"fast", "slow"} /\ (regime = "fast" => ~slowed)
    BY DEF WindDown, FastIsSeen
  <2>3. /\ BurstMinSpacing \in Nat /\ FastInterval \in Nat /\ SlowInterval \in Nat
        /\ WakeRate \in Nat /\ SlowRate \in Nat
        /\ BurstMinSpacing <= FastInterval /\ FastInterval <= SlowInterval
        /\ WakeRate < SlowInterval
    BY ConfigAssumption, RadioAssumption DEF RatesTell
  <2>4. BurstMinSpacing <= Interval(regime) /\ Interval(regime) \in Nat
    BY <2>3 DEF Interval
  <2>5. ASSUME rateTimes # <<>>
        PROVE  ~(Difference(now, rateTimes[Len(rateTimes)]) < BurstMinSpacing)
    BY <1>2, <2>1, <2>3, <2>4, <2>5 DEF Age
  <2>6. Grown(rateTimes, RecordRateSample)
    BY <2>5, GrownWindow
  <2>7. RecordRateSample # <<>> /\ RecordRateSample[Len(RecordRateSample)] = now
    BY <2>6 DEF Grown
  <2>8. ASSUME slowed PROVE Apart(RecordRateSample)
    <3>1. rateTimes # <<>> => WakeRate + 1 <= Age(rateTimes[Len(rateTimes)])
      BY <1>2, <2>1, <2>2, <2>3, <2>8 DEF Interval
    <3>2. Apart(rateTimes)
      BY <2>8 DEF WindDown, GapsTell
    <3>3. QED
      BY <1>1, <1>2, <2>6, <3>1, <3>2, GrownApart
  <2>9. ASSUME ~slowed PROVE Spaced(RecordRateSample)
    <3>1. Age(lastAdvertisement) <= Most
      <4>1. Age(lastAdvertisement) <= SlowRate
        BY <2>9 DEF WindDown, SilenceLatches
      <4>2. ASSUME regime = "fast" PROVE Age(lastAdvertisement) <= SlowRate - 1
        <5>1. Age(lastAdvertisement) + Latest < SlowRate /\ Latest \in Nat
          BY <4>2, LatestNat DEF WindDown, FastIsSeen
        <5>2. QED
          BY <1>2, <2>3, <5>1
      <4>3. QED
        BY <4>1, <4>2 DEF Most
    <3>2. Spaced(rateTimes)
      BY <2>9 DEF WindDown, GapsTell
    <3>3. rateTimes # <<>> => Age(rateTimes[Len(rateTimes)]) <= Most
      BY <2>1, <3>1
    <3>4. QED
      BY <1>1, <1>2, <2>6, <3>2, <3>3, GrownSpaced
  <2>10. QED
    BY <1>1, <1>2, <2>6, <2>7, <2>8, <2>9
<1>5. QED
  BY <1>3, <1>4

\* Its stamps are recent.
LEMMA SightedRecent ==
  ASSUME RatesTell, TypeOK, Recent, NEW r \in Seq(Times), r # <<>>, r[Len(r)] = now,
         Grown(rateTimes, r) \/ (r = rateTimes /\ lastAdvertisement = now)
  PROVE  \A i \in 1..Len(r) : /\ MaxSuppression # 0 => Age(r[i]) <= suppressedFor
                              /\ MaxSuppression = 0 => Age(r[i]) <= (Len(r) - i) * Longest
<1>1. /\ rateTimes \in Seq(Times) /\ now \in Times /\ lastAdvertisement \in Times
      /\ suppressedFor \in Nat /\ Age(now) = 0 /\ Age(lastAdvertisement) \in Nat
      /\ Longest \in Nat /\ Latest \in Nat
  <2>1. suppressedFor \in Nat
    BY ConfigNat DEF TypeOK
  <2>2. QED
    BY <2>1, AgeNat, RatesNat, LatestNat DEF TypeOK
<1>2. CASE r = rateTimes /\ lastAdvertisement = now
  BY <1>1, <1>2 DEF Recent
<1>3. CASE Grown(rateTimes, r)
  <2>1. PICK k \in {0, 1} :
          /\ Len(r) = Len(rateTimes) + 1 - k
          /\ \A m \in 1..(Len(r) - 1) : m + k \in 1..Len(rateTimes) /\ r[m] = rateTimes[m + k]
    BY <1>3 DEF Grown
  <2> SUFFICES ASSUME NEW i \in 1..Len(r)
               PROVE  /\ MaxSuppression # 0 => Age(r[i]) <= suppressedFor
                      /\ MaxSuppression = 0 => Age(r[i]) <= (Len(r) - i) * Longest
    OBVIOUS
  <2>2. Len(r) \in Nat /\ Len(rateTimes) \in Nat
    BY <1>1
  <2>3. CASE i = Len(r)
    BY <1>1, <2>2, <2>3
  <2>4. CASE i < Len(r)
    <3>1. i + k \in 1..Len(rateTimes) /\ r[i] = rateTimes[i + k] /\ rateTimes[i + k] \in Times
      BY <1>1, <2>1, <2>2, <2>4
    <3>2. ASSUME MaxSuppression # 0 PROVE Age(r[i]) <= suppressedFor
      BY <3>1, <3>2 DEF Recent
    <3>3. ASSUME MaxSuppression = 0 PROVE Age(r[i]) <= (Len(r) - i) * Longest
      <4>1. PICK d \in Nat : d = Len(rateTimes) - (i + k) /\ Len(r) - i = d + 1
        <5>1. /\ Len(rateTimes) - (i + k) \in Nat
              /\ Len(r) - i = (Len(rateTimes) - (i + k)) + 1
          BY <2>1, <2>2, <3>1
        <5>2. QED
          BY <5>1
      <4>2. Age(rateTimes[i + k]) <= Age(lastAdvertisement) + d * Longest
        BY <3>1, <3>3, <4>1 DEF Recent
      <4>3. Age(lastAdvertisement) <= Longest
        <5>1. Age(lastAdvertisement) + Latest <= Longest
          BY <3>3 DEF Recent
        <5>2. QED
          BY <1>1, <5>1
      <4>4. (d + 1) * Longest = d * Longest + Longest /\ d * Longest \in Nat
        BY <1>1
      <4>5. Age(rateTimes[i + k]) \in Nat
        BY <1>1, <3>1, AgeNat
      <4>6. Age(r[i]) <= d * Longest + Longest
        BY <1>1, <3>1, <4>2, <4>3, <4>4, <4>5
      <4>7. QED
        BY <4>1, <4>4, <4>6
    <3>4. QED
      BY <3>2, <3>3
  <2>5. QED
    BY <2>2, <2>3, <2>4
<1>4. QED
  BY <1>2, <1>3

\* A sighting does not end the suppression, and latches the slow rate only when
\* it is the controller's rate.
LEMMA SightingKeeps ==
  ASSUME RatesTell, TypeOK, Winding, WindDown, OnAdvertisement,
         Emits \/ lastAdvertisement = now
  PROVE  /\ UNCHANGED <<suppressed, ended>>
         /\ lastAdvertisement' = now
         /\ rateTimes' = RecordRateSample
         /\ IF slowed' THEN Apart(RecordRateSample) ELSE Spaced(RecordRateSample)
         /\ regime = "fast" => ~slowed'
<1> DEFINE r == RecordRateSample
<1> DEFINE rate == AdvertisingRate(r)
<1>1. /\ r \in Seq(Times) /\ Len(r) <= RateCapacity /\ r # <<>> /\ r[Len(r)] = now
      /\ IF slowed THEN Apart(r) ELSE Spaced(r)
      /\ now \in Times /\ slowed \in BOOLEAN
  BY SightedWindow DEF TypeOK
<1>2. /\ lastAdvertisement' = now
      /\ \/ rate # 0 /\ slowed /\ rate <= WakeRate
         \/ /\ rateTimes' = r
            /\ slowed' = (slowed \/ (rate # 0 /\ rate >= SlowRate))
            /\ UNCHANGED <<suppressed, ended>>
  BY DEF OnAdvertisement, Winding
<1>3. regime = "fast" => ~slowed
  BY DEF WindDown, FastIsSeen
<1>4. slowed /\ rate # 0 => ~(rate <= WakeRate)
  BY <1>1, ApartIsSlow
<1>5. ~slowed /\ rate # 0 /\ rate >= SlowRate => regime # "fast" /\ Apart(r)
  BY <1>1, SpacedIsSlow
<1> HIDE DEF r, rate
<1>6. QED
  <2>1. /\ rateTimes' = r
        /\ slowed' = (slowed \/ (rate # 0 /\ rate >= SlowRate))
        /\ UNCHANGED <<suppressed, ended>>
    BY <1>2, <1>4
  <2>2. (IF slowed' THEN Apart(r) ELSE Spaced(r)) /\ (regime = "fast" => ~slowed')
    <3>1. CASE slowed
      BY <1>1, <1>3, <2>1, <3>1
    <3>2. CASE ~slowed /\ rate # 0 /\ rate >= SlowRate
      BY <1>5, <2>1, <3>2
    <3>3. CASE ~slowed /\ ~(rate # 0 /\ rate >= SlowRate)
      BY <1>1, <2>1, <3>3
    <3>4. QED
      BY <3>1, <3>2, <3>3
  <2>3. QED
    BY <1>2, <2>1, <2>2 DEF r
LEMMA FreshLatest ==
  ASSUME RatesTell, NEW r \in {"fast", "slow"}
  PROVE  /\ Interval(r) + (MaxMissed - 0) * Interval(r) \in Nat
         /\ Interval(r) + (MaxMissed - 0) * Interval(r) <= Longest
         /\ r = "fast" => Interval(r) + (MaxMissed - 0) * Interval(r) < SlowRate
<1>1. MaxMissed - 0 = MaxMissed
  BY RadioAssumption
<1>2. PICK mf \in Nat, ms \in Nat : /\ mf = MaxMissed * FastInterval
                                    /\ ms = MaxMissed * SlowInterval
  BY RatesNat
<1>3. /\ mf <= ms /\ ms + SlowInterval + SlowRate = Longest
      /\ mf + FastInterval < SlowRate
      /\ {FastInterval, SlowInterval, SlowRate, Longest} \subseteq Nat
      /\ FastInterval <= SlowInterval
  BY <1>2, RatesNat DEF RatesTell
<1>4. CASE r = "fast"
  <2>1. Interval(r) + (MaxMissed - 0) * Interval(r) = FastInterval + mf
    BY <1>1, <1>2, <1>4 DEF Interval
  <2>2. QED
    BY <1>3, <2>1
<1>5. CASE r = "slow"
  <2>1. Interval(r) + (MaxMissed - 0) * Interval(r) = SlowInterval + ms
    BY <1>1, <1>2, <1>5 DEF Interval
  <2>2. QED
    BY <1>3, <1>5, <2>1
<1>6. QED
  BY <1>4, <1>5

LEMMA SightingWind ==
  ASSUME RatesTell, TypeOK, WindInv, OnAdvertisement,
         regime \in {"fast", "slow"}, Emits \/ lastAdvertisement = now,
         untilAd' = Interval(regime), missed' = 0,
         UNCHANGED <<regime, now, loopDue, suppressedFor, wokeUp>>
  PROVE  WindInv'
<1>1. CASE ~suppressed
  BY <1>1 DEF OnAdvertisement, WindInv, WindDownIsNotAWake, Winding
<1>2. CASE wokeUp
  BY <1>2 DEF WindInv, WindDownIsNotAWake, Winding
<1>3. CASE suppressed /\ ~wokeUp
  <2>1. Winding /\ WindDown
    BY <1>3 DEF WindInv, Winding
  <2> DEFINE r == RecordRateSample
  <2>2. /\ UNCHANGED <<suppressed, ended>>
        /\ lastAdvertisement' = now /\ now' = now
        /\ rateTimes' = r
        /\ IF slowed' THEN Apart(r) ELSE Spaced(r)
        /\ regime = "fast" => ~slowed'
    BY <2>1, SightingKeeps
  <2>3. r \in Seq(Times) /\ r # <<>> /\ r[Len(r)] = now
        /\ (Grown(rateTimes, r) \/ (r = rateTimes /\ lastAdvertisement = now))
    BY <2>1, SightedWindow
  <2>4. \A i \in 1..Len(r) : /\ MaxSuppression # 0 => Age(r[i]) <= suppressedFor
                             /\ MaxSuppression = 0 => Age(r[i]) <= (Len(r) - i) * Longest
    BY <2>1, <2>3, SightedRecent DEF WindDown
  <2> HIDE DEF r
  <2>5. Age(lastAdvertisement)' = 0
    <3>1. Difference(now, now) = 0
      BY FreshStamp DEF TypeOK
    <3>2. QED
      BY <2>2, <3>1 DEF Age
  <2>6. /\ Latest' \in Nat /\ Latest' <= Longest
        /\ regime = "fast" => Latest' < SlowRate
    <3>1. Latest' = Interval(regime) + (MaxMissed - 0) * Interval(regime)
      BY DEF Latest
    <3>2. QED
      BY <3>1, FreshLatest
  <2>7. WindowEnds' /\ NoneTooSoon'
    <3>1. Interval(regime) \in Nat
      BY LatestNat
    <3>2. QED
      BY <2>2, <2>3, <2>5, <3>1 DEF WindowEnds, NoneTooSoon
  <2>8. FastIsSeen' /\ SilenceLatches'
    <3>1. SlowRate \in Nat /\ SlowRate # 0
      BY ConfigAssumption
    <3>2. SilenceLatches'
      BY <2>5, <3>1 DEF SilenceLatches
    <3>3. Age(lastAdvertisement)' + Latest' = Latest'
      <4>1. \A l \in Nat : 0 + l = l
        OBVIOUS
      <4>2. 0 + Latest' = Latest'
        BY ONLY <2>6, <4>1
      <4>3. QED
        BY ONLY <2>5, <4>2
    <3>4. FastIsSeen'
      BY <2>2, <2>6, <3>3 DEF FastIsSeen
    <3>5. QED
      BY <3>2, <3>4
  <2>9. GapsTell'
    <3>1. Apart(r) => Apart(rateTimes)'
      BY <2>2 DEF Apart, Age
    <3>2. Spaced(r) => Spaced(rateTimes)'
      BY <2>2 DEF Spaced, Age, Most
    <3>3. QED
      BY <2>2, <3>1, <3>2 DEF GapsTell
  <2>10. Recent'
    <3>1. \A i \in 1..Len(r) : Age(rateTimes[i])' = Age(r[i])
      BY <2>2 DEF Age
    <3>2. CASE MaxSuppression # 0
      <4>1. suppressedFor \in Nat
        BY ConfigNat DEF TypeOK
      <4>2. \A i \in 1..Len(rateTimes') : Age(rateTimes[i])' <= suppressedFor'
        BY <2>2, <2>4, <3>1, <3>2
      <4>3. QED
        BY <2>5, <3>2, <4>1, <4>2 DEF Recent
    <3>3. CASE MaxSuppression = 0
      <4>1. ASSUME NEW i \in 1..Len(r)
            PROVE  Age(rateTimes[i])' <= 0 + (Len(r) - i) * Longest
        <5>1. Age(r[i]) <= (Len(r) - i) * Longest
          BY <2>4, <3>3
        <5>2. (Len(r) - i) * Longest \in Int
          BY <2>3, RatesNat
        <5>3. QED
          BY <3>1, <5>1, <5>2
      <4>2. \A i \in 1..Len(rateTimes') :
              Age(rateTimes[i])' <= Age(lastAdvertisement)' + (Len(rateTimes') - i) * Longest
        BY <2>2, <2>5, <4>1
      <4>3. Age(lastAdvertisement)' + Latest' <= Longest
        BY <2>5, <2>6
      <4>4. QED
        BY <3>3, <4>2, <4>3 DEF Recent
    <3>4. QED
      BY <3>2, <3>3
  <2>11. QED
    BY <2>1, <2>2, <2>7, <2>8, <2>9, <2>10 DEF WindInv, WindDown, WindDownIsNotAWake
<1>4. QED
  BY <1>1, <1>2, <1>3 DEF TypeOK
-----------------------------------------------------------------------------
(* The polls.                                                              *)

\* A suppression begins.
LEMMA BeginWind ==
  ASSUME RatesTell, TypeOK, BeginSuppression, regime' = "fast", untilAd' = ReleaseDelay,
         missed' = 0, suppressedFor' = 0, now' = now
  PROVE  WindDown'
<1>1. /\ lastAdvertisement' = now /\ rateTimes' = <<>> /\ slowed' = FALSE
  BY DEF BeginSuppression
<1>2. Age(lastAdvertisement)' = 0
  <2>1. Difference(now, now) = 0
    BY FreshStamp DEF TypeOK
  <2>2. QED
    BY <1>1, <2>1 DEF Age
<1>3. 0 + Latest' < SlowRate /\ 0 + Latest' <= Longest
  <2>1. PICK mf \in Nat, ms \in Nat : mf = MaxMissed * FastInterval /\ ms = MaxMissed * SlowInterval
    BY RatesNat
  <2>2. Latest' = ReleaseDelay + (MaxMissed - 0) * FastInterval
    BY DEF Latest, Interval
  <2>3. MaxMissed - 0 = MaxMissed
    BY RadioAssumption
  <2>4. Latest' = ReleaseDelay + mf
    BY <2>1, <2>2, <2>3
  <2>5. ReleaseDelay + mf < SlowRate
    BY <2>1 DEF RatesTell
  <2>6. ms + SlowInterval + SlowRate = Longest /\ {ReleaseDelay, SlowInterval, SlowRate} \subseteq Nat
    BY <2>1, RatesNat
  <2>7. QED
    BY <2>4, <2>5, <2>6
<1>4. SlowRate \in Nat /\ SlowRate # 0
  BY ConfigAssumption
<1>5. WindowEnds' /\ NoneTooSoon'
  BY <1>1 DEF WindowEnds, NoneTooSoon
<1>6. FastIsSeen' /\ SilenceLatches'
  BY <1>1, <1>2, <1>3, <1>4 DEF FastIsSeen, SilenceLatches
<1>7. Spaced(rateTimes)' /\ GapsTell'
  BY <1>1 DEF Spaced, GapsTell
<1>8. Recent'
  <2>1. Len(rateTimes') = 0
    BY <1>1
  <2>2. QED
    BY <1>2, <1>3, <2>1 DEF Recent
<1>9. QED
  BY <1>5, <1>6, <1>7, <1>8 DEF WindDown

\* A poll may latch the slow rate because nothing was seen; the window is empty then.
LEMMA SilenceWind ==
  ASSUME RatesTell, TypeOK, WindDown, loopDue' = FALSE,
         UNCHANGED <<lastAdvertisement, regime, untilAd, missed, now, suppressedFor>>,
         slowed' = (slowed \/ (~slowed /\ TimeoutElapsed(lastAdvertisement, SlowRate))),
         rateTimes' = IF ~slowed /\ TimeoutElapsed(lastAdvertisement, SlowRate) THEN <<>>
                      ELSE rateTimes
  PROVE  WindDown'
<1>1. Age(lastAdvertisement)' = Age(lastAdvertisement) /\ Latest' = Latest
      /\ Age(lastAdvertisement) \in Nat /\ Latest \in Nat /\ SlowRate \in Nat
      /\ \A s : Difference(now', s) = Age(s)
  BY AgeNat, LatestNat, ConfigNat DEF Age, Latest, TypeOK
<1>2. CASE ~slowed /\ TimeoutElapsed(lastAdvertisement, SlowRate)
  <2>1. Age(lastAdvertisement) >= SlowRate /\ slowed' /\ rateTimes' = <<>>
    BY <1>2 DEF TimeoutElapsed, Age
  <2>2. regime # "fast"
    <3>1. regime = "fast" => Age(lastAdvertisement) + Latest < SlowRate
      BY DEF WindDown, FastIsSeen
    <3>2. QED
      BY <1>1, <2>1, <3>1
  <2>3. regime' = "slow" /\ WindowEnds' /\ FastIsSeen' /\ SilenceLatches'
    BY <2>1, <2>2 DEF WindDown, WindowEnds, FastIsSeen, SilenceLatches
  <2>4. NoneTooSoon'
    BY <1>1, <2>2 DEF WindDown, NoneTooSoon
  <2>5. Apart(rateTimes)' /\ GapsTell'
    BY <2>1 DEF Apart, GapsTell
  <2>6. Recent'
    <3>1. Len(rateTimes') = 0
      BY <2>1
    <3>2. QED
      BY <1>1, <3>1 DEF WindDown, Recent
  <2>7. QED
    BY <2>3, <2>4, <2>5, <2>6 DEF WindDown
<1>3. CASE ~(~slowed /\ TimeoutElapsed(lastAdvertisement, SlowRate))
  <2>1. slowed' = slowed /\ rateTimes' = rateTimes
    BY <1>3 DEF TypeOK
  <2>2. ~slowed => Age(lastAdvertisement) < SlowRate
    BY <1>1, <1>3 DEF TimeoutElapsed, Age
  <2>3. WindowEnds' /\ NoneTooSoon' /\ FastIsSeen'
    BY <1>1, <2>1 DEF WindDown, WindowEnds, NoneTooSoon, FastIsSeen
  <2>4. SilenceLatches'
    BY <1>1, <2>1, <2>2 DEF SilenceLatches
  <2>5. GapsTell'
    <3>1. Apart(rateTimes) => Apart(rateTimes)'
      BY <2>1 DEF Apart, Age
    <3>2. Spaced(rateTimes) => Spaced(rateTimes)'
      BY <2>1 DEF Spaced, Age, Most
    <3>3. QED
      BY <2>1, <3>1, <3>2 DEF WindDown, GapsTell
  <2>6. Recent'
    <3>1. \A i \in 1..Len(rateTimes) : Age(rateTimes[i])' = Age(rateTimes[i])
      BY <2>1 DEF Age
    <3>2. QED
      BY <1>1, <2>1, <3>1 DEF WindDown, Recent
  <2>7. QED
    BY <2>3, <2>4, <2>5, <2>6 DEF WindDown
<1>4. QED
  BY <1>2, <1>3

LEMMA PollWind ==
  ASSUME RatesTell, IInv, WindInv, Poll
  PROVE  WindInv'
<1>1. TypeOK /\ now' = now /\ loopDue' = FALSE
  BY DEF IInv, Poll
<1>2. CASE PollLiveSession
  <2>1. ~suppressed
    BY <1>2 DEF IInv, SessionClock, PollLiveSession
  <2>2. CASE BeginSuppression /\ regime' = "fast" /\ untilAd' = ReleaseDelay /\ missed' = 0
             /\ suppressedFor' = 0 /\ ended' = "none"
    BY <1>1, <2>2, BeginWind DEF WindInv, WindDownIsNotAWake
  <2>3. CASE UNCHANGED <<latchVars, callerVars, wokeUp>>
    BY <2>1, <2>3 DEF latchVars, callerVars, WindInv, WindDownIsNotAWake, Winding
  <2>4. QED
    BY <1>2, <2>1, <2>2, <2>3 DEF PollLiveSession
<1>3. CASE PollNoSession
  <2>1. /\ UNCHANGED <<lastAdvertisement, regime, untilAd, missed, suppressedFor, wokeUp>>
    BY <1>3 DEF PollNoSession, stampVars, radioVars, historyVars
  <2>2. CASE ~suppressed /\ UNCHANGED <<latchVars, ended>>
    BY <2>1, <2>2 DEF latchVars, WindInv, WindDownIsNotAWake, Winding
  <2>3. CASE ClearLatches /\ ended' = "cap"
    BY <2>3 DEF ClearLatches, WindInv, WindDownIsNotAWake, Winding
  <2>4. CASE /\ suppressed /\ UNCHANGED <<suppressed, ended>>
             /\ slowed' = (slowed \/ (~slowed /\ TimeoutElapsed(lastAdvertisement, SlowRate)))
             /\ rateTimes' = IF ~slowed /\ TimeoutElapsed(lastAdvertisement, SlowRate) THEN <<>>
                             ELSE rateTimes
    <3>1. WindDown => WindDown'
      BY <1>1, <2>1, <2>4, SilenceWind
    <3>2. QED
      BY <2>1, <2>4, <3>1 DEF WindInv, WindDownIsNotAWake, Winding
  <2>5. QED
    BY <1>3, <2>2, <2>3, <2>4 DEF PollNoSession
<1>4. QED
  BY <1>2, <1>3 DEF Poll
-----------------------------------------------------------------------------
(* The radio and the clock.                                                *)

\* What a step that leaves the policy alone needs to keep.
windVars == <<lastAdvertisement, slowed, rateTimes, now, loopDue, suppressedFor>>

LEMMA MissedWind ==
  ASSUME RatesTell, IInv, WindInv, MissedAdvertisement
  PROVE  WindInv'
<1>1. /\ UNCHANGED <<suppressed, wokeUp, ended, regime>> /\ UNCHANGED windVars
      /\ untilAd = 0 /\ untilAd' = Interval(regime) /\ missed' = missed + 1 /\ TypeOK
  BY DEF MissedAdvertisement, Emits, latchVars, stampVars, callerVars, historyVars, windVars, IInv
<1>2. Latest' = Latest /\ Latest \in Nat /\ Interval(regime) \in Nat
  <2>1. Latest' = Interval(regime) + (MaxMissed - (missed + 1)) * Interval(regime)
    BY <1>1 DEF Latest
  <2>2. Latest = 0 + (MaxMissed - missed) * Interval(regime)
    BY <1>1 DEF Latest
  <2>3. missed \in Int /\ MaxMissed \in Int /\ Interval(regime) \in Int
    BY <1>1, LatestNat, RadioAssumption DEF TypeOK
  <2>4. \A m, n, x \in Int : x + (m - (n + 1)) * x = 0 + (m - n) * x
    OBVIOUS
  <2>5. QED
    BY <1>1, <2>1, <2>2, <2>3, <2>4, LatestNat
<1>3. ASSUME WindDown PROVE WindDown'
  <2>1. Age(lastAdvertisement)' = Age(lastAdvertisement) /\ Age(lastAdvertisement) \in Nat
    BY <1>1, AgeNat DEF windVars, Age, TypeOK
  <2>2. WindowEnds' /\ SilenceLatches'
    BY <1>1, <1>3, <2>1 DEF WindDown, windVars, WindowEnds, SilenceLatches
  <2>3. FastIsSeen'
    BY <1>1, <1>2, <1>3, <2>1 DEF WindDown, windVars, FastIsSeen
  <2>4. NoneTooSoon'
    BY <1>1, <1>2, <2>1 DEF NoneTooSoon
  <2>5. GapsTell'
    <3>1. Apart(rateTimes) => Apart(rateTimes)'
      BY <1>1 DEF windVars, Apart, Age
    <3>2. Spaced(rateTimes) => Spaced(rateTimes)'
      BY <1>1 DEF windVars, Spaced, Age, Most
    <3>3. QED
      BY <1>1, <1>3, <3>1, <3>2 DEF windVars, WindDown, GapsTell
  <2>6. Recent'
    <3>1. \A i \in 1..Len(rateTimes) : Age(rateTimes[i])' = Age(rateTimes[i])
      BY <1>1 DEF windVars, Age
    <3>2. QED
      BY <1>1, <1>2, <1>3, <2>1, <3>1 DEF windVars, WindDown, Recent
  <2>7. QED
    BY <1>1, <1>3, <2>2, <2>3, <2>4, <2>5, <2>6 DEF WindDown
<1>4. QED
  BY <1>1, <1>3 DEF WindInv, WindDownIsNotAWake, Winding

LEMMA SlowsWind ==
  ASSUME RatesTell, IInv, WindInv, ControllerSlows
  PROVE  WindInv'
<1>1. /\ UNCHANGED <<suppressed, ended>> /\ UNCHANGED windVars /\ regime = "fast"
      /\ regime' = "slow" /\ untilAd' = Interval("slow") /\ missed' = 0 /\ TypeOK
      /\ wokeUp' = wokeUp
  BY DEF ControllerSlows, ControllerChanges, latchVars, stampVars, callerVars, windVars, IInv,
         TypeOK
<1>2. ASSUME WindDown PROVE WindDown'
  <2>1. Age(lastAdvertisement)' = Age(lastAdvertisement) /\ Age(lastAdvertisement) \in Nat
    BY <1>1, AgeNat DEF windVars, Age, TypeOK
  <2>2. ~slowed /\ Age(lastAdvertisement) < SlowRate
    <3>1. ~slowed /\ Age(lastAdvertisement) + Latest < SlowRate /\ Latest \in Nat
      BY <1>1, <1>2, LatestNat DEF WindDown, FastIsSeen
    <3>2. QED
      BY <2>1, <3>1, ConfigNat
  <2>3. WindowEnds' /\ SilenceLatches' /\ FastIsSeen'
    BY <1>1, <1>2, <2>1 DEF WindDown, windVars, WindowEnds, SilenceLatches, FastIsSeen
  <2>4. NoneTooSoon'
    <3>1. Interval("slow") \in Nat
      BY RadioAssumption DEF Interval
    <3>2. QED
      BY <1>1, <2>1, <3>1 DEF NoneTooSoon
  <2>5. GapsTell'
    <3> SUFFICES ASSUME NEW i \in 1..Len(rateTimes), NEW j \in 1..Len(rateTimes), i < j
                 PROVE  /\ Age(rateTimes[j]) <= Age(rateTimes[i])
                        /\ Age(rateTimes[i]) <= Age(rateTimes[j]) + (j - i) * SlowRate
      BY <1>1, <2>2 DEF windVars, GapsTell, Spaced, Age, Most
    <3>1. /\ Age(rateTimes[j]) <= Age(rateTimes[i])
          /\ Age(rateTimes[i]) <= Age(rateTimes[j]) + (j - i) * (SlowRate - 1)
      BY <1>1, <1>2, <2>2 DEF WindDown, GapsTell, Spaced, Most
    <3>2. /\ Age(rateTimes[i]) \in Nat /\ Age(rateTimes[j]) \in Nat
      <4>1. rateTimes[i] \in Times /\ rateTimes[j] \in Times /\ now \in Times
        BY <1>1 DEF TypeOK
      <4>2. QED
        BY <4>1, AgeNat
    <3>3. PICK d \in Nat : d = j - i
      OBVIOUS
    <3>4. d * (SlowRate - 1) = d * SlowRate - d /\ d * SlowRate \in Nat
      BY ConfigNat
    <3>5. QED
      BY <3>1, <3>2, <3>3, <3>4
  <2>6. Recent'
    <3>1. \A i \in 1..Len(rateTimes) : Age(rateTimes[i])' = Age(rateTimes[i])
      BY <1>1 DEF windVars, Age
    <3>2. Age(lastAdvertisement) + Latest' <= Longest
      <4>1. PICK ms \in Nat : ms = MaxMissed * SlowInterval
        BY RatesNat
      <4>2. Latest' = SlowInterval + ms
        <5>1. Latest' = SlowInterval + (MaxMissed - 0) * SlowInterval
          BY <1>1 DEF Latest, Interval
        <5>2. MaxMissed - 0 = MaxMissed
          BY RadioAssumption
        <5>3. QED
          BY <4>1, <5>1, <5>2
      <4>3. ms + SlowInterval + SlowRate = Longest /\ {SlowInterval, SlowRate} \subseteq Nat
        BY <4>1, RatesNat
      <4>4. QED
        BY <2>1, <2>2, <4>2, <4>3
    <3>3. QED
      BY <1>1, <1>2, <2>1, <3>1, <3>2 DEF windVars, WindDown, Recent
  <2>7. QED
    BY <1>1, <2>3, <2>4, <2>5, <2>6 DEF WindDown
<1>3. QED
  BY <1>1, <1>2 DEF WindInv, WindDownIsNotAWake, Winding
\* No stamp in use is so old that the next tick wraps its age.
LEMMA YoungStamps ==
  ASSUME RatesTell, IInv, WindDown, suppressed, Tick
  PROVE  /\ Age(lastAdvertisement) + 1 < ClockPeriod
         /\ \A i \in 1..Len(rateTimes) : Age(rateTimes[i]) + 1 < ClockPeriod
<1>1. /\ TypeOK /\ rateTimes \in Seq(Times) /\ now \in Times /\ lastAdvertisement \in Times
      /\ Len(rateTimes) \in Nat /\ Len(rateTimes) <= RateCapacity /\ loopDue = FALSE
  BY DEF IInv, TypeOK, Tick
<1>2. /\ Age(lastAdvertisement) \in Nat /\ \A i \in 1..Len(rateTimes) : Age(rateTimes[i]) \in Nat
  BY <1>1, AgeNat
<1>3. CASE MaxSuppression # 0
  <2>1. suppressedFor \in Nat /\ suppressedFor < MaxSuppression /\ MaxSuppression < ClockPeriod
        /\ {MaxSuppression, ClockPeriod} \subseteq Nat
    BY <1>1, <1>3, ConfigNat DEF IInv, SuppressionClock, TypeOK
  <2>2. /\ Age(lastAdvertisement) <= suppressedFor
        /\ \A i \in 1..Len(rateTimes) : Age(rateTimes[i]) <= suppressedFor
    BY <1>3 DEF WindDown, Recent
  <2>3. QED
    BY <1>2, <2>1, <2>2
<1>4. CASE MaxSuppression = 0
  <2>1. /\ Age(lastAdvertisement) + Latest <= Longest
        /\ \A i \in 1..Len(rateTimes) :
             Age(rateTimes[i]) <= Age(lastAdvertisement) + (Len(rateTimes) - i) * Longest
    BY <1>4 DEF WindDown, Recent
  <2>2. Latest >= 1 /\ Latest \in Nat
    <3>1. untilAd # 0 /\ untilAd \in Nat /\ Latest \in Nat /\ untilAd <= Latest
      BY <1>1, LatestNat DEF WindDown, Tick, Emits
    <3>2. QED
      BY <3>1
  <2>3. Longest \in Nat /\ ClockPeriod \in Nat /\ RateCapacity \in Nat /\ RateCapacity >= 3
        /\ RateCapacity * Longest < ClockPeriod
    BY <1>4, RatesNat, CapacityNat DEF RatesTell
  <2>4. Age(lastAdvertisement) + 1 <= Longest
    BY <1>2, <2>1, <2>2, <2>3
  <2>5. ASSUME NEW i \in Nat, i <= RateCapacity, i >= 1 PROVE i * Longest < ClockPeriod
    <3>1. PICK d \in Nat : RateCapacity = i + d
      <4>1. RateCapacity - i \in Nat /\ RateCapacity = i + (RateCapacity - i)
        BY <2>3, <2>5
      <4>2. QED
        BY <4>1
    <3>2. RateCapacity * Longest = i * Longest + d * Longest /\ d * Longest \in Nat
          /\ i * Longest \in Nat
      BY <2>3, <3>1
    <3>3. QED
      BY <2>3, <3>2
  <2>6. Age(lastAdvertisement) + 1 < ClockPeriod
    <3>1. 1 * Longest < ClockPeriod
      BY <2>3, <2>5
    <3>2. QED
      BY <1>2, <2>3, <2>4, <3>1
  <2>7. ASSUME NEW i \in 1..Len(rateTimes) PROVE Age(rateTimes[i]) + 1 < ClockPeriod
    <3>1. PICK d \in Nat : d = Len(rateTimes) - i
      BY <1>1
    <3>2. Age(rateTimes[i]) <= Age(lastAdvertisement) + d * Longest
      BY <2>1, <3>1
    <3>3. (d + 1) * Longest < ClockPeriod
      BY <1>1, <2>3, <2>5, <3>1
    <3>4. (d + 1) * Longest = d * Longest + Longest /\ d * Longest \in Nat
      BY <2>3
    <3>5. QED
      BY <1>2, <2>3, <2>4, <3>2, <3>3, <3>4
  <2>8. QED
    BY <2>6, <2>7
<1>5. QED
  BY <1>3, <1>4

LEMMA TickWind ==
  ASSUME RatesTell, IInv, WindInv, Tick
  PROVE  WindInv'
<1>1. /\ UNCHANGED <<suppressed, wokeUp, ended, regime, missed, lastAdvertisement, slowed, rateTimes>>
      /\ loopDue = FALSE /\ loopDue' = TRUE /\ TypeOK
      /\ now' = IF now + 1 = ClockPeriod THEN 0 ELSE now + 1
  BY DEF Tick, latchVars, stampVars, callerVars, IInv, TypeOK
<1>2. CASE ~Winding
  BY <1>1, <1>2 DEF WindInv, WindDownIsNotAWake, Winding
<1>3. CASE Winding
  <2>1. WindDown /\ suppressed
    BY <1>3 DEF WindInv, Winding
  <2>2. /\ untilAd \in Nat /\ untilAd # 0 /\ untilAd' = untilAd - 1
        /\ Latest \in Nat /\ Latest' = Latest - 1 /\ Interval(regime) \in Nat
    <3>1. untilAd # 0 /\ untilAd' = untilAd - 1
      BY <2>1 DEF WindDown, Tick, Emits
    <3>2. /\ (MaxMissed - missed) * Interval(regime) \in Nat /\ Interval(regime) \in Nat
          /\ untilAd \in Nat /\ Latest \in Nat
      BY <1>1, LatestNat
    <3>3. Latest' = (untilAd - 1) + (MaxMissed - missed) * Interval(regime)
      BY <1>1, <3>1 DEF Latest
    <3>4. Latest = untilAd + (MaxMissed - missed) * Interval(regime)
      BY DEF Latest
    <3>5. QED
      BY <3>1, <3>2, <3>3, <3>4
  <2>3. /\ rateTimes \in Seq(Times) /\ now \in Times /\ now' \in Times
        /\ lastAdvertisement \in Times
    <3>1. rateTimes \in Seq(Times) /\ now \in Times /\ lastAdvertisement \in Times
      BY <1>1 DEF TypeOK
    <3>2. TypeOK'
      BY <1>1, NextType DEF Next
    <3>3. now' \in Times
      BY <3>2 DEF TypeOK
    <3>4. QED
      BY <3>1, <3>3
  <2>4. /\ Age(lastAdvertisement)' = Age(lastAdvertisement) + 1
        /\ Age(lastAdvertisement) \in Nat
    <3>1. Difference(now', lastAdvertisement) = Difference(now, lastAdvertisement) + 1
      BY <1>1, <2>1, <2>3, YoungStamps, TickAges DEF Age
    <3>2. QED
      BY <1>1, <2>3, <3>1, AgeNat DEF Age
  <2>5. ASSUME NEW i \in 1..Len(rateTimes)
        PROVE  /\ Age(rateTimes[i])' = Age(rateTimes[i]) + 1
               /\ Age(rateTimes[i]) \in Nat
    <3>1. rateTimes[i] \in Times
      BY <2>3
    <3>2. Difference(now', rateTimes[i]) = Difference(now, rateTimes[i]) + 1
      BY <1>1, <2>1, <2>3, <3>1, YoungStamps, TickAges DEF Age
    <3>3. QED
      BY <1>1, <2>3, <3>1, <3>2, AgeNat DEF Age
  <2>6. WindowEnds' /\ NoneTooSoon'
    <3>1. Age(lastAdvertisement)' + untilAd' = Age(lastAdvertisement) + untilAd
      BY <2>2, <2>4
    <3>2. QED
      BY <1>1, <2>1, <3>1 DEF WindDown, WindowEnds, NoneTooSoon
  <2>7. FastIsSeen'
    <3>1. Age(lastAdvertisement)' + Latest' = Age(lastAdvertisement) + Latest
      BY <2>2, <2>4
    <3>2. QED
      BY <1>1, <2>1, <3>1 DEF WindDown, FastIsSeen
  <2>8. SilenceLatches'
    <3>1. ~slowed => Age(lastAdvertisement) < SlowRate
      BY <1>1, <2>1, <2>4, ConfigNat DEF WindDown, SilenceLatches
    <3>2. QED
      BY <1>1, <2>4, <3>1, ConfigNat DEF SilenceLatches
  <2>9. GapsTell'
    <3>1. ASSUME Apart(rateTimes) PROVE Apart(rateTimes)'
      <4> SUFFICES ASSUME NEW i \in 1..Len(rateTimes), NEW j \in 1..Len(rateTimes), i < j
                   PROVE  Age(rateTimes[j])' + (j - i) * (WakeRate + 1) <= Age(rateTimes[i])'
        BY <1>1 DEF Apart, Age
      <4>1. Age(rateTimes[j]) + (j - i) * (WakeRate + 1) <= Age(rateTimes[i])
        BY <3>1 DEF Apart
      <4>2. (j - i) * (WakeRate + 1) \in Int
        BY ConfigNat
      <4>3. QED
        BY <2>5, <4>1, <4>2
    <3>2. ASSUME Spaced(rateTimes) PROVE Spaced(rateTimes)'
      <4> SUFFICES ASSUME NEW i \in 1..Len(rateTimes), NEW j \in 1..Len(rateTimes), i < j
                   PROVE  /\ Age(rateTimes[j])' <= Age(rateTimes[i])'
                          /\ Age(rateTimes[i])' <= Age(rateTimes[j])' + (j - i) * Most
        BY <1>1 DEF Spaced, Age, Most
      <4>1. /\ Age(rateTimes[j]) <= Age(rateTimes[i])
            /\ Age(rateTimes[i]) <= Age(rateTimes[j]) + (j - i) * Most
        BY <3>2 DEF Spaced
      <4>2. (j - i) * Most \in Int
        <5>1. Most \in Int
          BY ConfigNat DEF Most
        <5>2. QED
          BY <5>1
      <4>3. QED
        BY <2>5, <4>1, <4>2
    <3>3. QED
      BY <1>1, <2>1, <3>1, <3>2 DEF WindDown, GapsTell
  <2>10. Recent'
    <3>1. CASE MaxSuppression # 0
      <4>1. suppressedFor' = suppressedFor + 1 /\ suppressedFor \in Nat
        <5>1. /\ suppressedFor \in Nat /\ suppressedFor <= MaxSuppression
              /\ suppressedFor # MaxSuppression /\ MaxSuppression \in Nat
          BY <1>1, <2>1, <3>1, ConfigNat DEF IInv, SuppressionClock, TypeOK
        <5>2. suppressedFor' = IF suppressedFor + 1 < MaxSuppression + 1 THEN suppressedFor + 1
                               ELSE MaxSuppression + 1
          BY <2>1 DEF Tick, AtMost
        <5>3. QED
          BY <5>1, <5>2
      <4>2. /\ Age(lastAdvertisement) <= suppressedFor
            /\ \A i \in 1..Len(rateTimes) : Age(rateTimes[i]) <= suppressedFor
        BY <2>1, <3>1 DEF WindDown, Recent
      <4>3. Age(lastAdvertisement)' <= suppressedFor'
        BY <2>4, <4>1, <4>2
      <4>4. \A i \in 1..Len(rateTimes') : Age(rateTimes[i])' <= suppressedFor'
        BY <1>1, <2>5, <4>1, <4>2
      <4>5. QED
        BY <3>1, <4>3, <4>4 DEF Recent
    <3>2. CASE MaxSuppression = 0
      <4>1. /\ Age(lastAdvertisement) + Latest <= Longest
            /\ \A i \in 1..Len(rateTimes) :
                 Age(rateTimes[i]) <= Age(lastAdvertisement) + (Len(rateTimes) - i) * Longest
        BY <2>1, <3>2 DEF WindDown, Recent
      <4>2. Age(lastAdvertisement)' + Latest' <= Longest
        <5>1. Age(lastAdvertisement)' + Latest' = Age(lastAdvertisement) + Latest
          BY <2>2, <2>4
        <5>2. QED
          BY <4>1, <5>1
      <4>3. ASSUME NEW i \in 1..Len(rateTimes)
            PROVE  Age(rateTimes[i])' <= Age(lastAdvertisement)' + (Len(rateTimes) - i) * Longest
        <5>1. (Len(rateTimes) - i) * Longest \in Int
          BY <2>3, RatesNat
        <5>2. Age(rateTimes[i]) <= Age(lastAdvertisement) + (Len(rateTimes) - i) * Longest
          BY <4>1
        <5>3. QED
          BY <2>4, <2>5, <5>1, <5>2
      <4>4. \A i \in 1..Len(rateTimes') :
              Age(rateTimes[i])' <= Age(lastAdvertisement)' + (Len(rateTimes') - i) * Longest
        BY <1>1, <4>3
      <4>5. QED
        BY <3>2, <4>2, <4>4 DEF Recent
    <3>3. QED
      BY <3>1, <3>2
  <2>11. QED
    BY <1>1, <2>1, <2>6, <2>7, <2>8, <2>9, <2>10 DEF WindInv, WindDown, WindDownIsNotAWake, Winding
<1>4. QED
  BY <1>2, <1>3

-----------------------------------------------------------------------------
(* Every step, and the theorem.                                            *)

LEMMA InitWind == Init => WindInv
BY DEF Init, WindInv, WindDownIsNotAWake, Winding

LEMMA NextWind ==
  ASSUME RatesTell, IInv, WindInv, [Next]_vars
  PROVE  WindInv'
<1>1. TypeOK /\ (sessionReady => ~suppressed)
  BY DEF IInv, SessionClock
<1>2. CASE Poll
  BY <1>2, PollWind
<1>3. CASE SessionReady \/ Transition \/ SessionLost
  <2>1. ~suppressed' /\ UNCHANGED <<ended, wokeUp>>
    BY <1>1, <1>3 DEF SessionReady, OnSessionReady, ClearLatches, Transition, SessionLost,
       latchVars, historyVars
  <2>2. QED
    BY <2>1 DEF WindInv, WindDownIsNotAWake, Winding
<1>4. CASE RequestReconnect \/ Reset
  BY <1>4 DEF RequestReconnect, Reset, OnSessionReady, ClearLatches, WindInv,
     WindDownIsNotAWake, Winding
<1>5. CASE Sighting
  BY <1>1, <1>5, SightingWind DEF Sighting, Emits, historyVars
<1>6. CASE DuplicateSighting
  BY <1>1, <1>6, SightingWind DEF DuplicateSighting, radioVars, historyVars
<1>7. CASE MissedAdvertisement
  BY <1>7, MissedWind
<1>8. CASE ControllerSlows
  BY <1>8, SlowsWind
<1>9. CASE ControllerStops
  <2>1. regime' = "silent" /\ ended' = ended /\ (wokeUp => wokeUp')
    BY <1>1, <1>9 DEF ControllerStops, ControllerChanges, callerVars
  <2>2. QED
    BY <2>1 DEF WindInv, WindDownIsNotAWake, Winding
<1>10. CASE ControllerWakes
  <2>1. wokeUp'
    BY <1>10 DEF ControllerWakes, ControllerChanges
  <2>2. QED
    BY <2>1 DEF WindInv, WindDownIsNotAWake, Winding
<1>11. CASE Tick
  BY <1>11, TickWind
<1>12. CASE UNCHANGED vars
  <2>1. /\ UNCHANGED <<suppressed, wokeUp, regime, ended>> /\ UNCHANGED windVars
        /\ UNCHANGED <<untilAd, missed>>
    BY <1>12 DEF vars, latchVars, stampVars, callerVars, radioVars, historyVars, windVars
  <2>2. WindowEnds /\ NoneTooSoon => WindowEnds' /\ NoneTooSoon'
    BY <2>1 DEF windVars, WindowEnds, NoneTooSoon, Age
  <2>3. FastIsSeen /\ SilenceLatches => FastIsSeen' /\ SilenceLatches'
    BY <2>1 DEF windVars, FastIsSeen, SilenceLatches, Age, Latest
  <2>4. GapsTell => GapsTell'
    BY <2>1 DEF windVars, GapsTell, Apart, Spaced, Age, Most
  <2>5. Recent => Recent'
    BY <2>1 DEF windVars, Recent, Age, Latest
  <2>6. QED
    BY <2>1, <2>2, <2>3, <2>4, <2>5 DEF WindInv, WindDown, WindDownIsNotAWake, Winding
<1>13. QED
  BY <1>2, <1>3, <1>4, <1>5, <1>6, <1>7, <1>8, <1>9, <1>10, <1>11, <1>12 DEF Next

\* While the rates tell the regimes apart, suppression ends by a wake only when
\* the controller came back to its fast rate: neither the fast advertising after
\* the release nor the slow advertising that follows it ends suppression, with
\* any pattern of duplicates and of up to MaxMissed misses in a row.
THEOREM WindDownIgnored ==
  ASSUME RatesTell
  PROVE  Spec => []WindDownIsNotAWake
<1>1. Init => WindInv
  BY InitWind
<1>2. IInv /\ WindInv /\ [Next]_vars => WindInv'
  BY NextWind
<1>3. WindInv => WindDownIsNotAWake
  BY DEF WindInv
<1>4. QED
  BY <1>1, <1>2, <1>3, Inductive, PTL DEF Spec

=============================================================================
