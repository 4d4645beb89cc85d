-------------------------- MODULE InputStateProofs ---------------------------
(***************************************************************************)
(* Proofs about InputState, Keymap and RideInput for every pair of         *)
(* thresholds that set_thresholds accepts, every integer a lever can be    *)
(* told to be at, every keymap and every decoder of packets.               *)
(*                                                                         *)
(* A lever keeps an action from where its value is at least as far out as  *)
(* the press threshold (turnedAt) to within the release threshold.         *)
(*                                                                         *)
(* A report is built by a loop over the actions, so that what it holds is  *)
(* shown by induction over the actions already looked at, with the set of  *)
(* those numbers that are good as what the induction is about.             *)
(***************************************************************************)
EXTENDS RideInput, FiniteSetTheorems, NaturalsInduction, SequenceTheorems,
        TLAPS

\* Where a lever's action began is as far out as the press threshold.
BeganBeyond ==
  \A c \in Levers :
    /\ Negative[c] \in active => turnedAt[c] <= -PressThreshold
    /\ Positive[c] \in active => turnedAt[c] >= PressThreshold

IInv == InputTypeOK /\ LeversFollow /\ BeganBeyond

-----------------------------------------------------------------------------
(* The actions of the levers.                                              *)

LEMMA LeverNames ==
  /\ Negative[0] = "LEFT_LEVER_NEGATIVE" /\ Negative[1] = "RIGHT_LEVER_NEGATIVE"
  /\ Positive[0] = "LEFT_LEVER_POSITIVE" /\ Positive[1] = "RIGHT_LEVER_POSITIVE"
  /\ \A c \in Levers : Negative[c] \in AnalogActions /\ Positive[c] \in AnalogActions
  /\ AnalogActions = {Negative[0], Negative[1], Positive[0], Positive[1]}
BY DEF Negative, Positive, Levers, AnalogActions

LEMMA LeversAreNotButtons == \A a \in Digital : a \notin AnalogActions
<1> SUFFICES ASSUME NEW i \in 1..16 PROVE DigitalActions[i] \notin AnalogActions
  BY DEF Digital
<1>1. DigitalActions[i] \notin {"LEFT_LEVER_NEGATIVE", "RIGHT_LEVER_NEGATIVE",
                                "LEFT_LEVER_POSITIVE", "RIGHT_LEVER_POSITIVE"}
  BY DEF DigitalActions
<1> QED BY <1>1, LeverNames

\* What update_lever_ makes of the actions of its lever, and of no other.
LEMMA OneLever ==
  ASSUME NEW actions, NEW c \in Levers, NEW v \in Int
  PROVE  LET u == UpdateLever(actions, c, v)
             free == ~StaysNegative(actions, c, v) /\ ~StaysPositive(actions, c, v)
         IN /\ Negative[c] \in u <=>
                 StaysNegative(actions, c, v) \/ (free /\ v <= -PressThreshold)
            /\ Positive[c] \in u <=>
                 StaysPositive(actions, c, v) \/ (free /\ v >= PressThreshold)
            /\ \A a : a \notin {Negative[c], Positive[c]} => (a \in u <=> a \in actions)
<1>1. Negative[c] # Positive[c]
  BY LeverNames DEF Levers
<1> QED BY <1>1 DEF UpdateLever

\* What a packet makes of a lever.
LEMMA NextLever ==
  ASSUME NEW packet, NEW present \in SUBSET Channels, packet \in PacketsWith(present),
         active \subseteq Actions, NEW c \in Levers
  PROVE  LET n == NextActions(active, packet)
             v == packet.analog[c]
             free == ~StaysNegative(active, c, v) /\ ~StaysPositive(active, c, v)
         IN /\ n \subseteq Actions
            /\ c \in present =>
                 /\ v \in Int
                 /\ Negative[c] \in n <=>
                      StaysNegative(active, c, v) \/ (free /\ v <= -PressThreshold)
                 /\ Positive[c] \in n <=>
                      StaysPositive(active, c, v) \/ (free /\ v >= PressThreshold)
            /\ c \notin present =>
                 /\ Negative[c] \in n <=> Negative[c] \in active
                 /\ Positive[c] \in n <=> Positive[c] \in active
<1> DEFINE s0 == (active \intersect AnalogActions) \union packet.pressed
           s1 == IF 0 \in present THEN UpdateLever(s0, 0, packet.analog[0]) ELSE s0
           s2 == IF 1 \in present THEN UpdateLever(s1, 1, packet.analog[1]) ELSE s1
<1>1. /\ packet.pressed \subseteq Digital /\ packet.analog \in [present -> Int]
      /\ DOMAIN packet.analog = present
  BY DEF PacketsWith
<1>2. \A a \in AnalogActions : a \in s0 <=> a \in active
  BY <1>1, LeversAreNotButtons
<1>3. s0 \subseteq Actions
  BY <1>1 DEF Actions
<1>4. NextActions(active, packet) = s2
  BY <1>1 DEF NextActions
<1> HIDE DEF s0
<1>5. \A d \in Levers, t \in SUBSET Actions : d \in present =>
        UpdateLever(t, d, packet.analog[d]) \subseteq Actions
  BY LeverNames DEF UpdateLever, Actions
<1>6. s1 \subseteq Actions
  BY <1>3, <1>5 DEF Levers
<1>7. CASE c = 0
  <2>1. Negative[0] \notin {Negative[1], Positive[1]} /\ Positive[0] \notin {Negative[1], Positive[1]}
    BY LeverNames
  <2>2. /\ Negative[0] \in s2 <=> Negative[0] \in s1
        /\ Positive[0] \in s2 <=> Positive[0] \in s1
    <3> HIDE DEF s1
    <3>1. 1 \in present => packet.analog[1] \in Int
      BY <1>1
    <3> QED BY <2>1, <3>1, OneLever DEF Levers
  <2>3. CASE 0 \in present
    <3>1. packet.analog[0] \in Int /\ s1 = UpdateLever(s0, 0, packet.analog[0])
      BY <1>1, <2>3
    <3>2. /\ Negative[0] \in s0 <=> Negative[0] \in active
          /\ Positive[0] \in s0 <=> Positive[0] \in active
      BY <1>2, LeverNames DEF Levers
    <3>3. s2 \subseteq Actions
      BY <1>5, <1>6 DEF Levers
    <3> DEFINE v == packet.analog[0]
    <3>4. LET free == ~StaysNegative(s0, 0, v) /\ ~StaysPositive(s0, 0, v)
          IN /\ Negative[0] \in s1 <=>
                  StaysNegative(s0, 0, v) \/ (free /\ v <= -PressThreshold)
             /\ Positive[0] \in s1 <=>
                  StaysPositive(s0, 0, v) \/ (free /\ v >= PressThreshold)
      <4> HIDE DEF s1
      <4> QED BY <3>1, OneLever DEF Levers
    <3>5. /\ StaysNegative(s0, 0, v) <=> StaysNegative(active, 0, v)
          /\ StaysPositive(s0, 0, v) <=> StaysPositive(active, 0, v)
      BY <3>2 DEF StaysNegative, StaysPositive
    <3> HIDE DEF s1, s2
    <3> QED
      BY <1>4, <1>7, <2>2, <2>3, <3>1, <3>3, <3>4, <3>5
  <2>4. CASE 0 \notin present
    <3>1. s1 = s0
      BY <2>4
    <3>2. /\ Negative[0] \in s0 <=> Negative[0] \in active
          /\ Positive[0] \in s0 <=> Positive[0] \in active
      BY <1>2, LeverNames DEF Levers
    <3>3. s2 \subseteq Actions
      BY <1>5, <1>6 DEF Levers
    <3> HIDE DEF s1, s2
    <3> QED BY <1>4, <1>7, <2>2, <2>4, <3>1, <3>2, <3>3
  <2> QED BY <2>3, <2>4
<1>8. CASE c = 1
  <2>1. Negative[1] \notin {Negative[0], Positive[0]} /\ Positive[1] \notin {Negative[0], Positive[0]}
    BY LeverNames
  <2>2. /\ Negative[1] \in s1 <=> Negative[1] \in s0
        /\ Positive[1] \in s1 <=> Positive[1] \in s0
    <3>1. 0 \in present => packet.analog[0] \in Int
      BY <1>1
    <3> QED BY <2>1, <3>1, OneLever DEF Levers
  <2>3. /\ Negative[1] \in s0 <=> Negative[1] \in active
        /\ Positive[1] \in s0 <=> Positive[1] \in active
    BY <1>2, LeverNames DEF Levers
  <2>4. s2 \subseteq Actions
    BY <1>5, <1>6 DEF Levers
  <2>5. CASE 1 \in present
    <3> DEFINE v == packet.analog[1]
    <3>1. v \in Int /\ s2 = UpdateLever(s1, 1, v)
      BY <1>1, <2>5
    <3> HIDE DEF s1, s2
    <3>2. LET free == ~StaysNegative(s1, 1, v) /\ ~StaysPositive(s1, 1, v)
          IN /\ Negative[1] \in s2 <=>
                  StaysNegative(s1, 1, v) \/ (free /\ v <= -PressThreshold)
             /\ Positive[1] \in s2 <=>
                  StaysPositive(s1, 1, v) \/ (free /\ v >= PressThreshold)
      <4> HIDE DEF v
      <4>1. 1 \in Levers
        BY DEF Levers
      <4> QED BY <3>1, <4>1, OneLever
    <3>3. /\ StaysNegative(s1, 1, v) <=> StaysNegative(active, 1, v)
          /\ StaysPositive(s1, 1, v) <=> StaysPositive(active, 1, v)
      BY <2>2, <2>3 DEF StaysNegative, StaysPositive
    <3> QED BY <1>4, <1>8, <2>4, <2>5, <3>1, <3>2, <3>3
  <2>6. CASE 1 \notin present
    <3>1. s2 = s1
      BY <2>6
    <3> HIDE DEF s1, s2
    <3> QED BY <1>4, <1>8, <2>2, <2>3, <2>4, <2>6, <3>1
  <2> QED BY <2>5, <2>6
<1> QED BY <1>7, <1>8 DEF Levers

-----------------------------------------------------------------------------
(* The invariant.                                                          *)

LEMMA InitInv == InputInit => IInv
BY ThresholdAssumption
DEF InputInit, IInv, InputTypeOK, LeversFollow, BeganBeyond, Channels, Levers

\* What a packet makes of a lever's value and of its actions, with the facts of the
\* invariant about that lever.
LEMMA ApplyLever ==
  ASSUME IInv, NEW present \in SUBSET Channels, NEW packet \in PacketsWith(present),
         Apply(packet), NEW c \in Levers
  PROVE  /\ active' \subseteq Actions
         /\ c \in analogSeen' <=> c \in analogSeen \/ c \in present
         /\ c \notin present =>
              /\ analog'[c] = analog[c] /\ turnedAt'[c] = turnedAt[c]
              /\ Negative[c] \in active' <=> Negative[c] \in active
              /\ Positive[c] \in active' <=> Positive[c] \in active
         /\ c \in present =>
              LET v == analog'[c]
                  free == ~StaysNegative(active, c, v) /\ ~StaysPositive(active, c, v)
              IN /\ v \in Int
                 /\ Negative[c] \in active' <=>
                      StaysNegative(active, c, v) \/ (free /\ v <= -PressThreshold)
                 /\ Positive[c] \in active' <=>
                      StaysPositive(active, c, v) \/ (free /\ v >= PressThreshold)
                 /\ turnedAt'[c] = IF \E a \in {Negative[c], Positive[c]} :
                                        a \in active' /\ a \notin active
                                   THEN v ELSE turnedAt[c]
<1>1. /\ packet.analog \in [present -> Int] /\ DOMAIN packet.analog = present
      /\ c \in Channels
  BY DEF PacketsWith, Levers, Channels
<1>2. /\ active' = NextActions(active, packet)
      /\ analog'[c] = IF c \in present THEN packet.analog[c] ELSE analog[c]
      /\ analogSeen' = analogSeen \union present
      /\ turnedAt'[c] = IF \E a \in {Negative[c], Positive[c]} : a \in active' /\ a \notin active
                        THEN analog'[c] ELSE turnedAt[c]
  BY <1>1 DEF Apply
<1>3. active \subseteq Actions
  BY DEF IInv, InputTypeOK
<1> QED BY <1>1, <1>2, <1>3, NextLever

LEMMA ApplyType ==
  ASSUME IInv, NEW present \in SUBSET Channels, NEW packet \in PacketsWith(present),
         Apply(packet)
  PROVE  InputTypeOK'
<1>1. active' \subseteq Actions
  BY ApplyLever DEF Levers
<1>2. packet.analog \in [present -> Int] /\ DOMAIN packet.analog = present
  BY DEF PacketsWith
<1>3. analog' \in [Channels -> Int]
  BY <1>2 DEF Apply, IInv, InputTypeOK
<1>4. turnedAt' \in [Levers -> Int]
  BY <1>3 DEF Apply, IInv, InputTypeOK, Levers, Channels
<1> QED BY <1>1, <1>2, <1>3, <1>4 DEF InputTypeOK, Apply, IInv

LEMMA ApplyInv ==
  ASSUME IInv, NEW present \in SUBSET Channels, NEW packet \in PacketsWith(present),
         Apply(packet)
  PROVE  IInv'
<1>1. InputTypeOK'
  BY ApplyType
<1>2. SUFFICES ASSUME NEW c \in Levers
      PROVE /\ ~(Negative[c] \in active' /\ Positive[c] \in active')
            /\ Negative[c] \in active' => c \in analogSeen' /\ analog'[c] < -ReleaseThreshold
            /\ Positive[c] \in active' => c \in analogSeen' /\ analog'[c] > ReleaseThreshold
            /\ c \in analogSeen' /\ analog'[c] <= -PressThreshold => Negative[c] \in active'
            /\ c \in analogSeen' /\ analog'[c] >= PressThreshold => Positive[c] \in active'
            /\ Negative[c] \in active' => turnedAt'[c] <= -PressThreshold
            /\ Positive[c] \in active' => turnedAt'[c] >= PressThreshold
  BY <1>1 DEF IInv, LeversFollow, BeganBeyond
<1>3. /\ analog[c] \in Int /\ turnedAt[c] \in Int /\ c \in Channels
      /\ PressThreshold \in Int /\ ReleaseThreshold \in Int
      /\ PressThreshold > ReleaseThreshold /\ ReleaseThreshold >= 0
  BY ThresholdAssumption DEF IInv, InputTypeOK, Levers, Channels
<1>4. /\ ~(Negative[c] \in active /\ Positive[c] \in active)
      /\ Negative[c] \in active => c \in analogSeen /\ analog[c] < -ReleaseThreshold
      /\ Positive[c] \in active => c \in analogSeen /\ analog[c] > ReleaseThreshold
      /\ c \in analogSeen /\ analog[c] <= -PressThreshold => Negative[c] \in active
      /\ c \in analogSeen /\ analog[c] >= PressThreshold => Positive[c] \in active
      /\ Negative[c] \in active => turnedAt[c] <= -PressThreshold
      /\ Positive[c] \in active => turnedAt[c] >= PressThreshold
  BY DEF IInv, LeversFollow, BeganBeyond
<1>5. CASE c \notin present
  BY <1>3, <1>4, <1>5, ApplyLever
<1>6. CASE c \in present
  <2> DEFINE v == analog'[c]
  <2>1. /\ v \in Int /\ c \in analogSeen'
        /\ LET free == ~StaysNegative(active, c, v) /\ ~StaysPositive(active, c, v)
           IN /\ Negative[c] \in active' <=>
                   StaysNegative(active, c, v) \/ (free /\ v <= -PressThreshold)
              /\ Positive[c] \in active' <=>
                   StaysPositive(active, c, v) \/ (free /\ v >= PressThreshold)
        /\ turnedAt'[c] = IF \E a \in {Negative[c], Positive[c]} :
                               a \in active' /\ a \notin active
                          THEN v ELSE turnedAt[c]
    BY <1>6, ApplyLever
  <2> QED BY <1>3, <1>4, <2>1 DEF StaysNegative, StaysPositive
<1> QED BY <1>5, <1>6

LEMMA StepInv == IInv /\ [InputNext]_inputVars => IInv'
<1> SUFFICES ASSUME IInv, [InputNext]_inputVars PROVE IInv'
  OBVIOUS
<1>1. CASE ReleaseAllInputs
  BY <1>1, ThresholdAssumption
  DEF ReleaseAllInputs, IInv, InputTypeOK, LeversFollow, BeganBeyond, Channels, Levers
<1>2. CASE \E present \in SUBSET Channels : \E packet \in PacketsWith(present) : Apply(packet)
  BY <1>2, ApplyInv
<1>3. CASE UNCHANGED inputVars
  BY <1>3 DEF inputVars, IInv, InputTypeOK, LeversFollow, BeganBeyond
<1> QED BY <1>1, <1>2, <1>3 DEF InputNext

LEMMA Invariance == InputSpec => []IInv
BY InitInv, StepInv, PTL DEF InputSpec

-----------------------------------------------------------------------------
(* The theorems.                                                           *)

\* Every packet keeps the types, however few channels it tells of.
THEOREM TypeCorrect == InputSpec => []InputTypeOK
<1>1. IInv => InputTypeOK
  BY DEF IInv
<1> QED BY <1>1, Invariance, PTL

\* update_lever_ never leaves both sides of a lever held, nor one that the lever's
\* value does not bear out.
THEOREM Followed == InputSpec => []LeversFollow
<1>1. IInv => LeversFollow
  BY DEF IInv
<1> QED BY <1>1, Invariance, PTL

LEMMA LetGoFar ==
  ASSUME IInv, [InputNext]_inputVars, NEW c \in Levers, NEW a \in {Negative[c], Positive[c]},
         a \in active, a \notin active'
  PROVE  Distance(analog'[c], turnedAt[c]) >= PressThreshold - ReleaseThreshold
<1>1. /\ turnedAt[c] \in Int /\ c \in Channels
      /\ PressThreshold \in Int /\ ReleaseThreshold \in Int
      /\ PressThreshold > ReleaseThreshold /\ ReleaseThreshold >= 0
      /\ a = Negative[c] => turnedAt[c] <= -PressThreshold
      /\ a = Positive[c] => turnedAt[c] >= PressThreshold
  BY ThresholdAssumption DEF IInv, InputTypeOK, BeganBeyond, Levers, Channels
<1>2. CASE ReleaseAllInputs
  <2>1. analog'[c] = 0
    BY <1>1, <1>2 DEF ReleaseAllInputs
  <2> QED BY <1>1, <2>1 DEF Distance
<1>3. CASE \E present \in SUBSET Channels : \E packet \in PacketsWith(present) : Apply(packet)
  <2>1. PICK present \in SUBSET Channels : \E packet \in PacketsWith(present) : Apply(packet)
    BY <1>3
  <2>2. PICK packet \in PacketsWith(present) : Apply(packet)
    BY <2>1
  <2>3. c \in present
    BY <2>2, ApplyLever
  <2>4. /\ analog'[c] \in Int
        /\ a = Negative[c] => ~StaysNegative(active, c, analog'[c])
        /\ a = Positive[c] => ~StaysPositive(active, c, analog'[c])
    BY <2>2, <2>3, ApplyLever
  <2>5. /\ a = Negative[c] => analog'[c] >= -ReleaseThreshold
        /\ a = Positive[c] => analog'[c] <= ReleaseThreshold
    BY <1>1, <2>4 DEF StaysNegative, StaysPositive
  <2> QED BY <1>1, <2>4, <2>5 DEF Distance
<1>4. CASE UNCHANGED inputVars
  BY <1>4 DEF inputVars
<1> QED BY <1>2, <1>3, <1>4 DEF InputNext

\* A lever never lets go near where it took hold: a value that wavers about one of
\* the thresholds presses and releases nothing.
THEOREM Steady == InputSpec => NoChatter
<1>1. IInv /\ [InputNext]_inputVars =>
        [\A c \in Levers : \A a \in {Negative[c], Positive[c]} :
           a \in active /\ a \notin active' =>
             Distance(analog'[c], turnedAt[c]) >= PressThreshold - ReleaseThreshold]_inputVars
  BY LetGoFar
<1> QED BY <1>1, Invariance, PTL DEF InputSpec, NoChatter

-----------------------------------------------------------------------------
(* The report: build_keyboard_report, for every keymap.                    *)

\* Induction over the numbers, for a set of them, by the least one that is not in it.
LEMMA LeastNumber ==
  ASSUME NEW T, T \subseteq Nat, T # {}
  PROVE  \E x \in T : \A y \in T : ~(y < x)
<1>1. PICK x \in T : \A y \in T : ~(<<y, x>> \in OpToRel(<, Nat))
  BY NatLessThanWellFounded, WFMin, Zenon
<1>2. \A y \in T : ~(y < x)
  BY <1>1, Zenon DEF OpToRel
<1> QED BY <1>2

LEMMA Induction ==
  ASSUME NEW S, 0 \in S, \A n \in Nat : n \in S => n + 1 \in S
  PROVE  \A n \in Nat : n \in S
<1> DEFINE T == Nat \ S
<1> SUFFICES ASSUME T # {} PROVE FALSE
  OBVIOUS
<1>1. T \subseteq Nat
  OBVIOUS
<1>2. PICK x \in T : \A y \in T : ~(y < x)
  BY <1>1, LeastNumber
<1>3. x # 0 /\ x - 1 \in Nat /\ x - 1 \notin T
  BY <1>2
<1> QED BY <1>3

\* The loop over the actions ends, and each turn starts from what the one before left.
LEMMA LoopTurns ==
  ASSUME NEW actions, NEW keymap
  PROVE  \E built :
           /\ built[0] = EmptyReport
           /\ \A n \in 1..20 : built[n] = AddAction(built[n - 1], ActionOrder[n], actions, keymap)
           /\ BuildKeyboardReport(actions, keymap) = built[20]
<1> DEFINE Turn(f, n) == IF n = 0 THEN EmptyReport
                         ELSE AddAction(f[n - 1], ActionOrder[n], actions, keymap)
           Turns(f, m) == f = [n \in 0..m |-> Turn(f, n)]
           S == {m \in Nat : \E f : Turns(f, m)}
<1>1. 0 \in S
  <2> DEFINE f == [n \in 0..0 |-> EmptyReport]
  <2>1. Turns(f, 0)
    OBVIOUS
  <2> QED BY <2>1
<1>2. ASSUME NEW m \in Nat, m \in S PROVE m + 1 \in S
  <2>1. PICK f : Turns(f, m)
    BY <1>2
  <2> DEFINE g == [n \in 0..(m + 1) |-> IF n \in 0..m THEN f[n] ELSE Turn(f, n)]
  <2>2. \A n \in 0..m : f[n] = Turn(f, n)
    BY <2>1
  <2>3. ASSUME NEW n \in 0..(m + 1) PROVE g[n] = Turn(g, n)
    <3>1. g[n] = Turn(f, n)
      BY <2>2
    <3>2. n # 0 => n - 1 \in 0..m /\ n - 1 \in 0..(m + 1)
      OBVIOUS
    <3>3. n # 0 => g[n - 1] = f[n - 1]
      BY <3>2
    <3> QED BY <3>1, <3>3
  <2>4. Turns(g, m + 1)
    BY <2>3
  <2>5. \E h : Turns(h, m + 1)
    <3> HIDE DEF g, Turns
    <3> QED BY <2>4
  <2> QED
    <3> HIDE DEF Turns
    <3> QED BY <2>5
<1>3. 20 \in S
  <2> HIDE DEF S
  <2> QED BY <1>1, <1>2, Induction
<1>4. PICK f : Turns(f, 20)
  BY <1>3
<1> DEFINE built == CHOOSE h : Turns(h, 20)
<1>5. Turns(built, 20)
  BY <1>4
<1>6. BuildKeyboardReport(actions, keymap) = built[20]
  BY DEF BuildKeyboardReport
<1>7. \A n \in 0..20 : built[n] = Turn(built, n)
  <2> HIDE DEF built
  <2> QED BY <1>5
<1>8. /\ built[0] = EmptyReport
      /\ \A n \in 1..20 : built[n] = AddAction(built[n - 1], ActionOrder[n], actions, keymap)
  <2> HIDE DEF built
  <2> QED BY <1>7
<1> QED BY <1>6, <1>8

\* The twenty actions are in the order, all of them.
LEMMA OrderCovers == Actions = {ActionOrder[i] : i \in 1..20}
<1> DEFINE levers == <<Negative[0], Positive[0], Negative[1], Positive[1]>>
           D == DigitalActions
           A == Actions
<1>1. Len(D) = 16 /\ Len(levers) = 4
  BY DEF DigitalActions
<1>2. D \in Seq(A)
  <2>1. /\ D[1] \in A /\ D[2] \in A /\ D[3] \in A /\ D[4] \in A
        /\ D[5] \in A /\ D[6] \in A /\ D[7] \in A /\ D[8] \in A
        /\ D[9] \in A /\ D[10] \in A /\ D[11] \in A /\ D[12] \in A
        /\ D[13] \in A /\ D[14] \in A /\ D[15] \in A /\ D[16] \in A
    BY DEF Actions, Digital
  <2> HIDE DEF A
  <2> QED BY <2>1 DEF DigitalActions
<1>3. levers \in Seq(A)
  <2>1. /\ Negative[0] \in A /\ Positive[0] \in A
        /\ Negative[1] \in A /\ Positive[1] \in A
    BY LeverNames DEF Actions
  <2> HIDE DEF A
  <2> QED BY <2>1
<1>4. \A i \in 1..20 : ActionOrder[i] = IF i <= 16 THEN D[i] ELSE levers[i - 16]
  <2> HIDE DEF D, levers, A
  <2>1. ActionOrder = D \o levers
    BY DEF ActionOrder, D, levers
  <2>2. \A i \in 1..(Len(D) + Len(levers)) :
          (D \o levers)[i] = IF i <= Len(D) THEN D[i] ELSE levers[i - Len(D)]
    BY <1>2, <1>3, ConcatProperties, Zenon
  <2>3. Len(D) + Len(levers) = 20 /\ Len(D) = 16
    BY <1>1
  <2> QED BY <2>1, <2>2, <2>3, Zenon
<1>5. Digital = {ActionOrder[i] : i \in 1..16}
  BY <1>4 DEF Digital
<1>6. AnalogActions = {ActionOrder[i] : i \in 17..20}
  <2>1. /\ ActionOrder[17] = Negative[0] /\ ActionOrder[18] = Positive[0]
        /\ ActionOrder[19] = Negative[1] /\ ActionOrder[20] = Positive[1]
    BY <1>4
  <2>2. \A i : i \in 17..20 <=> i \in {17, 18, 19, 20}
    OBVIOUS
  <2>3. {ActionOrder[i] : i \in 17..20}
          = {ActionOrder[17], ActionOrder[18], ActionOrder[19], ActionOrder[20]}
    BY <2>2
  <2> QED BY <2>1, <2>3, LeverNames
<1>7. \A i : i \in 1..20 <=> i \in 1..16 \/ i \in 17..20
  OBVIOUS
<1> QED BY <1>5, <1>6, <1>7 DEF Actions

\* What the loop keeps of a report, with the usages V of a keymap.
IsReport(r, V) ==
  \E m \in SUBSET Modifiers : \E q \in Seq(V) : r = [modifiers |-> m, keys |-> q]

\* The usages that take a place among the keys.
KeysOf(usages) == usages \ (Modifiers \union {"NONE"})

\* Six keys that differ are not six times ErrorRollOver: a report that has it shows
\* too many of them.
LEMMA RolloverMeansTooMany ==
  ASSUME NEW r, NEW U, IsFiniteSet(U), Shows(r, U), r.keys = ErrorRollover
  PROVE  Cardinality(KeysOf(U)) > KeyCount
<1>1. Range(ErrorRollover) = {"ERROR_ROLLOVER"} /\ Len(ErrorRollover) = 6
  BY DEF Range, ErrorRollover, KeyCount
<1>2. Cardinality({"ERROR_ROLLOVER"}) = 1
  BY FS_Singleton
<1> QED BY <1>1, <1>2 DEF Shows, KeysOf

\* One more key.
LEMMA AddKeyShows ==
  ASSUME NEW V, "ERROR_ROLLOVER" \in V, NEW k \in V, k \notin Modifiers, k # "NONE",
         NEW r, NEW U, IsFiniteSet(U), IsReport(r, V), Shows(r, U)
  PROVE  IsReport(AddKey(r, k), V) /\ Shows(AddKey(r, k), U \union {k})
<1> DEFINE K == KeysOf(U)
           s == AddKey(r, k)
<1>1. PICK m \in SUBSET Modifiers, q \in Seq(V) : r = [modifiers |-> m, keys |-> q]
  BY DEF IsReport
<1>2. /\ KeysOf(U \union {k}) = K \union {k}
      /\ (U \union {k}) \intersect Modifiers = m
  BY <1>1 DEF KeysOf, Shows
<1>3. IsFiniteSet(K)
  BY FS_Difference DEF KeysOf
<1>4. /\ Cardinality(K) \in Nat /\ Cardinality(K \union {k}) \in Nat
      /\ Cardinality(K \union {k}) = IF k \in K THEN Cardinality(K) ELSE Cardinality(K) + 1
  <2>1. /\ IsFiniteSet(K \union {k})
        /\ Cardinality(K \union {k}) = IF k \in K THEN Cardinality(K) ELSE Cardinality(K) + 1
    <3> HIDE DEF K
    <3> QED BY <1>3, FS_AddElement
  <2> HIDE DEF K
  <2> QED BY <1>3, <2>1, FS_CardinalityType
<1>5. IF Cardinality(K) > 6 THEN q = ErrorRollover
      ELSE Range(q) = K /\ Len(q) = Cardinality(K)
  BY <1>1 DEF Shows, KeysOf, KeyCount
<1>6. SUFFICES \E p \in Seq(V) :
        /\ s = [modifiers |-> m, keys |-> p]
        /\ IF Cardinality(K \union {k}) > 6 THEN p = ErrorRollover
           ELSE Range(p) = K \union {k} /\ Len(p) = Cardinality(K \union {k})
  <2> SUFFICES ASSUME NEW p \in Seq(V), s = [modifiers |-> m, keys |-> p],
                      IF Cardinality(K \union {k}) > 6 THEN p = ErrorRollover
                      ELSE Range(p) = K \union {k} /\ Len(p) = Cardinality(K \union {k})
               PROVE  IsReport(s, V) /\ Shows(s, U \union {k})
    OBVIOUS
  <2> HIDE DEF s, K
  <2>1. IsReport(s, V)
    BY DEF IsReport
  <2>2. s.modifiers = (U \union {k}) \intersect Modifiers /\ s.keys = p
    BY <1>2
  <2> QED BY <1>2, <2>1, <2>2 DEF Shows, KeysOf, KeyCount
<1> HIDE DEF K
<1>7. CASE q = ErrorRollover
  <2>1. Cardinality(K) > 6
    BY <1>1, <1>7, RolloverMeansTooMany DEF K, KeyCount
  <2>2. s = [modifiers |-> m, keys |-> q]
    BY <1>1, <1>7 DEF AddKey
  <2>3. Cardinality(K \union {k}) > 6
    BY <1>4, <2>1
  <2> HIDE DEF s
  <2> QED BY <1>7, <2>2, <2>3
<1>8. CASE q # ErrorRollover /\ k \in Range(q)
  <2>1. s = [modifiers |-> m, keys |-> q]
    BY <1>1, <1>8 DEF AddKey
  <2>2. ~(Cardinality(K) > 6) /\ Range(q) = K /\ Len(q) = Cardinality(K)
    BY <1>5, <1>8
  <2>3. K \union {k} = K
    BY <1>8, <2>2
  <2> HIDE DEF s
  <2> QED BY <2>1, <2>2, <2>3
<1>9. CASE q # ErrorRollover /\ k \notin Range(q) /\ Len(q) = KeyCount
  <2>1. s = [modifiers |-> m, keys |-> ErrorRollover]
    BY <1>1, <1>9 DEF AddKey
  <2>2. Cardinality(K \union {k}) = 7
    BY <1>4, <1>5, <1>9 DEF KeyCount
  <2>3. ErrorRollover \in Seq(V)
    BY DEF ErrorRollover, KeyCount
  <2> HIDE DEF s
  <2> QED BY <2>1, <2>2, <2>3
<1>10. CASE q # ErrorRollover /\ k \notin Range(q) /\ Len(q) # KeyCount
  <2> DEFINE p == Append(q, k)
  <2>1. s = [modifiers |-> m, keys |-> p]
    BY <1>1, <1>10 DEF AddKey
  <2>2. Cardinality(K \union {k}) = Len(q) + 1 /\ ~(Cardinality(K \union {k}) > 6)
    <3>1. ~(Cardinality(K) > 6) /\ Range(q) = K /\ Len(q) = Cardinality(K)
      BY <1>5, <1>10
    <3>2. Cardinality(K \union {k}) = Cardinality(K) + 1 /\ Cardinality(K) # 6
      BY <1>4, <1>10, <3>1 DEF KeyCount
    <3> QED BY <1>4, <3>1, <3>2
  <2>3. /\ p \in Seq(V) /\ Len(p) = Len(q) + 1
        /\ \A i \in 1..Len(q) : p[i] = q[i]
        /\ p[Len(q) + 1] = k
    BY <1>1
  <2>4. Range(p) = Range(q) \union {k}
    <3>1. /\ Len(q) \in Nat /\ DOMAIN q = 1..Len(q)
          /\ DOMAIN p = 1..(Len(q) + 1)
      BY <1>1, <2>3
    <3>2. \A i : i \in 1..(Len(q) + 1) <=> i \in 1..Len(q) \/ i = Len(q) + 1
      BY <3>1
    <3> HIDE DEF p
    <3> QED BY <2>3, <3>1, <3>2 DEF Range
  <2>5. Range(q) = K
    BY <1>5, <1>10
  <2> HIDE DEF s, p
  <2> QED BY <2>1, <2>2, <2>3, <2>4, <2>5
<1> QED BY <1>7, <1>8, <1>9, <1>10

\* What one action adds to the report is what it adds to the usages that are held.
LEMMA AddActionShows ==
  ASSUME NEW V, "ERROR_ROLLOVER" \in V, NEW actions, NEW keymap, NEW a, keymap[a] \in V,
         NEW r, NEW U, IsFiniteSet(U), IsReport(r, V), Shows(r, U)
  PROVE  LET s == AddAction(r, a, actions, keymap)
             W == IF a \in actions THEN U \union {keymap[a]} ELSE U
         IN IsReport(s, V) /\ Shows(s, W) /\ IsFiniteSet(W)
<1> DEFINE k == keymap[a]
           s == AddAction(r, a, actions, keymap)
<1>1. IsFiniteSet(U \union {k})
  BY FS_AddElement
<1>2. CASE a \notin actions
  BY <1>2 DEF AddAction
<1>3. CASE a \in actions /\ k = "NONE"
  <2>1. KeysOf(U \union {k}) = KeysOf(U) /\ (U \union {k}) \intersect Modifiers = U \intersect Modifiers
    BY <1>3 DEF KeysOf, Modifiers
  <2>2. s = r
    BY <1>3 DEF AddAction
  <2>3. Shows(s, U \union {k})
    <3> HIDE DEF s, k
    <3> QED BY <2>1, <2>2 DEF Shows, KeysOf
  <2> QED BY <1>1, <1>3, <2>2, <2>3
<1>4. CASE a \in actions /\ k # "NONE" /\ k \in Modifiers
  <2>1. PICK m \in SUBSET Modifiers, q \in Seq(V) : r = [modifiers |-> m, keys |-> q]
    BY DEF IsReport
  <2>2. s = [modifiers |-> m \union {k}, keys |-> q]
    BY <1>4, <2>1 DEF AddAction
  <2>3. /\ KeysOf(U \union {k}) = KeysOf(U)
        /\ (U \union {k}) \intersect Modifiers = m \union {k}
    BY <1>4, <2>1 DEF KeysOf, Shows
  <2> HIDE DEF s, k
  <2>4. IsReport(s, V)
    BY <1>4, <2>2 DEF IsReport
  <2>5. Shows(s, U \union {k})
    BY <2>1, <2>2, <2>3 DEF Shows, KeysOf
  <2> QED BY <1>1, <1>4, <2>4, <2>5 DEF s, k
<1>5. CASE a \in actions /\ k # "NONE" /\ k \notin Modifiers
  <2>1. s = AddKey(r, k)
    BY <1>5 DEF AddAction
  <2>2. IsReport(s, V) /\ Shows(s, U \union {k})
    BY <1>5, <2>1, AddKeyShows
  <2> QED BY <1>1, <1>5, <2>2
<1> QED BY <1>2, <1>3, <1>4, <1>5

\* For every keymap, whatever controls share a usage, and every set of actions, the report
\* shows the usages of the actions.
LEMMA ReportShows ==
  ASSUME NEW keymap, NEW actions, actions \subseteq Actions
  PROVE  Shows(BuildKeyboardReport(actions, keymap), {keymap[a] : a \in actions})
<1> DEFINE V == {keymap[ActionOrder[i]] : i \in 1..20} \union {"ERROR_ROLLOVER"}
           U(n) == {keymap[ActionOrder[i]] : i \in {j \in 1..n : ActionOrder[j] \in actions}}
<1>1. PICK built :
        /\ built[0] = EmptyReport
        /\ \A n \in 1..20 : built[n] = AddAction(built[n - 1], ActionOrder[n], actions, keymap)
        /\ BuildKeyboardReport(actions, keymap) = built[20]
  BY LoopTurns
<1> DEFINE Good(n) == IsReport(built[n], V) /\ Shows(built[n], U(n)) /\ IsFiniteSet(U(n))
           S == {n \in Nat : n <= 20 => Good(n)}
<1>2. 0 \in S
  <2>1. U(0) = {}
    OBVIOUS
  <2>2. IsReport(EmptyReport, V)
    <3>1. <<>> \in Seq(V) /\ {} \in SUBSET Modifiers
      OBVIOUS
    <3> HIDE DEF V
    <3> QED BY <3>1 DEF IsReport, EmptyReport
  <2>3. Shows(EmptyReport, {})
    <3>1. KeysOf({}) = {} /\ Cardinality({}) = 0
      BY FS_EmptySet DEF KeysOf
    <3>2. EmptyReport.modifiers = {} /\ EmptyReport.keys = <<>>
      BY DEF EmptyReport
    <3>3. Range(<<>>) = {} /\ Len(<<>>) = 0
      BY DEF Range
    <3> QED BY <3>1, <3>2, <3>3 DEF Shows, KeysOf, KeyCount
  <2> HIDE DEF U, V
  <2> QED BY <1>1, <2>1, <2>2, <2>3, FS_EmptySet
<1>3. ASSUME NEW n \in Nat, n \in S PROVE n + 1 \in S
  <2> SUFFICES ASSUME n + 1 <= 20 PROVE Good(n + 1)
    OBVIOUS
  <2> DEFINE a == ActionOrder[n + 1]
  <2>1. Good(n)
    BY <1>3
  <2>2. built[n + 1] = AddAction(built[n], a, actions, keymap)
    BY <1>1
  <2>3. keymap[a] \in V /\ "ERROR_ROLLOVER" \in V
    BY DEF V
  <2>4. U(n + 1) = IF a \in actions THEN U(n) \union {keymap[a]} ELSE U(n)
    <3>1. \A i : i \in 1..(n + 1) <=> i \in 1..n \/ i = n + 1
      OBVIOUS
    <3> QED BY <3>1
  <2> HIDE DEF U, V, a
  <2> DEFINE W == IF a \in actions THEN U(n) \union {keymap[a]} ELSE U(n)
  <2>5. IsReport(built[n + 1], V) /\ Shows(built[n + 1], W) /\ IsFiniteSet(W)
    <3> DEFINE s == AddAction(built[n], a, actions, keymap)
    <3>1. IsReport(s, V) /\ Shows(s, W) /\ IsFiniteSet(W)
      BY <2>1, <2>3, AddActionShows
    <3> QED BY <2>2, <3>1
  <2> QED BY <2>4, <2>5
<1>4. 20 \in S
  <2> HIDE DEF S
  <2> QED BY <1>2, <1>3, Induction
<1>5. U(20) = {keymap[a] : a \in actions}
  BY OrderCovers
<1> HIDE DEF U
<1> QED BY <1>1, <1>4, <1>5

-----------------------------------------------------------------------------
(* From frames to the report: RideInput, for any decoder of packets.       *)

LEMMA PacketTyped ==
  ASSUME NEW f \in Frames, Decoded[f].status = "OK"
  PROVE  /\ \E present \in SUBSET Channels : PacketOf(Decoded[f]) \in PacketsWith(present)
         /\ PacketOf(Decoded[f]).pressed = {DigitalActions[i + 1] : i \in Decoded[f].pressed}
         /\ PacketOf(Decoded[f]).analog = Decoded[f].analog
<1> DEFINE d == Decoded[f]
<1>1. d = Decode(f)
  BY DEF Decoded
<1>2. PICK present \in SUBSET Channels : d.analog \in [present -> Int]
  BY <1>1, DecoderAssumption
<1>3. d.pressed \subseteq 0..15
  BY <1>1, DecoderAssumption
<1> DEFINE pressed == {DigitalActions[i + 1] : i \in d.pressed}
<1>4. pressed \subseteq Digital
  <2> SUFFICES ASSUME NEW i \in d.pressed PROVE DigitalActions[i + 1] \in Digital
    OBVIOUS
  <2>1. i + 1 \in 1..16
    BY <1>3
  <2> QED BY <2>1 DEF Digital
<1>5. PacketOf(d) = [pressed |-> pressed, analog |-> d.analog]
  BY DEF PacketOf
<1> HIDE DEF d, pressed
<1>6. PacketOf(d).pressed = pressed /\ PacketOf(d).analog = d.analog
  BY <1>5
<1>7. PacketOf(d) \in PacketsWith(present)
  BY <1>2, <1>4, <1>5 DEF PacketsWith
<1>8. \E p \in SUBSET Channels : PacketOf(d) \in PacketsWith(p)
  BY <1>7
<1> QED BY <1>6, <1>8 DEF d, pressed

LEMMA StepIsInputStep == [Next]_vars => [InputNext]_inputVars
<1> SUFFICES ASSUME [Next]_vars PROVE [InputNext]_inputVars
  OBVIOUS
<1>1. CASE ReleaseAll
  BY <1>1 DEF ReleaseAll, InputNext
<1>2. CASE \E f \in Frames : Notification(f)
  <2>1. PICK f \in Frames : Notification(f)
    BY <1>2
  <2>2. Decoded[f].status = "OK" /\ Apply(PacketOf(Decoded[f]))
    BY <2>1 DEF Notification
  <2>3. PICK present \in SUBSET Channels : PacketOf(Decoded[f]) \in PacketsWith(present)
    BY <2>2, PacketTyped
  <2> QED BY <2>2, <2>3 DEF InputNext
<1>3. CASE UNCHANGED vars
  BY <1>3 DEF vars, inputVars
<1> QED BY <1>1, <1>2, <1>3 DEF Next

\* Whatever frames come, the controls that are held are those of an InputState that is
\* given packets: a frame that is not accepted does nothing to it.
THEOREM ImplementsInputState == Spec => InputSpec
<1>1. Init => InputInit
  BY DEF Init
<1> QED BY <1>1, StepIsInputStep, PTL DEF Spec, InputSpec

\* A packet leaves exactly its own buttons held.
LEMMA NextButtons ==
  ASSUME NEW present \in SUBSET Channels, NEW packet \in PacketsWith(present)
  PROVE  NextActions(active, packet) \intersect Digital = packet.pressed
<1> DEFINE s0 == (active \intersect AnalogActions) \union packet.pressed
           s1 == IF 0 \in present THEN UpdateLever(s0, 0, packet.analog[0]) ELSE s0
           s2 == IF 1 \in present THEN UpdateLever(s1, 1, packet.analog[1]) ELSE s1
<1>1. /\ packet.pressed \subseteq Digital /\ packet.analog \in [present -> Int]
      /\ DOMAIN packet.analog = present
  BY DEF PacketsWith
<1>2. NextActions(active, packet) = s2
  BY <1>1 DEF NextActions
<1> SUFFICES ASSUME NEW a \in Digital PROVE a \in s2 <=> a \in packet.pressed
  BY <1>1, <1>2
<1>3. a \notin AnalogActions
  BY LeversAreNotButtons
<1>4. \A c \in Levers : a \notin {Negative[c], Positive[c]}
  BY <1>3, LeverNames
<1>5. a \in s0 <=> a \in packet.pressed
  BY <1>3
<1>6. \A t : \A c \in Levers : c \in present =>
        (a \in UpdateLever(t, c, packet.analog[c]) <=> a \in t)
  <2> SUFFICES ASSUME NEW t, NEW c \in Levers, c \in present
               PROVE  a \in UpdateLever(t, c, packet.analog[c]) <=> a \in t
    OBVIOUS
  <2>1. packet.analog[c] \in Int
    BY <1>1
  <2> QED BY <1>4, <2>1, OneLever
<1> HIDE DEF s0
<1>7. a \in s1 <=> a \in s0
  BY <1>6 DEF Levers
<1> HIDE DEF s1
<1>8. a \in s2 <=> a \in s1
  BY <1>6 DEF Levers
<1> QED BY <1>5, <1>7, <1>8

\* The report that is to be sent shows what is held by the keymap of the setup.
ReportInStep == Shows(report, {KeymapForProfile[profile][a] : a \in active})

\* What is held is what the decoder said of the last frame.
HeldAsDecoded ==
  lastFrame # <<>> =>
    /\ lastFrame \in Frames
    /\ active \intersect Digital = {DigitalActions[i + 1] : i \in Decoded[lastFrame].pressed}
    /\ \A c \in DOMAIN Decoded[lastFrame].analog :
         c \in analogSeen /\ analog[c] = Decoded[lastFrame].analog[c]

InputInv == IInv /\ ReportInStep /\ HeldAsDecoded

LEMMA EmptyShowsNothing == \A map : Shows(EmptyReport, {map[a] : a \in {}})
<1> SUFFICES ASSUME NEW map PROVE Shows(EmptyReport, {map[a] : a \in {}})
  OBVIOUS
<1>1. {map[a] : a \in {}} = {} /\ {} \ (Modifiers \union {"NONE"}) = {}
  OBVIOUS
<1>2. Cardinality({}) = 0
  BY FS_EmptySet
<1>3. EmptyReport.modifiers = {} /\ EmptyReport.keys = <<>>
  BY DEF EmptyReport
<1>4. Range(<<>>) = {} /\ Len(<<>>) = 0
  BY DEF Range
<1>5. Shows(EmptyReport, {})
  BY <1>1, <1>2, <1>3, <1>4 DEF Shows, KeyCount
<1> QED BY <1>1, <1>5

LEMMA InputInitInv == Init => InputInv
<1> SUFFICES ASSUME Init PROVE InputInv
  OBVIOUS
<1>1. IInv
  BY InitInv DEF Init
<1>2. ReportInStep
  BY EmptyShowsNothing DEF Init, InputInit, ReportInStep
<1>3. HeldAsDecoded
  BY DEF Init, HeldAsDecoded
<1> QED BY <1>1, <1>2, <1>3 DEF InputInv

LEMMA NotificationInv ==
  ASSUME InputInv, IInv', NEW f \in Frames, Notification(f)
  PROVE  ReportInStep' /\ HeldAsDecoded'
<1> DEFINE d == Decoded[f]
           packet == PacketOf(d)
<1>1. /\ d.status = "OK" /\ Apply(packet) /\ QueueReport
      /\ lastFrame' = f /\ profile' = profile
  BY DEF Notification
<1>2. PICK present \in SUBSET Channels : packet \in PacketsWith(present)
  BY <1>1, PacketTyped
<1>3. packet.pressed = {DigitalActions[i + 1] : i \in d.pressed} /\ packet.analog = d.analog
  BY <1>1, PacketTyped
<1>4. ReportInStep'
  <2>1. CASE active' = active
    <3>1. report' = report
      BY <1>1, <2>1 DEF QueueReport
    <3> QED BY <1>1, <2>1, <3>1 DEF InputInv, ReportInStep
  <2>2. CASE active' # active
    <3>1. report' = BuildKeyboardReport(active', KeymapForProfile[profile])
      BY <1>1, <2>2 DEF QueueReport
    <3>2. active' \subseteq Actions
      BY DEF IInv, InputTypeOK
    <3>3. Shows(report', {KeymapForProfile[profile][a] : a \in active'})
      BY <3>1, <3>2, ReportShows
    <3> QED BY <1>1, <3>3 DEF ReportInStep
  <2> QED BY <2>1, <2>2
<1> HIDE DEF packet
<1>5. active' \intersect Digital = packet.pressed
  BY <1>1, <1>2, NextButtons DEF Apply
<1>6. \A c \in DOMAIN packet.analog :
        c \in analogSeen' /\ analog'[c] = packet.analog[c]
  <2>1. DOMAIN packet.analog = present
    BY <1>2 DEF PacketsWith
  <2> QED BY <1>1, <2>1 DEF Apply
<1>7. HeldAsDecoded'
  BY <1>1, <1>3, <1>5, <1>6 DEF HeldAsDecoded, Decoded
<1> QED BY <1>4, <1>7

LEMMA InputStepInv == InputInv /\ [Next]_vars => InputInv'
<1> SUFFICES ASSUME InputInv, [Next]_vars PROVE InputInv'
  OBVIOUS
<1>1. IInv'
  BY StepIsInputStep, StepInv DEF InputInv
<1>2. CASE ReleaseAll
  <2>1. active' = {} /\ report' = EmptyReport /\ profile' = profile /\ lastFrame' = <<>>
    BY <1>2 DEF ReleaseAll, ReleaseAllInputs
  <2>2. ReportInStep'
    BY <2>1, EmptyShowsNothing DEF ReportInStep
  <2> QED BY <1>1, <2>1, <2>2 DEF InputInv, HeldAsDecoded
<1>3. CASE \E f \in Frames : Notification(f)
  BY <1>1, <1>3, NotificationInv DEF InputInv
<1>4. CASE UNCHANGED vars
  BY <1>1, <1>4 DEF vars, inputVars, InputInv, ReportInStep, HeldAsDecoded, Decoded
<1> QED BY <1>2, <1>3, <1>4 DEF Next

LEMMA InputInvariance == Spec => []InputInv
BY InputInitInv, InputStepInv, PTL DEF Spec

\* build_keyboard_report shows exactly what is held, more than six keys and back, with
\* any keymap, also when it was built several packets ago.
THEOREM ReportsShown == Spec => []ReportShowsHeld
<1>1. InputInv => ReportShowsHeld
  <2> SUFFICES ASSUME InputInv PROVE ReportShowsHeld
    OBVIOUS
  <2>1. active \subseteq Actions
    BY DEF InputInv, IInv, InputTypeOK
  <2>2. \A map \in OtherMaps :
          Shows(BuildKeyboardReport(active, map), {map[a] : a \in active})
    BY <2>1, ReportShows
  <2> QED BY <2>2 DEF InputInv, ReportInStep, ReportShowsHeld
<1> QED BY <1>1, InputInvariance, PTL

\* What is held is what the last accepted frame means, if the decoder reads the frames as
\* the grammar does.
THEOREM HeldAsMeant == Misread = {} => (Spec => []HeldAsFrameMeans)
<1> SUFFICES ASSUME Misread = {} PROVE Spec => []HeldAsFrameMeans
  OBVIOUS
<1>1. InputInv => HeldAsFrameMeans
  <2>1. Meanings = Decoded
    <3>1. \A f \in Frames : Decode(f) = Means(f)
      BY DEF Misread
    <3> QED BY <3>1 DEF Meanings, Decoded
  <2> QED BY <2>1 DEF InputInv, HeldAsDecoded, HeldAsFrameMeans
<1> QED BY <1>1, InputInvariance, PTL

=============================================================================
