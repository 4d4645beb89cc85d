----------------------------- MODULE InputState ------------------------------
(***************************************************************************)
(* What the rider holds: class InputState of                               *)
(* src/components/zwift_ride_hid/input_state.{h,cpp}.  A packet of the     *)
(* controller is a snapshot of its buttons and of some of its levers; a    *)
(* lever counts as pulled to one side from the press threshold on and      *)
(* until it is back within the release threshold.                          *)
(***************************************************************************)
EXTENDS Integers

CONSTANTS PressThreshold, ReleaseThreshold

\* set_thresholds refuses everything else.
ASSUME ThresholdAssumption ==
  /\ PressThreshold \in Nat /\ ReleaseThreshold \in Nat
  /\ PressThreshold > ReleaseThreshold

VARIABLES
  active,      \* active_actions_
  analog,      \* analog_
  analogSeen,  \* analog_seen_mask_
  turnedAt     \* for the properties: where each lever was when its action began

inputVars == <<active, analog, analogSeen, turnedAt>>

\* InputAction, the digital ones in the order of kDigitalBindings.
DigitalActions ==
  <<"DPAD_LEFT", "DPAD_UP", "DPAD_RIGHT", "DPAD_DOWN",
    "BUTTON_A", "BUTTON_B", "BUTTON_Y", "BUTTON_Z",
    "LEFT_SIDE_UPPER", "LEFT_SIDE_MIDDLE", "LEFT_SIDE_LOWER", "LEFT_POWER",
    "RIGHT_SIDE_UPPER", "RIGHT_SIDE_MIDDLE", "RIGHT_SIDE_LOWER", "RIGHT_POWER">>

Channels == 0..3
Levers == {0, 1}
Negative == [c \in Levers |-> IF c = 0 THEN "LEFT_LEVER_NEGATIVE" ELSE "RIGHT_LEVER_NEGATIVE"]
Positive == [c \in Levers |-> IF c = 0 THEN "LEFT_LEVER_POSITIVE" ELSE "RIGHT_LEVER_POSITIVE"]

Digital == {DigitalActions[i] : i \in 1..16}
AnalogActions == {Negative[c] : c \in Levers} \union {Positive[c] : c \in Levers}
Actions == Digital \union AnalogActions

\* A decoded packet: the buttons pressed, and the channels it tells of.
PacketsWith(present) == [pressed : SUBSET Digital, analog : [present -> Int]]

InputTypeOK ==
  /\ active \subseteq Actions
  /\ analog \in [Channels -> Int]
  /\ analogSeen \subseteq Channels
  /\ turnedAt \in [Levers -> Int]

InputInit ==
  /\ active = {}
  /\ analog = [c \in Channels |-> 0]
  /\ analogSeen = {}
  /\ turnedAt = [c \in Levers |-> 0]

\* Mutant: no hysteresis on the way back.
StaysNegativeAbrupt(actions, c, value) == Negative[c] \in actions /\ value <= -PressThreshold

StaysNegative(actions, c, value) == Negative[c] \in actions /\ value < -ReleaseThreshold
StaysPositive(actions, c, value) == Positive[c] \in actions /\ value > ReleaseThreshold

\* Mutant: a side is taken although the other one is still held.
UpdateLeverBoth(actions, c, value) ==
  (actions \ {Negative[c], Positive[c]})
    \union {a \in {Negative[c]} : StaysNegative(actions, c, value) \/ value <= -PressThreshold}
    \union {a \in {Positive[c]} : Positive[c] \in actions \/ value >= PressThreshold}

\* update_lever_
UpdateLever(actions, c, value) ==
  LET negative == StaysNegative(actions, c, value)
      positive == StaysPositive(actions, c, value)
      free == ~negative /\ ~positive
  IN (actions \ {Negative[c], Positive[c]})
       \union {a \in {Negative[c]} : negative \/ (free /\ value <= -PressThreshold)}
       \union {a \in {Positive[c]} : positive \/ (free /\ value >= PressThreshold)}

\* The actions after a packet: its buttons, and the levers, of which those that
\* it does not tell of stay as they are.
NextActions(actions, packet) ==
  LET lever(s, c) == IF c \in DOMAIN packet.analog THEN UpdateLever(s, c, packet.analog[c])
                     ELSE s
  IN lever(lever((actions \intersect AnalogActions) \union packet.pressed, 0), 1)

\* apply
Apply(packet) ==
  /\ active' = NextActions(active, packet)
  /\ analog' = [c \in Channels |-> IF c \in DOMAIN packet.analog THEN packet.analog[c]
                                   ELSE analog[c]]
  /\ analogSeen' = analogSeen \union DOMAIN packet.analog
  /\ turnedAt' = [c \in Levers |->
                    IF \E a \in {Negative[c], Positive[c]} : a \in active' /\ a \notin active
                    THEN analog'[c] ELSE turnedAt[c]]

\* release_all
ReleaseAllInputs ==
  /\ active' = {}
  /\ analog' = [c \in Channels |-> 0]
  /\ analogSeen' = {}
  /\ UNCHANGED turnedAt

InputNext ==
  \/ ReleaseAllInputs
  \/ \E present \in SUBSET Channels : \E packet \in PacketsWith(present) : Apply(packet)

InputSpec == InputInit /\ [][InputNext]_inputVars

-----------------------------------------------------------------------------
(* Properties.                                                             *)

\* The levers' actions follow the last values told of them, across packets that
\* omit a lever, jumps from one side to the other and releases of everything:
\* never both sides, none without its side, and none missing beyond the threshold.
LeversFollow ==
  \A c \in Levers :
    /\ ~(Negative[c] \in active /\ Positive[c] \in active)
    /\ Negative[c] \in active => c \in analogSeen /\ analog[c] < -ReleaseThreshold
    /\ Positive[c] \in active => c \in analogSeen /\ analog[c] > ReleaseThreshold
    /\ c \in analogSeen /\ analog[c] <= -PressThreshold => Negative[c] \in active
    /\ c \in analogSeen /\ analog[c] >= PressThreshold => Positive[c] \in active

Distance(a, b) == IF a >= b THEN a - b ELSE b - a

\* No chatter: an action of a lever ends only after the lever moved, from where it
\* was when the action began, by the whole distance between the two thresholds.
NoChatter ==
  [][\A c \in Levers : \A a \in {Negative[c], Positive[c]} :
       a \in active /\ a \notin active' =>
         Distance(analog'[c], turnedAt[c]) >= PressThreshold - ReleaseThreshold]_inputVars

=============================================================================
