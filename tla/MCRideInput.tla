---------------------------- MODULE MCRideInput -----------------------------
(***************************************************************************)
(* Notifications for TLC to send to RideInput: written as a controller     *)
(* writes them, and spelled from a few bytes.                              *)
(***************************************************************************)
EXTENDS RideInput, RideProtocol, RideGrammar
LOCAL INSTANCE SequencesExt

\* A number in the least number of septets.
Varint[n \in Nat] == IF n < 128 THEN <<n>> ELSE <<128 + (n % 128)>> \o Varint[n \div 128]
Zigzag(v) == IF v < 0 THEN -2 * v - 1 ELSE 2 * v

Field(tag, bytes) == <<tag, Len(bytes)>> \o bytes
RecordBytes(c, v) == <<8>> \o Varint[c] \o <<16>> \o Varint[Zigzag(v)]

\* The buttons that are held, by their bits.
MapBytes(pressed) ==
  <<8>> \o Varint[65535 - NumberOf(pressed)]

Frame(pressed, rest) == <<35>> \o MapBytes(pressed) \o rest

\* None, one, six with and without sharing, all, a change of one within many.
MCHeld == {{}, {0}, 0..5, 0..6, 0..15, 9..15}

\* Around the thresholds, 35 and 20, on both sides, and far away.
MCLeft == {-1000000, -35, -34, -21, -20, 0, 20, 21, 34, 35, 100}
MCRight == {-35, 0, 36}

\* Buttons alone, each lever alone in either place, both in a group, unknown channels.
MCFrames ==
  {Frame(held, <<>>) : held \in MCHeld}
    \union {Frame({0}, Field(26, RecordBytes(0, v))) : v \in MCLeft}
    \union {Frame({}, Field(18, Field(10, RecordBytes(0, v)) \o Field(10, RecordBytes(1, w)))) :
              v \in {-36, 0}, w \in MCRight}
    \union {Frame({}, Field(26, RecordBytes(c, 3))) : c \in {3, 9}}

Spelled(alphabet, n) == {<<35>> \o s : s \in SeqOf(alphabet, n)}

\* Any few bytes; any few bytes for a record, behind a map and before a lever, alone or
\* in a group; nested groups; the longest numbers; the longest frames; twice the same channel.
MCOddFrames ==
  Spelled({0, 2, 8, 10, 18, 26, 35, 36, 128, 255}, 4)
    \union {<<35, 8, 0>> \o Field(26, s) \o Field(26, RecordBytes(1, 5)) :
              s \in SeqOf({0, 3, 8, 16, 131}, 5)}
    \union {<<35, 8, 0>> \o Field(18, Field(tag, s) \o Field(10, RecordBytes(1, 5))) :
              tag \in {10, 18}, s \in SeqOf({0, 2, 8, 16, 32}, 4)}
    \union Spelled({8, 35, 36, 44}, 5)
    \union {<<35, 8, 0>> \o [i \in 1..n |-> 35] \o [i \in 1..m |-> 36] : n, m \in 3..6}
    \union {<<35, 8>> \o unread \o [i \in 1..n |-> b] \o <<c>> \o rest :
              unread \in {<<>>, <<0, 32>>}, n \in {3, 4, 8, 9, 10}, b \in {128, 255}, c \in {0, 1, 2, 15, 16},
              rest \in {<<>>, <<33>>}}
    \union {<<35, 8, 0>> \o [i \in 1..n |-> b] \o <<c, 1>> :
              n \in {4, 8, 9}, b \in {128, 255}, c \in {1, 2, 15, 16}}
    \union {<<35, 8, 0, tag>> \o [i \in 1..n |-> 8] : tag \in {33, 37}, n \in 3..9}
    \union {<<35>> \o FlattenSeq([i \in 1..n |-> <<8, i % 2>>]) \o last :
              n \in {63, 64}, last \in {<<>>, <<8>>}}
    \union {<<35, 8, 0>> \o Field(26, RecordBytes(c, v) \o more) \o Field(26, RecordBytes(1, w)) :
              c \in {0, 1, 4, 200}, v \in {-1073741823, -1, 0, 1073741823}, w \in {-70, 70},
              more \in {<<>>, <<16, 255, 255, 255, 255, 15>>, <<16, 254, 255, 255, 255, 15>>}}
    \union {<<>>, <<8, 0>>, <<36>>}

\* The map of the tests with modifiers and doubled keys, and one without keys.
MCOtherMaps ==
  {[DeltaEmulatorMap EXCEPT !["DPAD_LEFT"] = "LEFT_SHIFT", !["DPAD_UP"] = "RIGHT_GUI",
                            !["BUTTON_A"] = "P", !["BUTTON_B"] = "NONE"],
   [a \in Actions |-> IF a \in AnalogActions THEN "A" ELSE "NONE"]}

=============================================================================
