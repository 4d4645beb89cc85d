---------------------------- MODULE RideProtocol -----------------------------
(***************************************************************************)
(* The controller's notifications: decode_ride_notification of             *)
(* src/components/zwift_ride_hid/ride_protocol.{h,cpp}, byte by byte.  A   *)
(* frame is a sequence of bytes; a cursor of the code is a position "at"   *)
(* in it with the position "end" to stop before.  A 64-bit value is its    *)
(* ten septets, least first, since TLC's integers have 32 bits.            *)
(***************************************************************************)
EXTENDS Integers, Sequences
LOCAL INSTANCE FiniteSetsExt
LOCAL INSTANCE TLC

RideInputCommand == 35
MaxRideNotificationLength == 128
AnalogChannels == 0..3
MaxUnknownGroupDepth == 4

Septets == 0..9
Number(n) == [i \in Septets |-> IF i = 0 THEN n ELSE 0]
FitsUint32(v) == v[4] <= 15 /\ \A i \in 5..9 : v[i] = 0
AtMostSize(v, n) == (\A i \in 2..9 : v[i] = 0) /\ v[0] + 128 * v[1] <= n

\* A read either fails or moves on, to what makes use of it.
Failed == [ok |-> FALSE]
Then(read, Use(_)) == IF read.ok THEN Use(read) ELSE Failed

\* Mutant: the tenth byte may overflow the 64 bits.
ReadVarintOverflowing(f, at, end) ==
  LET ends == {i \in Septets : at + i < end /\ f[at + i] < 128}
      n == Min(ends)
  IN IF ends = {} THEN Failed
     ELSE [ok |-> TRUE, at |-> at + n + 1,
           value |-> [i \in Septets |-> IF i <= n THEN f[at + i] % 128 ELSE 0]]

\* read_varint
ReadVarint(f, at, end) ==
  LET ends == {i \in Septets : at + i < end /\ f[at + i] < 128}
      n == Min(ends)
  IN IF ends = {} THEN Failed
     ELSE IF n = 9 /\ f[at + 9] > 1 THEN Failed
     ELSE [ok |-> TRUE, at |-> at + n + 1,
           value |-> [i \in Septets |-> IF i <= n THEN f[at + i] % 128 ELSE 0]]

\* read_tag.  The field number keeps its septets, of which the first has lost the
\* three bits of the wire type.
ReadTag(f, at, end) ==
  Then(ReadVarint(f, at, end), LAMBDA tag :
    LET field == [tag.value EXCEPT ![0] = @ \div 8]
    IN IF ~FitsUint32(tag.value) \/ field = Number(0) THEN Failed
       ELSE [ok |-> TRUE, at |-> tag.at, field |-> field, wire |-> tag.value[0] % 8])

\* A varint that has to be a uint32.
ReadUint32(f, at, end) ==
  Then(ReadVarint(f, at, end), LAMBDA v : IF FitsUint32(v.value) THEN v ELSE Failed)

\* read_slice: from there to the position after it.
ReadSlice(f, at, end) ==
  Then(ReadVarint(f, at, end), LAMBDA length :
    IF ~AtMostSize(length.value, end - length.at) THEN Failed
    ELSE [ok |-> TRUE, from |-> length.at,
          at |-> length.at + length.value[0] + 128 * length.value[1]])

RECURSIVE SkipField(_, _, _, _), SkipGroup(_, _, _, _, _)

\* The loop over a group's fields, to its end tag.
SkipGroup(f, at, end, field, depth) ==
  IF at = end THEN Failed
  ELSE Then(ReadTag(f, at, end), LAMBDA tag :
         IF tag.wire = 4
         THEN IF tag.field = field THEN [ok |-> TRUE, at |-> tag.at] ELSE Failed
         ELSE Then(SkipField(f, tag, end, depth + 1), LAMBDA skipped :
                SkipGroup(f, skipped.at, end, field, depth)))

SkipBytes(at, end, n) == IF end - at < n THEN Failed ELSE [ok |-> TRUE, at |-> at + n]

\* skip_field, behind its tag
SkipField(f, tag, end, depth) ==
  CASE tag.wire = 0 -> ReadVarint(f, tag.at, end)
    [] tag.wire = 1 -> SkipBytes(tag.at, end, 8)
    [] tag.wire = 2 -> ReadSlice(f, tag.at, end)
    [] tag.wire = 3 -> IF depth >= MaxUnknownGroupDepth THEN Failed
                       ELSE SkipGroup(f, tag.at, end, tag.field, depth)
    [] tag.wire = 5 -> SkipBytes(tag.at, end, 4)
    [] OTHER -> Failed

\* decode_zigzag32
DecodeZigzag32(v) ==
  LET half == (v[0] \div 2) + 64 * v[1] + 8192 * v[2] + 1048576 * v[3] + 134217728 * v[4]
  IN IF v[0] % 2 = 1 THEN -half - 1 ELSE half

\* What a record is made of until all of it has been read.
Missing == <<>>

RECURSIVE ReadRecord(_, _, _, _)

\* The loop of decode_analog_record; r is what it found so far.
ReadRecord(f, at, end, r) ==
  IF at = end THEN r
  ELSE Then(ReadTag(f, at, end), LAMBDA tag :
         IF tag.field \in {Number(1), Number(2)}
         THEN IF tag.wire # 0 THEN Failed
              ELSE Then(ReadUint32(f, tag.at, end), LAMBDA number :
                     ReadRecord(f, number.at, end,
                                IF tag.field = Number(1)
                                THEN [r EXCEPT !.location = number.value]
                                ELSE [r EXCEPT !.value = number.value]))
         ELSE Then(SkipField(f, tag, end, 0), LAMBDA skipped :
                ReadRecord(f, skipped.at, end, r)))

\* decode_analog_record: into packet p.  An unknown channel is ignored.
DecodeAnalogRecord(f, slice, p) ==
  Then(ReadRecord(f, slice.from, slice.at,
                  [ok |-> TRUE, location |-> Missing, value |-> Missing]), LAMBDA r :
    IF r.location = Missing \/ r.value = Missing THEN Failed
    ELSE IF \E c \in AnalogChannels : r.location = Number(c)
    THEN [p EXCEPT !.analog = (r.location[0] :> DecodeZigzag32(r.value)) @@ @]
    ELSE p)

RECURSIVE DecodeGroupedAnalog(_, _, _, _)

\* decode_grouped_analog
DecodeGroupedAnalog(f, at, end, p) ==
  IF at = end THEN p
  ELSE Then(ReadTag(f, at, end), LAMBDA tag :
         IF tag.field = Number(1)
         THEN IF tag.wire # 2 THEN Failed
              ELSE Then(ReadSlice(f, tag.at, end), LAMBDA record :
                     Then(DecodeAnalogRecord(f, record, p), LAMBDA decoded :
                       DecodeGroupedAnalog(f, record.at, end, decoded)))
         ELSE Then(SkipField(f, tag, end, 0), LAMBDA skipped :
                DecodeGroupedAnalog(f, skipped.at, end, p)))

\* pressed_buttons: a button is pressed when its bit is clear.
PressedButtons(map) ==
  {i \in 0..15 : (map[i \div 7] \div 2^(i % 7)) % 2 = 0}

RECURSIVE DecodeFields(_, _, _, _)

\* The loop of decode_ride_notification.
DecodeFields(f, at, end, p) ==
  IF at = end THEN p
  ELSE Then(ReadTag(f, at, end), LAMBDA tag :
         IF tag.field = Number(1)
         THEN IF tag.wire # 0 THEN Failed
              ELSE Then(ReadUint32(f, tag.at, end), LAMBDA number :
                     DecodeFields(f, number.at, end, [p EXCEPT !.map = number.value]))
         ELSE IF tag.field \in {Number(2), Number(3)}
         THEN IF tag.wire # 2 THEN Failed
              ELSE Then(ReadSlice(f, tag.at, end), LAMBDA slice :
                     Then(IF tag.field = Number(2)
                          THEN DecodeGroupedAnalog(f, slice.from, slice.at, p)
                          ELSE DecodeAnalogRecord(f, slice, p), LAMBDA decoded :
                       DecodeFields(f, slice.at, end, decoded)))
         ELSE Then(SkipField(f, tag, end, 0), LAMBDA skipped :
                DecodeFields(f, skipped.at, end, p)))

\* decode_ride_notification: a status, and for OK the pressed buttons' bits and the
\* value of each channel that is present.
DecodeRideNotification(f) ==
  IF f = <<>> THEN [status |-> "EMPTY_PACKET"]
  ELSE IF Len(f) > MaxRideNotificationLength THEN [status |-> "PACKET_TOO_LARGE"]
  ELSE IF f[1] # RideInputCommand THEN [status |-> "NOT_INPUT_PACKET"]
  ELSE LET p == DecodeFields(f, 2, Len(f) + 1, [ok |-> TRUE, map |-> Missing, analog |-> <<>>])
       IN IF ~p.ok THEN [status |-> "MALFORMED_PROTOBUF"]
          ELSE IF p.map = Missing THEN [status |-> "MISSING_BUTTON_MAP"]
          ELSE [status |-> "OK", pressed |-> PressedButtons(p.map), analog |-> p.analog]

=============================================================================
