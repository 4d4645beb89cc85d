----------------------------- MODULE RideGrammar -----------------------------
(***************************************************************************)
(* What a controller's notification means, said without a cursor: the      *)
(* reference that the decoder of RideProtocol is compared with.  A message *)
(* is a concatenation of protobuf fields; a number is the set of its one   *)
(* bits.  Nothing here is translated from the decoder.                     *)
(***************************************************************************)
EXTENDS Integers, Sequences
LOCAL INSTANCE SequencesExt
LOCAL INSTANCE FiniteSetsExt

From(s, i) == SubSeq(s, i, Len(s))
UpTo(s, i) == SubSeq(s, 1, i)

Bit(n, k) == (n \div 2^k) % 2 = 1
BitsOf(n) == {k \in 0..30 : Bit(n, k)}
NumberOf(bits) == SumSet({2^k : k \in bits})

\* At most 64 bits in septets, least first, all but the last one marked.
IsVarint(s) ==
  /\ Len(s) \in 1..10
  /\ \A i \in 1..(Len(s) - 1) : s[i] >= 128
  /\ s[Len(s)] < 128
  /\ Len(s) = 10 => s[10] <= 1

VarintBits(s) ==
  UNION {{7 * (i - 1) + k : k \in {j \in 0..6 : Bit(s[i], j)}} : i \in 1..Len(s)}

FieldNumber(tag) == {b - 3 : b \in VarintBits(tag) \ (0..2)}
WireType(tag) == NumberOf(VarintBits(tag) \intersect 0..2)

IsTag(s) ==
  /\ IsVarint(s)
  /\ VarintBits(s) \subseteq 0..31
  /\ FieldNumber(s) # {}

\* The contents of s when it is a length and that many bytes.
Delimited(s) ==
  {From(s, i + 1) : i \in {j \in 1..Len(s) : IsVarint(UpTo(s, j))
                                             /\ VarintBits(UpTo(s, j)) = BitsOf(Len(s) - j)}}

RECURSIVE IsMessage(_, _), IsUnread(_, _, _)

\* s is the payload of a field that nobody reads: groups nest four deep.
IsUnread(s, tag, depth) ==
  CASE WireType(tag) = 0 -> IsVarint(s)
    [] WireType(tag) = 1 -> Len(s) = 8
    [] WireType(tag) = 2 -> Delimited(s) # {}
    [] WireType(tag) = 3 ->
         /\ depth < 4
         /\ \E i \in 0..(Len(s) - 1) :
              /\ IsTag(From(s, i + 1))
              /\ FieldNumber(From(s, i + 1)) = FieldNumber(tag)
              /\ WireType(From(s, i + 1)) = 4
              /\ IsMessage(UpTo(s, i), depth + 1)
    [] WireType(tag) = 5 -> Len(s) = 4
    [] OTHER -> FALSE

\* The ways to cut a tag and a payload off the front of s.
Cuts(s, depth) ==
  {c \in (1..Len(s)) \X (1..Len(s)) :
     /\ c[1] <= 10 /\ c[1] <= c[2]
     /\ IsTag(UpTo(s, c[1]))
     /\ IsUnread(SubSeq(s, c[1] + 1, c[2]), UpTo(s, c[1]), depth)}

IsMessage(s, depth) ==
  s = <<>> \/ \E c \in Cuts(s, depth) : IsMessage(From(s, c[2] + 1), depth)

RECURSIVE Readings(_)

\* Every way to read s as a sequence of fields.
Readings(s) ==
  IF s = <<>> THEN {<<>>}
  ELSE UNION {{<<[number |-> FieldNumber(UpTo(s, c[1])), wire |-> WireType(UpTo(s, c[1])),
                  payload |-> SubSeq(s, c[1] + 1, c[2])]>> \o rest :
                 rest \in Readings(From(s, c[2] + 1))} : c \in Cuts(s, 0)}

Numbered(fields, n) == SelectSeq(fields, LAMBDA field : field.number = BitsOf(n))
EachIs(fields, wire, Holds(_)) ==
  \A i \in 1..Len(fields) : fields[i].wire = wire /\ Holds(fields[i].payload)
IsUint32(payload) == VarintBits(payload) \subseteq 0..31
Contents(field) == CHOOSE content \in Delimited(field.payload) : TRUE

\* A lever's record: a location and a value, the last of each.
IsRecord(s) ==
  \E fields \in Readings(s) : \A n \in {1, 2} :
    Numbered(fields, n) # <<>> /\ EachIs(Numbered(fields, n), 0, IsUint32)
RecordBits(s, n) ==
  VarintBits(Last(Numbered(CHOOSE fields \in Readings(s) : TRUE, n)).payload)

HoldsRecord(payload) == \E s \in Delimited(payload) : IsRecord(s)

\* A group of records.
IsGroup(s) ==
  \E fields \in Readings(s) : EachIs(Numbered(fields, 1), 2, HoldsRecord)
GroupRecords(s) ==
  LET records == Numbered(CHOOSE fields \in Readings(s) : TRUE, 1)
  IN [i \in 1..Len(records) |-> Contents(records[i])]

HoldsGroup(payload) == \E s \in Delimited(payload) : IsGroup(s)

IsInput(fields) ==
  /\ EachIs(Numbered(fields, 1), 0, IsUint32)
  /\ EachIs(Numbered(fields, 2), 2, HoldsGroup)
  /\ EachIs(Numbered(fields, 3), 2, HoldsRecord)

\* All records of a message, in its order.
Records(fields) ==
  FlattenSeq([i \in 1..Len(fields) |->
                CASE fields[i].number = BitsOf(2) -> GroupRecords(Contents(fields[i]))
                  [] fields[i].number = BitsOf(3) -> <<Contents(fields[i])>>
                  [] OTHER -> <<>>])

Signed(bits) ==
  LET magnitude == NumberOf({b - 1 : b \in bits \ {0}})
  IN IF 0 \in bits THEN -1 - magnitude ELSE magnitude

\* The last record of a channel gives its value.
ChannelValues(records) ==
  LET at(c) == {i \in 1..Len(records) : RecordBits(records[i], 1) = BitsOf(c)}
  IN [c \in {d \in 0..3 : at(d) # {}} |-> Signed(RecordBits(records[Max(at(c))], 2))]

\* The status of a frame, and what an accepted one says.
Meaning(f) ==
  LET readings == {fields \in Readings(Tail(f)) : IsInput(fields)}
      fields == CHOOSE r \in readings : TRUE
      maps == Numbered(fields, 1)
  IN IF f = <<>> THEN [status |-> "EMPTY_PACKET"]
     ELSE IF Len(f) > 128 THEN [status |-> "PACKET_TOO_LARGE"]
     ELSE IF f[1] # 35 THEN [status |-> "NOT_INPUT_PACKET"]
     ELSE IF readings = {} THEN [status |-> "MALFORMED_PROTOBUF"]
     ELSE IF maps = <<>> THEN [status |-> "MISSING_BUTTON_MAP"]
     ELSE [status |-> "OK", pressed |-> (0..15) \ VarintBits(Last(maps).payload),
           analog |-> ChannelValues(Records(fields))]

=============================================================================
