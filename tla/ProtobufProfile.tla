-------------------------- MODULE ProtobufProfile --------------------------
(***************************************************************************)
(* protobuf.py of the independent reader: the bounded protobuf profile of  *)
(* ratchet bodies and prekey envelopes, which refuses whatever is not in   *)
(* it, and the encoder beside it.  A region arrives byte by byte; every    *)
(* region over a small alphabet is parsed.                                 *)
(*                                                                         *)
(* A byte is below 2 * Base, its low part one digit in base Base (128 in   *)
(* the code) and its high part the continuation mark; a tag is             *)
(* TagBase * field + wire type (8 in the code).  Which category a refusal  *)
(* has is not modelled: it is left to the implementation.                  *)
(***************************************************************************)
EXTENDS Integers, Sequences, FiniteSets, SequencesExt

CONSTANTS
  Base, TagBase,
  PB_MAX_VARINT_BYTES, PB_MAX_U32, PB_MAX_FIELD_NUMBER, PB_MAX_MESSAGE_LEN, PB_MAX_FIELDS,
  MessageType,    \* field number -> [wire, required]
  MaxRegion       \* bound: bytes that arrive

\* What the constants must be.
ProfileAssumption ==
  /\ Base > 1 /\ TagBase > 2 /\ PB_MAX_U32 < Base ^ PB_MAX_VARINT_BYTES
  /\ PB_MAX_MESSAGE_LEN < MaxRegion

VARIABLE region

WIRE_VARINT == 0
WIRE_LEN == 2

Refused == <<>>

-----------------------------------------------------------------------------
(* Reading *)

Digits(bytes) == FoldRight(LAMBDA b, acc : (b % Base) + (Base * acc), bytes, 0)

\* Where the varint at pos may end.
Finals(buf, pos) == {i \in pos..(pos + PB_MAX_VARINT_BYTES - 1) : i <= Len(buf) /\ buf[i] < Base}

\* Variant: a varint need not be minimal.
ReadPadded(buf, pos) ==
  LET last == Min(Finals(buf, pos)) IN
    IF Finals(buf, pos) = {} THEN Refused
    ELSE IF Digits(SubSeq(buf, pos, last)) > PB_MAX_U32 THEN Refused
    ELSE <<Digits(SubSeq(buf, pos, last)), last + 1>>

\* The varint of value v that ends at `last`.
Varint(buf, pos, last, v) ==
  IF v > PB_MAX_U32 THEN Refused
  ELSE IF last > pos /\ buf[last] = 0 THEN Refused
  ELSE <<v, last + 1>>

VarintTo(buf, pos, last) == Varint(buf, pos, last, Digits(SubSeq(buf, pos, last)))

\* The value at pos and the position after it.
read_varint(buf, pos) ==
  IF Finals(buf, pos) = {} THEN Refused ELSE VarintTo(buf, pos, Min(Finals(buf, pos)))

TagOf(read) ==
  IF read = Refused THEN Refused
  ELSE IF read[1] \div TagBase \notin 1..PB_MAX_FIELD_NUMBER THEN Refused
  ELSE IF read[1] % TagBase \notin {WIRE_VARINT, WIRE_LEN} THEN Refused
  ELSE <<read[1] \div TagBase, read[1] % TagBase, read[2]>>

read_tag(buf, pos) == TagOf(read_varint(buf, pos))

Number(n) == [number |-> n, bytes |-> <<>>]
Bytes(s)  == [number |-> 0, bytes |-> s]

ValueOf(buf, wire, read) ==
  IF read = Refused THEN Refused
  ELSE IF wire = WIRE_VARINT THEN <<Number(read[1]), read[2]>>
  ELSE IF read[1] > Len(buf) - read[2] + 1 THEN Refused
  ELSE <<Bytes(SubSeq(buf, read[2], read[2] + read[1] - 1)), read[2] + read[1]>>

\* The value of a field at pos and the position after it.
read_value(buf, pos, wire) == ValueOf(buf, wire, read_varint(buf, pos))

\* A field is new, within the limit, and of the message type.
admits(field, wire, recorded) ==
  /\ field \notin Range(recorded)
  /\ Len(recorded) < PB_MAX_FIELDS
  /\ field \in DOMAIN MessageType /\ MessageType[field].wire = wire

RECURSIVE parse_fields(_, _, _, _)

\* The loop of parse: the fields recorded so far, in order, and their values.
parse_fields(buf, pos, recorded, out) ==
  IF pos > Len(buf) THEN <<recorded, out>>
  ELSE
    LET tag == read_tag(buf, pos) IN
      IF tag = Refused THEN Refused
      ELSE IF ~admits(tag[1], tag[2], recorded) THEN Refused
      ELSE
        LET value == read_value(buf, tag[3], tag[2]) IN
          IF value = Refused THEN Refused
          ELSE parse_fields(buf, value[2], Append(recorded, tag[1]),
                            [f \in DOMAIN out \union {tag[1]} |-> IF f = tag[1] THEN value[1] ELSE out[f]])

Complete(read) ==
  IF read = Refused THEN Refused
  ELSE IF \E f \in DOMAIN MessageType : MessageType[f].required /\ f \notin DOMAIN read[2] THEN Refused
  ELSE read

\* The fields in the order of the region, and their values.
parse(buf) ==
  IF Len(buf) > PB_MAX_MESSAGE_LEN THEN Refused ELSE Complete(parse_fields(buf, 1, <<>>, <<>>))

-----------------------------------------------------------------------------
(* Writing *)

RECURSIVE encode_varint(_)

encode_varint(v) == IF v < Base THEN <<v>> ELSE <<Base + (v % Base)>> \o encode_varint(v \div Base)

\* Variant: the length of a field counts its tag.
EncodeFieldLong(field, wire, value) ==
  encode_varint(TagBase * field + wire)
    \o (IF wire = WIRE_VARINT THEN encode_varint(value.number)
        ELSE encode_varint(Len(value.bytes) + 1) \o value.bytes)

encode_field(field, wire, value) ==
  encode_varint(TagBase * field + wire)
    \o (IF wire = WIRE_VARINT THEN encode_varint(value.number)
        ELSE encode_varint(Len(value.bytes)) \o value.bytes)

EncodeAll(fields, values) ==
  FlattenSeq([i \in DOMAIN fields |-> encode_field(fields[i], MessageType[fields[i]].wire, values[fields[i]])])

\* Ascending field order; an absent field is left out.
encode(values) == EncodeAll(SetToSortSeq(DOMAIN values, <), values)

-----------------------------------------------------------------------------
Init == region = <<>>

Arrive(b) == Len(region) < MaxRegion /\ region' = Append(region, b)

Next == \E b \in 0..(2 * Base - 1) : Arrive(b)

Spec == Init /\ [][Next]_region

-----------------------------------------------------------------------------
\* An accepted region is the encodings of its fields, one after another and each
\* once: no padded varint, no repeated or foreign field and no stray byte is taken,
\* so only the order of the fields is free (parse, read_varint, read_tag).
OnlyOrderIsFree(read) == region = EncodeAll(read[1], read[2])

\* What was read and is written in ascending order is read as the same fields, the
\* absent ones absent and not zero (encode, parse; "prekeyId absent is not the
\* same as prekeyId 0").
RewrittenIsSame(read) ==
  \A again \in {parse(encode(read[2]))} : again # Refused /\ again[2] = read[2]

\* A region is read as its fields, and its fields as themselves.
RegionIsItsFields ==
  \A read \in {parse(region)} : read # Refused => OnlyOrderIsFree(read) /\ RewrittenIsSame(read)
=============================================================================
