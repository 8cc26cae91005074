---------------------------- MODULE WireFormats -----------------------------
(***************************************************************************)
(* wire.py of the independent reader: the composite header, the ratchet    *)
(* message, the initial message, the prekey bundle and the associated      *)
(* data, encoded by one party and decoded by another after the bytes were  *)
(* changed, cut, extended or shortened on the way; with the runner's       *)
(* handlers for the serialization vectors (run.py).                        *)
(*                                                                         *)
(* Bytes are a sequence of cells, one to a fixed-width field, each a       *)
(* number. A key cell below P is canonical.                                *)
(***************************************************************************)
EXTENDS Integers, Sequences, SequencesExt

CONSTANTS
  P,              \* curve keys at or above it are not canonical
  AG_TYPES,       \* the agreement types
  EK_LEN,         \* cells of an encapsulation key
  Cells,          \* the values a cell is changed to
  Ads,            \* the identities' bytes of sessions
  Sent,           \* the values encoded, each [kind, of]
  MaxEdits        \* bound: changes on the way

\* What the constants must be.
WireAssumption == P \in Nat /\ EK_LEN \in Nat \ {0} /\ MaxEdits \in Nat

VARIABLES
  bytes,          \* the bytes on the way
  edits           \* changes made to them

vars == <<bytes, edits>>

VERSION == 1
TYPE_RATCHET == 1
TYPE_INITIAL == 2
TYPE_BUNDLE == 3
ENCODE_EC_BYTE == 5
ABSENT == 0
PRESENT == 1
Missing == -1

\* A decoder gives a sequence holding what it read, and the empty one on a refusal.
DecodeError == <<>>
EncodeError == <<>>

-----------------------------------------------------------------------------
(* Shared checks *)

\* Variant: the type byte is not looked at.
FramingAnyType(d, type) == Len(d) >= 2 /\ d[1] = VERSION

\* Framing is checked before any length.
check_framing(d, type) == Len(d) >= 2 /\ d[1] = VERSION /\ d[2] = type

is_canonical(key) == key < P

\* Variant: a presence byte is not looked at beyond its being present.
PresenceLoose(present, value) == present = PRESENT \/ value = 0

\* A presence byte, and the zeros behind an absent field.
presence_ok(present, value) == (present = ABSENT /\ value = 0) \/ present = PRESENT

-----------------------------------------------------------------------------
(* Composite header and ratchet message *)

\* Variant: an absent codeword keeps the bytes behind it.
EncodeCompositeKeeping(h) ==
  <<VERSION, TYPE_RATCHET, h.dh, h.pn, h.n, h.pq_epoch, h.pq_n, h.ag_epoch, h.ag_type>>
    \o (IF h.codeword = Missing THEN <<ABSENT, 1>> ELSE <<PRESENT, h.codeword>>)

encode_composite(h) ==
  IF h.ag_type \notin AG_TYPES THEN EncodeError
  ELSE <<VERSION, TYPE_RATCHET, h.dh, h.pn, h.n, h.pq_epoch, h.pq_n, h.ag_epoch, h.ag_type>>
         \o (IF h.codeword = Missing THEN <<ABSENT, 0>> ELSE <<PRESENT, h.codeword>>)

COMPOSITE_LEN == 11

\* The header at the front of the bytes and what follows it.
decode_composite_prefix(d) ==
  IF ~check_framing(d, TYPE_RATCHET) THEN DecodeError
  ELSE IF Len(d) < COMPOSITE_LEN THEN DecodeError
  ELSE IF ~is_canonical(d[3]) \/ d[9] \notin AG_TYPES \/ ~presence_ok(d[10], d[11]) THEN DecodeError
  ELSE << [dh |-> d[3], pn |-> d[4], n |-> d[5], pq_epoch |-> d[6], pq_n |-> d[7], ag_epoch |-> d[8],
           ag_type |-> d[9], codeword |-> IF d[10] = ABSENT THEN Missing ELSE d[11]],
          SubSeq(d, COMPOSITE_LEN + 1, Len(d)) >>

decode_composite(d) ==
  LET read == decode_composite_prefix(d) IN
    IF read = DecodeError \/ (read # DecodeError /\ read[2] # <<>>) THEN DecodeError ELSE <<read[1]>>

encode_ratchet_message(m) == encode_composite(m.header) \o m.ciphertext

decode_ratchet_message(d) ==
  LET read == decode_composite_prefix(d) IN
    IF read = DecodeError THEN DecodeError ELSE <<[header |-> read[1], ciphertext |-> read[2]]>>

\* Variant: the associated data without its length.
ConcatPlain(ad, header) == ad \o header

\* Anything that is not exactly one valid composite header is refused.
concat_ad(ad, header) ==
  IF decode_composite(header) = DecodeError THEN EncodeError ELSE <<Len(ad)>> \o ad \o header

\* What the tag of a ratchet message is computed over (aead.encrypt, decrypt):
\* the associated data and the ciphertext, with nothing between them.
TagInput(ad, d) ==
  concat_ad(ad, SubSeq(d, 1, COMPOSITE_LEN)) \o SubSeq(d, COMPOSITE_LEN + 1, Len(d))

\* _concat_cross_check: the associated data splits into identities and header.
concat_cross_check(d) ==
  /\ 1 + d[1] + COMPOSITE_LEN = Len(d)
  /\ decode_composite(SubSeq(d, 2 + d[1], Len(d))) # DecodeError

-----------------------------------------------------------------------------
(* Initial message *)

encode_initial(m) ==
  <<VERSION, TYPE_INITIAL, ENCODE_EC_BYTE, m.identity, ENCODE_EC_BYTE, m.ephemeral, Len(m.kem_ciphertext)>>
    \o m.kem_ciphertext \o <<m.signed_prekey_id, m.one_time_prekey_id, m.kem_prekey_id>> \o m.ratchet_message

\* decode_ec on the two cells an encoded key takes.
decode_ec(byte, key) == byte = ENCODE_EC_BYTE /\ is_canonical(key)

decode_initial(d) ==
  LET ct == d[7] IN
    IF ~check_framing(d, TYPE_INITIAL) THEN DecodeError
    ELSE IF Len(d) < 7 THEN DecodeError
    ELSE IF ~decode_ec(d[3], d[4]) \/ ~decode_ec(d[5], d[6]) \/ 7 + ct + 3 > Len(d) THEN DecodeError
    ELSE << [identity |-> d[4], ephemeral |-> d[6], kem_ciphertext |-> SubSeq(d, 8, 7 + ct),
             signed_prekey_id |-> d[8 + ct], one_time_prekey_id |-> d[9 + ct], kem_prekey_id |-> d[10 + ct],
             ratchet_message |-> SubSeq(d, 11 + ct, Len(d))] >>

-----------------------------------------------------------------------------
(* Prekey bundle *)

encode_bundle(b) ==
  IF Len(b.kem_prekey) # EK_LEN THEN EncodeError
  ELSE <<VERSION, TYPE_BUNDLE, b.identity_key, b.signed_prekey, b.spk_sig, Len(b.kem_prekey)>> \o b.kem_prekey
    \o <<b.kem_sig>> \o (IF b.one_time_prekey = Missing THEN <<ABSENT, 0>> ELSE <<PRESENT, b.one_time_prekey>>)
    \o <<b.signed_prekey_id, b.one_time_prekey_id, b.kem_prekey_id>>

decode_bundle(d) ==
  LET k == 6 + EK_LEN IN
    IF ~check_framing(d, TYPE_BUNDLE) THEN DecodeError
    ELSE IF Len(d) # k + 6 THEN DecodeError
    ELSE IF d[6] # EK_LEN \/ ~is_canonical(d[3]) \/ ~is_canonical(d[4]) THEN DecodeError
    ELSE IF ~presence_ok(d[k + 2], d[k + 3]) \/ (d[k + 2] = PRESENT /\ ~is_canonical(d[k + 3])) THEN DecodeError
    ELSE << [identity_key |-> d[3], signed_prekey |-> d[4], spk_sig |-> d[5], kem_prekey |-> SubSeq(d, 7, k),
             kem_sig |-> d[k + 1], one_time_prekey |-> IF d[k + 2] = ABSENT THEN Missing ELSE d[k + 3],
             signed_prekey_id |-> d[k + 4], one_time_prekey_id |-> d[k + 5], kem_prekey_id |-> d[k + 6]] >>

-----------------------------------------------------------------------------
(* The runner's handlers for decoder vectors, given the bytes *)

Reencodes(decoded, d, Encode(_)) == decoded # DecodeError => Encode(decoded[1]) = d

\* h_composite_decode: the two decoders of a header agree but for trailing bytes.
h_composite_decode(d) ==
  LET alone == decode_composite(d)
      message == decode_ratchet_message(d) IN
    /\ Reencodes(alone, d, encode_composite)
    /\ alone # DecodeError => message = <<[header |-> alone[1], ciphertext |-> <<>>]>>
    /\ alone = DecodeError /\ Len(d) <= COMPOSITE_LEN => message = DecodeError

\* h_initial_decode: every key the decoder returns is one decode_ec accepts.
h_initial_decode(d) ==
  LET m == decode_initial(d) IN
    /\ Reencodes(m, d, encode_initial)
    /\ m # DecodeError => decode_ec(ENCODE_EC_BYTE, m[1].identity) /\ decode_ec(ENCODE_EC_BYTE, m[1].ephemeral)

h_bundle_decode(d) == Reencodes(decode_bundle(d), d, encode_bundle)

-----------------------------------------------------------------------------
(* The way *)

Encoded(v) ==
  CASE v.kind = "header"  -> encode_composite(v.of)
    [] v.kind = "message" -> encode_ratchet_message(v.of)
    [] v.kind = "initial" -> encode_initial(v.of)
    [] v.kind = "bundle"  -> encode_bundle(v.of)

Init == bytes \in {Encoded(v) : v \in Sent} /\ edits = 0

Change(i, cell) == i <= Len(bytes) /\ bytes' = [bytes EXCEPT ![i] = cell]
Cut(n) == n < Len(bytes) /\ bytes' = SubSeq(bytes, 1, n)
Extend(cell) == bytes' = Append(bytes, cell)
Drop(i) == i <= Len(bytes) /\ bytes' = RemoveAt(bytes, i)

Positions == 1..20

Next ==
  /\ edits < MaxEdits
  /\ edits' = edits + 1
  /\ \/ \E i \in Positions, cell \in Cells : Change(i, cell)
     \/ \E n \in Positions : Cut(n)
     \/ \E cell \in Cells : Extend(cell)
     \/ \E i \in Positions : Drop(i)

Spec == Init /\ [][Next]_vars

-----------------------------------------------------------------------------
\* Whatever was done to the bytes, a decoder that accepts them gives a value whose
\* encoding is those bytes: no message, bundle or header has a second spelling
\* (run.py _decoder_vector, h_composite_decode, h_bundle_decode, h_initial_decode).
NoSecondSpelling == h_composite_decode(bytes) /\ h_initial_decode(bytes) /\ h_bundle_decode(bytes)

\* No bytes are two things: at most one of the three decoders accepts them.
OneReading ==
  \A a, b \in {"ratchet", "initial", "bundle"} :
    LET Reads(k) == CASE k = "ratchet" -> decode_ratchet_message(bytes) # DecodeError
                      [] k = "initial" -> decode_initial(bytes) # DecodeError
                      [] k = "bundle"  -> decode_bundle(bytes) # DecodeError
    IN Reads(a) /\ Reads(b) => a = b

\* What was encoded is what is read, when nothing was changed on the way
\* (h_composite, h_message_encoding, h_initial).
ReadAsSent ==
  edits = 0 =>
    \A v \in Sent :
      Encoded(v) = bytes =>
        CASE v.kind = "header"  -> decode_composite(bytes) = <<v.of>>
          [] v.kind = "message" -> decode_ratchet_message(bytes) = <<v.of>>
          [] v.kind = "initial" -> decode_initial(bytes) = <<v.of>>
          [] v.kind = "bundle"  -> decode_bundle(bytes) = <<v.of>>

\* The tag of a message that decodes is the tag of no other message and no other
\* pair of identities, although the tag's input has no mark between the
\* associated data and the ciphertext and a message's tail may itself read as a
\* message (concat_ad, _concat_cross_check).
TagInputIsOwn ==
  \A ad, other \in Ads, i \in 0..2 :
    LET tail == SubSeq(bytes, i + 1, Len(bytes)) IN
      decode_ratchet_message(bytes) # DecodeError /\ decode_ratchet_message(tail) # DecodeError =>
        /\ concat_cross_check(concat_ad(ad, SubSeq(bytes, 1, COMPOSITE_LEN)))
        /\ TagInput(ad, bytes) = TagInput(other, tail) => ad = other /\ i = 0

\* Bytes are read as one thing, the thing that was written.
BytesAreTheValue == NoSecondSpelling /\ OneReading /\ ReadAsSent /\ TagInputIsOwn
=============================================================================
