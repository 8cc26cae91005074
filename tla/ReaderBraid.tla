---------------------------- MODULE ReaderBraid ----------------------------
(***************************************************************************)
(* The ML-KEM Braid of the specification-only reader                       *)
(* (reader/tacenta_reader/braid.py), the erasure coders that carry its     *)
(* values (erasure.py), and the stand-in for the incremental KEM it is     *)
(* driven with (kem_double.py), any operation of which may fail.           *)
(*                                                                         *)
(* A state is a record of its tag, its epoch, its authenticator and the    *)
(* fields HOLDS names for the tag; Failed has nothing but the tag.         *)
(* Operations are pure.  Values are symbolic: a key pair is the value      *)
(* drawn for it and stands for its header and its ek_vector; an            *)
(* encapsulation is the header and the value drawn for it, and stands for  *)
(* encaps, ct1, ct2 and the secret; a MAC is what it covers.               *)
(***************************************************************************)
EXTENDS Integers, FiniteSets, Sequences

CONSTANTS
  ChunkCount,     \* chunk_count of the values sent: ChunkCount["hdr"], ["ek"], ["ct1"], ["ct2"]
  MAX_CODEWORDS,  \* the number of 16-bit codeword indices
  U64_MAX,
  None

KemOps == {"generate", "encaps1", "encaps2", "decaps"}

HOLDS ==
  [KeysUnsampled        |-> {},
   KeysSampled          |-> {"key_pair", "hdr_enc"},
   HeaderSent           |-> {"key_pair", "ct1_dec", "ek_enc"},
   Ct1Received          |-> {"key_pair", "ct1", "ek_enc"},
   EkSentCt1Received    |-> {"key_pair", "ct1", "ct2_dec"},
   NoHeaderReceived     |-> {"hdr_dec"},
   HeaderReceived       |-> {"header", "ek_dec"},
   Ct1Sampled           |-> {"header", "encaps", "ct1", "ct1_enc", "ek_dec"},
   EkReceivedCt1Sampled |-> {"encaps", "ct1", "ek_vector", "ct1_enc"},
   Ct1Acknowledged      |-> {"header", "encaps", "ct1", "ek_dec"},
   Ct2Sampled           |-> {"ct2_enc"}]

-----------------------------------------------------------------------------
(* The erasure code *)

Encoder(value) == [value |-> value, next |-> 0, exhausted |-> FALSE]

Codeword(enc) == IF enc.exhausted THEN None ELSE [index |-> enc.next, value |-> enc.value]

\* Issuing the last index exhausts the encoder and leaves `next` where it is.
issue(enc) ==
  IF enc.exhausted THEN enc
  ELSE IF enc.next = MAX_CODEWORDS - 1 THEN [enc EXCEPT !.exhausted = TRUE]
  ELSE [enc EXCEPT !.next = @ + 1]

Decoder(what) == [needed |-> ChunkCount[what], held |-> {}]

complete(dec) == Cardinality(dec.held) >= dec.needed

\* The first codeword at an index is kept, and none once the decoder is complete.
DecoderReceive(dec, cw) ==
  IF complete(dec) \/ cw.index \in {c.index : c \in dec.held} THEN dec
  ELSE [dec EXCEPT !.held = @ \cup {cw}]

\* Codewords of two values interpolate to a value of neither.
DecoderValue(dec) ==
  LET vs == {c.value : c \in dec.held}
  IN  IF Cardinality(vs) = 1 THEN CHOOSE v \in vs : TRUE ELSE None

-----------------------------------------------------------------------------
(* The authenticator and the KEM *)

\* Update absorbs a secret; what has been absorbed, in order, is the mac_key.
AuthUpdate(auth, epoch, u) == Append(auth, <<epoch, u>>)

AuthInit(epoch, s) == AuthUpdate(<< >>, epoch, s)

mac_hdr(auth, epoch, hdr) == <<"ekheader", auth, epoch, hdr>>

mac_ct(auth, epoch, ct1, ct2) == <<"ciphertext", auth, epoch, ct1, ct2>>

kdf_ok(k, epoch) == [secret |-> k, epoch |-> epoch]

encaps1(header, drawn) == [kp |-> header, r |-> drawn]

encaps2(encaps, ek_vector) == [kp |-> ek_vector, r |-> encaps.r]

\* A ciphertext that is not of one encapsulation to this key decapsulates to a
\* value nobody else has, never to an error.
decaps(key_pair, ct1, ct2) ==
  IF ct1 = ct2 /\ ct1.kp = key_pair THEN ct1 ELSE [kp |-> key_pair, r |-> None]

validate_ek_vector(header, ek_vector) == ek_vector = header

-----------------------------------------------------------------------------
(* The state machine *)

Failed == [tag |-> "Failed"]

Make(tag, epoch, auth, fields) ==
  [f \in {"tag", "epoch", "auth"} \cup HOLDS[tag] |->
     CASE f = "tag" -> tag [] f = "epoch" -> epoch [] f = "auth" -> auth [] OTHER -> fields[f]]

NoFields == [f \in {} |-> None]

init_initiator(sk) == Make("KeysUnsampled", 1, AuthInit(1, sk), NoFields)

init_responder(sk) == Make("NoHeaderReceived", 1, AuthInit(1, sk), [hdr_dec |-> Decoder("hdr")])

Message(epoch, type, cw) == [epoch |-> epoch, type |-> type, codeword |-> cw]

StreamMessage(epoch, type, cw) ==
  IF cw = None THEN Message(epoch, "None", None) ELSE Message(epoch, type, cw)

SendResult(state, message, output) == [state |-> state, message |-> message, output |-> output]

\* _SENDS_FROM: the encoder a state sends from, and the type it sends.
SendsFrom ==
  [KeysSampled          |-> <<"hdr_enc", "Hdr">>,
   HeaderSent           |-> <<"ek_enc", "Ek">>,
   Ct1Received          |-> <<"ek_enc", "EkCt1Ack">>,
   Ct1Sampled           |-> <<"ct1_enc", "Ct1">>,
   EkReceivedCt1Sampled |-> <<"ct1_enc", "Ct1">>,
   Ct2Sampled           |-> <<"ct2_enc", "Ct2">>]

\* (1): a key pair is drawn and its header is on the way.
SampleKeys(s, drawn) ==
  LET enc == Encoder([header |-> drawn, mac |-> mac_hdr(s.auth, s.epoch, drawn)])
  IN  SendResult(Make("KeysSampled", s.epoch, s.auth, [key_pair |-> drawn, hdr_enc |-> issue(enc)]),
                 Message(s.epoch, "Hdr", Codeword(enc)), None)

\* (7): the epoch's secret is known, and ct1 is on the way.
SampleCt1(s, drawn) ==
  LET enc1 == encaps1(s.header, drawn)
      key  == kdf_ok(enc1, s.epoch)
      enc  == Encoder(enc1)
  IN  SendResult(Make("Ct1Sampled", s.epoch, AuthUpdate(s.auth, s.epoch, key),
                      [header |-> s.header, encaps |-> enc1, ct1 |-> enc1, ct1_enc |-> issue(enc),
                       ek_dec |-> s.ek_dec]),
                 Message(s.epoch, "Ct1", Codeword(enc)), [epoch |-> s.epoch, key |-> key])

\* fail_on: the operations of the KEM that fail; drawn: the randomness it draws.
send(s, fail_on, drawn) ==
  CASE s = Failed -> SendResult(Failed, None, None)
    [] s.tag = "KeysUnsampled" ->
         IF "generate" \in fail_on THEN SendResult(Failed, None, None) ELSE SampleKeys(s, drawn)
    [] s.tag = "HeaderReceived" ->
         IF "encaps1" \in fail_on THEN SendResult(Failed, None, None) ELSE SampleCt1(s, drawn)
    [] s.tag \in DOMAIN SendsFrom ->
         LET f == SendsFrom[s.tag][1]
         IN  SendResult([s EXCEPT ![f] = issue(@)],
                        StreamMessage(s.epoch, SendsFrom[s.tag][2], Codeword(s[f])), None)
    [] OTHER -> SendResult(s, Message(s.epoch, "None", None), None)

CompleteEncapsulation(s, ek_vector, fail_on) ==
  LET ct2 == encaps2(s.encaps, ek_vector)
  IN  IF "encaps2" \in fail_on THEN Failed
      ELSE Make("Ct2Sampled", s.epoch, s.auth,
                [ct2_enc |-> Encoder([ct2 |-> ct2, mac |-> mac_ct(s.auth, s.epoch, s.ct1, ct2)])])

Result(state, output) == [state |-> state, output |-> output]

\* Variant: the ceiling is looked at after the message.
Ct2SampledLateCeiling(s, msg) ==
  IF msg.epoch # s.epoch + 1 THEN Result(s, None)
  ELSE IF s.epoch = U64_MAX - 1 THEN Result(Failed, None)
  ELSE Result(Make("KeysUnsampled", s.epoch + 1, s.auth, NoFields), None)

\* (13); the ceiling is looked at before the message.
InCt2Sampled(s, msg) ==
  IF s.epoch = U64_MAX - 1 THEN Result(Failed, None)
  ELSE IF msg.epoch = s.epoch + 1 THEN Result(Make("KeysUnsampled", s.epoch + 1, s.auth, NoFields), None)
  ELSE Result(s, None)

\* (2)
InKeysSampled(s, cw) ==
  Result(Make("HeaderSent", s.epoch, s.auth,
              [key_pair |-> s.key_pair, ct1_dec |-> DecoderReceive(Decoder("ct1"), cw),
               ek_enc |-> Encoder(s.key_pair)]), None)

\* (3)
InHeaderSent(s, cw) ==
  LET dec == DecoderReceive(s.ct1_dec, cw)
  IN  IF ~complete(dec) THEN Result([s EXCEPT !.ct1_dec = dec], None)
      ELSE Result(Make("Ct1Received", s.epoch, s.auth,
                       [key_pair |-> s.key_pair, ct1 |-> DecoderValue(dec), ek_enc |-> s.ek_enc]), None)

\* (4)
InCt1Received(s, cw) ==
  Result(Make("EkSentCt1Received", s.epoch, s.auth,
              [key_pair |-> s.key_pair, ct1 |-> s.ct1, ct2_dec |-> DecoderReceive(Decoder("ct2"), cw)]), None)

\* (5): the ceiling before decapsulation, and the MAC under the new authenticator.
InEkSentCt1Received(s, cw, fail_on) ==
  LET dec   == DecoderReceive(s.ct2_dec, cw)
      value == DecoderValue(dec)
      key   == kdf_ok(decaps(s.key_pair, s.ct1, value.ct2), s.epoch)
      auth  == AuthUpdate(s.auth, s.epoch, key)
  IN  IF ~complete(dec) THEN Result([s EXCEPT !.ct2_dec = dec], None)
      ELSE IF s.epoch = U64_MAX - 1 \/ "decaps" \in fail_on \/ value = None THEN Result(Failed, None)
      ELSE IF value.mac # mac_ct(auth, s.epoch, s.ct1, value.ct2) THEN Result(Failed, None)
      ELSE Result(Make("NoHeaderReceived", s.epoch + 1, auth, [hdr_dec |-> Decoder("hdr")]),
                  [epoch |-> s.epoch, key |-> key])

\* (6)
InNoHeaderReceived(s, cw) ==
  LET dec   == DecoderReceive(s.hdr_dec, cw)
      value == DecoderValue(dec)
  IN  IF ~complete(dec) THEN Result([s EXCEPT !.hdr_dec = dec], None)
      ELSE IF value = None THEN Result(Failed, None)
      ELSE IF value.mac # mac_hdr(s.auth, s.epoch, value.header) THEN Result(Failed, None)
      ELSE Result(Make("HeaderReceived", s.epoch, s.auth,
                       [header |-> value.header, ek_dec |-> Decoder("ek")]), None)

\* (8), (9), (10)
InCt1Sampled(s, type, cw, fail_on) ==
  LET dec   == DecoderReceive(s.ek_dec, cw)
      ek    == DecoderValue(dec)
      acked == type = "EkCt1Ack"
  IN  Result(
        CASE complete(dec) /\ ~validate_ek_vector(s.header, ek) -> Failed
          [] complete(dec) /\ validate_ek_vector(s.header, ek) /\ acked ->
               CompleteEncapsulation(s, ek, fail_on)
          [] complete(dec) /\ validate_ek_vector(s.header, ek) /\ ~acked ->
               Make("EkReceivedCt1Sampled", s.epoch, s.auth,
                    [encaps |-> s.encaps, ct1 |-> s.ct1, ek_vector |-> ek, ct1_enc |-> s.ct1_enc])
          [] ~complete(dec) /\ acked ->
               Make("Ct1Acknowledged", s.epoch, s.auth,
                    [header |-> s.header, encaps |-> s.encaps, ct1 |-> s.ct1, ek_dec |-> dec])
          [] OTHER -> [s EXCEPT !.ek_dec = dec], None)

\* (11)
InCt1Acknowledged(s, cw, fail_on) ==
  LET dec == DecoderReceive(s.ek_dec, cw)
      ek  == DecoderValue(dec)
  IN  Result(IF ~complete(dec) THEN [s EXCEPT !.ek_dec = dec]
             ELSE IF ~validate_ek_vector(s.header, ek) THEN Failed
             ELSE CompleteEncapsulation(s, ek, fail_on), None)

\* The types a state acts on, with a codeword except where (12) reads only the type.
Types ==
  [KeysSampled |-> {"Ct1"}, HeaderSent |-> {"Ct1"}, Ct1Received |-> {"Ct2"}, EkSentCt1Received |-> {"Ct2"},
   NoHeaderReceived |-> {"Hdr"}, Ct1Sampled |-> {"Ek", "EkCt1Ack"}, Ct1Acknowledged |-> {"EkCt1Ack"},
   EkReceivedCt1Sampled |-> {"EkCt1Ack"}]

Heeds(s, msg) ==
  /\ msg.epoch = s.epoch
  /\ s.tag \in DOMAIN Types /\ msg.type \in Types[s.tag]
  /\ msg.codeword # None \/ s.tag = "EkReceivedCt1Sampled"

receive(s, msg, fail_on) ==
  CASE s = Failed -> Result(s, None)
    [] s.tag = "Ct2Sampled" -> InCt2Sampled(s, msg)
    [] s.tag \notin {"Failed", "Ct2Sampled"} /\ ~Heeds(s, msg) -> Result(s, None)
    [] OTHER ->
         CASE s.tag = "KeysSampled" -> InKeysSampled(s, msg.codeword)
           [] s.tag = "HeaderSent" -> InHeaderSent(s, msg.codeword)
           [] s.tag = "Ct1Received" -> InCt1Received(s, msg.codeword)
           [] s.tag = "EkSentCt1Received" -> InEkSentCt1Received(s, msg.codeword, fail_on)
           [] s.tag = "NoHeaderReceived" -> InNoHeaderReceived(s, msg.codeword)
           [] s.tag = "Ct1Sampled" -> InCt1Sampled(s, msg.type, msg.codeword, fail_on)
           [] s.tag = "Ct1Acknowledged" -> InCt1Acknowledged(s, msg.codeword, fail_on)
           [] s.tag = "EkReceivedCt1Sampled" ->
                Result(CompleteEncapsulation(s, s.ek_vector, fail_on), None)      \* (12)

-----------------------------------------------------------------------------
(* What the session does with them *)

\* BraidAgreement.send and .receive: a failed agreement is refused; a send that
\* fails leaves the failed state behind, which the session keeps.
AgreementSend(s, fail_on, drawn) ==
  LET r == send(s, fail_on, drawn)
  IN  [ok |-> r.state # Failed, state |-> r.state, message |-> r.message, output |-> r.output,
       epoch |-> IF r.state = Failed THEN 0 ELSE s.epoch - 1]

AgreementReceive(s, msg, fail_on) ==
  LET r == receive(s, msg, fail_on)
  IN  [ok |-> s # Failed, state |-> r.state, output |-> r.output]

\* Tags 0 to 4.
HeaderSenders == {"KeysUnsampled", "KeysSampled", "HeaderSent", "Ct1Received", "EkSentCt1Received"}

is_header_sender(s) == s.tag \in HeaderSenders
=============================================================================
