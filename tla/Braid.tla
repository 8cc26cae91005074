------------------------------- MODULE Braid -------------------------------
(***************************************************************************)
(* The ML-KEM Braid of one party: tacenta-core/braid, with the codeword    *)
(* streams of tacenta-core/erasure that carry its values.                  *)
(*                                                                         *)
(* A party's agreement is a record with a tag, the name of the variant of  *)
(* the code's State enum, and the fields that variant has.  step_send and  *)
(* step_receive map such a record to the next one; the transition numbers  *)
(* in the comments are the source's.                                       *)
(*                                                                         *)
(* The KEM is symbolic.  A key pair is a value kp that stands for its      *)
(* header and its ek_vector too.  Encapsulating to kp with randomness r    *)
(* gives [kp, r], which stands for ct1, for ct2 and for the shared secret. *)
(* A MAC is the record of what it covers and the authenticator it is made  *)
(* under, so two are equal exactly when those are.                         *)
(***************************************************************************)
EXTENDS Integers, FiniteSets, Sequences

CONSTANTS
  Needed,         \* chunk_count of the values sent: Needed["hdr"], ["ek"], ["ct1"], ["ct2"]
  MAX_CODEWORDS,  \* codewords one stream can produce
  U64_MAX,        \* the reserved epoch
  None

ASSUME StreamAssumption ==
  /\ Needed \in [{"hdr", "ek", "ct1", "ct2"} -> Nat \ {0}]
  /\ MAX_CODEWORDS \in Nat
  /\ \A v \in DOMAIN Needed : Needed[v] <= MAX_CODEWORDS
  /\ U64_MAX \in Nat /\ U64_MAX > 2

-----------------------------------------------------------------------------
(* Codeword streams.  A codeword is its index and the value it is part of.  *)

NewEncoder(val) == [val |-> val, next |-> 0, exhausted |-> FALSE]

\* The codeword next_chunk returns, and the stream it leaves.
Chunk(enc) ==
  IF enc.exhausted THEN None ELSE [val |-> enc.val, index |-> enc.next]

\* Variant: the stream repeats itself.
SameChunk(enc) == enc

next_chunk(enc) ==
  CASE enc.exhausted -> enc
    [] ~enc.exhausted /\ enc.next = MAX_CODEWORDS - 1 -> [enc EXCEPT !.exhausted = TRUE]
    [] OTHER -> [enc EXCEPT !.next = @ + 1]

NewDecoder(stream) == [needed |-> Needed[stream], have |-> {}]

\* A codeword is kept if more are needed and its index is new.
add_chunk(dec, c) ==
  IF Cardinality(dec.have) >= dec.needed \/ \E d \in dec.have : d.index = c.index
    THEN dec
    ELSE [dec EXCEPT !.have = @ \cup {c}]

has_message(dec) == Cardinality(dec.have) >= dec.needed

\* The value reconstructed.  Codewords of two values interpolate to neither.
message(dec) ==
  LET vals == {c.val : c \in dec.have}
  IN  IF Cardinality(vals) = 1 THEN CHOOSE v \in vals : TRUE ELSE None

-----------------------------------------------------------------------------
(* The ratcheted authenticator: the secrets it has absorbed, in order       *)

AuthInit(epoch, secret) == << <<epoch, secret>> >>

AuthUpdate(auth, epoch, key) == Append(auth, <<epoch, key>>)

mac_hdr(auth, epoch, header) == <<"ekheader", auth, epoch, header>>

mac_ct(auth, epoch, ct1, ct2) == <<"ciphertext", auth, epoch, ct1, ct2>>

\* The epoch key, from the shared secret and the epoch.
kdf_ok(raw, epoch) == [secret |-> raw, epoch |-> epoch]

-----------------------------------------------------------------------------
(* The KEM *)

Encapsulate(header, r) == [kp |-> header, r |-> r]

validate_ek(header, ek_vector) == header = ek_vector

\* Both halves must be of one encapsulation to kp; anything else decapsulates,
\* by implicit rejection, to a secret nobody else has.
decapsulate(kp, ct1, ct2) ==
  IF ct1 = ct2 /\ ct1.kp = kp THEN ct1 ELSE [kp |-> kp, r |-> None]

-----------------------------------------------------------------------------
(* Messages and results *)

Empty(epoch) == [epoch |-> epoch, ty |-> "None", data |-> None]

\* Msg::with: an exhausted stream has nothing left to say.
With(epoch, ty, chunk) ==
  IF chunk = None THEN Empty(epoch) ELSE [epoch |-> epoch, ty |-> ty, data |-> chunk]

Output(epoch, key) == [key_epoch |-> epoch, key |-> key]

Failed == [tag |-> "Failed"]

EpochOf(b) == IF b = Failed THEN 0 ELSE b.epoch

\* The epoch both parties are known to hold; a variant reports the current one.
CurrentEpoch(b) == EpochOf(b)

reported(b) == IF EpochOf(b) = 0 THEN 0 ELSE EpochOf(b) - 1

initiator(secret) ==
  [tag |-> "KeysUnsampled", epoch |-> 1, auth |-> AuthInit(1, secret)]

responder(secret) ==
  [tag |-> "NoHeaderReceived", epoch |-> 1, auth |-> AuthInit(1, secret),
   dec |-> NewDecoder("hdr")]

-----------------------------------------------------------------------------
(* Sending.  Each case gives the message, the output (or None) and the next *)
(* state; fresh is the randomness this send draws if it needs any.          *)

Sends(msg, out, next) == [msg |-> msg, out |-> out, state |-> next]

\* Transition (1): sample a key pair and start sending its header.
SampleKeys(b, fresh) ==
  LET enc == NewEncoder([header |-> fresh, mac |-> mac_hdr(b.auth, b.epoch, fresh)])
  IN  Sends(With(b.epoch, "Hdr", Chunk(enc)), None,
            [tag |-> "KeysSampled", epoch |-> b.epoch, auth |-> b.auth,
             kp |-> fresh, enc |-> next_chunk(enc)])

\* Transition (7): sample ct1, and with it the epoch's secret.
SampleCt1(b, fresh) ==
  LET ct1 == Encapsulate(b.header, fresh)
      key == kdf_ok(ct1, b.epoch)
      enc == NewEncoder(ct1)
  IN  Sends(With(b.epoch, "Ct1", Chunk(enc)), Output(b.epoch, key),
            [tag |-> "Ct1Sampled", epoch |-> b.epoch,
             auth |-> AuthUpdate(b.auth, b.epoch, key),
             header |-> b.header, ct1 |-> ct1, enc |-> next_chunk(enc), dec |-> b.dec])

\* The type of message a state that streams a value sends.
StreamType(tag) ==
  CASE tag = "KeysSampled" -> "Hdr"
    [] tag = "HeaderSent" -> "Ek"
    [] tag = "Ct1Received" -> "EkCt1Ack"
    [] tag \in {"Ct1Sampled", "EkReceivedCt1Sampled"} -> "Ct1"
    [] tag = "Ct2Sampled" -> "Ct2"

Streaming ==
  {"KeysSampled", "HeaderSent", "Ct1Received", "Ct1Sampled", "EkReceivedCt1Sampled", "Ct2Sampled"}

step_send(b, fresh) ==
  CASE b.tag = "KeysUnsampled" -> SampleKeys(b, fresh)
    [] b.tag = "HeaderReceived" -> SampleCt1(b, fresh)
    [] b.tag \in Streaming ->
         Sends(With(b.epoch, StreamType(b.tag), Chunk(b.enc)), None,
               [b EXCEPT !.enc = next_chunk(@)])
    [] b.tag \in {"EkSentCt1Received", "NoHeaderReceived", "Ct1Acknowledged"} ->
         Sends(Empty(b.epoch), None, b)
    [] b.tag = "Failed" -> Sends(Empty(0), None, Failed)

-----------------------------------------------------------------------------
(* Receiving.  Each case gives the output (or None) and the next state.     *)

Gets(out, next) == [out |-> out, state |-> next]

\* The epoch that follows, which the ceiling may forbid; a variant forbids only
\* the step past it.
PastCeiling(epoch) == epoch + 1 > U64_MAX

Reserved(epoch) == epoch + 1 >= U64_MAX

\* Start sending ct2 with its MAC.  ct2 is made from the encapsulation behind
\* ct1 and the ek_vector received.
finish_encaps(b, ek_vector) ==
  LET ct2 == Encapsulate(ek_vector, b.ct1.r)
  IN  [tag |-> "Ct2Sampled", epoch |-> b.epoch, auth |-> b.auth,
       enc |-> NewEncoder([ct2 |-> ct2, mac |-> mac_ct(b.auth, b.epoch, b.ct1, ct2)])]

\* Transition (2): a ct1 chunk proves that the header got through.
RecvKeysSampled(b, c) ==
  Gets(None, [tag |-> "HeaderSent", epoch |-> b.epoch, auth |-> b.auth, kp |-> b.kp,
              dec |-> add_chunk(NewDecoder("ct1"), c), enc |-> NewEncoder(b.kp)])

\* Transition (3): ct1 is complete, though not authenticated yet.
RecvHeaderSent(b, c) ==
  LET dec == add_chunk(b.dec, c)
  IN  Gets(None,
           IF has_message(dec)
             THEN [tag |-> "Ct1Received", epoch |-> b.epoch, auth |-> b.auth, kp |-> b.kp,
                   ct1 |-> message(dec), enc |-> b.enc]
             ELSE [b EXCEPT !.dec = dec])

\* Transition (4): a ct2 chunk proves that ek_vector got through.
RecvCt1Received(b, c) ==
  Gets(None, [tag |-> "EkSentCt1Received", epoch |-> b.epoch, auth |-> b.auth, kp |-> b.kp,
              ct1 |-> b.ct1, dec |-> add_chunk(NewDecoder("ct2"), c)])

\* The output of transition (5) belongs to the epoch just completed; a variant
\* labels it with the one just entered.
NextEpochOutput(epoch, key) == Output(epoch + 1, key)

CompletedOutput(epoch, key) == Output(epoch, key)

\* Transition (5): decapsulate, ratchet, verify, emit, advance.
RecvEkSent(b, c) ==
  LET dec    == add_chunk(b.dec, c)
      framed == message(dec)
      key    == kdf_ok(decapsulate(b.kp, b.ct1, framed.ct2), b.epoch)
      auth   == AuthUpdate(b.auth, b.epoch, key)
  IN  IF ~has_message(dec) THEN Gets(None, [b EXCEPT !.dec = dec])
      ELSE IF framed = None \/ Reserved(b.epoch) THEN Gets(None, Failed)
      ELSE IF framed.mac # mac_ct(auth, b.epoch, b.ct1, framed.ct2) THEN Gets(None, Failed)
      ELSE Gets(CompletedOutput(b.epoch, key),
                [tag |-> "NoHeaderReceived", epoch |-> b.epoch + 1, auth |-> auth,
                 dec |-> NewDecoder("hdr")])

\* Transition (6): the header is complete and its MAC verifies.
RecvNoHeader(b, c) ==
  LET dec    == add_chunk(b.dec, c)
      framed == message(dec)
  IN  IF ~has_message(dec) THEN Gets(None, [b EXCEPT !.dec = dec])
      ELSE IF framed = None THEN Gets(None, Failed)
      ELSE IF framed.mac # mac_hdr(b.auth, b.epoch, framed.header) THEN Gets(None, Failed)
      ELSE Gets(None, [tag |-> "HeaderReceived", epoch |-> b.epoch, auth |-> b.auth,
                       header |-> framed.header, dec |-> NewDecoder("ek")])

\* Transitions (8), (9) and (10): ek_vector completing and the acknowledgement
\* of ct1 come in either order, or together.
RecvCt1Sampled(b, ty, c) ==
  LET dec == add_chunk(b.dec, c)
      ek  == message(dec)
      acked == ty = "EkCt1Ack"
  IN  Gets(None,
        CASE has_message(dec) /\ ~validate_ek(b.header, ek) -> Failed
          [] has_message(dec) /\ validate_ek(b.header, ek) /\ acked -> finish_encaps(b, ek)
          [] has_message(dec) /\ validate_ek(b.header, ek) /\ ~acked ->
               [tag |-> "EkReceivedCt1Sampled", epoch |-> b.epoch, auth |-> b.auth,
                ct1 |-> b.ct1, ek_vector |-> ek, enc |-> b.enc]
          [] ~has_message(dec) /\ acked ->
               [tag |-> "Ct1Acknowledged", epoch |-> b.epoch, auth |-> b.auth,
                header |-> b.header, ct1 |-> b.ct1, dec |-> dec]
          [] OTHER -> [b EXCEPT !.dec = dec])

\* Transition (11): the acknowledgement came first, and now ek_vector is whole.
RecvCt1Acknowledged(b, c) ==
  LET dec == add_chunk(b.dec, c)
      ek  == message(dec)
  IN  Gets(None,
        CASE ~has_message(dec) -> [b EXCEPT !.dec = dec]
          [] has_message(dec) /\ ~validate_ek(b.header, ek) -> Failed
          [] OTHER -> finish_encaps(b, ek))

\* Variant: any message ends the epoch.
SwapOnAnyMessage(b, msg) ==
  Gets(None, [tag |-> "KeysUnsampled", epoch |-> b.epoch + 1, auth |-> b.auth])

\* Transition (13): a message from the next epoch means the peer finished.
RecvCt2Sampled(b, msg) ==
  Gets(None,
    CASE Reserved(b.epoch) -> Failed
      [] ~Reserved(b.epoch) /\ msg.epoch = b.epoch + 1 ->
           [tag |-> "KeysUnsampled", epoch |-> b.epoch + 1, auth |-> b.auth]
      [] OTHER -> b)

\* What a state acts on: a message of its own epoch, of a type it waits for,
\* with a codeword unless the type alone is enough.
TypeAwaited(tag, ty) ==
  CASE tag \in {"KeysSampled", "HeaderSent"} -> ty = "Ct1"
    [] tag \in {"Ct1Received", "EkSentCt1Received"} -> ty = "Ct2"
    [] tag = "NoHeaderReceived" -> ty = "Hdr"
    [] tag = "Ct1Sampled" -> ty \in {"Ek", "EkCt1Ack"}
    [] tag \in {"EkReceivedCt1Sampled", "Ct1Acknowledged"} -> ty = "EkCt1Ack"
    [] OTHER -> FALSE

\* Variant: the epoch of the message is not looked at.
AwaitedAnyEpoch(b, msg) ==
  TypeAwaited(b.tag, msg.ty) /\ (msg.data # None \/ b.tag = "EkReceivedCt1Sampled")

Awaited(b, msg) ==
  /\ msg.epoch = b.epoch
  /\ TypeAwaited(b.tag, msg.ty)
  /\ msg.data # None \/ b.tag = "EkReceivedCt1Sampled"

step_receive(b, msg) ==
  IF b.tag = "Failed" THEN Gets(None, b)
  ELSE IF b.tag = "Ct2Sampled" THEN RecvCt2Sampled(b, msg)
  ELSE IF ~Awaited(b, msg) THEN Gets(None, b)
  ELSE CASE b.tag = "KeysSampled" -> RecvKeysSampled(b, msg.data)
         [] b.tag = "HeaderSent" -> RecvHeaderSent(b, msg.data)
         [] b.tag = "Ct1Received" -> RecvCt1Received(b, msg.data)
         [] b.tag = "EkSentCt1Received" -> RecvEkSent(b, msg.data)
         [] b.tag = "NoHeaderReceived" -> RecvNoHeader(b, msg.data)
         [] b.tag = "Ct1Sampled" -> RecvCt1Sampled(b, msg.ty, msg.data)
         [] b.tag = "Ct1Acknowledged" -> RecvCt1Acknowledged(b, msg.data)
         \* Transition (12): ek_vector came first, and now the acknowledgement.
         [] b.tag = "EkReceivedCt1Sampled" -> Gets(None, finish_encaps(b, b.ek_vector))

-----------------------------------------------------------------------------
(* What other components read of an agreement *)

SendsHeader ==
  {"KeysUnsampled", "KeysSampled", "HeaderSent", "Ct1Received", "EkSentCt1Received"}

\* Which party this is: the two sides of an epoch swap every epoch.
is_initiator(b) == (b.tag \in SendsHeader) = (b.epoch % 2 = 1)
=============================================================================
