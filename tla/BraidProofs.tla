---------------------------- MODULE BraidProofs -----------------------------
(***************************************************************************)
(* Proofs about module BraidAgreement, for every number of codewords, loss *)
(* and order of delivery: the two parties agree on their keys, stay usable *)
(* up to the last epoch, and implement module Agreement; and the reader's  *)
(* Braid does the same in every state of theirs.                           *)
(*                                                                         *)
(* All that an epoch settles is a function of its number: who draws what,  *)
(* the key, the authenticator, the values streamed.  A party's state is    *)
(* then one of eleven, up to how much of a stream it has sent or received; *)
(* and of the two parties' states together only three facts are needed, at *)
(* the places where one of them moves to the next epoch or gives up.       *)
(***************************************************************************)
EXTENDS ReaderAgreesBraid, TLAPS, FiniteSetTheorems, SequenceTheorems

-----------------------------------------------------------------------------
(* What an epoch settles *)

\* Who sends the header of epoch e, and who sends the ciphertext.
HeaderParty(e) == IF e % 2 = 1 THEN Initiator ELSE Responder
CiphertextParty(e) == IF e % 2 = 1 THEN Responder ELSE Initiator

KeyPairOf(e) == <<HeaderParty(e), e>>
CiphertextOf(e) == [kp |-> KeyPairOf(e), r |-> <<CiphertextParty(e), e>>]
KeyOf(e) == kdf_ok(CiphertextOf(e), e)

\* The authenticator that epoch e begins with.
AuthOf(e) ==
  [i \in 1..e |-> IF i = 1 THEN <<1, PresharedSecret>> ELSE <<i - 1, KeyOf(i - 1)>>]

HeaderFrame(e) == [header |-> KeyPairOf(e), mac |-> mac_hdr(AuthOf(e), e, KeyPairOf(e))]
Ct2Frame(e) ==
  [ct2 |-> CiphertextOf(e), mac |-> mac_ct(AuthOf(e + 1), e, CiphertextOf(e), CiphertextOf(e))]

\* The value that the messages of one type carry.
Value(e, ty) ==
  CASE ty = "Hdr" -> HeaderFrame(e)
    [] ty \in {"Ek", "EkCt1Ack"} -> KeyPairOf(e)
    [] ty = "Ct1" -> CiphertextOf(e)
    [] ty = "Ct2" -> Ct2Frame(e)

\* The first n keys.
KeysTo(n) == [i \in 1..n |-> Output(i, KeyOf(i))]

Epochs == 1..(U64_MAX - 1)

-----------------------------------------------------------------------------
(* The states of an epoch *)

Codewords(v) == [val : {v}, index : Nat]
Encoders(v) == [val : {v}, next : Nat, exhausted : BOOLEAN]
Decoders(stream, v) ==
  [needed : {Needed[stream]}, have : {S \in SUBSET Codewords(v) : IsFiniteSet(S)}]

KeysUnsampled(e) == [tag : {"KeysUnsampled"}, epoch : {e}, auth : {AuthOf(e)}]
KeysSampled(e) ==
  [tag : {"KeysSampled"}, epoch : {e}, auth : {AuthOf(e)}, kp : {KeyPairOf(e)},
   enc : Encoders(HeaderFrame(e))]
HeaderSent(e) ==
  [tag : {"HeaderSent"}, epoch : {e}, auth : {AuthOf(e)}, kp : {KeyPairOf(e)},
   dec : Decoders("ct1", CiphertextOf(e)), enc : Encoders(KeyPairOf(e))]
Ct1Received(e) ==
  [tag : {"Ct1Received"}, epoch : {e}, auth : {AuthOf(e)}, kp : {KeyPairOf(e)},
   ct1 : {CiphertextOf(e)}, enc : Encoders(KeyPairOf(e))]
EkSentCt1Received(e) ==
  [tag : {"EkSentCt1Received"}, epoch : {e}, auth : {AuthOf(e)}, kp : {KeyPairOf(e)},
   ct1 : {CiphertextOf(e)}, dec : Decoders("ct2", Ct2Frame(e))]

NoHeaderReceived(e) ==
  [tag : {"NoHeaderReceived"}, epoch : {e}, auth : {AuthOf(e)},
   dec : Decoders("hdr", HeaderFrame(e))]
HeaderReceived(e) ==
  [tag : {"HeaderReceived"}, epoch : {e}, auth : {AuthOf(e)}, header : {KeyPairOf(e)},
   dec : Decoders("ek", KeyPairOf(e))]
Ct1Sampled(e) ==
  [tag : {"Ct1Sampled"}, epoch : {e}, auth : {AuthOf(e + 1)}, header : {KeyPairOf(e)},
   ct1 : {CiphertextOf(e)}, enc : Encoders(CiphertextOf(e)), dec : Decoders("ek", KeyPairOf(e))]
EkReceivedCt1Sampled(e) ==
  [tag : {"EkReceivedCt1Sampled"}, epoch : {e}, auth : {AuthOf(e + 1)},
   ct1 : {CiphertextOf(e)}, ek_vector : {KeyPairOf(e)}, enc : Encoders(CiphertextOf(e))]
Ct1Acknowledged(e) ==
  [tag : {"Ct1Acknowledged"}, epoch : {e}, auth : {AuthOf(e + 1)}, header : {KeyPairOf(e)},
   ct1 : {CiphertextOf(e)}, dec : Decoders("ek", KeyPairOf(e))]
Ct2Sampled(e) ==
  [tag : {"Ct2Sampled"}, epoch : {e}, auth : {AuthOf(e + 1)}, enc : Encoders(Ct2Frame(e))]

HeaderSide(e) ==
  KeysUnsampled(e) \cup KeysSampled(e) \cup HeaderSent(e) \cup Ct1Received(e)
    \cup EkSentCt1Received(e)

CiphertextSide(e) ==
  NoHeaderReceived(e) \cup HeaderReceived(e) \cup Ct1Sampled(e) \cup EkReceivedCt1Sampled(e)
    \cup Ct1Acknowledged(e) \cup Ct2Sampled(e)

\* The states of party p in epoch e.
StatesOf(p, e) == IF p = HeaderParty(e) THEN HeaderSide(e) ELSE CiphertextSide(e)

\* The keys that a party in state b holds.
KeyHolding == {"Ct1Sampled", "EkReceivedCt1Sampled", "Ct1Acknowledged", "Ct2Sampled"}
Holds(b) == IF b.tag \in KeyHolding THEN b.epoch ELSE b.epoch - 1

MessageTypes == {"Hdr", "Ek", "EkCt1Ack", "Ct1", "Ct2"}
-----------------------------------------------------------------------------
(* The invariant *)

\* Where a party is, and the keys it has been given.
InEpoch(p) ==
  /\ braid[p] # Failed =>
       /\ braid[p].epoch \in Epochs /\ braid[p] \in StatesOf(p, braid[p].epoch)
       /\ Len(outputs[p]) = Holds(braid[p])
  /\ Len(outputs[p]) \in 0..(U64_MAX - 1)
  /\ outputs[p] = KeysTo(Len(outputs[p]))

\* What is under way to p: genuine, of no epoch its sender has yet to reach, and
\* with ct2 only from a sender that streams it.
Genuine(m) == /\ m \in [epoch : Epochs, ty : {m.ty}, data : {m.data}]
              /\ m.ty # "None" => m.ty \in MessageTypes /\ m.data \in Codewords(Value(m.epoch, m.ty))
Posted(p) ==
  LET b == braid[Peer(p)]
  IN  \A m \in net[p] :
        /\ Genuine(m)
        /\ b # Failed => /\ m.epoch <= b.epoch
                         /\ m.epoch = b.epoch /\ m.ty = "Ct2" => b.tag = "Ct2Sampled"

\* A party is ahead of its peer only from the end of an epoch until the peer hears
\* of it; one that takes in ct2 has a peer that streams it; and one whose peer gave
\* up is in the last epoch, on the way to do the same.
Together(p) ==
  LET b == braid[p]
      c == braid[Peer(p)]
  IN  b # Failed =>
        /\ c # Failed =>
             /\ b.epoch <= c.epoch + 1
             /\ b.epoch = c.epoch + 1 => b.tag = "NoHeaderReceived" /\ c.tag = "Ct2Sampled"
             /\ b.tag = "EkSentCt1Received" => c.epoch = b.epoch /\ c.tag = "Ct2Sampled"
        /\ c = Failed => b.epoch = U64_MAX - 1 /\ b.tag \in SendsHeader \cup {"Ct2Sampled"}

IInv ==
  /\ braid = [p \in Party |-> braid[p]] /\ net = [p \in Party |-> net[p]]
  /\ outputs = [p \in Party |-> outputs[p]]
  /\ \A p \in Party : InEpoch(p) /\ Posted(p) /\ Together(p)
  /\ FailsOnlyAtCeiling

-----------------------------------------------------------------------------
(* Facts about epochs *)

\* Each party has one peer, whose peer it is.
LEMMA PeerParty ==
  ASSUME NEW p \in Party
  PROVE  Peer(p) \in Party /\ Peer(p) # p /\ Peer(Peer(p)) = p /\ \A x \in Party : x = p \/ x = Peer(p)
BY TrafficAssumption DEF Party, Peer

\* The two sides of an epoch are the two parties, and they swap.
LEMMA Sides ==
  ASSUME NEW e \in Nat
  PROVE  /\ HeaderParty(e) \in Party /\ CiphertextParty(e) \in Party
         /\ CiphertextParty(e) = Peer(HeaderParty(e)) /\ HeaderParty(e) = Peer(CiphertextParty(e))
         /\ HeaderParty(e) # CiphertextParty(e)
         /\ HeaderParty(e + 1) = CiphertextParty(e) /\ CiphertextParty(e + 1) = HeaderParty(e)
<1>1. e % 2 = 1 <=> (e + 1) % 2 # 1
  OBVIOUS
<1> QED BY <1>1, TrafficAssumption DEF HeaderParty, CiphertextParty, Party, Peer

\* The types of what an epoch settles.
LEMMA EpochTypes ==
  ASSUME NEW e \in Nat \ {0}
  PROVE  /\ KeyPairOf(e) \in Drawn /\ CiphertextOf(e) \in Encapsulation
         /\ KeyOf(e) \in EpochKey /\ KeyOf(e).secret = CiphertextOf(e)
         /\ Output(e, KeyOf(e)) \in EpochOutput
         /\ AuthOf(e) \in Absorbed /\ Len(AuthOf(e)) = e
<1>1. \A i \in Nat : /\ KeyPairOf(i) \in Drawn /\ CiphertextOf(i) \in Encapsulation
                     /\ KeyOf(i) \in EpochKey /\ KeyOf(i).secret = CiphertextOf(i)
                     /\ Output(i, KeyOf(i)) \in EpochOutput
  BY Sides DEF KeyPairOf, CiphertextOf, KeyOf, kdf_ok, Output, Drawn, Encapsulation, EpochKey, EpochOutput
<1>2. ASSUME NEW i \in 1..e
      PROVE  AuthOf(e)[i] \in Nat \X ({PresharedSecret} \cup EpochKey)
  <2>1. CASE i = 1
    BY <2>1 DEF AuthOf
  <2>2. CASE i # 1
    <3>1. i - 1 \in Nat
      BY <2>2
    <3>2. KeyOf(i - 1) \in EpochKey
      BY <1>1, <3>1
    <3> QED BY <2>2, <3>1, <3>2 DEF AuthOf
  <2> QED BY <2>1, <2>2
<1>3. AuthOf(e) \in [1..e -> Nat \X ({PresharedSecret} \cup EpochKey)]
  BY <1>2 DEF AuthOf
<1>4. AuthOf(e) \in Absorbed /\ Len(AuthOf(e)) = e
  BY <1>3 DEF Absorbed
<1> QED BY <1>1, <1>4

\* No key and no framed value is None.
LEMMA SomeValue ==
  ASSUME NEW e \in Nat \ {0}
  PROVE  Output(e, KeyOf(e)) # None /\ HeaderFrame(e) # None /\ Ct2Frame(e) # None
<1>1. e + 1 \in Nat \ {0}
  OBVIOUS
<1>2. /\ KeyPairOf(e) \in Drawn /\ CiphertextOf(e) \in Encapsulation /\ AuthOf(e) \in Absorbed
      /\ AuthOf(e + 1) \in Absorbed /\ Output(e, KeyOf(e)) \in EpochOutput
  BY <1>1, EpochTypes
<1>3. HeaderFrame(e) \in FramedHeader
  BY <1>2 DEF HeaderFrame, FramedHeader, mac_hdr
<1>4. Ct2Frame(e) \in FramedCt2
  BY <1>2 DEF Ct2Frame, FramedCt2, mac_ct
<1> QED BY <1>2, <1>3, <1>4, NoneAssumption

\* The authenticator absorbs the epoch's key.
LEMMA AuthGrows ==
  ASSUME NEW e \in Nat \ {0}
  PROVE  AuthUpdate(AuthOf(e), e, KeyOf(e)) = AuthOf(e + 1)
<1> DEFINE s == AuthOf(e)
           x == <<e, KeyOf(e)>>
           t == AuthOf(e + 1)
           S == Nat \X ({PresharedSecret} \cup EpochKey)
<1>1. /\ s \in Seq(S) /\ t \in Seq(S) /\ Len(s) = e /\ Len(t) = e + 1 /\ x \in S
  BY EpochTypes, SMTT(60) DEF Absorbed
<1>2. \A i \in 1..e : t[i] = s[i]
  BY DEF AuthOf
<1>3. t[e + 1] = x
  BY DEF AuthOf
<1>4. /\ Append(s, x) \in Seq(S) /\ Len(Append(s, x)) = e + 1 /\ Append(s, x)[e + 1] = x
      /\ \A i \in 1..e : Append(s, x)[i] = s[i]
  BY <1>1, AppendProperties
<1> HIDE DEF s, x, t, S
<1>5. Append(s, x) = t
  BY <1>1, <1>2, <1>3, <1>4, SeqEqual
<1> QED BY <1>5 DEF AuthUpdate, s, x, t

\* The keys so far, and one more.
LEMMA KeysGrow ==
  ASSUME NEW n \in Nat
  PROVE  /\ Len(KeysTo(n)) = n /\ KeysTo(n) \in Seq(EpochOutput)
         /\ Emit(KeysTo(n), Output(n + 1, KeyOf(n + 1))) = KeysTo(n + 1)
<1> DEFINE x == Output(n + 1, KeyOf(n + 1))
<1>1. ASSUME NEW k \in Nat PROVE KeysTo(k) \in Seq(EpochOutput) /\ Len(KeysTo(k)) = k
  <2>1. \A i \in 1..k : Output(i, KeyOf(i)) \in EpochOutput
    BY EpochTypes
  <2>2. KeysTo(k) \in [1..k -> EpochOutput]
    BY <2>1 DEF KeysTo
  <2> QED BY <2>2
<1>2. x \in EpochOutput /\ x # None
  BY EpochTypes, SomeValue
<1>3. /\ KeysTo(n) \in Seq(EpochOutput) /\ Len(KeysTo(n)) = n
      /\ KeysTo(n + 1) \in Seq(EpochOutput) /\ Len(KeysTo(n + 1)) = n + 1
  BY <1>1
<1>4. KeysTo(n + 1)[n + 1] = x /\ \A i \in 1..n : KeysTo(n + 1)[i] = KeysTo(n)[i]
  BY DEF KeysTo
<1> HIDE DEF x
<1>5. /\ Append(KeysTo(n), x) \in Seq(EpochOutput) /\ Len(Append(KeysTo(n), x)) = n + 1
      /\ Append(KeysTo(n), x)[n + 1] = x /\ \A i \in 1..n : Append(KeysTo(n), x)[i] = KeysTo(n)[i]
  BY <1>2, <1>3, AppendProperties
<1>6. Append(KeysTo(n), x) = KeysTo(n + 1)
  BY <1>3, <1>4, <1>5, SeqEqual
<1> QED BY <1>2, <1>3, <1>6 DEF Emit, x
-----------------------------------------------------------------------------
(* Streams *)

\* A stream's codewords are of its value, and it keeps the value.
LEMMA EncoderStep ==
  ASSUME NEW v, NEW enc \in Encoders(v)
  PROVE  /\ next_chunk(enc) \in Encoders(v)
         /\ Chunk(enc) = None \/ Chunk(enc) \in Codewords(v)
<1>1. next_chunk(enc) \in Encoders(v)
  <2>1. next_chunk(enc) \in {enc, [enc EXCEPT !.exhausted = TRUE], [enc EXCEPT !.next = @ + 1]}
    BY DEF next_chunk
  <2>2. [enc EXCEPT !.exhausted = TRUE] \in Encoders(v)
    BY DEF Encoders
  <2>3. [enc EXCEPT !.next = @ + 1] \in Encoders(v)
    BY DEF Encoders
  <2> QED BY <2>1, <2>2, <2>3
<1>2. Chunk(enc) = None \/ Chunk(enc) \in Codewords(v)
  BY DEF Chunk, Encoders, Codewords
<1> QED BY <1>1, <1>2

\* A stream starts as one of its value.
LEMMA EncoderStart ==
  ASSUME NEW v PROVE NewEncoder(v) \in Encoders(v)
BY DEF NewEncoder, Encoders

\* A message made from a codeword of the right value is genuine.
LEMMA WithGenuine ==
  ASSUME NEW e \in Epochs, NEW ty \in MessageTypes, NEW c,
         c = None \/ c \in Codewords(Value(e, ty))
  PROVE  Genuine(With(e, ty, c)) /\ With(e, ty, c).epoch = e /\ With(e, ty, c).ty \in {ty, "None"}
BY DEF Genuine, With, Empty, MessageTypes

\* A decoder fed codewords of one value rebuilds that value or nothing.
LEMMA DecoderStep ==
  ASSUME NEW stream \in {"hdr", "ek", "ct1", "ct2"}, NEW v, NEW dec \in Decoders(stream, v),
         NEW c \in Codewords(v)
  PROVE  /\ add_chunk(dec, c) \in Decoders(stream, v)
         /\ has_message(add_chunk(dec, c)) => message(add_chunk(dec, c)) = v
<1> DEFINE d == add_chunk(dec, c)
<1>1. d \in Decoders(stream, v)
  BY FS_AddElement DEF add_chunk, Decoders
<1>2. ASSUME has_message(d) PROVE message(d) = v
  <2> HIDE DEF d
  <2>1. d.needed \in Nat \ {0} /\ Cardinality(d.have) >= d.needed
    BY <1>1, <1>2, StreamAssumption DEF Decoders, has_message
  <2>2. d.have # {}
    BY <2>1, FS_EmptySet
  <2>3. {x.val : x \in d.have} = {v}
    BY <1>1, <2>2 DEF Decoders, Codewords
  <2>4. Cardinality({v}) = 1
    BY FS_Singleton
  <2> QED BY <2>3, <2>4 DEF message
<1> QED BY <1>1, <1>2

\* A decoder starts with nothing.
LEMMA DecoderStart ==
  ASSUME NEW stream, NEW v PROVE NewDecoder(stream) \in Decoders(stream, v)
BY FS_EmptySet DEF NewDecoder, Decoders

-----------------------------------------------------------------------------
(* Sending *)

\* What a send of party p, in epoch e and state b, gives.
Sending(p, e, b, r) ==
  /\ r.state \in StatesOf(p, e)
  /\ Genuine(r.msg) /\ r.msg.epoch = e /\ (r.msg.ty = "Ct2" => b.tag = "Ct2Sampled")
  /\ \/ r.state.tag = b.tag /\ r.out = None
     \/ b.tag = "KeysUnsampled" /\ r.state.tag = "KeysSampled" /\ r.out = None
     \/ /\ b.tag = "HeaderReceived" /\ r.state.tag = "Ct1Sampled"
        /\ r.out = Output(e, KeyOf(e))

\* A party that sends the header.
LEMMA SendHeaderSide ==
  ASSUME NEW e \in Epochs, NEW b \in HeaderSide(e)
  PROVE  Sending(HeaderParty(e), e, b, step_send(b, <<HeaderParty(e), e>>))
<1> DEFINE fresh == <<HeaderParty(e), e>>
           r == step_send(b, fresh)
<1>0. fresh = KeyPairOf(e)
  BY DEF KeyPairOf
<1> HIDE DEF fresh
<1> SUFFICES /\ r.state \in HeaderSide(e)
             /\ Genuine(r.msg) /\ r.msg.epoch = e /\ r.msg.ty # "Ct2" /\ r.out = None
             /\ r.state.tag = b.tag \/ (b.tag = "KeysUnsampled" /\ r.state.tag = "KeysSampled")
  BY DEF Sending, StatesOf, fresh
<1>1. CASE b \in KeysUnsampled(e)
  <2> DEFINE enc == NewEncoder(HeaderFrame(e))
             msg == With(e, "Hdr", Chunk(enc))
             next == [tag |-> "KeysSampled", epoch |-> e, auth |-> AuthOf(e),
                      kp |-> KeyPairOf(e), enc |-> next_chunk(enc)]
  <2>0. b.tag = "KeysUnsampled" /\ b.epoch = e /\ b.auth = AuthOf(e)
    BY <1>1 DEF KeysUnsampled
  <2>1. r = SampleKeys(b, KeyPairOf(e))
    BY <1>0, <2>0 DEF step_send, Streaming
  <2>2. SampleKeys(b, KeyPairOf(e)) = Sends(msg, None, next)
    BY <2>0 DEF SampleKeys, HeaderFrame
  <2>3. enc \in Encoders(HeaderFrame(e))
    BY EncoderStart
  <2> HIDE DEF enc
  <2>4. next_chunk(enc) \in Encoders(HeaderFrame(e))
        /\ (Chunk(enc) = None \/ Chunk(enc) \in Codewords(Value(e, "Hdr")))
    BY <2>3, EncoderStep DEF Value
  <2>5. Genuine(msg) /\ msg.epoch = e /\ msg.ty # "Ct2"
    BY <2>4, WithGenuine DEF MessageTypes
  <2>6. next \in HeaderSide(e) /\ next.tag = "KeysSampled"
    BY <2>4 DEF HeaderSide, KeysSampled
  <2> HIDE DEF next, msg
  <2> QED BY <2>0, <2>1, <2>2, <2>5, <2>6 DEF Sends
<1>2. CASE b \in KeysSampled(e) \cup HeaderSent(e) \cup Ct1Received(e)
  <2> DEFINE ty == StreamType(b.tag)
             msg == With(e, ty, Chunk(b.enc))
             next == [b EXCEPT !.enc = next_chunk(@)]
  <2>1. b.tag \in {"KeysSampled", "HeaderSent", "Ct1Received"} /\ b.epoch = e
    BY <1>2 DEF KeysSampled, HeaderSent, Ct1Received
  <2>2. r = Sends(msg, None, next)
    BY <2>1 DEF step_send, Streaming
  <2>3. ty \in {"Hdr", "Ek", "EkCt1Ack"} /\ b.enc \in Encoders(Value(e, ty))
    BY <1>2 DEF StreamType, KeysSampled, HeaderSent, Ct1Received, Value
  <2>4. next_chunk(b.enc) \in Encoders(Value(e, ty))
        /\ (Chunk(b.enc) = None \/ Chunk(b.enc) \in Codewords(Value(e, ty)))
    BY <2>3, EncoderStep
  <2>5. Genuine(msg) /\ msg.epoch = e /\ msg.ty # "Ct2"
    BY <2>3, <2>4, WithGenuine DEF MessageTypes
  <2>6. next \in HeaderSide(e) /\ next.tag = b.tag
    <3>1. CASE b \in KeysSampled(e)
      BY <2>4, <3>1 DEF KeysSampled, HeaderSide, StreamType, Value
    <3>2. CASE b \in HeaderSent(e)
      BY <2>4, <3>2 DEF HeaderSent, HeaderSide, StreamType, Value
    <3>3. CASE b \in Ct1Received(e)
      BY <2>4, <3>3 DEF Ct1Received, HeaderSide, StreamType, Value
    <3> QED BY <1>2, <3>1, <3>2, <3>3
  <2> HIDE DEF msg, next
  <2> QED BY <2>2, <2>5, <2>6 DEF Sends
<1>3. CASE b \in EkSentCt1Received(e)
  <2>1. b.tag = "EkSentCt1Received" /\ b.epoch = e
    BY <1>3 DEF EkSentCt1Received
  <2>2. r = Sends(Empty(e), None, b)
    BY <2>1 DEF step_send, Streaming
  <2>3. Genuine(Empty(e)) /\ Empty(e).epoch = e /\ Empty(e).ty # "Ct2"
    BY DEF Genuine, Empty
  <2> QED BY <2>2, <2>3 DEF Sends
<1> QED BY <1>1, <1>2, <1>3 DEF HeaderSide

\* A party that sends the ciphertext.
LEMMA SendCiphertextSide ==
  ASSUME NEW e \in Epochs, NEW b \in CiphertextSide(e)
  PROVE  Sending(CiphertextParty(e), e, b, step_send(b, <<CiphertextParty(e), e>>))
<1> DEFINE fresh == <<CiphertextParty(e), e>>
           r == step_send(b, fresh)
<1>0. /\ Encapsulate(KeyPairOf(e), fresh) = CiphertextOf(e) /\ e \in Nat \ {0}
      /\ CiphertextParty(e) # HeaderParty(e)
  BY Sides DEF CiphertextOf, Encapsulate, Epochs
<1> HIDE DEF fresh
<1> SUFFICES /\ r.state \in CiphertextSide(e)
             /\ Genuine(r.msg) /\ r.msg.epoch = e /\ (r.msg.ty = "Ct2" => b.tag = "Ct2Sampled")
             /\ \/ r.state.tag = b.tag /\ r.out = None
                \/ /\ b.tag = "HeaderReceived" /\ r.state.tag = "Ct1Sampled"
                   /\ r.out = Output(e, KeyOf(e))
  BY <1>0 DEF Sending, StatesOf, fresh
<1>1. CASE b \in HeaderReceived(e)
  <2> DEFINE enc == NewEncoder(CiphertextOf(e))
             msg == With(e, "Ct1", Chunk(enc))
             next == [tag |-> "Ct1Sampled", epoch |-> e, auth |-> AuthOf(e + 1),
                      header |-> KeyPairOf(e), ct1 |-> CiphertextOf(e),
                      enc |-> next_chunk(enc), dec |-> b.dec]
  <2>0. b.tag = "HeaderReceived" /\ b.epoch = e /\ b.auth = AuthOf(e) /\ b.header = KeyPairOf(e)
    BY <1>1 DEF HeaderReceived
  <2>1. r = Sends(msg, Output(e, KeyOf(e)), next)
    BY <1>0, <2>0, AuthGrows DEF step_send, SampleCt1, KeyOf, Streaming
  <2>2. enc \in Encoders(CiphertextOf(e))
    BY EncoderStart
  <2> HIDE DEF enc
  <2>3. next_chunk(enc) \in Encoders(CiphertextOf(e))
        /\ (Chunk(enc) = None \/ Chunk(enc) \in Codewords(Value(e, "Ct1")))
    BY <2>2, EncoderStep DEF Value
  <2>4. Genuine(msg) /\ msg.epoch = e /\ msg.ty # "Ct2"
    BY <2>3, WithGenuine DEF MessageTypes
  <2>5. next \in CiphertextSide(e) /\ next.tag = "Ct1Sampled"
    BY <1>1, <2>3 DEF CiphertextSide, Ct1Sampled, HeaderReceived
  <2> HIDE DEF next, msg
  <2> QED BY <2>0, <2>1, <2>4, <2>5 DEF Sends
<1>2. CASE b \in Ct1Sampled(e) \cup EkReceivedCt1Sampled(e) \cup Ct2Sampled(e)
  <2> DEFINE ty == StreamType(b.tag)
             msg == With(e, ty, Chunk(b.enc))
             next == [b EXCEPT !.enc = next_chunk(@)]
  <2>1. b.tag \in {"Ct1Sampled", "EkReceivedCt1Sampled", "Ct2Sampled"} /\ b.epoch = e
    BY <1>2 DEF Ct1Sampled, EkReceivedCt1Sampled, Ct2Sampled
  <2>2. r = Sends(msg, None, next)
    BY <2>1 DEF step_send, Streaming
  <2>3. ty \in {"Ct1", "Ct2"} /\ b.enc \in Encoders(Value(e, ty)) /\ (ty = "Ct2" => b.tag = "Ct2Sampled")
    BY <1>2 DEF StreamType, Ct1Sampled, EkReceivedCt1Sampled, Ct2Sampled, Value
  <2>4. next_chunk(b.enc) \in Encoders(Value(e, ty))
        /\ (Chunk(b.enc) = None \/ Chunk(b.enc) \in Codewords(Value(e, ty)))
    BY <2>3, EncoderStep
  <2>5. Genuine(msg) /\ msg.epoch = e /\ (msg.ty = "Ct2" => b.tag = "Ct2Sampled")
    BY <2>3, <2>4, WithGenuine DEF MessageTypes
  <2>6. next \in CiphertextSide(e) /\ next.tag = b.tag
    <3>1. CASE b \in Ct1Sampled(e)
      BY <2>4, <3>1 DEF Ct1Sampled, CiphertextSide, StreamType, Value
    <3>2. CASE b \in EkReceivedCt1Sampled(e)
      BY <2>4, <3>2 DEF EkReceivedCt1Sampled, CiphertextSide, StreamType, Value
    <3>3. CASE b \in Ct2Sampled(e)
      BY <2>4, <3>3 DEF Ct2Sampled, CiphertextSide, StreamType, Value
    <3> QED BY <1>2, <3>1, <3>2, <3>3
  <2> HIDE DEF msg, next
  <2> QED BY <2>2, <2>5, <2>6 DEF Sends
<1>3. CASE b \in NoHeaderReceived(e) \cup Ct1Acknowledged(e)
  <2>1. b.tag \in {"NoHeaderReceived", "Ct1Acknowledged"} /\ b.epoch = e
    BY <1>3 DEF NoHeaderReceived, Ct1Acknowledged
  <2>2. r = Sends(Empty(e), None, b)
    BY <2>1 DEF step_send, Streaming
  <2>3. Genuine(Empty(e)) /\ Empty(e).epoch = e /\ Empty(e).ty # "Ct2"
    BY DEF Genuine, Empty
  <2> QED BY <2>2, <2>3 DEF Sends
<1> QED BY <1>1, <1>2, <1>3 DEF CiphertextSide
-----------------------------------------------------------------------------
(* Receiving *)

\* What a receive of message m by party p, in epoch e and state b, gives: it stays in
\* the epoch, it completes it with its key, it enters the next as its peer did before,
\* or it gives up in the last one.
Stays(p, e, b, m, r) ==
  /\ r.out = None /\ r.state \in StatesOf(p, e) /\ Holds(r.state) = Holds(b)
  /\ b.tag = "Ct2Sampled" => r.state = b
  /\ r.state.tag # b.tag => m.epoch = e
  /\ r.state.tag = "EkSentCt1Received" => b.tag = "EkSentCt1Received" \/ m.ty = "Ct2"

Completes(p, e, b, r) ==
  /\ b.tag = "EkSentCt1Received" /\ e + 1 < U64_MAX
  /\ r.out = Output(e, KeyOf(e)) /\ r.state \in NoHeaderReceived(e + 1)

Follows(p, e, b, m, r) ==
  /\ b.tag = "Ct2Sampled" /\ e + 1 < U64_MAX /\ m.epoch = e + 1
  /\ r.out = None /\ r.state \in KeysUnsampled(e + 1)

GivesUp(p, e, b, r) ==
  /\ b.tag \in {"EkSentCt1Received", "Ct2Sampled"} /\ e + 1 = U64_MAX
  /\ r.out = None /\ r.state = Failed

Receiving(p, e, b, m, r) ==
  Stays(p, e, b, m, r) \/ Completes(p, e, b, r) \/ Follows(p, e, b, m, r) \/ GivesUp(p, e, b, r)

\* Every state of an epoch has its epoch and one of the tags of its side.
LEMMA StateTags ==
  ASSUME NEW e \in Epochs
  PROVE  /\ \A b \in HeaderSide(e) : b.epoch = e /\ b.tag \in SendsHeader
         /\ \A b \in CiphertextSide(e) :
              b.epoch = e /\ b.tag \in KeyHolding \cup {"NoHeaderReceived", "HeaderReceived"}
<1>1. ASSUME NEW b \in HeaderSide(e) PROVE b.epoch = e /\ b.tag \in SendsHeader
  BY DEF HeaderSide, KeysUnsampled, KeysSampled, HeaderSent, Ct1Received, EkSentCt1Received, SendsHeader
<1>2. ASSUME NEW b \in CiphertextSide(e)
      PROVE  b.epoch = e /\ b.tag \in KeyHolding \cup {"NoHeaderReceived", "HeaderReceived"}
  BY DEF CiphertextSide, NoHeaderReceived, HeaderReceived, Ct1Sampled, EkReceivedCt1Sampled,
         Ct1Acknowledged, Ct2Sampled, KeyHolding
<1> QED BY <1>1, <1>2

\* What awaits a codeword gets one of the value it awaits.
LEMMA AwaitedValue ==
  ASSUME NEW e \in Epochs, NEW b, b.epoch = e, NEW m, Genuine(m), Awaited(b, m)
  PROVE  /\ m.epoch = e /\ TypeAwaited(b.tag, m.ty)
         /\ m.ty \in MessageTypes => m.data \in Codewords(Value(e, m.ty))
BY DEF Genuine, Awaited, MessageTypes

\* A party that sends the header.
LEMMA ReceiveHeaderSide ==
  ASSUME NEW e \in Epochs, NEW b \in HeaderSide(e), NEW m, Genuine(m)
  PROVE  Receiving(HeaderParty(e), e, b, m, step_receive(b, m))
<1> DEFINE r == step_receive(b, m)
           p == HeaderParty(e)
<1>1. b.epoch = e /\ b.tag \in SendsHeader /\ e \in Nat \ {0} /\ e + 1 <= U64_MAX /\ U64_MAX \in Nat
  BY StateTags, StreamAssumption DEF Epochs
<1>2. b.tag # "Failed" /\ b.tag # "Ct2Sampled" /\ b.tag \notin KeyHolding
  BY <1>1 DEF SendsHeader, KeyHolding
<1>3. ASSUME NEW c \in HeaderSide(e), r = Gets(None, c), c.tag # b.tag => m.epoch = e,
             c.tag = "EkSentCt1Received" => b.tag = "EkSentCt1Received" \/ m.ty = "Ct2"
      PROVE  Stays(p, e, b, m, r)
  <2>1. c.tag \notin KeyHolding /\ c.epoch = e
    BY StateTags DEF SendsHeader, KeyHolding
  <2>2. Holds(c) = Holds(b)
    BY <1>1, <1>2, <2>1 DEF Holds
  <2> QED BY <1>2, <1>3, <2>2 DEF Stays, Gets, StatesOf
<1>4. CASE ~Awaited(b, m)
  <2>1. r = Gets(None, b)
    BY <1>2, <1>4 DEF step_receive
  <2> QED BY <1>3, <2>1 DEF Receiving
<1>5. CASE Awaited(b, m)
  <2>1. m.epoch = e /\ TypeAwaited(b.tag, m.ty)
        /\ (m.ty \in MessageTypes => m.data \in Codewords(Value(e, m.ty)))
    BY <1>1, <1>5, AwaitedValue
  <2>2. CASE b \in KeysUnsampled(e)
    BY <2>1, <2>2 DEF KeysUnsampled, TypeAwaited
  <2>3. CASE b \in KeysSampled(e)
    <3> DEFINE dec == add_chunk(NewDecoder("ct1"), m.data)
               c == [tag |-> "HeaderSent", epoch |-> e, auth |-> AuthOf(e), kp |-> KeyPairOf(e),
                     dec |-> dec, enc |-> NewEncoder(KeyPairOf(e))]
    <3>1. b.tag = "KeysSampled" /\ b.auth = AuthOf(e) /\ b.kp = KeyPairOf(e)
      BY <2>3 DEF KeysSampled
    <3>2. m.ty = "Ct1" /\ m.data \in Codewords(CiphertextOf(e))
      BY <2>1, <3>1 DEF TypeAwaited, Value, MessageTypes
    <3>3. dec \in Decoders("ct1", CiphertextOf(e))
      BY <3>2, DecoderStart, DecoderStep
    <3>4. r = Gets(None, c)
      BY <1>1, <1>5, <3>1 DEF step_receive, RecvKeysSampled
    <3>5. c \in HeaderSide(e) /\ c.tag = "HeaderSent"
      BY <3>3, EncoderStart DEF HeaderSide, HeaderSent
    <3> HIDE DEF c
    <3> QED BY <1>3, <2>1, <3>4, <3>5 DEF Receiving
  <2>4. CASE b \in HeaderSent(e)
    <3> DEFINE dec == add_chunk(b.dec, m.data)
               c == [tag |-> "Ct1Received", epoch |-> e, auth |-> AuthOf(e), kp |-> KeyPairOf(e),
                     ct1 |-> message(dec), enc |-> b.enc]
               d == [b EXCEPT !.dec = dec]
    <3>1. b.tag = "HeaderSent" /\ b.auth = AuthOf(e) /\ b.kp = KeyPairOf(e)
      BY <2>4 DEF HeaderSent
    <3>2. m.ty = "Ct1" /\ m.data \in Codewords(CiphertextOf(e))
      BY <2>1, <3>1 DEF TypeAwaited, Value, MessageTypes
    <3>3. dec \in Decoders("ct1", CiphertextOf(e))
          /\ (has_message(dec) => message(dec) = CiphertextOf(e))
      BY <2>4, <3>2, DecoderStep DEF HeaderSent
    <3>4. r = Gets(None, IF has_message(dec) THEN c ELSE d)
      BY <1>1, <1>5, <3>1 DEF step_receive, RecvHeaderSent
    <3>5. (has_message(dec) => c \in HeaderSide(e)) /\ c.tag = "Ct1Received"
      BY <2>4, <3>3 DEF HeaderSide, HeaderSent, Ct1Received
    <3>6. d \in HeaderSide(e) /\ d.tag = "HeaderSent"
      BY <2>4, <3>3 DEF HeaderSide, HeaderSent
    <3> HIDE DEF c, d, dec
    <3> QED BY <1>3, <2>1, <3>4, <3>5, <3>6 DEF Receiving
  <2>5. CASE b \in Ct1Received(e)
    <3> DEFINE dec == add_chunk(NewDecoder("ct2"), m.data)
               c == [tag |-> "EkSentCt1Received", epoch |-> e, auth |-> AuthOf(e),
                     kp |-> KeyPairOf(e), ct1 |-> CiphertextOf(e), dec |-> dec]
    <3>1. /\ b.tag = "Ct1Received" /\ b.auth = AuthOf(e) /\ b.kp = KeyPairOf(e)
          /\ b.ct1 = CiphertextOf(e)
      BY <2>5 DEF Ct1Received
    <3>2. m.ty = "Ct2" /\ m.data \in Codewords(Ct2Frame(e))
      BY <2>1, <3>1 DEF TypeAwaited, Value, MessageTypes
    <3>3. dec \in Decoders("ct2", Ct2Frame(e))
      BY <3>2, DecoderStart, DecoderStep
    <3>4. r = Gets(None, c)
      BY <1>1, <1>5, <3>1 DEF step_receive, RecvCt1Received
    <3>5. c \in HeaderSide(e) /\ c.tag = "EkSentCt1Received"
      BY <3>3 DEF HeaderSide, EkSentCt1Received
    <3> HIDE DEF c
    <3> QED BY <1>3, <2>1, <3>2, <3>4, <3>5 DEF Receiving
  <2>6. CASE b \in EkSentCt1Received(e)
    <3> DEFINE dec == add_chunk(b.dec, m.data)
               d == [b EXCEPT !.dec = dec]
               key == kdf_ok(decapsulate(b.kp, b.ct1, message(dec).ct2), e)
               auth == AuthUpdate(AuthOf(e), e, key)
               c == [tag |-> "NoHeaderReceived", epoch |-> e + 1, auth |-> auth,
                     dec |-> NewDecoder("hdr")]
    <3>1. /\ b.tag = "EkSentCt1Received" /\ b.auth = AuthOf(e) /\ b.kp = KeyPairOf(e)
          /\ b.ct1 = CiphertextOf(e)
      BY <2>6 DEF EkSentCt1Received
    <3>2. m.ty = "Ct2" /\ m.data \in Codewords(Ct2Frame(e))
      BY <2>1, <3>1 DEF TypeAwaited, Value, MessageTypes
    <3>3. dec \in Decoders("ct2", Ct2Frame(e)) /\ (has_message(dec) => message(dec) = Ct2Frame(e))
      BY <2>6, <3>2, DecoderStep DEF EkSentCt1Received
    <3>4. r = RecvEkSent(b, m.data)
      BY <1>1, <1>5, <3>1 DEF step_receive
    <3>5. CASE ~has_message(dec)
      <4>1. r = Gets(None, d)
        BY <3>4, <3>5 DEF RecvEkSent
      <4>2. d \in HeaderSide(e) /\ d.tag = b.tag
        BY <2>6, <3>3 DEF HeaderSide, EkSentCt1Received
      <4> HIDE DEF d
      <4> QED BY <1>3, <3>1, <4>1, <4>2 DEF Receiving
    <3>6. CASE has_message(dec) /\ Reserved(e)
      <4>1. r = Gets(None, Failed)
        BY <1>1, <3>4, <3>6 DEF RecvEkSent
      <4>2. e + 1 = U64_MAX
        BY <1>1, <3>6 DEF Reserved
      <4> QED BY <3>1, <4>1, <4>2 DEF Receiving, GivesUp, Gets
    <3>7. CASE has_message(dec) /\ ~Reserved(e)
      <4>1. message(dec) = Ct2Frame(e) /\ Ct2Frame(e) # None /\ Ct2Frame(e).ct2 = CiphertextOf(e)
            /\ Ct2Frame(e).mac = mac_ct(AuthOf(e + 1), e, CiphertextOf(e), CiphertextOf(e))
        BY <1>1, <3>3, <3>7, SomeValue DEF Ct2Frame
      <4>2. key = KeyOf(e)
        BY <3>1, <4>1 DEF decapsulate, KeyOf, CiphertextOf
      <4>3. auth = AuthOf(e + 1)
        BY <1>1, <4>2, AuthGrows
      <4>4. r = Gets(Output(e, key), c)
        <5>1. message(dec).mac = mac_ct(auth, e, b.ct1, message(dec).ct2)
          BY <3>1, <4>1, <4>3
        <5> QED BY <1>1, <3>1, <3>4, <3>7, <4>1, <5>1 DEF RecvEkSent, CompletedOutput
      <4>5. c \in NoHeaderReceived(e + 1)
        BY <4>3, DecoderStart DEF NoHeaderReceived
      <4>6. e + 1 < U64_MAX
        BY <1>1, <3>7 DEF Reserved
      <4> HIDE DEF c, key
      <4> QED BY <3>1, <4>2, <4>4, <4>5, <4>6 DEF Receiving, Completes, Gets
    <3> QED BY <3>5, <3>6, <3>7
  <2> QED BY <2>2, <2>3, <2>4, <2>5, <2>6 DEF HeaderSide
<1> QED BY <1>4, <1>5
\* A party that sends the ciphertext.
LEMMA ReceiveCiphertextSide ==
  ASSUME NEW e \in Epochs, NEW b \in CiphertextSide(e), NEW m, Genuine(m)
  PROVE  Receiving(CiphertextParty(e), e, b, m, step_receive(b, m))
<1> DEFINE r == step_receive(b, m)
           p == CiphertextParty(e)
<1>1. /\ b.epoch = e /\ b.tag \in KeyHolding \cup {"NoHeaderReceived", "HeaderReceived"}
      /\ e \in Nat \ {0} /\ e + 1 <= U64_MAX /\ U64_MAX \in Nat /\ p # HeaderParty(e)
  BY StateTags, StreamAssumption, Sides DEF Epochs
<1>2. b.tag # "Failed"
  BY <1>1 DEF KeyHolding
<1>3. ASSUME NEW c \in CiphertextSide(e), r = Gets(None, c), c.tag # b.tag => m.epoch = e,
             b.tag = "Ct2Sampled" => c = b, c.tag \in KeyHolding <=> b.tag \in KeyHolding
      PROVE  Receiving(p, e, b, m, r)
  <2>1. c.tag # "EkSentCt1Received" /\ c.epoch = e
    BY StateTags DEF KeyHolding
  <2>2. Holds(c) = Holds(b)
    BY <1>1, <1>3, <2>1 DEF Holds
  <2> QED BY <1>1, <1>3, <2>1, <2>2 DEF Receiving, Stays, Gets, StatesOf
<1>4. CASE b.tag # "Ct2Sampled" /\ ~Awaited(b, m)
  <2>1. r = Gets(None, b)
    BY <1>2, <1>4 DEF step_receive
  <2> QED BY <1>3, <2>1
<1>5. CASE b \in Ct2Sampled(e)
  <2>1. b.tag = "Ct2Sampled" /\ b.auth = AuthOf(e + 1)
    BY <1>5 DEF Ct2Sampled
  <2>2. r = RecvCt2Sampled(b, m)
    BY <2>1 DEF step_receive
  <2>3. CASE Reserved(e)
    <3>1. r = Gets(None, Failed) /\ e + 1 = U64_MAX
      BY <1>1, <2>2, <2>3 DEF RecvCt2Sampled, Reserved
    <3> QED BY <2>1, <3>1 DEF Receiving, GivesUp, Gets
  <2>4. CASE ~Reserved(e) /\ m.epoch = e + 1
    <3> DEFINE c == [tag |-> "KeysUnsampled", epoch |-> e + 1, auth |-> AuthOf(e + 1)]
    <3>1. r = Gets(None, c) /\ e + 1 < U64_MAX
      BY <1>1, <2>1, <2>2, <2>4 DEF RecvCt2Sampled, Reserved
    <3>2. c \in KeysUnsampled(e + 1)
      BY DEF KeysUnsampled
    <3> HIDE DEF c
    <3> QED BY <2>1, <2>4, <3>1, <3>2 DEF Receiving, Follows, Gets
  <2>5. CASE ~Reserved(e) /\ m.epoch # e + 1
    <3>1. r = Gets(None, b)
      BY <1>1, <2>2, <2>5 DEF RecvCt2Sampled
    <3> QED BY <1>3, <3>1
  <2> QED BY <2>3, <2>4, <2>5
<1>6. CASE b \notin Ct2Sampled(e) /\ Awaited(b, m)
  <2>1. m.epoch = e /\ TypeAwaited(b.tag, m.ty)
        /\ (m.ty \in MessageTypes => m.data \in Codewords(Value(e, m.ty)))
    BY <1>1, <1>6, AwaitedValue
  <2>2. CASE b \in HeaderReceived(e)
    BY <2>1, <2>2 DEF HeaderReceived, TypeAwaited
  <2>3. CASE b \in NoHeaderReceived(e)
    <3> DEFINE dec == add_chunk(b.dec, m.data)
               c == [tag |-> "HeaderReceived", epoch |-> e, auth |-> AuthOf(e),
                     header |-> KeyPairOf(e), dec |-> NewDecoder("ek")]
               d == [b EXCEPT !.dec = dec]
    <3>1. b.tag = "NoHeaderReceived" /\ b.auth = AuthOf(e)
      BY <2>3 DEF NoHeaderReceived
    <3>2. m.ty = "Hdr" /\ m.data \in Codewords(HeaderFrame(e))
      BY <2>1, <3>1 DEF TypeAwaited, Value, MessageTypes
    <3>3. dec \in Decoders("hdr", HeaderFrame(e))
          /\ (has_message(dec) => message(dec) = HeaderFrame(e))
      BY <2>3, <3>2, DecoderStep DEF NoHeaderReceived
    <3>4. r = RecvNoHeader(b, m.data)
      BY <1>1, <1>6, <3>1 DEF step_receive
    <3>5. CASE ~has_message(dec)
      <4>1. r = Gets(None, d)
        BY <3>4, <3>5 DEF RecvNoHeader
      <4>2. d \in CiphertextSide(e) /\ d.tag = b.tag
        BY <2>3, <3>3 DEF CiphertextSide, NoHeaderReceived
      <4> HIDE DEF d
      <4> QED BY <1>3, <3>1, <4>1, <4>2
    <3>6. CASE has_message(dec)
      <4>1. /\ message(dec) = HeaderFrame(e) /\ HeaderFrame(e) # None
            /\ HeaderFrame(e).header = KeyPairOf(e)
            /\ HeaderFrame(e).mac = mac_hdr(AuthOf(e), e, KeyPairOf(e))
        BY <1>1, <3>3, <3>6, SomeValue DEF HeaderFrame
      <4>2. r = Gets(None, c)
        BY <1>1, <3>1, <3>4, <3>6, <4>1 DEF RecvNoHeader
      <4>3. c \in CiphertextSide(e) /\ c.tag = "HeaderReceived"
        BY DecoderStart DEF CiphertextSide, HeaderReceived
      <4> HIDE DEF c
      <4> QED BY <1>3, <2>1, <3>1, <4>2, <4>3 DEF KeyHolding
    <3> QED BY <3>5, <3>6
  <2>4. ASSUME b.auth = AuthOf(e + 1), b.ct1 = CiphertextOf(e), b.tag # "Ct2Sampled",
               b.tag \in KeyHolding, r = Gets(None, finish_encaps(b, KeyPairOf(e)))
        PROVE  Receiving(p, e, b, m, r)
    <3> DEFINE c == [tag |-> "Ct2Sampled", epoch |-> e, auth |-> AuthOf(e + 1),
                     enc |-> NewEncoder(Ct2Frame(e))]
    <3>1. Encapsulate(KeyPairOf(e), CiphertextOf(e).r) = CiphertextOf(e)
      BY DEF Encapsulate, CiphertextOf
    <3>2. finish_encaps(b, KeyPairOf(e)) = c
      BY <1>1, <2>4, <3>1 DEF finish_encaps, Ct2Frame
    <3>3. c \in CiphertextSide(e) /\ c.tag = "Ct2Sampled"
      BY EncoderStart DEF CiphertextSide, Ct2Sampled
    <3> HIDE DEF c
    <3> QED BY <1>3, <2>1, <2>4, <3>2, <3>3 DEF KeyHolding
  <2>5. CASE b \in Ct1Sampled(e)
    <3> DEFINE dec == add_chunk(b.dec, m.data)
               c == [tag |-> "EkReceivedCt1Sampled", epoch |-> e, auth |-> AuthOf(e + 1),
                     ct1 |-> CiphertextOf(e), ek_vector |-> KeyPairOf(e), enc |-> b.enc]
               a == [tag |-> "Ct1Acknowledged", epoch |-> e, auth |-> AuthOf(e + 1),
                     header |-> KeyPairOf(e), ct1 |-> CiphertextOf(e), dec |-> dec]
               d == [b EXCEPT !.dec = dec]
    <3>1. /\ b.tag = "Ct1Sampled" /\ b.auth = AuthOf(e + 1) /\ b.header = KeyPairOf(e)
          /\ b.ct1 = CiphertextOf(e)
      BY <2>5 DEF Ct1Sampled
    <3>2. m.ty \in {"Ek", "EkCt1Ack"} /\ m.data \in Codewords(KeyPairOf(e))
      BY <2>1, <3>1 DEF TypeAwaited, Value, MessageTypes
    <3>3. dec \in Decoders("ek", KeyPairOf(e)) /\ (has_message(dec) => message(dec) = KeyPairOf(e))
      BY <2>5, <3>2, DecoderStep DEF Ct1Sampled
    <3>4. r = RecvCt1Sampled(b, m.ty, m.data)
      BY <1>1, <1>6, <3>1 DEF step_receive
    <3>5. CASE has_message(dec) /\ m.ty = "EkCt1Ack"
      <4>1. r = Gets(None, finish_encaps(b, KeyPairOf(e)))
        BY <3>1, <3>3, <3>4, <3>5 DEF RecvCt1Sampled, validate_ek
      <4> QED BY <2>4, <3>1, <4>1 DEF KeyHolding
    <3>6. CASE has_message(dec) /\ m.ty # "EkCt1Ack"
      <4>1. r = Gets(None, c)
        BY <1>1, <3>1, <3>3, <3>4, <3>6 DEF RecvCt1Sampled, validate_ek
      <4>2. c \in CiphertextSide(e) /\ c.tag = "EkReceivedCt1Sampled"
        BY <2>5 DEF CiphertextSide, EkReceivedCt1Sampled, Ct1Sampled
      <4> HIDE DEF c
      <4> QED BY <1>3, <2>1, <3>1, <4>1, <4>2 DEF KeyHolding
    <3>7. CASE ~has_message(dec) /\ m.ty = "EkCt1Ack"
      <4>1. r = Gets(None, a)
        BY <1>1, <3>1, <3>4, <3>7 DEF RecvCt1Sampled
      <4>2. a \in CiphertextSide(e) /\ a.tag = "Ct1Acknowledged"
        BY <3>3 DEF CiphertextSide, Ct1Acknowledged
      <4> HIDE DEF a
      <4> QED BY <1>3, <2>1, <3>1, <4>1, <4>2 DEF KeyHolding
    <3>8. CASE ~has_message(dec) /\ m.ty # "EkCt1Ack"
      <4>1. r = Gets(None, d)
        BY <3>4, <3>8 DEF RecvCt1Sampled
      <4>2. d \in CiphertextSide(e) /\ d.tag = b.tag
        BY <2>5, <3>3 DEF CiphertextSide, Ct1Sampled
      <4> HIDE DEF d
      <4> QED BY <1>3, <3>1, <4>1, <4>2
    <3> QED BY <3>5, <3>6, <3>7, <3>8
  <2>6. CASE b \in EkReceivedCt1Sampled(e)
    <3>1. /\ b.tag = "EkReceivedCt1Sampled" /\ b.auth = AuthOf(e + 1)
          /\ b.ek_vector = KeyPairOf(e) /\ b.ct1 = CiphertextOf(e)
      BY <2>6 DEF EkReceivedCt1Sampled
    <3>2. r = Gets(None, finish_encaps(b, KeyPairOf(e)))
      BY <1>6, <3>1 DEF step_receive
    <3> QED BY <2>4, <3>1, <3>2 DEF KeyHolding
  <2>7. CASE b \in Ct1Acknowledged(e)
    <3> DEFINE dec == add_chunk(b.dec, m.data)
               d == [b EXCEPT !.dec = dec]
    <3>1. /\ b.tag = "Ct1Acknowledged" /\ b.auth = AuthOf(e + 1) /\ b.header = KeyPairOf(e)
          /\ b.ct1 = CiphertextOf(e)
      BY <2>7 DEF Ct1Acknowledged
    <3>2. m.ty = "EkCt1Ack" /\ m.data \in Codewords(KeyPairOf(e))
      BY <2>1, <3>1 DEF TypeAwaited, Value, MessageTypes
    <3>3. dec \in Decoders("ek", KeyPairOf(e)) /\ (has_message(dec) => message(dec) = KeyPairOf(e))
      BY <2>7, <3>2, DecoderStep DEF Ct1Acknowledged
    <3>4. r = RecvCt1Acknowledged(b, m.data)
      BY <1>6, <3>1 DEF step_receive
    <3>5. CASE has_message(dec)
      <4>1. r = Gets(None, finish_encaps(b, KeyPairOf(e)))
        BY <3>1, <3>3, <3>4, <3>5 DEF RecvCt1Acknowledged, validate_ek
      <4> QED BY <2>4, <3>1, <4>1 DEF KeyHolding
    <3>6. CASE ~has_message(dec)
      <4>1. r = Gets(None, d)
        BY <3>4, <3>6 DEF RecvCt1Acknowledged
      <4>2. d \in CiphertextSide(e) /\ d.tag = b.tag
        BY <2>7, <3>3 DEF CiphertextSide, Ct1Acknowledged
      <4> HIDE DEF d
      <4> QED BY <1>3, <3>1, <4>1, <4>2
    <3> QED BY <3>5, <3>6
  <2> QED BY <1>6, <2>2, <2>3, <2>5, <2>6, <2>7 DEF CiphertextSide
<1>7. b.tag = "Ct2Sampled" => b \in Ct2Sampled(e)
  BY DEF CiphertextSide, NoHeaderReceived, HeaderReceived, Ct1Sampled, EkReceivedCt1Sampled,
         Ct1Acknowledged
<1> QED BY <1>4, <1>5, <1>6, <1>7

-----------------------------------------------------------------------------
(* One party's step *)

\* A send, whichever side the party is on.
LEMMA SendStep ==
  ASSUME NEW p \in Party, NEW e \in Epochs, NEW b \in StatesOf(p, e)
  PROVE  Sending(p, e, b, step_send(b, <<p, e>>))
<1>1. e \in Nat
  BY DEF Epochs
<1>2. CASE p = HeaderParty(e)
  BY <1>2, SendHeaderSide DEF StatesOf
<1>3. CASE p # HeaderParty(e)
  <2>1. p = CiphertextParty(e) /\ b \in CiphertextSide(e)
    BY <1>1, <1>3, Sides, PeerParty DEF StatesOf
  <2> QED BY <2>1, SendCiphertextSide
<1> QED BY <1>2, <1>3

\* A receive, whichever side the party is on.
LEMMA ReceiveStep ==
  ASSUME NEW p \in Party, NEW e \in Epochs, NEW b \in StatesOf(p, e), NEW m, Genuine(m)
  PROVE  Receiving(p, e, b, m, step_receive(b, m))
<1>1. e \in Nat
  BY DEF Epochs
<1>2. CASE p = HeaderParty(e)
  BY <1>2, ReceiveHeaderSide DEF StatesOf
<1>3. CASE p # HeaderParty(e)
  <2>1. p = CiphertextParty(e) /\ b \in CiphertextSide(e)
    BY <1>1, <1>3, Sides, PeerParty DEF StatesOf
  <2> QED BY <2>1, ReceiveCiphertextSide
<1> QED BY <1>2, <1>3
-----------------------------------------------------------------------------
(* The invariant is inductive *)

\* The step r of party p, and what it leaves alone.
Moved(p, r) ==
  /\ braid' = [braid EXCEPT ![p] = r.state]
  /\ braid'[p] = r.state /\ braid'[Peer(p)] = braid[Peer(p)]
  /\ outputs' = [outputs EXCEPT ![p] = Emit(@, r.out)]
  /\ outputs'[p] = Emit(outputs[p], r.out) /\ outputs'[Peer(p)] = outputs[Peer(p)]

\* A party that has not given up.
Running(p) ==
  /\ braid[p] # Failed /\ braid[p].epoch \in Epochs /\ braid[p] \in StatesOf(p, braid[p].epoch)
  /\ EpochOf(braid[p]) = braid[p].epoch /\ Len(outputs[p]) = Holds(braid[p])
  /\ outputs[p] = KeysTo(Len(outputs[p]))

\* A state of an epoch is not the failed one, and has its epoch.
LEMMA StateFacts ==
  ASSUME NEW p \in Party, NEW e \in Epochs, NEW b \in StatesOf(p, e)
  PROVE  /\ b # Failed /\ b.epoch = e /\ e \in Nat \ {0} /\ e < U64_MAX
         /\ b.tag \in SendsHeader \cup KeyHolding \cup {"NoHeaderReceived", "HeaderReceived"}
         /\ b.tag \in SendsHeader <=> p = HeaderParty(e)
         /\ Holds(b) \in {e - 1, e} /\ Holds(b) \in Nat
<1>1. e \in Nat \ {0} /\ e < U64_MAX
  BY StreamAssumption DEF Epochs
<1>2. CASE p = HeaderParty(e)
  <2>1. b.epoch = e /\ b.tag \in SendsHeader
    BY <1>2, StateTags DEF StatesOf
  <2> QED BY <1>1, <1>2, <2>1 DEF Failed, SendsHeader, KeyHolding, Holds
<1>3. CASE p # HeaderParty(e)
  <2>1. b.epoch = e /\ b.tag \in KeyHolding \cup {"NoHeaderReceived", "HeaderReceived"}
    BY <1>3, StateTags DEF StatesOf
  <2> QED BY <1>1, <1>3, <2>1 DEF Failed, SendsHeader, KeyHolding, Holds
<1> QED BY <1>2, <1>3

\* What a send does, in the terms of this module.
LEMMA SendFacts ==
  ASSUME IInv, NEW p \in Party, Send(p)
  PROVE  LET r == step_send(braid[p], <<p, braid[p].epoch>>)
         IN  /\ Running(p) /\ Moved(p, r) /\ Sending(p, braid[p].epoch, braid[p], r)
             /\ net' = [net EXCEPT ![Peer(p)] = @ \cup {r.msg}]
             /\ net'[p] = net[p] /\ net'[Peer(p)] = net[Peer(p)] \cup {r.msg}
<1> DEFINE r == step_send(braid[p], <<p, braid[p].epoch>>)
<1>1. Running(p)
  BY DEF Send, IInv, InEpoch, Running, EpochOf
<1>2. /\ braid' = [braid EXCEPT ![p] = r.state]
      /\ net' = [net EXCEPT ![Peer(p)] = @ \cup {r.msg}]
      /\ outputs' = [outputs EXCEPT ![p] = Emit(@, r.out)]
  BY <1>1 DEF Send, Running
<1>3. Sending(p, braid[p].epoch, braid[p], r)
  BY <1>1, SendStep DEF Running
<1> HIDE DEF r
<1>4. /\ braid = [x \in Party |-> braid[x]] /\ net = [x \in Party |-> net[x]]
      /\ outputs = [x \in Party |-> outputs[x]]
  BY DEF IInv
<1>5. Moved(p, r)
  BY <1>2, <1>4, PeerParty DEF Moved
<1>6. net'[p] = net[p] /\ net'[Peer(p)] = net[Peer(p)] \cup {r.msg}
  BY <1>2, <1>4, PeerParty
<1> QED BY <1>1, <1>2, <1>3, <1>5, <1>6 DEF r

\* What a receive does.
LEMMA ReceiveFacts ==
  ASSUME IInv, NEW p \in Party, Receive(p)
  PROVE  \E m \in net[p] :
           LET r == step_receive(braid[p], m)
           IN  /\ Running(p) /\ Moved(p, r) /\ Receiving(p, braid[p].epoch, braid[p], m, r)
               /\ net' = [net EXCEPT ![p] = @ \ {m}]
               /\ net'[p] = net[p] \ {m} /\ net'[Peer(p)] = net[Peer(p)]
<1>0. PICK m \in net[p] :
        LET r == step_receive(braid[p], m)
        IN  /\ braid[p] # Failed
            /\ braid' = [braid EXCEPT ![p] = r.state]
            /\ net' = [net EXCEPT ![p] = @ \ {m}]
            /\ outputs' = [outputs EXCEPT ![p] = Emit(@, r.out)]
  BY DEF Receive
<1> DEFINE r == step_receive(braid[p], m)
<1>1. Running(p)
  BY <1>0 DEF IInv, InEpoch, Running, EpochOf
<1>2. /\ braid' = [braid EXCEPT ![p] = r.state]
      /\ net' = [net EXCEPT ![p] = @ \ {m}]
      /\ outputs' = [outputs EXCEPT ![p] = Emit(@, r.out)]
  BY <1>0
<1>3. Genuine(m)
  BY DEF IInv, Posted
<1>4. Receiving(p, braid[p].epoch, braid[p], m, r)
  BY <1>1, <1>3, ReceiveStep DEF Running
<1> HIDE DEF r
<1>5. /\ braid = [x \in Party |-> braid[x]] /\ net = [x \in Party |-> net[x]]
      /\ outputs = [x \in Party |-> outputs[x]]
  BY DEF IInv
<1>6. Moved(p, r)
  BY <1>2, <1>5, PeerParty DEF Moved
<1>7. net'[p] = net[p] \ {m} /\ net'[Peer(p)] = net[Peer(p)]
  BY <1>2, <1>5, PeerParty
<1> QED BY <1>1, <1>2, <1>4, <1>6, <1>7 DEF r

\* The invariant holds at the start.
LEMMA InitIInv == Init => IInv
<1> SUFFICES ASSUME Init PROVE IInv
  OBVIOUS
<1> DEFINE i == initiator(PresharedSecret)
           r == responder(PresharedSecret)
<1>1. AuthInit(1, PresharedSecret) = AuthOf(1)
  <2>1. AuthInit(1, PresharedSecret) \in Seq(Nat \X ({PresharedSecret} \cup EpochKey))
    BY DEF AuthInit
  <2>2. AuthOf(1) \in Seq(Nat \X ({PresharedSecret} \cup EpochKey)) /\ Len(AuthOf(1)) = 1
    <3>1. 1 \in Nat \ {0}
      OBVIOUS
    <3>2. AuthOf(1) \in Absorbed /\ Len(AuthOf(1)) = 1
      BY <3>1, EpochTypes
    <3> QED BY <3>2 DEF Absorbed
  <2>3. AuthOf(1)[1] = <<1, PresharedSecret>>
    BY DEF AuthOf
  <2>4. Len(AuthInit(1, PresharedSecret)) = 1
        /\ AuthInit(1, PresharedSecret)[1] = <<1, PresharedSecret>>
    BY DEF AuthInit
  <2> QED BY <2>1, <2>2, <2>3, <2>4, SeqEqual
<1>2. i \in KeysUnsampled(1)
  BY <1>1 DEF initiator, KeysUnsampled
<1>3. r \in NoHeaderReceived(1)
  BY <1>1, DecoderStart DEF responder, NoHeaderReceived
<1>4. /\ i.tag = "KeysUnsampled" /\ i.epoch = 1 /\ r.tag = "NoHeaderReceived" /\ r.epoch = 1
      /\ i # Failed /\ r # Failed
  BY <1>2, <1>3 DEF KeysUnsampled, NoHeaderReceived, Failed
<1> HIDE DEF i, r
<1>5. /\ braid[Initiator] = i /\ braid[Responder] = r /\ Party = {Initiator, Responder}
      /\ \A p \in Party : net[p] = {} /\ outputs[p] = << >>
      /\ braid = [p \in Party |-> braid[p]] /\ net = [p \in Party |-> net[p]]
      /\ outputs = [p \in Party |-> outputs[p]]
  BY TrafficAssumption DEF Init, Party, i, r
<1>6. 1 \in Epochs /\ HeaderParty(1) = Initiator /\ U64_MAX \in Nat /\ U64_MAX > 2
  BY StreamAssumption DEF Epochs, HeaderParty
<1>7. << >> = KeysTo(0)
  BY KeysGrow, SeqEqual DEF KeysTo
<1>8. i \in StatesOf(Initiator, 1) /\ r \in StatesOf(Responder, 1)
  BY <1>2, <1>3, <1>6, TrafficAssumption DEF StatesOf, HeaderSide, CiphertextSide
<1>9. Holds(i) = 0 /\ Holds(r) = 0
  BY <1>4 DEF Holds, KeyHolding
<1>10. ASSUME NEW p \in Party PROVE InEpoch(p)
  <2>1. Len(outputs[p]) = 0 /\ outputs[p] = KeysTo(0)
    BY <1>5, <1>7
  <2> QED BY <1>4, <1>5, <1>6, <1>8, <1>9, <2>1 DEF InEpoch
<1>11. ASSUME NEW p \in Party PROVE Posted(p)
  BY <1>5 DEF Posted
<1>12. ASSUME NEW p \in Party PROVE Together(p)
  BY <1>4, <1>5, TrafficAssumption DEF Together, Peer
<1>13. FailsOnlyAtCeiling
  BY <1>4, <1>5 DEF FailsOnlyAtCeiling
<1> QED BY <1>5, <1>10, <1>11, <1>12, <1>13 DEF IInv

\* A send keeps it.
LEMMA SendKeeps ==
  ASSUME IInv, NEW p \in Party, Send(p)
  PROVE  IInv'
<1> DEFINE q == Peer(p)
           b == braid[p]
           c == braid[q]
           e == b.epoch
           r == step_send(b, <<p, e>>)
           n == r.state
<1>1. /\ Running(p) /\ Moved(p, r) /\ Sending(p, e, b, r)
      /\ net' = [net EXCEPT ![q] = @ \cup {r.msg}]
      /\ net'[p] = net[p] /\ net'[q] = net[q] \cup {r.msg}
  BY SendFacts
<1> HIDE DEF r
<1>2. /\ q \in Party /\ q # p /\ Peer(q) = p /\ \A x \in Party : x = p \/ x = q
      /\ U64_MAX \in Nat /\ U64_MAX > 2
  BY PeerParty, StreamAssumption
<1>3. /\ b # Failed /\ e \in Epochs /\ b \in StatesOf(p, e) /\ Len(outputs[p]) = Holds(b)
      /\ e \in Nat \ {0} /\ e < U64_MAX /\ outputs[p] = KeysTo(Holds(b)) /\ Holds(b) \in {e - 1, e}
      /\ Holds(b) \in Nat
  BY <1>1, StateFacts DEF Running
<1>4. /\ n # Failed /\ n \in StatesOf(p, e) /\ n.epoch = e /\ Holds(n) \in Nat
      /\ Holds(n) \in {e - 1, e}
  BY <1>1, <1>3, StateFacts DEF Sending
<1>5. /\ InEpoch(p) /\ Posted(p) /\ Together(p) /\ InEpoch(q) /\ Posted(q) /\ Together(q)
      /\ FailsOnlyAtCeiling
  BY <1>2 DEF IInv
<1>6. /\ n.tag = "NoHeaderReceived" <=> b.tag = "NoHeaderReceived"
      /\ n.tag = "Ct2Sampled" <=> b.tag = "Ct2Sampled"
      /\ n.tag = "EkSentCt1Received" <=> b.tag = "EkSentCt1Received"
      /\ b.tag \in SendsHeader \cup {"Ct2Sampled"} => n.tag \in SendsHeader \cup {"Ct2Sampled"}
  BY <1>1 DEF Sending, SendsHeader
<1>7. /\ outputs'[p] = KeysTo(Holds(n)) /\ Len(outputs'[p]) = Holds(n) /\ Holds(b) <= Holds(n)
      /\ outputs'[q] = outputs[q]
  <2>1. CASE r.out = None
    <3>1. Holds(n) = Holds(b)
      <4>1. n.tag \in KeyHolding <=> b.tag \in KeyHolding
        <5>1. r.out # Output(e, KeyOf(e))
          BY <1>3, <2>1, SomeValue
        <5> QED BY <1>1, <5>1 DEF Sending, KeyHolding
      <4> QED BY <1>4, <4>1 DEF Holds
    <3> QED BY <1>1, <1>3, <2>1, <3>1 DEF Moved, Emit
  <2>2. CASE r.out # None
    <3>1. b.tag = "HeaderReceived" /\ n.tag = "Ct1Sampled" /\ r.out = Output(e, KeyOf(e))
      BY <1>1, <2>2 DEF Sending
    <3>2. Holds(b) = e - 1 /\ Holds(n) = e
      BY <1>4, <3>1 DEF Holds, KeyHolding
    <3>3. e - 1 \in Nat /\ (e - 1) + 1 = e
      BY <1>3
    <3>4. Emit(KeysTo(e - 1), Output(e, KeyOf(e))) = KeysTo(e) /\ Len(KeysTo(e)) = e
      BY <1>3, <3>3, KeysGrow
    <3> QED BY <1>1, <1>3, <3>1, <3>2, <3>4 DEF Moved
  <2> QED BY <2>1, <2>2
<1>8. /\ braid'[p] = n /\ braid'[q] = c /\ braid' = [x \in Party |-> braid'[x]]
      /\ net' = [x \in Party |-> net'[x]] /\ outputs' = [x \in Party |-> outputs'[x]]
  BY <1>1, <1>2 DEF Moved, IInv
<1>9. r.msg.epoch = e /\ Genuine(r.msg) /\ (r.msg.ty = "Ct2" => b.tag = "Ct2Sampled")
  BY <1>1 DEF Sending
<1> HIDE DEF n
<1>10. InEpoch(p)' /\ InEpoch(q)'
  <2>1. Holds(n) \in 0..(U64_MAX - 1)
    BY <1>2, <1>3, <1>4
  <2>2. InEpoch(p)'
    BY <1>3, <1>4, <1>7, <1>8, <2>1 DEF InEpoch
  <2>3. InEpoch(q)'
    BY <1>5, <1>7, <1>8 DEF InEpoch
  <2> QED BY <2>2, <2>3
<1>11. Posted(p)'
  BY <1>1, <1>5, <1>8 DEF Posted, Peer
<1>12. Posted(q)'
  <2> SUFFICES ASSUME NEW m \in net[q] \cup {r.msg}
               PROVE  /\ Genuine(m) /\ m.epoch <= n.epoch
                      /\ m.epoch = n.epoch /\ m.ty = "Ct2" => n.tag = "Ct2Sampled"
    BY <1>1, <1>2, <1>8 DEF Posted, Peer
  <2>1. CASE m \in net[q]
    BY <1>2, <1>3, <1>4, <1>5, <1>6, <2>1 DEF Posted
  <2>2. CASE m = r.msg
    BY <1>3, <1>4, <1>6, <1>9, <2>2
  <2> QED BY <2>1, <2>2
<1>13. Together(p)'
  BY <1>2, <1>3, <1>4, <1>5, <1>6, <1>8 DEF Together, Peer, SendsHeader
<1>14. Together(q)'
  BY <1>2, <1>3, <1>4, <1>5, <1>6, <1>8 DEF Together, Peer, SendsHeader
<1>15. FailsOnlyAtCeiling'
  <2> SUFFICES ASSUME NEW x \in Party, braid'[x] = Failed
               PROVE  /\ \A y \in Party : Len(outputs'[y]) >= U64_MAX - 2
                      /\ \E y \in Party : Len(outputs'[y]) = U64_MAX - 1
    BY DEF FailsOnlyAtCeiling, KeysHeld
  <2>1. braid[x] = Failed
    BY <1>2, <1>4, <1>8
  <2>2. (\A y \in Party : Len(outputs[y]) >= U64_MAX - 2) /\ \E y \in Party : Len(outputs[y]) = U64_MAX - 1
    BY <1>5, <2>1 DEF FailsOnlyAtCeiling, KeysHeld
  <2>3. Holds(n) <= U64_MAX - 1
    BY <1>2, <1>3, <1>4
  <2> QED BY <1>2, <1>3, <1>4, <1>7, <2>2, <2>3, SMTT(60)
<1> QED BY <1>2, <1>8, <1>10, <1>11, <1>12, <1>13, <1>14, <1>15 DEF IInv
\* How the two parties stand when p receives m, for every outcome of the receive.
LEMMA Standing ==
  ASSUME IInv, NEW p \in Party, NEW m \in net[p], Running(p)
  PROVE  LET b == braid[p]
             c == braid[Peer(p)]
             e == b.epoch
         IN  /\ e \in Epochs /\ e \in Nat \ {0} /\ e < U64_MAX /\ b \in StatesOf(p, e) /\ b # Failed
             /\ Holds(b) \in Nat /\ Len(outputs[p]) = Holds(b) /\ outputs[p] = KeysTo(Holds(b))
             /\ b.tag \in SendsHeader <=> p = HeaderParty(e)
             /\ c = Failed => e = U64_MAX - 1 /\ b.tag \in SendsHeader \cup {"Ct2Sampled"}
             /\ c # Failed =>
                  /\ c.epoch \in Nat \ {0} /\ c.epoch < U64_MAX /\ m.epoch <= c.epoch
                  /\ c.tag \in SendsHeader <=> Peer(p) = HeaderParty(c.epoch)
                  /\ Len(outputs[Peer(p)]) = Holds(c) /\ Holds(c) \in {c.epoch - 1, c.epoch}
                  /\ e <= c.epoch + 1 /\ c.epoch <= e + 1
                  /\ e = c.epoch + 1 => b.tag = "NoHeaderReceived" /\ c.tag = "Ct2Sampled"
                  /\ c.epoch = e + 1 => c.tag = "NoHeaderReceived" /\ b.tag = "Ct2Sampled"
                  /\ b.tag = "EkSentCt1Received" => c.epoch = e /\ c.tag = "Ct2Sampled"
                  /\ c.tag = "EkSentCt1Received" => c.epoch = e /\ b.tag = "Ct2Sampled"
                  /\ m.epoch = c.epoch /\ m.ty = "Ct2" => c.tag = "Ct2Sampled"
<1> DEFINE q == Peer(p)
           b == braid[p]
           c == braid[q]
           e == b.epoch
<1>1. q \in Party /\ Peer(q) = p
  BY PeerParty
<1>2. InEpoch(p) /\ Posted(p) /\ Together(p) /\ InEpoch(q) /\ Posted(q) /\ Together(q)
  BY <1>1 DEF IInv
<1>3. /\ e \in Epochs /\ b \in StatesOf(p, e) /\ b # Failed
      /\ Len(outputs[p]) = Holds(b) /\ outputs[p] = KeysTo(Holds(b))
  BY DEF Running
<1>4. /\ e \in Nat \ {0} /\ e < U64_MAX /\ Holds(b) \in Nat
      /\ b.tag \in SendsHeader <=> p = HeaderParty(e)
  BY <1>3, StateFacts
<1>5. ASSUME c # Failed
      PROVE  /\ c.epoch \in Nat \ {0} /\ c.epoch < U64_MAX
             /\ c.tag \in SendsHeader <=> q = HeaderParty(c.epoch)
             /\ Len(outputs[q]) = Holds(c) /\ Holds(c) \in {c.epoch - 1, c.epoch}
  <2>1. c.epoch \in Epochs /\ c \in StatesOf(q, c.epoch) /\ Len(outputs[q]) = Holds(c)
    BY <1>2, <1>5 DEF InEpoch
  <2> QED BY <1>1, <2>1, StateFacts
<1>6. ASSUME c # Failed
      PROVE  /\ m.epoch <= c.epoch /\ e <= c.epoch + 1 /\ c.epoch <= e + 1
             /\ e = c.epoch + 1 => b.tag = "NoHeaderReceived" /\ c.tag = "Ct2Sampled"
             /\ c.epoch = e + 1 => c.tag = "NoHeaderReceived" /\ b.tag = "Ct2Sampled"
             /\ b.tag = "EkSentCt1Received" => c.epoch = e /\ c.tag = "Ct2Sampled"
             /\ c.tag = "EkSentCt1Received" => c.epoch = e /\ b.tag = "Ct2Sampled"
             /\ m.epoch = c.epoch /\ m.ty = "Ct2" => c.tag = "Ct2Sampled"
  BY <1>1, <1>2, <1>3, <1>6 DEF Posted, Together
<1>7. c = Failed => e = U64_MAX - 1 /\ b.tag \in SendsHeader \cup {"Ct2Sampled"}
  BY <1>2, <1>3 DEF Together
<1> QED BY <1>3, <1>4, <1>5, <1>6, <1>7

\* A receive keeps it.
LEMMA ReceiveKeeps ==
  ASSUME IInv, NEW p \in Party, Receive(p)
  PROVE  IInv'
<1> DEFINE q == Peer(p)
           b == braid[p]
           c == braid[q]
           e == b.epoch
<1>0. PICK m \in net[p] :
        LET r == step_receive(b, m)
        IN  /\ Running(p) /\ Moved(p, r) /\ Receiving(p, e, b, m, r)
            /\ net' = [net EXCEPT ![p] = @ \ {m}] /\ net'[p] = net[p] \ {m} /\ net'[q] = net[q]
  BY ReceiveFacts
<1> DEFINE r == step_receive(b, m)
           n == r.state
<1>1. /\ Running(p) /\ Moved(p, r) /\ Receiving(p, e, b, m, r)
      /\ net' = [net EXCEPT ![p] = @ \ {m}] /\ net'[p] = net[p] \ {m} /\ net'[q] = net[q]
  BY <1>0
<1> HIDE DEF r
<1>2. /\ q \in Party /\ q # p /\ Peer(q) = p /\ \A x \in Party : x = p \/ x = q
      /\ U64_MAX \in Nat /\ U64_MAX > 2
  BY PeerParty, StreamAssumption
<1>3. /\ e \in Epochs /\ e \in Nat \ {0} /\ e < U64_MAX /\ b \in StatesOf(p, e) /\ b # Failed
      /\ Holds(b) \in Nat /\ Len(outputs[p]) = Holds(b) /\ outputs[p] = KeysTo(Holds(b))
      /\ b.tag \in SendsHeader <=> p = HeaderParty(e)
      /\ c = Failed => e = U64_MAX - 1 /\ b.tag \in SendsHeader \cup {"Ct2Sampled"}
  BY <1>1, Standing
<1>4. ASSUME c # Failed
      PROVE  /\ c.epoch \in Nat \ {0} /\ c.epoch < U64_MAX /\ m.epoch <= c.epoch
             /\ c.tag \in SendsHeader <=> q = HeaderParty(c.epoch)
             /\ Len(outputs[q]) = Holds(c) /\ Holds(c) \in {c.epoch - 1, c.epoch}
             /\ e <= c.epoch + 1 /\ c.epoch <= e + 1
             /\ e = c.epoch + 1 => b.tag = "NoHeaderReceived" /\ c.tag = "Ct2Sampled"
             /\ c.epoch = e + 1 => c.tag = "NoHeaderReceived" /\ b.tag = "Ct2Sampled"
             /\ b.tag = "EkSentCt1Received" => c.epoch = e /\ c.tag = "Ct2Sampled"
             /\ c.tag = "EkSentCt1Received" => c.epoch = e /\ b.tag = "Ct2Sampled"
             /\ m.epoch = c.epoch /\ m.ty = "Ct2" => c.tag = "Ct2Sampled"
  BY <1>1, <1>4, Standing
<1>5. /\ InEpoch(p) /\ Posted(p) /\ InEpoch(q) /\ Posted(q) /\ FailsOnlyAtCeiling
  BY <1>2 DEF IInv
<1>6. /\ braid'[p] = n /\ braid'[q] = c /\ outputs'[q] = outputs[q]
      /\ outputs'[p] = Emit(outputs[p], r.out) /\ braid' = [x \in Party |-> braid'[x]]
      /\ net' = [x \in Party |-> net'[x]] /\ outputs' = [x \in Party |-> outputs'[x]]
  BY <1>1, <1>2 DEF Moved, IInv
<1> HIDE DEF n
<1>7. InEpoch(q)' /\ Posted(p)'
  BY <1>1, <1>5, <1>6 DEF InEpoch, Posted, Peer
<1>8. \A x \in net[q] : /\ Genuine(x) /\ x.epoch <= e
                        /\ x.epoch = e /\ x.ty = "Ct2" => b.tag = "Ct2Sampled"
  BY <1>2, <1>3, <1>5 DEF Posted
<1>9. ASSUME InEpoch(p)', Posted(q)', Together(p)', Together(q)', FailsOnlyAtCeiling'
      PROVE  IInv'
  BY <1>2, <1>6, <1>7, <1>9 DEF IInv
<1> HIDE DEF b, c, e, q
<1>10. ASSUME outputs'[p] = outputs[p], n # Failed
       PROVE  FailsOnlyAtCeiling'
  <2>1. \A x \in Party : braid'[x] = Failed => braid[x] = Failed
    BY <1>2, <1>6, <1>10 DEF c
  <2>2. \A x \in Party : Len(outputs'[x]) = Len(outputs[x])
    BY <1>2, <1>6, <1>10
  <2> QED BY <1>5, <2>1, <2>2 DEF FailsOnlyAtCeiling, KeysHeld
<1>11. CASE Stays(p, e, b, m, r)
  <2>1. /\ r.out = None /\ n \in StatesOf(p, e) /\ Holds(n) = Holds(b)
        /\ b.tag = "Ct2Sampled" => n = b
        /\ n.tag # b.tag => m.epoch = e
        /\ n.tag = "EkSentCt1Received" => b.tag = "EkSentCt1Received" \/ m.ty = "Ct2"
    BY <1>11 DEF Stays, n
  <2>2. n # Failed /\ n.epoch = e /\ (n.tag \in SendsHeader <=> p = HeaderParty(e))
    BY <1>3, <2>1, StateFacts
  <2>3. outputs'[p] = outputs[p]
    BY <1>6, <2>1 DEF Emit
  <2>4. InEpoch(p)'
    BY <1>3, <1>5, <1>6, <2>1, <2>2, <2>3 DEF InEpoch
  <2>5. Posted(q)'
    BY <1>1, <1>2, <1>6, <1>8, <2>1, <2>2 DEF Posted
  <2>6. Together(p)'
    <3>1. ASSUME c # Failed
          PROVE  /\ n.epoch <= c.epoch + 1
                 /\ n.epoch = c.epoch + 1 => n.tag = "NoHeaderReceived" /\ c.tag = "Ct2Sampled"
                 /\ n.tag = "EkSentCt1Received" => c.epoch = n.epoch /\ c.tag = "Ct2Sampled"
      <4>1. ASSUME e = c.epoch + 1 PROVE n.tag = "NoHeaderReceived" /\ c.tag = "Ct2Sampled"
        BY <1>3, <1>4, <2>1, <3>1, <4>1
      <4>2. ASSUME n.tag = "EkSentCt1Received" PROVE c.epoch = e /\ c.tag = "Ct2Sampled"
        BY <1>3, <1>4, <2>1, <3>1, <4>2
      <4> QED BY <1>4, <2>2, <3>1, <4>1, <4>2
    <3>2. ASSUME c = Failed
          PROVE  n.epoch = U64_MAX - 1 /\ n.tag \in SendsHeader \cup {"Ct2Sampled"}
      BY <1>3, <2>1, <2>2, <3>2
    <3> QED BY <1>6, <3>1, <3>2 DEF Together, q
  <2>7. Together(q)'
    BY <1>2, <1>4, <1>6, <2>1, <2>2 DEF Together
  <2> QED BY <1>9, <1>10, <2>2, <2>3, <2>4, <2>5, <2>6, <2>7
<1>12. CASE Completes(p, e, b, r)
  <2>1. /\ b.tag = "EkSentCt1Received" /\ e + 1 < U64_MAX /\ r.out = Output(e, KeyOf(e))
        /\ n \in NoHeaderReceived(e + 1)
    BY <1>12 DEF Completes, n
  <2>2. c # Failed /\ c.epoch = e /\ c.tag = "Ct2Sampled"
    BY <1>2, <1>3, <1>4, <2>1
  <2>3. n.epoch = e + 1 /\ n.tag = "NoHeaderReceived" /\ n # Failed
    BY <2>1 DEF NoHeaderReceived, Failed
  <2>4. n \in StatesOf(p, e + 1) /\ e + 1 \in Epochs
    <3>1. p = HeaderParty(e)
      BY <1>3, <2>1 DEF SendsHeader
    <3>2. p # HeaderParty(e + 1)
      BY <1>3, <3>1, Sides
    <3> QED BY <1>2, <1>3, <2>1, <3>2 DEF StatesOf, CiphertextSide, Epochs
  <2>5. Holds(b) = e - 1 /\ Holds(n) = e
    BY <1>3, <2>1, <2>3 DEF Holds, KeyHolding, b, e
  <2>6. outputs'[p] = KeysTo(e) /\ Len(KeysTo(e)) = e
    <3>1. e - 1 \in Nat /\ (e - 1) + 1 = e
      BY <1>3
    <3> QED BY <1>3, <1>6, <2>1, <2>5, <3>1, KeysGrow
  <2>7. InEpoch(p)'
    <3>1. e \in 0..(U64_MAX - 1)
      BY <1>2, <1>3
    <3> QED BY <1>6, <2>3, <2>4, <2>5, <2>6, <3>1 DEF InEpoch
  <2>8. Posted(q)'
    <3>1. \A x \in net[q] : Genuine(x) /\ x.epoch \in Nat /\ x.epoch <= e
      BY <1>8 DEF Genuine, Epochs
    <3> QED BY <1>1, <1>2, <1>3, <1>6, <2>3, <3>1 DEF Posted
  <2>9. Together(p)'
    BY <1>3, <1>6, <2>2, <2>3 DEF Together, q
  <2>10. Together(q)'
    BY <1>2, <1>3, <1>6, <2>2, <2>3 DEF Together
  <2>11. FailsOnlyAtCeiling'
    BY <1>2, <1>6, <2>2, <2>3 DEF FailsOnlyAtCeiling
  <2> QED BY <1>9, <2>7, <2>8, <2>9, <2>10, <2>11
<1>13. CASE Follows(p, e, b, m, r)
  <2>1. /\ b.tag = "Ct2Sampled" /\ e + 1 < U64_MAX /\ m.epoch = e + 1 /\ r.out = None
        /\ n \in KeysUnsampled(e + 1)
    BY <1>13 DEF Follows, n
  <2>2. c # Failed /\ c.epoch = e + 1 /\ c.tag = "NoHeaderReceived"
    BY <1>2, <1>3, <1>4, <2>1
  <2>3. n.epoch = e + 1 /\ n.tag = "KeysUnsampled" /\ n # Failed
    BY <2>1 DEF KeysUnsampled, Failed
  <2>4. n \in StatesOf(p, e + 1) /\ e + 1 \in Epochs
    <3>1. p # HeaderParty(e)
      BY <1>3, <2>1 DEF SendsHeader
    <3>2. p = HeaderParty(e + 1)
      BY <1>3, <3>1, Sides, PeerParty
    <3> QED BY <1>2, <1>3, <2>1, <3>2 DEF StatesOf, HeaderSide, Epochs
  <2>5. Holds(b) = e /\ Holds(n) = e
    BY <1>3, <2>1, <2>3 DEF Holds, KeyHolding, b, e
  <2>6. outputs'[p] = outputs[p]
    BY <1>6, <2>1 DEF Emit
  <2>7. InEpoch(p)'
    BY <1>3, <1>5, <1>6, <2>3, <2>4, <2>5, <2>6 DEF InEpoch
  <2>8. Posted(q)'
    <3>1. \A x \in net[q] : Genuine(x) /\ x.epoch \in Nat /\ x.epoch <= e
      BY <1>8 DEF Genuine, Epochs
    <3> QED BY <1>1, <1>2, <1>3, <1>6, <2>3, <3>1 DEF Posted
  <2>9. Together(p)'
    BY <1>3, <1>6, <2>2, <2>3 DEF Together, q
  <2>10. Together(q)'
    BY <1>2, <1>3, <1>6, <2>2, <2>3 DEF Together
  <2> QED BY <1>9, <1>10, <2>3, <2>6, <2>7, <2>8, <2>9, <2>10
<1>14. CASE GivesUp(p, e, b, r)
  <2>1. /\ b.tag \in {"EkSentCt1Received", "Ct2Sampled"} /\ e + 1 = U64_MAX /\ r.out = None
        /\ n = Failed
    BY <1>14 DEF GivesUp, n
  <2>2. outputs'[p] = outputs[p]
    BY <1>6, <2>1 DEF Emit
  <2>3. InEpoch(p)'
    BY <1>5, <1>6, <2>1, <2>2 DEF InEpoch
  <2>4. Posted(q)'
    BY <1>1, <1>2, <1>6, <1>8, <2>1 DEF Posted
  <2>5. Together(p)'
    BY <1>6, <2>1 DEF Together
  <2>6. ASSUME c # Failed
        PROVE  /\ c.epoch = e /\ c.tag \in SendsHeader \cup {"Ct2Sampled"}
               /\ b.tag = "EkSentCt1Received" => c.tag = "Ct2Sampled"
    <3>1. CASE b.tag = "EkSentCt1Received"
      BY <1>4, <2>6, <3>1
    <3>2. CASE b.tag = "Ct2Sampled"
      <4>1. c.epoch = e
        BY <1>2, <1>3, <1>4, <2>1, <2>6, <3>2
      <4>2. p # HeaderParty(e)
        BY <1>3, <3>2 DEF SendsHeader
      <4>3. q = HeaderParty(e)
        BY <1>2, <1>3, <4>2, Sides
      <4> QED BY <1>4, <2>6, <3>2, <4>1, <4>3
    <3> QED BY <2>1, <3>1, <3>2
  <2>7. Together(q)'
    BY <1>2, <1>3, <1>6, <2>1, <2>6 DEF Together
  <2>8. FailsOnlyAtCeiling'
    <3>1. \A x \in Party : Len(outputs'[x]) = Len(outputs[x])
      BY <1>2, <1>6, <2>2
    <3>2. CASE c = Failed
      BY <1>2, <1>5, <3>1, <3>2 DEF FailsOnlyAtCeiling, KeysHeld, c
    <3>3. CASE c # Failed
      <4>1. b.tag = "EkSentCt1Received" => Holds(b) = e - 1 /\ Holds(c) = e
        BY <1>3, <2>6, <3>3 DEF Holds, KeyHolding, b, e
      <4>2. b.tag = "Ct2Sampled" => Holds(b) = e /\ Holds(c) \in {e - 1, e}
        BY <1>3, <1>4, <2>6, <3>3 DEF Holds, KeyHolding, b, e
      <4>3. \A x \in Party : Len(outputs[x]) >= U64_MAX - 2
        BY <1>2, <1>3, <1>4, <2>1, <3>3, <4>1, <4>2
      <4>4. \E x \in Party : Len(outputs[x]) = U64_MAX - 1
        BY <1>2, <1>3, <1>4, <2>1, <3>3, <4>1, <4>2
      <4> QED BY <3>1, <4>3, <4>4 DEF FailsOnlyAtCeiling, KeysHeld
    <3> QED BY <3>2, <3>3
  <2> QED BY <1>9, <2>3, <2>4, <2>5, <2>7, <2>8
<1> QED BY <1>1, <1>11, <1>12, <1>13, <1>14 DEF Receiving

\* So does a loss.
LEMMA LoseKeeps ==
  ASSUME IInv, NEW p \in Party, Lose(p)
  PROVE  IInv'
<1>1. PICK m \in net[p] : net' = [net EXCEPT ![p] = @ \ {m}]
  BY DEF Lose
<1>2. braid' = braid /\ outputs' = outputs
  BY DEF Lose
<1>3. \A x \in Party : net'[x] \subseteq net[x]
  BY <1>1 DEF IInv
<1>4. net' = [x \in Party |-> net'[x]]
  BY <1>1 DEF IInv
<1>5. \A x \in Party : InEpoch(x)' /\ Together(x)'
  BY <1>2 DEF IInv, InEpoch, Together
<1>6. \A x \in Party : Posted(x)'
  BY <1>2, <1>3 DEF IInv, Posted
<1>7. FailsOnlyAtCeiling'
  BY <1>2 DEF IInv, FailsOnlyAtCeiling, KeysHeld
<1> QED BY <1>2, <1>4, <1>5, <1>6, <1>7 DEF IInv

\* The invariant holds in every reachable state.
LEMMA Invariance == Spec => []IInv
<1>1. IInv /\ [Next]_vars => IInv'
  <2> SUFFICES ASSUME IInv, [Next]_vars PROVE IInv'
    OBVIOUS
  <2>1. CASE Next
    BY <2>1, SendKeeps, ReceiveKeeps, LoseKeeps DEF Next
  <2>2. CASE UNCHANGED vars
    <3>1. braid' = braid /\ net' = net /\ outputs' = outputs
      BY <2>2 DEF vars
    <3>2. \A x \in Party : InEpoch(x)' /\ Together(x)'
      BY <3>1 DEF IInv, InEpoch, Together
    <3>3. \A x \in Party : Posted(x)'
      BY <3>1 DEF IInv, Posted
    <3>4. FailsOnlyAtCeiling'
      BY <3>1 DEF IInv, FailsOnlyAtCeiling, KeysHeld
    <3> QED BY <3>1, <3>2, <3>3, <3>4 DEF IInv
  <2> QED BY <2>1, <2>2
<1> QED BY <1>1, InitIInv, PTL DEF Spec
-----------------------------------------------------------------------------
(* What follows from it *)

\* How a party stands to its peer.
LEMMA Abreast ==
  ASSUME IInv, NEW p \in Party, braid[p] # Failed
  PROVE  LET b == braid[p]
             q == Peer(p)
         IN  /\ b.epoch \in Nat \ {0} /\ b.epoch < U64_MAX /\ b.epoch \in Epochs
             /\ b.tag \in SendsHeader <=> p = HeaderParty(b.epoch)
             /\ Len(outputs[p]) = Holds(b) /\ Holds(b) \in {b.epoch - 1, b.epoch}
             /\ Len(outputs[q]) \in Nat /\ b.epoch - 1 <= Len(outputs[q])
<1> DEFINE b == braid[p]
           q == Peer(p)
           c == braid[q]
<1>1. q \in Party /\ InEpoch(p) /\ InEpoch(q) /\ Together(p) /\ FailsOnlyAtCeiling
  BY PeerParty DEF IInv
<1>2. /\ b.epoch \in Epochs /\ b \in StatesOf(p, b.epoch) /\ Len(outputs[p]) = Holds(b)
      /\ Len(outputs[q]) \in Nat
  BY <1>1 DEF InEpoch
<1>3. /\ b.epoch \in Nat \ {0} /\ b.epoch < U64_MAX /\ Holds(b) \in {b.epoch - 1, b.epoch}
      /\ b.tag \in SendsHeader <=> p = HeaderParty(b.epoch)
  BY <1>2, StateFacts
<1>4. CASE c = Failed
  <2>1. Len(outputs[q]) >= U64_MAX - 2
    BY <1>1, <1>4 DEF FailsOnlyAtCeiling, KeysHeld
  <2> QED BY <1>2, <1>3, <2>1, StreamAssumption
<1>5. CASE c # Failed
  <2>1. /\ c.epoch \in Epochs /\ c \in StatesOf(q, c.epoch) /\ Len(outputs[q]) = Holds(c)
    BY <1>1, <1>5 DEF InEpoch
  <2>2. c.epoch \in Nat \ {0} /\ Holds(c) \in {c.epoch - 1, c.epoch}
    BY <1>1, <2>1, StateFacts
  <2>3. /\ b.epoch <= c.epoch + 1
        /\ b.epoch = c.epoch + 1 => c.tag = "Ct2Sampled"
    BY <1>1, <1>5 DEF Together
  <2>4. c.tag = "Ct2Sampled" => Holds(c) = c.epoch
    BY DEF Holds, KeyHolding
  <2>5. b.epoch - 1 <= Holds(c)
    BY <1>3, <2>2, <2>3, <2>4
  <2> QED BY <1>2, <1>3, <2>1, <2>5
<1> QED BY <1>4, <1>5

\* ViewsAgree, for all bounds: the keys come in order and are the same for both, and
\* an epoch is reported when both hold its key (Braid::send, Braid::receive).
THEOREM PartiesAgree == Spec => []ViewsAgree
<1>1. IInv => ViewsAgree
  <2> SUFFICES ASSUME IInv PROVE ViewsAgree
    OBVIOUS
  <2>1. ASSUME NEW p \in Party, NEW e \in 1..KeysHeld(p)
        PROVE  outputs[p][e] = Output(e, KeyOf(e)) /\ outputs[p][e].key_epoch = e
    <3>1. outputs[p] = KeysTo(KeysHeld(p))
      BY DEF IInv, InEpoch, KeysHeld
    <3>2. outputs[p][e] = Output(e, KeyOf(e))
      BY <3>1 DEF KeysTo
    <3> QED BY <3>2 DEF Output
  <2>2. KeysAgree
    <3> SUFFICES ASSUME NEW p \in Party, NEW e \in 1..KeysHeld(p)
                 PROVE  /\ outputs[p][e].key_epoch = e
                        /\ e <= KeysHeld(Peer(p)) => outputs[p][e] = outputs[Peer(p)][e]
      BY DEF KeysAgree
    <3>1. Peer(p) \in Party /\ KeysHeld(p) \in Nat /\ KeysHeld(Peer(p)) \in Nat
      BY PeerParty DEF IInv, InEpoch, KeysHeld
    <3>2. e <= KeysHeld(Peer(p)) => e \in 1..KeysHeld(Peer(p))
      BY <3>1
    <3> QED BY <2>1, <3>1, <3>2
  <2>3. ASSUME NEW p \in Party
        PROVE  reported(braid[p]) <= KeysHeld(p) /\ reported(braid[p]) <= KeysHeld(Peer(p))
    <3>1. Peer(p) \in Party /\ KeysHeld(p) \in Nat /\ KeysHeld(Peer(p)) \in Nat
      BY PeerParty DEF IInv, InEpoch, KeysHeld
    <3>2. CASE braid[p] = Failed
      BY <3>1, <3>2 DEF reported, EpochOf
    <3>3. CASE braid[p] # Failed
      <4>1. /\ braid[p].epoch \in Nat \ {0} /\ Holds(braid[p]) \in {braid[p].epoch - 1, braid[p].epoch}
            /\ KeysHeld(p) = Holds(braid[p]) /\ braid[p].epoch - 1 <= KeysHeld(Peer(p))
        BY <3>3, Abreast DEF KeysHeld
      <4>2. reported(braid[p]) = braid[p].epoch - 1
        BY <3>3, <4>1 DEF reported, EpochOf
      <4> QED BY <4>1, <4>2
    <3> QED BY <3>2, <3>3
  <2> QED BY <2>2, <2>3 DEF ViewsAgree, ReportedIsShared
<1> QED BY <1>1, Invariance, PTL

\* StaysUsable, for all bounds: what an honest party exports can be imported, and the
\* agreement is given up only where no epoch can follow (Session::structural_invariant,
\* the transitions to State::Failed).
THEOREM AgreementStaysUsable == Spec => []StaysUsable
<1>1. IInv => StaysUsable
  <2> SUFFICES ASSUME IInv, NEW p \in Party, braid[p] # Failed
               PROVE  /\ KeysHeld(p) =
                           IF braid[p].tag \in KeyHolding
                             THEN braid[p].epoch
                             ELSE braid[p].epoch - 1
                      /\ is_initiator(braid[p]) = (p = Initiator)
                      /\ braid[p].epoch \in 1..(U64_MAX - 1)
    BY DEF StaysUsable, Importable, IInv, KeyHolding
  <2> DEFINE b == braid[p]
             e == b.epoch
  <2>1. /\ e \in Nat \ {0} /\ e \in Epochs /\ KeysHeld(p) = Holds(b)
        /\ b.tag \in SendsHeader <=> p = HeaderParty(e)
    BY Abreast DEF KeysHeld
  <2>2. is_initiator(b) = (p = Initiator)
    <3>1. CASE e % 2 = 1
      BY <2>1, <3>1 DEF is_initiator, HeaderParty
    <3>2. CASE e % 2 # 1
      BY <2>1, <3>2, TrafficAssumption DEF is_initiator, HeaderParty, Party
    <3> QED BY <3>1, <3>2
  <2> QED BY <2>1, <2>2 DEF Holds, Epochs
<1> QED BY <1>1, Invariance, PTL
-----------------------------------------------------------------------------
(* The Braid implements the agreement *)

\* The agreement's view: the keys held and the epochs reported.
HeldView == [x \in Party |-> Len(outputs[x])]
KnownView == [x \in Party |-> reported(braid[x])]

\* When p alone moves, its peer's entries stay.
LEMMA ViewMoves ==
  ASSUME NEW p \in Party, NEW r, Moved(p, r)
  PROVE  /\ HeldView' = [HeldView EXCEPT ![p] = Len(outputs'[p])]
         /\ KnownView' = [KnownView EXCEPT ![p] = reported(r.state)]
<1>1. /\ braid'[p] = r.state
      /\ \A x \in Party : x # p => braid'[x] = braid[x] /\ outputs'[x] = outputs[x]
  BY PeerParty DEF Moved
<1> QED BY <1>1 DEF HeldView, KnownView

\* The view of a party that runs.
LEMMA RunningView ==
  ASSUME NEW p \in Party, NEW e \in Epochs, NEW b \in StatesOf(p, e)
  PROVE  reported(b) = e - 1 /\ e - 1 \in Nat
<1>1. b # Failed /\ b.epoch = e /\ e \in Nat \ {0}
  BY StateFacts
<1> QED BY <1>1 DEF reported, EpochOf

\* A send is a step of the agreement that gives the first of the two their key, or none.
LEMMA SendImplements ==
  ASSUME IInv, NEW p \in Party, Send(p)
  PROVE  [Abstract!Next]_(Abstract!agreement)
<1> DEFINE q == Peer(p)
           b == braid[p]
           c == braid[q]
           e == b.epoch
           r == step_send(b, <<p, e>>)
<1>1. Running(p) /\ Moved(p, r) /\ Sending(p, e, b, r)
  BY SendFacts
<1> HIDE DEF r
<1>2. /\ b # Failed /\ e \in Epochs /\ e \in Nat \ {0} /\ b \in StatesOf(p, e)
      /\ Len(outputs[p]) = Holds(b) /\ outputs[p] = KeysTo(Holds(b)) /\ e < U64_MAX
      /\ b.tag \in SendsHeader <=> p = HeaderParty(e)
  BY <1>1, StateFacts DEF Running
<1>3. reported(r.state) = e - 1 /\ reported(b) = e - 1 /\ e - 1 \in Nat
  BY <1>1, <1>2, RunningView DEF Sending
<1>4. KnownView' = KnownView
  <2>1. KnownView' = [KnownView EXCEPT ![p] = reported(r.state)]
    BY <1>1, ViewMoves
  <2>2. KnownView[p] = reported(r.state) /\ KnownView = [x \in Party |-> KnownView[x]]
    BY <1>3 DEF KnownView
  <2> QED BY <2>1, <2>2
<1>5. CASE r.out = None
  <2>1. HeldView' = HeldView
    BY <1>1, <1>5, ViewMoves DEF Moved, Emit, HeldView
  <2> QED BY <1>4, <2>1 DEF Abstract!agreement, HeldView, KnownView
<1>6. CASE r.out # None
  <2>1. b.tag = "HeaderReceived" /\ r.out = Output(e, KeyOf(e))
    BY <1>1, <1>6 DEF Sending
  <2>2. Holds(b) = e - 1
    BY <2>1 DEF Holds, KeyHolding
  <2>3. Len(outputs'[p]) = e
    <3>1. (e - 1) + 1 = e
      BY <1>2
    <3>2. Emit(KeysTo(e - 1), Output(e, KeyOf(e))) = KeysTo(e)
      BY <1>3, <3>1, KeysGrow
    <3>3. outputs'[p] = KeysTo(e)
      BY <1>1, <1>2, <2>1, <2>2, <3>2 DEF Moved
    <3> QED BY <1>2, <3>3, KeysGrow
  <2>4. q \in Party /\ q # p /\ p # HeaderParty(e)
    BY <1>2, <2>1, PeerParty DEF SendsHeader
  <2>5. c # Failed /\ c.epoch = e /\ c.epoch \in Epochs /\ c \in StatesOf(q, e) /\ Len(outputs[q]) = Holds(c)
    <3>1. Together(p) /\ Together(q) /\ InEpoch(q) /\ Peer(q) = p
      BY <2>4, PeerParty DEF IInv
    <3>2. c # Failed
      BY <1>2, <2>1, <3>1 DEF Together, SendsHeader
    <3>3. c.epoch \in Epochs /\ c \in StatesOf(q, c.epoch) /\ Len(outputs[q]) = Holds(c)
      BY <3>1, <3>2 DEF InEpoch
    <3>4. c.epoch \in Nat
      BY <2>4, <3>3, StateFacts
    <3>5. c.epoch = e
      BY <1>2, <2>1, <3>1, <3>2, <3>4 DEF Together
    <3> QED BY <3>2, <3>3, <3>5
  <2>6. Holds(c) = e - 1 /\ reported(c) = e - 1
    <3>1. q = HeaderParty(e)
      BY <1>2, <2>4, Sides, PeerParty
    <3>2. c.tag \in SendsHeader
      BY <2>4, <2>5, <3>1, StateFacts
    <3>3. reported(c) = e - 1
      BY <2>4, <2>5, RunningView
    <3> QED BY <2>5, <3>2, <3>3 DEF Holds, SendsHeader, KeyHolding
  <2>7. HeldView = [x \in Party |-> e - 1] /\ KnownView = [x \in Party |-> e - 1]
    BY <1>2, <1>3, <2>2, <2>4, <2>5, <2>6, PeerParty DEF HeldView, KnownView
  <2>8. HeldView' = [HeldView EXCEPT ![p] = e]
    BY <1>1, <2>3, ViewMoves
  <2>9. Abstract!FirstHolder(e) = p
    BY <1>2, <2>4 DEF Abstract!FirstHolder, HeaderParty, Party
  <2>10. /\ HeldView[p] + 1 = e /\ HeldView[p] <= U64_MAX - 2
         /\ \A x \in Party : HeldView[x] = HeldView[p] /\ KnownView[x] = HeldView[p]
    BY <1>2, <2>7, StreamAssumption
  <2>11. Abstract!MayBegin(p)
    BY <2>9, <2>10 DEF Abstract!MayBegin, Abstract!Party, Party, HeldView, KnownView
  <2>12. Abstract!FirstKey(p)
    BY <1>4, <2>8, <2>10, <2>11 DEF Abstract!FirstKey, HeldView, KnownView
  <2> QED BY <2>12 DEF Abstract!Next, Abstract!Party, Party
<1> QED BY <1>5, <1>6

\* A receive gives the second of the two their key, tells the first of it, gives the
\* agreement up, or does nothing the agreement sees.
LEMMA ReceiveImplements ==
  ASSUME IInv, NEW p \in Party, Receive(p)
  PROVE  [Abstract!Next]_(Abstract!agreement)
<1> DEFINE q == Peer(p)
           b == braid[p]
           c == braid[q]
           e == b.epoch
<1>0. PICK m \in net[p] :
        LET r == step_receive(b, m)
        IN  Running(p) /\ Moved(p, r) /\ Receiving(p, e, b, m, r)
  BY ReceiveFacts
<1> DEFINE r == step_receive(b, m)
<1>1. Running(p) /\ Moved(p, r) /\ Receiving(p, e, b, m, r)
  BY <1>0
<1> HIDE DEF r
<1>2. /\ q \in Party /\ q # p /\ U64_MAX \in Nat /\ U64_MAX > 2
      /\ e \in Epochs /\ e \in Nat \ {0} /\ e < U64_MAX /\ b \in StatesOf(p, e)
      /\ Len(outputs[p]) = Holds(b) /\ outputs[p] = KeysTo(Holds(b))
      /\ c = Failed => e = U64_MAX - 1
  BY <1>1, Standing, PeerParty, StreamAssumption
<1>3. ASSUME c # Failed
      PROVE  /\ c.epoch \in Nat /\ m.epoch <= c.epoch /\ c.epoch <= e + 1
             /\ Len(outputs[q]) = Holds(c)
             /\ c.epoch = e + 1 => c.tag = "NoHeaderReceived"
             /\ b.tag = "EkSentCt1Received" => c.epoch = e /\ c.tag = "Ct2Sampled"
  BY <1>1, <1>3, Standing
<1>4. reported(b) = e - 1 /\ e - 1 \in Nat
  BY <1>2, RunningView
<1>5. /\ HeldView[p] = Holds(b) /\ HeldView[q] = Len(outputs[q]) /\ KnownView[p] = e - 1
      /\ HeldView' = [HeldView EXCEPT ![p] = Len(outputs'[p])]
      /\ KnownView' = [KnownView EXCEPT ![p] = reported(r.state)]
      /\ Peer(p) = Abstract!Peer(p) /\ p \in Abstract!Party
  BY <1>1, <1>2, <1>4, ViewMoves DEF HeldView, KnownView, Peer, Abstract!Peer, Party, Abstract!Party
<1>6. r.out = None => HeldView' = HeldView
  BY <1>1, <1>5 DEF Moved, Emit, HeldView
<1>7. CASE Stays(p, e, b, m, r)
  <2>1. reported(r.state) = e - 1 /\ r.out = None
    BY <1>2, <1>7, RunningView DEF Stays
  <2>2. KnownView' = KnownView
    BY <1>5, <2>1 DEF KnownView
  <2> QED BY <1>6, <2>1, <2>2 DEF Abstract!agreement, HeldView, KnownView
<1>8. CASE Completes(p, e, b, r)
  <2>1. /\ b.tag = "EkSentCt1Received" /\ e + 1 < U64_MAX /\ r.out = Output(e, KeyOf(e))
        /\ r.state \in NoHeaderReceived(e + 1)
    BY <1>8 DEF Completes
  <2>2. c # Failed /\ c.epoch = e /\ c.tag = "Ct2Sampled"
    BY <1>2, <1>3, <2>1
  <2>3. Holds(b) = e - 1 /\ Holds(c) = e
    BY <2>1, <2>2 DEF Holds, KeyHolding
  <2>4. Len(outputs'[p]) = e
    <3>1. (e - 1) + 1 = e
      BY <1>2
    <3>2. Emit(KeysTo(e - 1), Output(e, KeyOf(e))) = KeysTo(e)
      BY <1>4, <3>1, KeysGrow
    <3>3. outputs'[p] = KeysTo(e)
      BY <1>1, <1>2, <2>1, <2>3, <3>2 DEF Moved
    <3> QED BY <1>2, <3>3, KeysGrow
  <2>5. reported(r.state) = e
    <3>1. r.state.epoch = e + 1 /\ r.state # Failed
      BY <2>1 DEF NoHeaderReceived, Failed
    <3> QED BY <1>2, <3>1 DEF reported, EpochOf
  <2>6. /\ HeldView[q] = HeldView[p] + 1 /\ HeldView[p] < U64_MAX - 2
        /\ HeldView' = [HeldView EXCEPT ![p] = HeldView[p] + 1]
        /\ KnownView' = [KnownView EXCEPT ![p] = HeldView[p] + 1]
    <3>1. HeldView[p] = e - 1 /\ HeldView[q] = e
      BY <1>3, <1>5, <2>2, <2>3
    <3>2. (e - 1) + 1 = e /\ e - 1 < U64_MAX - 2
      BY <1>2, <2>1
    <3>3. HeldView' = [HeldView EXCEPT ![p] = e] /\ KnownView' = [KnownView EXCEPT ![p] = e]
      BY <1>5, <2>4, <2>5
    <3> QED BY <3>1, <3>2, <3>3
  <2>7. Abstract!SecondKey(p)
    BY <1>5, <2>6 DEF Abstract!SecondKey, HeldView, KnownView
  <2> QED BY <1>5, <2>7 DEF Abstract!Next
<1>9. CASE Follows(p, e, b, m, r)
  <2>1. /\ b.tag = "Ct2Sampled" /\ e + 1 < U64_MAX /\ m.epoch = e + 1 /\ r.out = None
        /\ r.state \in KeysUnsampled(e + 1)
    BY <1>9 DEF Follows
  <2>2. c # Failed /\ c.epoch = e + 1 /\ c.tag = "NoHeaderReceived"
    BY <1>2, <1>3, <2>1
  <2>3. Holds(b) = e /\ Holds(c) = e
    BY <1>2, <2>1, <2>2 DEF Holds, KeyHolding
  <2>4. reported(r.state) = e
    <3>1. r.state.epoch = e + 1 /\ r.state # Failed
      BY <2>1 DEF KeysUnsampled, Failed
    <3> QED BY <1>2, <3>1 DEF reported, EpochOf
  <2>5. /\ HeldView[q] = HeldView[p] /\ KnownView[p] = HeldView[p] - 1
        /\ KnownView' = [KnownView EXCEPT ![p] = HeldView[p]] /\ HeldView' = HeldView
    BY <1>3, <1>5, <1>6, <2>1, <2>2, <2>3, <2>4
  <2>6. Abstract!Learn(p)
    BY <1>5, <2>5 DEF Abstract!Learn, HeldView, KnownView
  <2> QED BY <1>5, <2>6 DEF Abstract!Next
<1>10. CASE GivesUp(p, e, b, r)
  <2>1. e + 1 = U64_MAX /\ r.out = None /\ r.state = Failed
    BY <1>10 DEF GivesUp
  <2>2. reported(Failed) = 0
    BY DEF reported, EpochOf
  <2>3. \E x \in Party : HeldView[x] > U64_MAX - 2
    <3>1. IInv' /\ braid'[p] = Failed
      BY <1>1, <2>1, ReceiveKeeps DEF Moved
    <3>2. PICK x \in Party : Len(outputs'[x]) = U64_MAX - 1
      BY <3>1 DEF IInv, FailsOnlyAtCeiling, KeysHeld
    <3>3. Len(outputs'[x]) = HeldView[x]
      BY <1>6, <2>1 DEF HeldView
    <3> QED BY <1>2, <3>2, <3>3
  <2>4. HeldView' = HeldView /\ KnownView' = [KnownView EXCEPT ![p] = 0]
    BY <1>5, <1>6, <2>1, <2>2
  <2>5. Abstract!Abandon(p)
    BY <1>5, <2>3, <2>4 DEF Abstract!Abandon, HeldView, KnownView, Party, Abstract!Party
  <2> QED BY <1>5, <2>5 DEF Abstract!Next
<1> QED BY <1>1, <1>7, <1>8, <1>9, <1>10 DEF Receiving
\* The Braid implements module Agreement: Triple::send and Triple::receive may rely on
\* keys that come one an epoch, to one party and then to the other, and on reports of
\* epochs that both hold, whatever is lost or reordered.
THEOREM BraidImplementsAgreement == Spec => ImplementsAgreement
<1>1. Init => Abstract!Init
  <2> SUFFICES ASSUME Init PROVE Abstract!Init
    OBVIOUS
  <2>1. \A x \in Party : Len(outputs[x]) = 0 /\ reported(braid[x]) = 0
    <3>1. ASSUME NEW x \in Party PROVE reported(braid[x]) = 0
      <4>1. braid[x].epoch = 1 /\ braid[x] # Failed
        BY DEF Init, initiator, responder, Failed
      <4> QED BY <4>1 DEF reported, EpochOf
    <3> QED BY <3>1 DEF Init
  <2> QED BY <2>1 DEF Abstract!Init, Abstract!Party, Party
<1>2. IInv /\ [Next]_vars => [Abstract!Next]_(Abstract!agreement)
  <2> SUFFICES ASSUME IInv, [Next]_vars PROVE [Abstract!Next]_(Abstract!agreement)
    OBVIOUS
  <2>1. ASSUME braid' = braid, outputs' = outputs PROVE UNCHANGED Abstract!agreement
    BY <2>1 DEF Abstract!agreement
  <2>2. ASSUME NEW p \in Party, Lose(p) PROVE UNCHANGED Abstract!agreement
    BY <2>1, <2>2 DEF Lose
  <2>3. CASE UNCHANGED vars
    BY <2>1, <2>3 DEF vars
  <2>4. CASE Next
    BY <2>2, <2>4, SendImplements, ReceiveImplements DEF Next
  <2> QED BY <2>3, <2>4
<1> QED BY <1>1, <1>2, Invariance, PTL DEF Spec, ImplementsAgreement, Abstract!Spec

-----------------------------------------------------------------------------
(* The reader's Braid does the same *)

Tags == DOMAIN Reader!HOLDS

\* The reader's form of a state, when it is one of the eleven: whatever gives its fields
\* gives it.
LEMMA ReadAs ==
  ASSUME NEW b, NEW tag \in Tags, b.tag = tag, NEW g,
         \A f \in Reader!HOLDS[tag] : g[f] = Field(b, f)
  PROVE  Read(b) = Reader!Make(tag, b.epoch, b.auth, g)
<1>1. b # Failed
  BY DEF Tags, Reader!HOLDS, Failed
<1> HIDE DEF Reader!HOLDS
<1> QED BY <1>1, Zenon DEF Read, Reader!Make

\* Its fields.
LEMMA ReadFields ==
  ASSUME NEW b, b.tag \in Tags
  PROVE  /\ Read(b) # Reader!Failed
         /\ Read(b).tag = b.tag /\ Read(b).epoch = b.epoch /\ Read(b).auth = b.auth
         /\ \A f \in Reader!HOLDS[b.tag] : Read(b)[f] = Field(b, f)
<1> DEFINE s == Read(b)
<1>1. s = Reader!Make(b.tag, b.epoch, b.auth, [f \in Reader!HOLDS[b.tag] |-> Field(b, f)])
  BY ReadAs
<1>2. \A f \in Reader!HOLDS[b.tag] : f \notin {"tag", "epoch", "auth"}
  BY DEF Tags, Reader!HOLDS
<1> HIDE DEF s
<1>3. s.tag = b.tag /\ s.epoch = b.epoch /\ s.auth = b.auth
      /\ \A f \in Reader!HOLDS[b.tag] : s[f] = Field(b, f)
  BY <1>1, <1>2 DEF Reader!Make
<1>4. s # Reader!Failed
  BY <1>3 DEF Tags, Reader!HOLDS, Reader!Failed
<1> QED BY <1>3, <1>4 DEF s

\* One field changed.
LEMMA ReadExcept ==
  ASSUME NEW b, b.tag \in Tags, NEW c, c.tag = b.tag, c.epoch = b.epoch, c.auth = b.auth,
         NEW k \in Reader!HOLDS[b.tag],
         \A f \in Reader!HOLDS[b.tag] : f # k => Field(c, f) = Field(b, f)
  PROVE  Read(c) = [Read(b) EXCEPT ![k] = Field(c, k)]
<1> DEFINE g == [f \in Reader!HOLDS[b.tag] |-> Field(b, f)]
           h == [f \in Reader!HOLDS[b.tag] |-> Field(c, f)]
           D == {"tag", "epoch", "auth"} \cup Reader!HOLDS[b.tag]
           x == Reader!Make(b.tag, b.epoch, b.auth, g)
           y == Reader!Make(b.tag, b.epoch, b.auth, h)
<1>1. Read(b) = x /\ Read(c) = y
  BY ReadAs
<1>2. k \notin {"tag", "epoch", "auth"}
  BY DEF Tags, Reader!HOLDS
<1>3. y = [x EXCEPT ![k] = h[k]]
  <2> HIDE DEF Reader!HOLDS
  <2> QED BY <1>2 DEF Reader!Make
<1> QED BY <1>1, <1>3

-----------------------------------------------------------------------------
(* Streams *)

\* A codeword of either form is there when there is one.
LEMMA CodewordThere ==
  ASSUME NEW v \in Carried, NEW c \in Codewords(v)
  PROVE  c # None /\ ReadChunk(c) # None
<1>1. c \in [val : Carried, index : Nat] /\ ReadChunk(c) \in [index : Nat, value : Carried]
  BY DEF Codewords, ReadChunk
<1> QED BY <1>1, CodewordAssumption

\* Issuing a codeword.
LEMMA IssuesAlike ==
  ASSUME NEW v \in Carried, NEW enc \in Encoders(v)
  PROVE  /\ Reader!issue(ReadEnc(enc)) = ReadEnc(next_chunk(enc))
         /\ Chunk(enc) = None => Reader!Codeword(ReadEnc(enc)) = None
         /\ Chunk(enc) # None => /\ Reader!Codeword(ReadEnc(enc)) # None
                                 /\ Reader!Codeword(ReadEnc(enc)) = ReadChunk(Chunk(enc))
<1>1. Reader!issue(ReadEnc(enc)) = ReadEnc(next_chunk(enc))
  BY DEF Reader!issue, ReadEnc, next_chunk, Encoders
<1>2. CASE enc.exhausted
  BY <1>1, <1>2 DEF Chunk, Reader!Codeword, ReadEnc
<1>3. CASE ~enc.exhausted
  <2>1. Chunk(enc) \in Codewords(v)
    BY <1>3 DEF Chunk, Codewords, Encoders
  <2>2. Chunk(enc) # None /\ ReadChunk(Chunk(enc)) # None
    BY <2>1, CodewordThere
  <2>3. Reader!Codeword(ReadEnc(enc)) = ReadChunk(Chunk(enc))
    BY <1>3 DEF Chunk, Reader!Codeword, ReadEnc, ReadChunk
  <2> QED BY <1>1, <2>2, <2>3
<1> QED BY <1>2, <1>3

\* A fresh stream is the same.
LEMMA EncodersAlike ==
  ASSUME NEW v
  PROVE  Reader!Encoder(v) = ReadEnc(NewEncoder(v)) /\ ~NewEncoder(v).exhausted
BY DEF Reader!Encoder, ReadEnc, NewEncoder

\* The message a stream gives.
LEMMA StreamMessagesAlike ==
  ASSUME NEW v \in Carried, NEW enc \in Encoders(v), NEW e, NEW ty
  PROVE  Reader!StreamMessage(e, ty, Reader!Codeword(ReadEnc(enc))) = ReadMsg(With(e, ty, Chunk(enc)))
<1>1. CASE Chunk(enc) = None
  <2>1. Reader!Codeword(ReadEnc(enc)) = None
    BY <1>1, IssuesAlike
  <2> QED BY <1>1, <2>1 DEF Reader!StreamMessage, Reader!Message, ReadMsg, With, Empty
<1>2. CASE Chunk(enc) # None
  <2> DEFINE c == Chunk(enc)
             d == Reader!Codeword(ReadEnc(enc))
  <2>1. d # None /\ d = ReadChunk(c)
    BY <1>2, IssuesAlike
  <2> HIDE DEF c, d
  <2>2. Reader!StreamMessage(e, ty, d) = ReadMsg(With(e, ty, c))
    BY <1>2, <2>1 DEF Reader!StreamMessage, Reader!Message, ReadMsg, With, c
  <2> QED BY <2>2 DEF c, d
<1> QED BY <1>1, <1>2

\* The two forms of a codeword name each other.
LEMMA ChunksApart ==
  ASSUME NEW v, NEW w, NEW c \in Codewords(v), NEW d \in Codewords(w), ReadChunk(c) = ReadChunk(d)
  PROVE  c = d
<1>1. c.val = d.val /\ c.index = d.index
  BY DEF ReadChunk
<1> QED BY <1>1 DEF Codewords

\* Both count alike.
LEMMA SizesAlike ==
  ASSUME NEW S
  PROVE  Reader!Cardinality(S) = Cardinality(S)
BY DEF Reader!Cardinality, Cardinality

\* What a decoder holds: finitely many codewords.
Held(dec) ==
  /\ dec \in [needed : {dec.needed}, have : {dec.have}] /\ IsFiniteSet(dec.have)
  /\ \A c \in dec.have : \E v : c \in Codewords(v)

\* The reader's decoder holds as many codewords.
LEMMA HeldSizes ==
  ASSUME NEW dec, Held(dec)
  PROVE  Cardinality(ReadDec(dec).held) = Cardinality(dec.have)
<1> DEFINE S == dec.have
           T == {ReadChunk(c) : c \in S}
           g == [c \in S |-> ReadChunk(c)]
<1>1. \A c, d \in S : g[c] = g[d] => c = d
  BY ChunksApart DEF Held
<1>2. g \in Bijection(S, T)
  <2>1. g \in Injection(S, T)
    BY <1>1 DEF Injection, IsInjective
  <2>2. g \in Surjection(S, T)
    BY DEF Surjection
  <2> QED BY <2>1, <2>2 DEF Bijection
<1>3. Cardinality(T) = Cardinality(S)
  BY <1>2, FS_Bijection DEF Held, ExistsBijection
<1> QED BY <1>3 DEF ReadDec

\* A decoder is complete when the other is.
LEMMA CompletesAlike ==
  ASSUME NEW dec, Held(dec)
  PROVE  Reader!complete(ReadDec(dec)) <=> has_message(dec)
<1>1. Reader!Cardinality(ReadDec(dec).held) = Cardinality(dec.have) /\ ReadDec(dec).needed = dec.needed
  BY HeldSizes, SizesAlike DEF ReadDec
<1> HIDE DEF ReadDec
<1> QED BY <1>1 DEF Reader!complete, has_message

\* Both keep the codeword, or neither does.
LEMMA AddsAlike ==
  ASSUME NEW dec, Held(dec), NEW v, NEW c \in Codewords(v)
  PROVE  /\ Reader!DecoderReceive(ReadDec(dec), ReadChunk(c)) = ReadDec(add_chunk(dec, c))
         /\ Held(add_chunk(dec, c))
<1> DEFINE S == dec.have
           x == ReadChunk(c)
           it == ReadDec(dec)
           full == Cardinality(S) >= dec.needed \/ \E d \in S : d.index = c.index
           more == [dec EXCEPT !.have = S \cup {c}]
<1>1. it.held = {ReadChunk(d) : d \in S} /\ it = [needed |-> dec.needed, held |-> it.held]
  BY DEF ReadDec
<1>2. (x.index \in {d.index : d \in it.held}) <=> \E d \in S : d.index = c.index
  <2>1. x.index = c.index /\ \A d \in S : ReadChunk(d).index = d.index
    BY DEF ReadChunk
  <2> HIDE DEF x, it
  <2> QED BY <1>1, <2>1
<1>3. Reader!complete(it) <=> Cardinality(S) >= dec.needed
  BY CompletesAlike DEF has_message
<1>4. add_chunk(dec, c) = IF full THEN dec ELSE more
  BY DEF add_chunk
<1>5. Reader!DecoderReceive(it, x) = IF full THEN it ELSE [it EXCEPT !.held = it.held \cup {x}]
  <2> HIDE DEF it, x
  <2> QED BY <1>2, <1>3 DEF Reader!DecoderReceive
<1>6. /\ more.needed = dec.needed /\ more.have = S \cup {c}
      /\ more \in [needed : {more.needed}, have : {more.have}]
  BY DEF Held
<1>7. Held(more)
  <2>1. IsFiniteSet(S \cup {c})
    BY FS_AddElement DEF Held
  <2>2. \A d \in S \cup {c} : \E w : d \in Codewords(w)
    BY DEF Held
  <2> HIDE DEF more
  <2> QED BY <1>6, <2>1, <2>2 DEF Held
<1>8. [it EXCEPT !.held = it.held \cup {x}] = ReadDec(more)
  <2>1. {ReadChunk(d) : d \in S \cup {c}} = it.held \cup {x}
    BY <1>1
  <2>2. ReadDec(more) = [needed |-> dec.needed, held |-> it.held \cup {x}]
    BY <1>6, <2>1 DEF ReadDec
  <2> HIDE DEF it, more, x
  <2> QED BY <1>1, <2>2
<1> HIDE DEF full, more
<1>9. CASE full
  BY <1>4, <1>5, <1>9
<1>10. CASE ~full
  BY <1>4, <1>5, <1>7, <1>8, <1>10
<1> QED BY <1>9, <1>10

\* Both rebuild the same value, or nothing.
LEMMA ValuesAlike ==
  ASSUME NEW dec
  PROVE  Reader!DecoderValue(ReadDec(dec)) = message(dec)
<1>1. {c.value : c \in ReadDec(dec).held} = {c.val : c \in dec.have}
  <2>1. ReadDec(dec).held = {ReadChunk(d) : d \in dec.have} /\ \A d : ReadChunk(d).value = d.val
    BY DEF ReadDec, ReadChunk
  <2> QED BY <2>1
<1> DEFINE vals == {c.val : c \in dec.have}
           its == {c.value : c \in ReadDec(dec).held}
<1>2. Reader!DecoderValue(ReadDec(dec)) = IF Reader!Cardinality(its) = 1 THEN CHOOSE v \in its : TRUE ELSE None
  BY DEF Reader!DecoderValue
<1>3. message(dec) = IF Cardinality(vals) = 1 THEN CHOOSE v \in vals : TRUE ELSE None
  BY DEF message
<1>4. its = vals /\ Reader!Cardinality(vals) = Cardinality(vals)
  BY <1>1, SizesAlike
<1> HIDE DEF vals, its
<1> QED BY <1>2, <1>3, <1>4

\* A decoder starts the same.
LEMMA DecodersAlike ==
  ASSUME NEW stream
  PROVE  Reader!Decoder(stream) = ReadDec(NewDecoder(stream)) /\ Held(NewDecoder(stream))
BY FS_EmptySet DEF Reader!Decoder, ReadDec, NewDecoder, Held

\* A decoder of one value is one.
LEMMA DecodersHold ==
  ASSUME NEW stream, NEW v, NEW dec \in Decoders(stream, v)
  PROVE  Held(dec)
BY DEF Decoders, Held

\* What an epoch streams can be carried.
LEMMA CarriedValues ==
  ASSUME NEW e \in Epochs
  PROVE  /\ HeaderFrame(e) \in Carried /\ KeyPairOf(e) \in Carried /\ CiphertextOf(e) \in Carried
         /\ Ct2Frame(e) \in Carried
<1>1. e \in Nat \ {0} /\ e + 1 \in Nat \ {0}
  BY StreamAssumption DEF Epochs
<1>2. /\ KeyPairOf(e) \in Drawn /\ CiphertextOf(e) \in Encapsulation /\ AuthOf(e) \in Absorbed
      /\ AuthOf(e + 1) \in Absorbed
  BY <1>1, EpochTypes
<1>3. HeaderFrame(e) \in FramedHeader
  BY <1>1, <1>2 DEF HeaderFrame, FramedHeader, mac_hdr
<1>4. Ct2Frame(e) \in FramedCt2
  BY <1>1, <1>2 DEF Ct2Frame, FramedCt2, mac_ct
<1> QED BY <1>2, <1>3, <1>4 DEF Carried

-----------------------------------------------------------------------------
(* Sending *)

\* One send of each.
SendsSame(b, fresh) ==
  LET ours == step_send(b, fresh)
      its  == Reader!send(Read(b), {}, fresh)
  IN  Read(ours.state) = its.state /\ ReadMsg(ours.msg) = its.message /\ ReadOut(ours.out) = its.output

\* A state that streams.  k is the reader's field with the stream.
LEMMA StreamsAlike ==
  ASSUME NEW b, b.tag \in Streaming, NEW v \in Carried, b.enc \in Encoders(v), NEW fresh,
         NEW c,
         step_send(b, fresh) = Sends(With(b.epoch, StreamType(b.tag), Chunk(b.enc)), None, c),
         c.tag = b.tag, c.epoch = b.epoch, c.auth = b.auth, c.enc = next_chunk(b.enc),
         \A f \in Reader!HOLDS[b.tag] : f \notin EncoderFields => Field(c, f) = Field(b, f)
  PROVE  SendsSame(b, fresh)
<1> DEFINE s == Read(b)
           k == Reader!SendsFrom[b.tag][1]
           ty == StreamType(b.tag)
           ours == step_send(b, fresh)
           its == Reader!send(s, {}, fresh)
<1>1. /\ k \in Reader!HOLDS[b.tag] /\ k \in EncoderFields /\ Reader!SendsFrom[b.tag][2] = ty
      /\ \A f \in Reader!HOLDS[b.tag] : f \in EncoderFields => f = k
      /\ b.tag \in Tags /\ b.tag \notin {"KeysUnsampled", "HeaderReceived"} /\ b.tag \in DOMAIN Reader!SendsFrom
  BY DEF Streaming, Reader!SendsFrom, Reader!HOLDS, Tags, StreamType, EncoderFields
<1> HIDE DEF k, ty, s
<1>2. Field(b, k) = ReadEnc(b.enc) /\ Field(c, k) = ReadEnc(next_chunk(b.enc))
  BY <1>1 DEF Field, EncoderFields, DecoderFields
<1>3. s # Reader!Failed /\ s.tag = b.tag /\ s.epoch = b.epoch /\ s[k] = ReadEnc(b.enc)
  BY <1>1, <1>2, ReadFields DEF s
<1>4. ours = Sends(With(b.epoch, ty, Chunk(b.enc)), None, c)
  BY DEF ty
<1>5. Read(c) = [s EXCEPT ![k] = ReadEnc(next_chunk(b.enc))]
  <2>1. \A f \in Reader!HOLDS[b.tag] : f # k => Field(c, f) = Field(b, f)
    BY <1>1
  <2>2. Read(c) = [Read(b) EXCEPT ![k] = Field(c, k)]
    BY <1>1, <2>1, ReadExcept
  <2> QED BY <1>2, <2>2 DEF s
<1>6. its = Reader!SendResult([s EXCEPT ![k] = Reader!issue(@)],
                              Reader!StreamMessage(s.epoch, ty, Reader!Codeword(s[k])), None)
  BY <1>1, <1>3 DEF Reader!send, k
<1>7. [s EXCEPT ![k] = Reader!issue(@)] = Read(c)
  <2>1. Reader!issue(s[k]) = ReadEnc(next_chunk(b.enc))
    BY <1>3, IssuesAlike
  <2> QED BY <1>5, <2>1
<1>8. Reader!StreamMessage(s.epoch, ty, Reader!Codeword(s[k])) = ReadMsg(With(b.epoch, ty, Chunk(b.enc)))
  BY <1>3, StreamMessagesAlike
<1> HIDE DEF ours, its, s, ty, k
<1>9. Read(ours.state) = its.state /\ ReadMsg(ours.msg) = its.message /\ ReadOut(ours.out) = its.output
  BY <1>4, <1>6, <1>7, <1>8 DEF Sends, Reader!SendResult, ReadOut
<1> QED BY <1>9 DEF SendsSame, ours, its, s

\* A state that draws a key pair.
LEMMA SampleKeysAlike ==
  ASSUME NEW e \in Epochs, NEW b \in KeysUnsampled(e), NEW fresh \in Drawn
  PROVE  SendsSame(b, fresh)
<1> DEFINE s == Read(b)
           v == [header |-> fresh, mac |-> mac_hdr(b.auth, b.epoch, fresh)]
           enc == NewEncoder(v)
           c == [tag |-> "KeysSampled", epoch |-> b.epoch, auth |-> b.auth,
                 kp |-> fresh, enc |-> next_chunk(enc)]
           msg == With(b.epoch, "Hdr", Chunk(enc))
           ours == step_send(b, fresh)
           its == Reader!send(s, {}, fresh)
<1>1. b.tag = "KeysUnsampled" /\ b.epoch = e /\ b.auth = AuthOf(e) /\ e \in Nat \ {0}
  BY DEF KeysUnsampled, Epochs
<1>2. s # Reader!Failed /\ s.tag = "KeysUnsampled" /\ s.epoch = b.epoch /\ s.auth = b.auth
  BY <1>1, ReadFields DEF Tags, Reader!HOLDS
<1>3. v \in Carried
  BY <1>1, EpochTypes DEF Carried, FramedHeader, mac_hdr
<1>4. ours = Sends(msg, None, c)
  BY <1>1 DEF step_send, SampleKeys, Streaming
<1> HIDE DEF s, v
<1>5. enc \in Encoders(v)
  BY EncoderStart
<1>6. Chunk(enc) # None /\ Reader!Codeword(ReadEnc(enc)) = ReadChunk(Chunk(enc))
      /\ ReadChunk(Chunk(enc)) # None
  <2>1. Chunk(enc) \in Codewords(v)
    BY DEF NewEncoder, Chunk, Codewords
  <2>2. Chunk(enc) # None /\ ReadChunk(Chunk(enc)) # None
    BY <1>3, <2>1, CodewordThere
  <2> QED BY <1>3, <1>5, <2>2, IssuesAlike
<1>7. Reader!Encoder(v) = ReadEnc(enc) /\ Reader!issue(ReadEnc(enc)) = ReadEnc(next_chunk(enc))
  BY <1>3, <1>5, EncodersAlike, IssuesAlike
<1> HIDE DEF enc
<1>8. its = Reader!SendResult(
              Reader!Make("KeysSampled", s.epoch, s.auth,
                          [key_pair |-> fresh, hdr_enc |-> Reader!issue(Reader!Encoder(v))]),
              Reader!Message(s.epoch, "Hdr", Reader!Codeword(Reader!Encoder(v))), None)
  <2>1. its = Reader!SampleKeys(s, fresh)
    BY <1>2 DEF Reader!send, Reader!SendsFrom
  <2>2. v = [header |-> fresh, mac |-> Reader!mac_hdr(s.auth, s.epoch, fresh)]
    BY <1>2 DEF v, mac_hdr, Reader!mac_hdr
  <2> QED BY <2>1, <2>2 DEF Reader!SampleKeys
<1>9. Read(c) = Reader!Make("KeysSampled", s.epoch, s.auth,
                            [key_pair |-> fresh, hdr_enc |-> ReadEnc(next_chunk(enc))])
  <2> DEFINE g == [key_pair |-> fresh, hdr_enc |-> ReadEnc(next_chunk(enc))]
  <2>1. \A f \in Reader!HOLDS["KeysSampled"] : g[f] = Field(c, f)
    BY DEF Reader!HOLDS, Field, EncoderFields, DecoderFields
  <2>2. c.tag = "KeysSampled" /\ c.epoch = b.epoch /\ c.auth = b.auth /\ "KeysSampled" \in Tags
    BY DEF Tags, Reader!HOLDS
  <2> HIDE DEF c, g
  <2>3. Read(c) = Reader!Make("KeysSampled", c.epoch, c.auth, g)
    BY <2>1, <2>2, ReadAs
  <2> QED BY <1>2, <2>2, <2>3 DEF g
<1>10. ReadMsg(msg) = Reader!Message(s.epoch, "Hdr", ReadChunk(Chunk(enc)))
  BY <1>2, <1>6 DEF ReadMsg, With, Reader!Message
<1> HIDE DEF ours, its, c, msg
<1>11. Read(ours.state) = its.state /\ ReadMsg(ours.msg) = its.message /\ ReadOut(ours.out) = its.output
  BY <1>4, <1>6, <1>7, <1>8, <1>9, <1>10 DEF Sends, Reader!SendResult, ReadOut
<1> QED BY <1>11 DEF SendsSame, ours, its, s

\* A state that encapsulates.
LEMMA SampleCt1Alike ==
  ASSUME NEW e \in Epochs, NEW b \in HeaderReceived(e), NEW fresh \in Drawn
  PROVE  SendsSame(b, fresh)
<1> DEFINE s == Read(b)
           v == Encapsulate(b.header, fresh)
           key == kdf_ok(v, b.epoch)
           enc == NewEncoder(v)
           c == [tag |-> "Ct1Sampled", epoch |-> b.epoch, auth |-> AuthUpdate(b.auth, b.epoch, key),
                 header |-> b.header, ct1 |-> v, enc |-> next_chunk(enc), dec |-> b.dec]
           msg == With(b.epoch, "Ct1", Chunk(enc))
           ours == step_send(b, fresh)
           its == Reader!send(s, {}, fresh)
<1>1. b.tag = "HeaderReceived" /\ b.epoch = e /\ b.header = KeyPairOf(e) /\ e \in Nat \ {0}
  BY DEF HeaderReceived, Epochs
<1>2. /\ s # Reader!Failed /\ s.tag = "HeaderReceived" /\ s.epoch = b.epoch /\ s.auth = b.auth
      /\ s.header = b.header /\ s.ek_dec = ReadDec(b.dec)
  <2>1. Reader!HOLDS[b.tag] = {"header", "ek_dec"} /\ b.tag \in Tags
    BY <1>1 DEF Tags, Reader!HOLDS
  <2>2. Field(b, "header") = b.header /\ Field(b, "ek_dec") = ReadDec(b.dec)
    BY DEF Field, EncoderFields, DecoderFields
  <2> HIDE DEF s
  <2> QED BY <1>1, <2>1, <2>2, ReadFields DEF s
<1>3. v \in Carried /\ Output(e, key) \in EpochOutput
  BY <1>1, EpochTypes
     DEF Carried, Encapsulate, Encapsulation, kdf_ok, Output, EpochOutput, EpochKey
<1>4. ours = Sends(msg, Output(e, key), c)
  BY <1>1 DEF step_send, SampleCt1, Streaming
<1>5. v = Reader!encaps1(s.header, fresh) /\ key = Reader!kdf_ok(v, s.epoch)
      /\ AuthUpdate(b.auth, b.epoch, key) = Reader!AuthUpdate(s.auth, s.epoch, key)
  BY <1>2 DEF Encapsulate, Reader!encaps1, kdf_ok, Reader!kdf_ok, AuthUpdate, Reader!AuthUpdate
<1> HIDE DEF s, v, key
<1>6. enc \in Encoders(v)
  BY EncoderStart
<1>7. Chunk(enc) # None /\ Reader!Codeword(ReadEnc(enc)) = ReadChunk(Chunk(enc))
      /\ ReadChunk(Chunk(enc)) # None
  <2>1. Chunk(enc) \in Codewords(v)
    BY DEF NewEncoder, Chunk, Codewords
  <2>2. Chunk(enc) # None /\ ReadChunk(Chunk(enc)) # None
    BY <1>3, <2>1, CodewordThere
  <2> QED BY <1>3, <1>6, <2>2, IssuesAlike
<1>8. Reader!Encoder(v) = ReadEnc(enc) /\ Reader!issue(ReadEnc(enc)) = ReadEnc(next_chunk(enc))
  BY <1>3, <1>6, EncodersAlike, IssuesAlike
<1> HIDE DEF enc
<1>9. its = Reader!SendResult(
              Reader!Make("Ct1Sampled", s.epoch, Reader!AuthUpdate(s.auth, s.epoch, key),
                          [header |-> s.header, encaps |-> v, ct1 |-> v,
                           ct1_enc |-> Reader!issue(Reader!Encoder(v)), ek_dec |-> s.ek_dec]),
              Reader!Message(s.epoch, "Ct1", Reader!Codeword(Reader!Encoder(v))),
              [epoch |-> s.epoch, key |-> key])
  <2>1. its = Reader!SampleCt1(s, fresh)
    BY <1>2 DEF Reader!send, Reader!SendsFrom
  <2> QED BY <1>5, <2>1 DEF Reader!SampleCt1
<1>10. Read(c) = Reader!Make("Ct1Sampled", s.epoch, Reader!AuthUpdate(s.auth, s.epoch, key),
                             [header |-> s.header, encaps |-> v, ct1 |-> v,
                              ct1_enc |-> ReadEnc(next_chunk(enc)), ek_dec |-> s.ek_dec])
  <2> DEFINE g == [header |-> s.header, encaps |-> v, ct1 |-> v,
                   ct1_enc |-> ReadEnc(next_chunk(enc)), ek_dec |-> s.ek_dec]
  <2>1. \A f \in Reader!HOLDS["Ct1Sampled"] : g[f] = Field(c, f)
    BY <1>2 DEF Reader!HOLDS, Field, EncoderFields, DecoderFields
  <2>2. /\ c.tag = "Ct1Sampled" /\ c.epoch = b.epoch /\ c.auth = AuthUpdate(b.auth, b.epoch, key)
        /\ "Ct1Sampled" \in Tags
    BY DEF Tags, Reader!HOLDS
  <2> HIDE DEF c, g
  <2>3. Read(c) = Reader!Make("Ct1Sampled", c.epoch, c.auth, g)
    BY <2>1, <2>2, ReadAs
  <2> QED BY <1>2, <1>5, <2>2, <2>3 DEF g
<1>11. ReadMsg(msg) = Reader!Message(s.epoch, "Ct1", ReadChunk(Chunk(enc)))
  BY <1>2, <1>7 DEF ReadMsg, With, Reader!Message
<1>12. ReadOut(Output(e, key)) = [epoch |-> s.epoch, key |-> key]
  <2>1. Output(e, key) # None
    BY <1>3, NoneAssumption
  <2> QED BY <1>1, <1>2, <2>1 DEF ReadOut, Output
<1> HIDE DEF ours, its, c, msg
<1>13. Read(ours.state) = its.state /\ ReadMsg(ours.msg) = its.message /\ ReadOut(ours.out) = its.output
  BY <1>4, <1>7, <1>8, <1>9, <1>10, <1>11, <1>12 DEF Sends, Reader!SendResult
<1> QED BY <1>13 DEF SendsSame, ours, its, s

\* Every state of an epoch.
LEMMA SendsAlike ==
  ASSUME NEW e \in Epochs, NEW b \in HeaderSide(e) \cup CiphertextSide(e), NEW fresh \in Drawn
  PROVE  SendsSame(b, fresh)
<1> DEFINE c == [b EXCEPT !.enc = next_chunk(@)]
<1>1. ASSUME b.tag \in Streaming
      PROVE  step_send(b, fresh) = Sends(With(b.epoch, StreamType(b.tag), Chunk(b.enc)), None, c)
  BY <1>1 DEF step_send, Streaming
<1>2. CASE b \in KeysSampled(e)
  <2>1. b.tag = "KeysSampled" /\ b.enc \in Encoders(HeaderFrame(e)) /\ b.tag \in Streaming
    BY <1>2 DEF KeysSampled, Streaming
  <2>2. c.tag = b.tag /\ c.epoch = b.epoch /\ c.auth = b.auth /\ c.enc = next_chunk(b.enc)
    BY <1>2 DEF KeysSampled
  <2>3. \A f \in Reader!HOLDS["KeysSampled"] : f \notin EncoderFields => Field(c, f) = Field(b, f)
    BY <1>2 DEF KeysSampled, Reader!HOLDS, Field, EncoderFields, DecoderFields
  <2> HIDE DEF c
  <2> QED BY <1>1, <2>1, <2>2, <2>3, StreamsAlike, CarriedValues
<1>3. CASE b \in HeaderSent(e)
  <2>1. b.tag = "HeaderSent" /\ b.enc \in Encoders(KeyPairOf(e)) /\ b.tag \in Streaming
    BY <1>3 DEF HeaderSent, Streaming
  <2>2. c.tag = b.tag /\ c.epoch = b.epoch /\ c.auth = b.auth /\ c.enc = next_chunk(b.enc)
    BY <1>3 DEF HeaderSent
  <2>3. \A f \in Reader!HOLDS["HeaderSent"] : f \notin EncoderFields => Field(c, f) = Field(b, f)
    BY <1>3 DEF HeaderSent, Reader!HOLDS, Field, EncoderFields, DecoderFields
  <2> HIDE DEF c
  <2> QED BY <1>1, <2>1, <2>2, <2>3, StreamsAlike, CarriedValues
<1>4. CASE b \in Ct1Received(e)
  <2>1. b.tag = "Ct1Received" /\ b.enc \in Encoders(KeyPairOf(e)) /\ b.tag \in Streaming
    BY <1>4 DEF Ct1Received, Streaming
  <2>2. c.tag = b.tag /\ c.epoch = b.epoch /\ c.auth = b.auth /\ c.enc = next_chunk(b.enc)
    BY <1>4 DEF Ct1Received
  <2>3. \A f \in Reader!HOLDS["Ct1Received"] : f \notin EncoderFields => Field(c, f) = Field(b, f)
    BY <1>4 DEF Ct1Received, Reader!HOLDS, Field, EncoderFields, DecoderFields
  <2> HIDE DEF c
  <2> QED BY <1>1, <2>1, <2>2, <2>3, StreamsAlike, CarriedValues
<1>5. CASE b \in Ct1Sampled(e)
  <2>1. b.tag = "Ct1Sampled" /\ b.enc \in Encoders(CiphertextOf(e)) /\ b.tag \in Streaming
    BY <1>5 DEF Ct1Sampled, Streaming
  <2>2. c.tag = b.tag /\ c.epoch = b.epoch /\ c.auth = b.auth /\ c.enc = next_chunk(b.enc)
    BY <1>5 DEF Ct1Sampled
  <2>3. \A f \in Reader!HOLDS["Ct1Sampled"] : f \notin EncoderFields => Field(c, f) = Field(b, f)
    BY <1>5 DEF Ct1Sampled, Reader!HOLDS, Field, EncoderFields, DecoderFields
  <2> HIDE DEF c
  <2> QED BY <1>1, <2>1, <2>2, <2>3, StreamsAlike, CarriedValues
<1>6. CASE b \in EkReceivedCt1Sampled(e)
  <2>1. b.tag = "EkReceivedCt1Sampled" /\ b.enc \in Encoders(CiphertextOf(e)) /\ b.tag \in Streaming
    BY <1>6 DEF EkReceivedCt1Sampled, Streaming
  <2>2. c.tag = b.tag /\ c.epoch = b.epoch /\ c.auth = b.auth /\ c.enc = next_chunk(b.enc)
    BY <1>6 DEF EkReceivedCt1Sampled
  <2>3. \A f \in Reader!HOLDS["EkReceivedCt1Sampled"] : f \notin EncoderFields => Field(c, f) = Field(b, f)
    BY <1>6 DEF EkReceivedCt1Sampled, Reader!HOLDS, Field, EncoderFields, DecoderFields
  <2> HIDE DEF c
  <2> QED BY <1>1, <2>1, <2>2, <2>3, StreamsAlike, CarriedValues
<1>7. CASE b \in Ct2Sampled(e)
  <2>1. b.tag = "Ct2Sampled" /\ b.enc \in Encoders(Ct2Frame(e)) /\ b.tag \in Streaming
    BY <1>7 DEF Ct2Sampled, Streaming
  <2>2. c.tag = b.tag /\ c.epoch = b.epoch /\ c.auth = b.auth /\ c.enc = next_chunk(b.enc)
    BY <1>7 DEF Ct2Sampled
  <2>3. \A f \in Reader!HOLDS["Ct2Sampled"] : f \notin EncoderFields => Field(c, f) = Field(b, f)
    BY <1>7 DEF Ct2Sampled, Reader!HOLDS, Field, EncoderFields, DecoderFields
  <2> HIDE DEF c
  <2> QED BY <1>1, <2>1, <2>2, <2>3, StreamsAlike, CarriedValues
<1>8. CASE b \in EkSentCt1Received(e) \cup NoHeaderReceived(e) \cup Ct1Acknowledged(e)
  <2> DEFINE s == Read(b)
             ours == step_send(b, fresh)
             its == Reader!send(s, {}, fresh)
  <2>1. b.tag \in {"EkSentCt1Received", "NoHeaderReceived", "Ct1Acknowledged"}
    BY <1>8 DEF EkSentCt1Received, NoHeaderReceived, Ct1Acknowledged
  <2>2. ours = Sends(Empty(b.epoch), None, b)
    BY <2>1 DEF step_send, Streaming
  <2>3. s # Reader!Failed /\ s.tag = b.tag /\ s.epoch = b.epoch
    BY <2>1, ReadFields DEF Tags, Reader!HOLDS
  <2> HIDE DEF s
  <2>4. its = Reader!SendResult(s, Reader!Message(s.epoch, "None", None), None)
    BY <2>1, <2>3 DEF Reader!send, Reader!SendsFrom
  <2>5. ReadMsg(Empty(b.epoch)) = Reader!Message(s.epoch, "None", None)
    BY <2>3 DEF ReadMsg, Empty, Reader!Message
  <2> HIDE DEF ours, its
  <2>6. Read(ours.state) = its.state /\ ReadMsg(ours.msg) = its.message /\ ReadOut(ours.out) = its.output
    BY <2>2, <2>4, <2>5 DEF Sends, Reader!SendResult, ReadOut, s
  <2> QED BY <2>6 DEF SendsSame, ours, its, s
<1>9. CASE b \in KeysUnsampled(e)
  BY <1>9, SampleKeysAlike
<1>10. CASE b \in HeaderReceived(e)
  BY <1>10, SampleCt1Alike
<1> QED BY <1>2, <1>3, <1>4, <1>5, <1>6, <1>7, <1>8, <1>9, <1>10 DEF HeaderSide, CiphertextSide

-----------------------------------------------------------------------------
(* Receiving *)

\* One receive of each: the same output and the same next state.
Same(got, its) == its = Reader!Result(Read(got.state), ReadOut(got.out))

ReceivesSame(b, m) ==
  Same(step_receive(b, m), Reader!receive(Read(b), ReadMsg(m), {}))

\* What a message may carry: a codeword of a value that an epoch streams, and of ct2 when
\* it says so.
Carrying(m) ==
  \/ m.data = None
  \/ \E v \in Carried : /\ m.data \in Codewords(v)
                        /\ m.ty = "Ct2" => \E e \in Epochs : v = Ct2Frame(e)
  \/ m.ty = "None"

\* No output reads as no output.
LEMMA SilentSame ==
  ASSUME NEW c, NEW its, its = Reader!Result(Read(c), None)
  PROVE  Same(Gets(None, c), its)
BY DEF Same, Gets, ReadOut

\* A stream that ends an encapsulation.
LEMMA FinishAlike ==
  ASSUME NEW b, NEW s, s.epoch = b.epoch, s.auth = b.auth, s.encaps = b.ct1, s.ct1 = b.ct1, NEW ek
  PROVE  Reader!CompleteEncapsulation(s, ek, {}) = Read(finish_encaps(b, ek))
<1> DEFINE ct2 == Encapsulate(ek, b.ct1.r)
           v == [ct2 |-> ct2, mac |-> mac_ct(b.auth, b.epoch, b.ct1, ct2)]
           c == finish_encaps(b, ek)
           g == [ct2_enc |-> Reader!Encoder(v)]
<1>1. Reader!encaps2(s.encaps, ek) = ct2
  BY DEF Reader!encaps2, Encapsulate
<1>2. [ct2 |-> ct2, mac |-> Reader!mac_ct(s.auth, s.epoch, s.ct1, ct2)] = v
  BY DEF Reader!mac_ct, mac_ct
<1>3. Reader!CompleteEncapsulation(s, ek, {}) = Reader!Make("Ct2Sampled", b.epoch, b.auth, g)
  <2> HIDE DEF v, ct2
  <2> QED BY <1>1, <1>2 DEF Reader!CompleteEncapsulation
<1>4. c = [tag |-> "Ct2Sampled", epoch |-> b.epoch, auth |-> b.auth, enc |-> NewEncoder(v)]
  BY DEF finish_encaps
<1> HIDE DEF v, c
<1>5. \A f \in Reader!HOLDS["Ct2Sampled"] : g[f] = Field(c, f)
  BY <1>4, EncodersAlike DEF Reader!HOLDS, Field, EncoderFields, DecoderFields
<1>6. "Ct2Sampled" \in Tags
  BY DEF Tags, Reader!HOLDS
<1> HIDE DEF g
<1>7. Read(c) = Reader!Make("Ct2Sampled", b.epoch, b.auth, g)
  BY <1>4, <1>5, <1>6, ReadAs
<1> QED BY <1>3, <1>7 DEF c

\* Transition (2).
LEMMA KeysSampledAlike ==
  ASSUME NEW e \in Epochs, NEW b \in KeysSampled(e), NEW v, NEW c \in Codewords(v)
  PROVE  Same(RecvKeysSampled(b, c), Reader!InKeysSampled(Read(b), ReadChunk(c)))
<1> DEFINE s == Read(b)
           dec == add_chunk(NewDecoder("ct1"), c)
           d == [tag |-> "HeaderSent", epoch |-> b.epoch, auth |-> b.auth, kp |-> b.kp,
                 dec |-> dec, enc |-> NewEncoder(b.kp)]
           g == [key_pair |-> s.key_pair,
                 ct1_dec |-> Reader!DecoderReceive(Reader!Decoder("ct1"), ReadChunk(c)),
                 ek_enc |-> Reader!Encoder(s.key_pair)]
<1>1. s.epoch = b.epoch /\ s.auth = b.auth /\ s.key_pair = b.kp
  <2>1. b.tag = "KeysSampled" /\ b.tag \in Tags /\ "key_pair" \in Reader!HOLDS[b.tag]
    BY DEF KeysSampled, Tags, Reader!HOLDS
  <2>2. Field(b, "key_pair") = b.kp
    BY DEF Field, EncoderFields, DecoderFields
  <2> HIDE DEF s
  <2> QED BY <2>1, <2>2, ReadFields DEF s
<1>2. Reader!DecoderReceive(Reader!Decoder("ct1"), ReadChunk(c)) = ReadDec(dec)
  BY DecodersAlike, AddsAlike
<1>3. Reader!Encoder(s.key_pair) = ReadEnc(NewEncoder(b.kp))
  BY <1>1, EncodersAlike
<1> HIDE DEF s, dec
<1>4. \A f \in Reader!HOLDS["HeaderSent"] : g[f] = Field(d, f)
  BY <1>1, <1>2, <1>3 DEF Reader!HOLDS, Field, EncoderFields, DecoderFields
<1>5. "HeaderSent" \in Tags
  BY DEF Tags, Reader!HOLDS
<1>6. Reader!InKeysSampled(s, ReadChunk(c)) = Reader!Result(Reader!Make("HeaderSent", s.epoch, s.auth, g), None)
  BY DEF Reader!InKeysSampled
<1>7. RecvKeysSampled(b, c) = Gets(None, d)
  BY DEF RecvKeysSampled, dec
<1>8. d.tag = "HeaderSent" /\ d.epoch = s.epoch /\ d.auth = s.auth
  BY <1>1
<1> HIDE DEF d, g
<1>9. Read(d) = Reader!Make("HeaderSent", s.epoch, s.auth, g)
  BY <1>4, <1>5, <1>8, ReadAs
<1> QED BY <1>6, <1>7, <1>9, SilentSame DEF s

\* A codeword that does not complete a stream is kept.  k is the reader's field with the
\* decoder.
LEMMA KeepsAlike ==
  ASSUME NEW b, b.tag \in Tags, NEW k \in Reader!HOLDS[b.tag], k \in DecoderFields,
         \A f \in Reader!HOLDS[b.tag] : f \in DecoderFields => f = k,
         Held(b.dec), NEW v, NEW c \in Codewords(v), NEW d,
         d.tag = b.tag, d.epoch = b.epoch, d.auth = b.auth, d.dec = add_chunk(b.dec, c),
         \A f \in Reader!HOLDS[b.tag] : f \notin DecoderFields => Field(d, f) = Field(b, f)
  PROVE  /\ Read(b)[k] = ReadDec(b.dec)
         /\ Reader!DecoderReceive(Read(b)[k], ReadChunk(c)) = ReadDec(d.dec)
         /\ Read(d) = [Read(b) EXCEPT ![k] = ReadDec(d.dec)]
         /\ Reader!complete(ReadDec(d.dec)) <=> has_message(d.dec)
         /\ Reader!DecoderValue(ReadDec(d.dec)) = message(d.dec)
<1>1. Field(b, k) = ReadDec(b.dec) /\ Field(d, k) = ReadDec(d.dec)
  BY DEF Field, EncoderFields, DecoderFields
<1>2. Read(b)[k] = ReadDec(b.dec)
  BY <1>1, ReadFields
<1>3. Reader!DecoderReceive(ReadDec(b.dec), ReadChunk(c)) = ReadDec(d.dec) /\ Held(d.dec)
  BY AddsAlike
<1>4. \A f \in Reader!HOLDS[b.tag] : f # k => Field(d, f) = Field(b, f)
  OBVIOUS
<1>5. Read(d) = [Read(b) EXCEPT ![k] = Field(d, k)]
  BY <1>4, ReadExcept
<1> QED BY <1>1, <1>2, <1>3, <1>5, CompletesAlike, ValuesAlike

\* Transition (3).
LEMMA HeaderSentAlike ==
  ASSUME NEW e \in Epochs, NEW b \in HeaderSent(e), NEW v, NEW c \in Codewords(v)
  PROVE  Same(RecvHeaderSent(b, c), Reader!InHeaderSent(Read(b), ReadChunk(c)))
<1> DEFINE s == Read(b)
           dec == add_chunk(b.dec, c)
           d == [b EXCEPT !.dec = dec]
           n == [tag |-> "Ct1Received", epoch |-> b.epoch, auth |-> b.auth, kp |-> b.kp,
                 ct1 |-> message(dec), enc |-> b.enc]
           g == [key_pair |-> s.key_pair, ct1 |-> message(dec), ek_enc |-> s.ek_enc]
           it == Reader!DecoderReceive(s.ct1_dec, ReadChunk(c))
<1>1. /\ b.tag = "HeaderSent" /\ b.tag \in Tags /\ Reader!HOLDS[b.tag] = {"key_pair", "ct1_dec", "ek_enc"}
      /\ Held(b.dec)
  BY DecodersHold DEF HeaderSent, Tags, Reader!HOLDS
<1>2. /\ Field(b, "key_pair") = b.kp /\ Field(b, "ek_enc") = ReadEnc(b.enc)
      /\ "ct1_dec" \in DecoderFields /\ "key_pair" \notin DecoderFields /\ "ek_enc" \notin DecoderFields
  BY DEF Field, EncoderFields, DecoderFields
<1>3. s.epoch = b.epoch /\ s.auth = b.auth /\ s.key_pair = b.kp /\ s.ek_enc = ReadEnc(b.enc)
  <2> HIDE DEF s
  <2> QED BY <1>1, <1>2, ReadFields DEF s
<1>4. /\ d.tag = b.tag /\ d.epoch = b.epoch /\ d.auth = b.auth /\ d.dec = dec
      /\ Field(d, "key_pair") = Field(b, "key_pair") /\ Field(d, "ek_enc") = Field(b, "ek_enc")
  BY DEF HeaderSent, Field, EncoderFields, DecoderFields
<1> HIDE DEF d
<1>5. /\ it = ReadDec(dec) /\ Read(d) = [s EXCEPT !.ct1_dec = ReadDec(dec)]
      /\ Reader!complete(ReadDec(dec)) <=> has_message(dec)
      /\ Reader!DecoderValue(ReadDec(dec)) = message(dec)
  BY <1>1, <1>2, <1>4, KeepsAlike
<1>6. RecvHeaderSent(b, c) = Gets(None, IF has_message(dec) THEN n ELSE d)
  BY DEF RecvHeaderSent, d
<1> HIDE DEF s, dec, it
<1>7. Reader!InHeaderSent(s, ReadChunk(c)) =
        IF ~has_message(dec) THEN Reader!Result([s EXCEPT !.ct1_dec = it], None)
        ELSE Reader!Result(Reader!Make("Ct1Received", s.epoch, s.auth, g), None)
  BY <1>5 DEF Reader!InHeaderSent, it
<1>8. Read(n) = Reader!Make("Ct1Received", s.epoch, s.auth, g)
  <2>1. \A f \in Reader!HOLDS["Ct1Received"] : g[f] = Field(n, f)
    BY <1>3 DEF Reader!HOLDS, Field, EncoderFields, DecoderFields
  <2>2. n.tag = "Ct1Received" /\ n.epoch = s.epoch /\ n.auth = s.auth /\ "Ct1Received" \in Tags
    BY <1>3 DEF Tags, Reader!HOLDS
  <2> HIDE DEF n, g
  <2> QED BY <2>1, <2>2, ReadAs
<1> HIDE DEF n, g
<1>9. CASE has_message(dec)
  BY <1>6, <1>7, <1>8, <1>9, SilentSame DEF s
<1>10. CASE ~has_message(dec)
  BY <1>5, <1>6, <1>7, <1>10, SilentSame DEF s
<1> QED BY <1>9, <1>10

\* Transition (4).
LEMMA Ct1ReceivedAlike ==
  ASSUME NEW e \in Epochs, NEW b \in Ct1Received(e), NEW v, NEW c \in Codewords(v)
  PROVE  Same(RecvCt1Received(b, c), Reader!InCt1Received(Read(b), ReadChunk(c)))
<1> DEFINE s == Read(b)
           dec == add_chunk(NewDecoder("ct2"), c)
           d == [tag |-> "EkSentCt1Received", epoch |-> b.epoch, auth |-> b.auth, kp |-> b.kp,
                 ct1 |-> b.ct1, dec |-> dec]
           g == [key_pair |-> s.key_pair, ct1 |-> s.ct1,
                 ct2_dec |-> Reader!DecoderReceive(Reader!Decoder("ct2"), ReadChunk(c))]
<1>1. s.epoch = b.epoch /\ s.auth = b.auth /\ s.key_pair = b.kp /\ s.ct1 = b.ct1
  <2>1. b.tag = "Ct1Received" /\ b.tag \in Tags /\ {"key_pair", "ct1"} \subseteq Reader!HOLDS[b.tag]
    BY DEF Ct1Received, Tags, Reader!HOLDS
  <2>2. Field(b, "key_pair") = b.kp /\ Field(b, "ct1") = b.ct1
    BY DEF Field, EncoderFields, DecoderFields
  <2> HIDE DEF s
  <2> QED BY <2>1, <2>2, ReadFields DEF s
<1>2. Reader!DecoderReceive(Reader!Decoder("ct2"), ReadChunk(c)) = ReadDec(dec)
  BY DecodersAlike, AddsAlike
<1> HIDE DEF s, dec
<1>3. \A f \in Reader!HOLDS["EkSentCt1Received"] : g[f] = Field(d, f)
  BY <1>1, <1>2 DEF Reader!HOLDS, Field, EncoderFields, DecoderFields
<1>4. "EkSentCt1Received" \in Tags
  BY DEF Tags, Reader!HOLDS
<1>5. Reader!InCt1Received(s, ReadChunk(c)) =
        Reader!Result(Reader!Make("EkSentCt1Received", s.epoch, s.auth, g), None)
  BY DEF Reader!InCt1Received
<1>6. RecvCt1Received(b, c) = Gets(None, d)
  BY DEF RecvCt1Received, dec
<1>7. d.tag = "EkSentCt1Received" /\ d.epoch = s.epoch /\ d.auth = s.auth
  BY <1>1
<1> HIDE DEF d, g
<1>8. Read(d) = Reader!Make("EkSentCt1Received", s.epoch, s.auth, g)
  BY <1>3, <1>4, <1>7, ReadAs
<1> QED BY <1>5, <1>6, <1>8, SilentSame DEF s

\* The MAC of ct2 verifies for the epoch's own ct2 only, whatever epoch's ct2 the
\* codewords are of; so the key is the epoch's.
LEMMA VerifiedKey ==
  ASSUME NEW e \in Epochs, NEW b \in EkSentCt1Received(e), NEW x \in Epochs,
         NEW c \in Codewords(Ct2Frame(x)),
         NEW framed, framed = message(add_chunk(b.dec, c)), framed # None,
         NEW key, NEW auth,
         framed.mac = mac_ct(auth, b.epoch, b.ct1, framed.ct2),
         key = kdf_ok(decapsulate(b.kp, b.ct1, framed.ct2), b.epoch)
  PROVE  Output(b.epoch, key) = Output(e, KeyOf(e)) /\ Output(b.epoch, key) # None
<1> DEFINE dec == add_chunk(b.dec, c)
           vals == {d.val : d \in dec.have}
<1>1. b.epoch = e /\ b.kp = KeyPairOf(e) /\ b.ct1 = CiphertextOf(e) /\ b.dec \in Decoders("ct2", Ct2Frame(e))
  BY DEF EkSentCt1Received
<1>2. vals \subseteq {Ct2Frame(e), Ct2Frame(x)}
  <2>1. dec.have \subseteq b.dec.have \cup {c}
    BY <1>1 DEF add_chunk, Decoders
  <2>2. \A d \in b.dec.have : d.val = Ct2Frame(e)
    BY <1>1 DEF Decoders, Codewords
  <2>3. c.val = Ct2Frame(x)
    BY DEF Codewords
  <2> HIDE DEF dec
  <2> QED BY <2>1, <2>2, <2>3
<1>3. framed \in vals
  <2>1. Cardinality(vals) = 1 /\ framed = CHOOSE w \in vals : TRUE
    BY DEF message
  <2>2. vals # {}
    BY <2>1, FS_EmptySet
  <2> HIDE DEF vals
  <2> QED BY <2>1, <2>2
<1>4. \A y : Ct2Frame(y).ct2 = CiphertextOf(y) /\ Ct2Frame(y).mac[3] = y
  BY DEF Ct2Frame, mac_ct
<1>5. framed.mac[3] = e
  BY <1>1 DEF mac_ct
<1> HIDE DEF vals
<1>6. framed.ct2 = CiphertextOf(e)
  BY <1>2, <1>3, <1>4, <1>5
<1>7. key = KeyOf(e)
  BY <1>1, <1>6 DEF decapsulate, KeyOf, CiphertextOf
<1> QED BY <1>1, <1>7, SomeValue DEF Epochs

\* Transition (5).
LEMMA EkSentAlike ==
  ASSUME NEW e \in Epochs, NEW b \in EkSentCt1Received(e), NEW x \in Epochs,
         NEW c \in Codewords(Ct2Frame(x))
  PROVE  Same(RecvEkSent(b, c), Reader!InEkSentCt1Received(Read(b), ReadChunk(c), {}))
<1> DEFINE s == Read(b)
           dec == add_chunk(b.dec, c)
           d == [b EXCEPT !.dec = dec]
           framed == message(dec)
           key == kdf_ok(decapsulate(b.kp, b.ct1, framed.ct2), b.epoch)
           auth == AuthUpdate(b.auth, b.epoch, key)
           mac == mac_ct(auth, b.epoch, b.ct1, framed.ct2)
           n == [tag |-> "NoHeaderReceived", epoch |-> b.epoch + 1, auth |-> auth,
                 dec |-> NewDecoder("hdr")]
           g == [hdr_dec |-> Reader!Decoder("hdr")]
           it == Reader!DecoderReceive(s.ct2_dec, ReadChunk(c))
           its == Reader!InEkSentCt1Received(s, ReadChunk(c), {})
<1>1. /\ b.tag = "EkSentCt1Received" /\ b.tag \in Tags
      /\ Reader!HOLDS[b.tag] = {"key_pair", "ct1", "ct2_dec"} /\ Held(b.dec) /\ b.epoch = e
  BY DecodersHold DEF EkSentCt1Received, Tags, Reader!HOLDS
<1>2. /\ Field(b, "key_pair") = b.kp /\ Field(b, "ct1") = b.ct1
      /\ "ct2_dec" \in DecoderFields /\ "key_pair" \notin DecoderFields /\ "ct1" \notin DecoderFields
  BY DEF Field, EncoderFields, DecoderFields
<1>3. s.epoch = b.epoch /\ s.auth = b.auth /\ s.key_pair = b.kp /\ s.ct1 = b.ct1
  <2> HIDE DEF s
  <2> QED BY <1>1, <1>2, ReadFields DEF s
<1>4. /\ d.tag = b.tag /\ d.epoch = b.epoch /\ d.auth = b.auth /\ d.dec = dec
      /\ Field(d, "key_pair") = Field(b, "key_pair") /\ Field(d, "ct1") = Field(b, "ct1")
  BY DEF EkSentCt1Received, Field, EncoderFields, DecoderFields
<1> HIDE DEF d
<1>5. /\ it = ReadDec(dec) /\ Read(d) = [s EXCEPT !.ct2_dec = ReadDec(dec)]
      /\ Reader!complete(ReadDec(dec)) <=> has_message(dec)
      /\ Reader!DecoderValue(ReadDec(dec)) = framed
  BY <1>1, <1>2, <1>4, KeepsAlike
<1>6. Reserved(b.epoch) <=> s.epoch = U64_MAX - 1
  BY <1>1, <1>3, StreamAssumption DEF Reserved, Epochs
<1>7. RecvEkSent(b, c) =
        IF ~has_message(dec) THEN Gets(None, d)
        ELSE IF framed = None \/ Reserved(b.epoch) THEN Gets(None, Failed)
        ELSE IF framed.mac # mac THEN Gets(None, Failed)
        ELSE Gets(Output(b.epoch, key), n)
  BY DEF RecvEkSent, CompletedOutput, d
<1>8. /\ kdf_ok(decapsulate(b.kp, b.ct1, framed.ct2), b.epoch)
           = Reader!kdf_ok(Reader!decaps(s.key_pair, s.ct1, framed.ct2), s.epoch)
      /\ auth = Reader!AuthUpdate(s.auth, s.epoch, key)
      /\ mac = Reader!mac_ct(auth, s.epoch, s.ct1, framed.ct2)
  <2> HIDE DEF s, framed
  <2> QED BY <1>3 DEF kdf_ok, decapsulate, Reader!kdf_ok, Reader!decaps, AuthUpdate,
                      Reader!AuthUpdate, mac_ct, Reader!mac_ct
<1>9. ASSUME has_message(dec), framed # None, framed.mac = mac
      PROVE  Output(b.epoch, key) # None
  <2> HIDE DEF auth
  <2> QED BY <1>9, VerifiedKey
<1>10. Read(Failed) = Reader!Failed
  BY DEF Read
<1>11. Read(n) = Reader!Make("NoHeaderReceived", s.epoch + 1, auth, g)
  <2>1. \A f \in Reader!HOLDS["NoHeaderReceived"] : g[f] = Field(n, f)
    BY DecodersAlike DEF Reader!HOLDS, Field, EncoderFields, DecoderFields
  <2> HIDE DEF auth, s
  <2>2. n.tag = "NoHeaderReceived" /\ n.epoch = s.epoch + 1 /\ n.auth = auth /\ "NoHeaderReceived" \in Tags
    BY <1>3 DEF Tags, Reader!HOLDS
  <2> HIDE DEF n, g
  <2> QED BY <2>1, <2>2, ReadAs
<1> HIDE DEF s, dec, framed, it
<1>12. its = IF ~has_message(dec) THEN Reader!Result([s EXCEPT !.ct2_dec = it], None)
             ELSE IF s.epoch = U64_MAX - 1 \/ framed = None THEN Reader!Result(Reader!Failed, None)
             ELSE IF framed.mac # mac THEN Reader!Result(Reader!Failed, None)
             ELSE Reader!Result(Reader!Make("NoHeaderReceived", s.epoch + 1, auth, g),
                                [epoch |-> s.epoch, key |-> key])
  <2> DEFINE value == Reader!DecoderValue(it)
  <2>1. value = framed /\ (Reader!complete(it) <=> has_message(dec))
    BY <1>5
  <2> HIDE DEF value
  <2>2. key = Reader!kdf_ok(Reader!decaps(s.key_pair, s.ct1, value.ct2), s.epoch)
    BY <1>8, <2>1
  <2> HIDE DEF key
  <2>3. auth = Reader!AuthUpdate(s.auth, s.epoch, key)
    BY <1>8
  <2> HIDE DEF auth
  <2>4. mac = Reader!mac_ct(auth, s.epoch, s.ct1, value.ct2)
    BY <1>8, <2>1
  <2> HIDE DEF mac
  <2> QED BY <2>1, <2>2, <2>3, <2>4 DEF Reader!InEkSentCt1Received, it, value
<1> HIDE DEF key, n, g, its, auth, mac
<1>13. CASE ~has_message(dec)
  BY <1>5, <1>7, <1>12, <1>13, SilentSame DEF its, s
<1>14. CASE has_message(dec) /\ (framed = None \/ Reserved(b.epoch))
  BY <1>6, <1>7, <1>10, <1>12, <1>14, SilentSame DEF its, s
<1>15. CASE has_message(dec) /\ framed # None /\ ~Reserved(b.epoch) /\ framed.mac # mac
  BY <1>6, <1>7, <1>10, <1>12, <1>15, SilentSame DEF its, s
<1>16. CASE has_message(dec) /\ framed # None /\ ~Reserved(b.epoch) /\ framed.mac = mac
  <2>1. /\ RecvEkSent(b, c) = Gets(Output(b.epoch, key), n)
        /\ its = Reader!Result(Read(n), [epoch |-> s.epoch, key |-> key])
    BY <1>6, <1>7, <1>11, <1>12, <1>16
  <2>2. ReadOut(Output(b.epoch, key)) = [epoch |-> s.epoch, key |-> key]
    BY <1>3, <1>9, <1>16 DEF ReadOut, Output
  <2> QED BY <2>1, <2>2 DEF Same, Gets, its, s
<1> QED BY <1>13, <1>14, <1>15, <1>16

\* Transition (6).
LEMMA NoHeaderAlike ==
  ASSUME NEW e \in Epochs, NEW b \in NoHeaderReceived(e), NEW v, NEW c \in Codewords(v)
  PROVE  Same(RecvNoHeader(b, c), Reader!InNoHeaderReceived(Read(b), ReadChunk(c)))
<1> DEFINE s == Read(b)
           dec == add_chunk(b.dec, c)
           d == [b EXCEPT !.dec = dec]
           framed == message(dec)
           mac == mac_hdr(b.auth, b.epoch, framed.header)
           n == [tag |-> "HeaderReceived", epoch |-> b.epoch, auth |-> b.auth,
                 header |-> framed.header, dec |-> NewDecoder("ek")]
           g == [header |-> framed.header, ek_dec |-> Reader!Decoder("ek")]
           it == Reader!DecoderReceive(s.hdr_dec, ReadChunk(c))
           its == Reader!InNoHeaderReceived(s, ReadChunk(c))
<1>1. /\ b.tag = "NoHeaderReceived" /\ b.tag \in Tags /\ Reader!HOLDS[b.tag] = {"hdr_dec"} /\ Held(b.dec)
      /\ "hdr_dec" \in DecoderFields
  BY DecodersHold DEF NoHeaderReceived, Tags, Reader!HOLDS, DecoderFields
<1>2. s.epoch = b.epoch /\ s.auth = b.auth
  <2> HIDE DEF s
  <2> QED BY <1>1, ReadFields DEF s
<1>3. d.tag = b.tag /\ d.epoch = b.epoch /\ d.auth = b.auth /\ d.dec = dec
  BY DEF NoHeaderReceived
<1> HIDE DEF d
<1>4. /\ it = ReadDec(dec) /\ Read(d) = [s EXCEPT !.hdr_dec = ReadDec(dec)]
      /\ Reader!complete(ReadDec(dec)) <=> has_message(dec)
      /\ Reader!DecoderValue(ReadDec(dec)) = framed
  BY <1>1, <1>3, KeepsAlike
<1>5. RecvNoHeader(b, c) =
        IF ~has_message(dec) THEN Gets(None, d)
        ELSE IF framed = None THEN Gets(None, Failed)
        ELSE IF framed.mac # mac THEN Gets(None, Failed)
        ELSE Gets(None, n)
  BY DEF RecvNoHeader, d
<1>6. Read(Failed) = Reader!Failed
  BY DEF Read
<1>7. Read(n) = Reader!Make("HeaderReceived", s.epoch, s.auth, g)
  <2>1. \A f \in Reader!HOLDS["HeaderReceived"] : g[f] = Field(n, f)
    BY DecodersAlike DEF Reader!HOLDS, Field, EncoderFields, DecoderFields
  <2> HIDE DEF s
  <2>2. n.tag = "HeaderReceived" /\ n.epoch = s.epoch /\ n.auth = s.auth /\ "HeaderReceived" \in Tags
    BY <1>2 DEF Tags, Reader!HOLDS
  <2> HIDE DEF n, g
  <2> QED BY <2>1, <2>2, ReadAs
<1> HIDE DEF s, dec, framed, it
<1>8. its = IF ~has_message(dec) THEN Reader!Result([s EXCEPT !.hdr_dec = it], None)
            ELSE IF framed = None THEN Reader!Result(Reader!Failed, None)
            ELSE IF framed.mac # mac THEN Reader!Result(Reader!Failed, None)
            ELSE Reader!Result(Reader!Make("HeaderReceived", s.epoch, s.auth, g), None)
  <2> DEFINE value == Reader!DecoderValue(it)
  <2>1. value = framed /\ (Reader!complete(it) <=> has_message(dec))
    BY <1>4
  <2> HIDE DEF value
  <2>2. mac = Reader!mac_hdr(s.auth, s.epoch, value.header)
    BY <1>2, <2>1 DEF mac_hdr, Reader!mac_hdr
  <2>3. g = [header |-> value.header, ek_dec |-> Reader!Decoder("ek")]
    BY <2>1
  <2> HIDE DEF mac, g
  <2> QED BY <2>1, <2>2, <2>3 DEF Reader!InNoHeaderReceived, it, value
<1> HIDE DEF n, g, its, mac
<1>9. CASE ~has_message(dec)
  BY <1>4, <1>5, <1>8, <1>9, SilentSame DEF its, s
<1>10. CASE has_message(dec) /\ (framed = None \/ framed.mac # mac)
  BY <1>5, <1>6, <1>8, <1>10, SilentSame DEF its, s
<1>11. CASE has_message(dec) /\ framed # None /\ framed.mac = mac
  BY <1>5, <1>7, <1>8, <1>11, SilentSame DEF its, s
<1> QED BY <1>9, <1>10, <1>11

\* Transitions (8), (9) and (10).
LEMMA Ct1SampledAlike ==
  ASSUME NEW e \in Epochs, NEW b \in Ct1Sampled(e), NEW ty, NEW v, NEW c \in Codewords(v)
  PROVE  Same(RecvCt1Sampled(b, ty, c), Reader!InCt1Sampled(Read(b), ty, ReadChunk(c), {}))
<1> DEFINE s == Read(b)
           dec == add_chunk(b.dec, c)
           d == [b EXCEPT !.dec = dec]
           ek == message(dec)
           acked == ty = "EkCt1Ack"
           n == [tag |-> "EkReceivedCt1Sampled", epoch |-> b.epoch, auth |-> b.auth,
                 ct1 |-> b.ct1, ek_vector |-> ek, enc |-> b.enc]
           a == [tag |-> "Ct1Acknowledged", epoch |-> b.epoch, auth |-> b.auth,
                 header |-> b.header, ct1 |-> b.ct1, dec |-> dec]
           g == [encaps |-> s.encaps, ct1 |-> s.ct1, ek_vector |-> ek, ct1_enc |-> s.ct1_enc]
           h == [header |-> s.header, encaps |-> s.encaps, ct1 |-> s.ct1, ek_dec |-> ReadDec(dec)]
           it == Reader!DecoderReceive(s.ek_dec, ReadChunk(c))
           its == Reader!InCt1Sampled(s, ty, ReadChunk(c), {})
<1>1. /\ b.tag = "Ct1Sampled" /\ b.tag \in Tags
      /\ Reader!HOLDS[b.tag] = {"header", "encaps", "ct1", "ct1_enc", "ek_dec"} /\ Held(b.dec)
  BY DecodersHold DEF Ct1Sampled, Tags, Reader!HOLDS
<1>2. /\ Field(b, "header") = b.header /\ Field(b, "encaps") = b.ct1 /\ Field(b, "ct1") = b.ct1
      /\ Field(b, "ct1_enc") = ReadEnc(b.enc)
      /\ "ek_dec" \in DecoderFields
      /\ DecoderFields \cap {"header", "encaps", "ct1", "ct1_enc"} = {}
  BY DEF Field, EncoderFields, DecoderFields
<1>3. /\ s.epoch = b.epoch /\ s.auth = b.auth /\ s.header = b.header /\ s.encaps = b.ct1 /\ s.ct1 = b.ct1
      /\ s.ct1_enc = ReadEnc(b.enc)
  <2> HIDE DEF s
  <2> QED BY <1>1, <1>2, ReadFields DEF s
<1>4. /\ d.tag = b.tag /\ d.epoch = b.epoch /\ d.auth = b.auth /\ d.dec = dec
      /\ \A f \in {"header", "encaps", "ct1", "ct1_enc"} : Field(d, f) = Field(b, f)
  BY DEF Ct1Sampled, Field, EncoderFields, DecoderFields
<1> HIDE DEF d
<1>5. /\ it = ReadDec(dec) /\ Read(d) = [s EXCEPT !.ek_dec = ReadDec(dec)]
      /\ Reader!complete(ReadDec(dec)) <=> has_message(dec)
      /\ Reader!DecoderValue(ReadDec(dec)) = ek
  BY <1>1, <1>2, <1>4, KeepsAlike
<1>6. RecvCt1Sampled(b, ty, c) =
        Gets(None,
          CASE has_message(dec) /\ b.header # ek -> Failed
            [] has_message(dec) /\ b.header = ek /\ acked -> finish_encaps(b, ek)
            [] has_message(dec) /\ b.header = ek /\ ~acked -> n
            [] ~has_message(dec) /\ acked -> a
            [] OTHER -> d)
  BY DEF RecvCt1Sampled, validate_ek, d
<1>7. Read(Failed) = Reader!Failed
  BY DEF Read
<1>8. Read(n) = Reader!Make("EkReceivedCt1Sampled", s.epoch, s.auth, g)
  <2>1. \A f \in Reader!HOLDS["EkReceivedCt1Sampled"] : g[f] = Field(n, f)
    BY <1>3 DEF Reader!HOLDS, Field, EncoderFields, DecoderFields
  <2> HIDE DEF s, ek
  <2>2. n.tag = "EkReceivedCt1Sampled" /\ n.epoch = s.epoch /\ n.auth = s.auth /\ "EkReceivedCt1Sampled" \in Tags
    BY <1>3 DEF Tags, Reader!HOLDS
  <2> HIDE DEF n, g
  <2> QED BY <2>1, <2>2, ReadAs
<1>9. Read(a) = Reader!Make("Ct1Acknowledged", s.epoch, s.auth, h)
  <2>1. \A f \in Reader!HOLDS["Ct1Acknowledged"] : h[f] = Field(a, f)
    BY <1>3 DEF Reader!HOLDS, Field, EncoderFields, DecoderFields
  <2> HIDE DEF s, dec
  <2>2. a.tag = "Ct1Acknowledged" /\ a.epoch = s.epoch /\ a.auth = s.auth /\ "Ct1Acknowledged" \in Tags
    BY <1>3 DEF Tags, Reader!HOLDS
  <2> HIDE DEF a, h
  <2> QED BY <2>1, <2>2, ReadAs
<1> HIDE DEF s, ek, it, dec
<1>10. Reader!CompleteEncapsulation(s, ek, {}) = Read(finish_encaps(b, ek))
  BY <1>3, FinishAlike
<1> DEFINE val == Reader!validate_ek_vector(s.header, ek)
<1>11. val <=> b.header = ek
  BY <1>3 DEF Reader!validate_ek_vector
<1>12. its = Reader!Result(
         CASE has_message(dec) /\ ~val -> Reader!Failed
           [] has_message(dec) /\ val /\ acked -> Reader!CompleteEncapsulation(s, ek, {})
           [] has_message(dec) /\ val /\ ~acked -> Reader!Make("EkReceivedCt1Sampled", s.epoch, s.auth, g)
           [] ~has_message(dec) /\ acked -> Reader!Make("Ct1Acknowledged", s.epoch, s.auth, h)
           [] OTHER -> [s EXCEPT !.ek_dec = it], None)
  <2>1. Reader!DecoderValue(it) = ek /\ (Reader!complete(it) <=> has_message(dec)) /\ it = ReadDec(dec)
    BY <1>5
  <2>2. h = [header |-> s.header, encaps |-> s.encaps, ct1 |-> s.ct1, ek_dec |-> it]
    BY <2>1
  <2> HIDE DEF h
  <2> QED BY <2>1, <2>2 DEF Reader!InCt1Sampled, it
<1> HIDE DEF n, a, g, h, its, val, acked
<1>13. CASE has_message(dec) /\ ~val
  BY <1>6, <1>7, <1>11, <1>12, <1>13, SilentSame DEF its, s
<1>14. CASE has_message(dec) /\ val /\ acked
  BY <1>6, <1>10, <1>11, <1>12, <1>14, SilentSame DEF its, s
<1>15. CASE has_message(dec) /\ val /\ ~acked
  BY <1>6, <1>8, <1>11, <1>12, <1>15, SilentSame DEF its, s
<1>16. CASE ~has_message(dec) /\ acked
  BY <1>6, <1>9, <1>12, <1>16, SilentSame DEF its, s
<1>17. CASE ~has_message(dec) /\ ~acked
  BY <1>5, <1>6, <1>12, <1>17, SilentSame DEF its, s
<1> QED BY <1>13, <1>14, <1>15, <1>16, <1>17

\* Transition (11).
LEMMA Ct1AcknowledgedAlike ==
  ASSUME NEW e \in Epochs, NEW b \in Ct1Acknowledged(e), NEW v, NEW c \in Codewords(v)
  PROVE  Same(RecvCt1Acknowledged(b, c), Reader!InCt1Acknowledged(Read(b), ReadChunk(c), {}))
<1> DEFINE s == Read(b)
           dec == add_chunk(b.dec, c)
           d == [b EXCEPT !.dec = dec]
           ek == message(dec)
           it == Reader!DecoderReceive(s.ek_dec, ReadChunk(c))
           its == Reader!InCt1Acknowledged(s, ReadChunk(c), {})
<1>1. /\ b.tag = "Ct1Acknowledged" /\ b.tag \in Tags
      /\ Reader!HOLDS[b.tag] = {"header", "encaps", "ct1", "ek_dec"} /\ Held(b.dec)
  BY DecodersHold DEF Ct1Acknowledged, Tags, Reader!HOLDS
<1>2. /\ Field(b, "header") = b.header /\ Field(b, "encaps") = b.ct1 /\ Field(b, "ct1") = b.ct1
      /\ "ek_dec" \in DecoderFields /\ DecoderFields \cap {"header", "encaps", "ct1"} = {}
  BY DEF Field, EncoderFields, DecoderFields
<1>3. /\ s.epoch = b.epoch /\ s.auth = b.auth /\ s.header = b.header /\ s.encaps = b.ct1 /\ s.ct1 = b.ct1
  <2> HIDE DEF s
  <2> QED BY <1>1, <1>2, ReadFields DEF s
<1>4. /\ d.tag = b.tag /\ d.epoch = b.epoch /\ d.auth = b.auth /\ d.dec = dec
      /\ \A f \in {"header", "encaps", "ct1"} : Field(d, f) = Field(b, f)
  BY DEF Ct1Acknowledged, Field, EncoderFields, DecoderFields
<1> HIDE DEF d
<1>5. /\ it = ReadDec(dec) /\ Read(d) = [s EXCEPT !.ek_dec = ReadDec(dec)]
      /\ Reader!complete(ReadDec(dec)) <=> has_message(dec)
      /\ Reader!DecoderValue(ReadDec(dec)) = ek
  BY <1>1, <1>2, <1>4, KeepsAlike
<1>6. RecvCt1Acknowledged(b, c) =
        Gets(None,
          CASE ~has_message(dec) -> d
            [] has_message(dec) /\ b.header # ek -> Failed
            [] OTHER -> finish_encaps(b, ek))
  BY DEF RecvCt1Acknowledged, validate_ek, d
<1>7. Read(Failed) = Reader!Failed
  BY DEF Read
<1> HIDE DEF s, ek, it, dec
<1>8. Reader!CompleteEncapsulation(s, ek, {}) = Read(finish_encaps(b, ek))
  BY <1>3, FinishAlike
<1>9. its = Reader!Result(
        IF ~has_message(dec) THEN [s EXCEPT !.ek_dec = it]
        ELSE IF b.header # ek THEN Reader!Failed
        ELSE Reader!CompleteEncapsulation(s, ek, {}), None)
  BY <1>3, <1>5 DEF Reader!InCt1Acknowledged, Reader!validate_ek_vector, it
<1> HIDE DEF its
<1>10. CASE ~has_message(dec)
  BY <1>5, <1>6, <1>9, <1>10, SilentSame DEF its, s
<1>11. CASE has_message(dec) /\ b.header # ek
  BY <1>6, <1>7, <1>9, <1>11, SilentSame DEF its, s
<1>12. CASE has_message(dec) /\ b.header = ek
  BY <1>6, <1>8, <1>9, <1>12, SilentSame DEF its, s
<1> QED BY <1>10, <1>11, <1>12

\* Transition (12).
LEMMA EkReceivedAlike ==
  ASSUME NEW e \in Epochs, NEW b \in EkReceivedCt1Sampled(e)
  PROVE  Same(Gets(None, finish_encaps(b, b.ek_vector)),
              Reader!Result(Reader!CompleteEncapsulation(Read(b), Read(b).ek_vector, {}), None))
<1> DEFINE s == Read(b)
<1>1. b.tag = "EkReceivedCt1Sampled" /\ b.tag \in Tags
      /\ Reader!HOLDS[b.tag] = {"encaps", "ct1", "ek_vector", "ct1_enc"}
  BY DEF EkReceivedCt1Sampled, Tags, Reader!HOLDS
<1>2. Field(b, "encaps") = b.ct1 /\ Field(b, "ct1") = b.ct1 /\ Field(b, "ek_vector") = b.ek_vector
  BY DEF Field, EncoderFields, DecoderFields
<1> HIDE DEF s
<1>3. s.epoch = b.epoch /\ s.auth = b.auth /\ s.encaps = b.ct1 /\ s.ct1 = b.ct1 /\ s.ek_vector = b.ek_vector
  BY <1>1, <1>2, ReadFields DEF s
<1>4. Reader!CompleteEncapsulation(s, s.ek_vector, {}) = Read(finish_encaps(b, b.ek_vector))
  BY <1>3, FinishAlike
<1> QED BY <1>4, SilentSame DEF s

\* Transition (13).
LEMMA Ct2SampledAlike ==
  ASSUME NEW e \in Epochs, NEW b \in Ct2Sampled(e), NEW m
  PROVE  Same(RecvCt2Sampled(b, m), Reader!InCt2Sampled(Read(b), ReadMsg(m)))
<1> DEFINE s == Read(b)
           n == [tag |-> "KeysUnsampled", epoch |-> b.epoch + 1, auth |-> b.auth]
           its == Reader!InCt2Sampled(s, ReadMsg(m))
<1>1. b.tag = "Ct2Sampled" /\ b.tag \in Tags /\ b.epoch = e
  BY DEF Ct2Sampled, Tags, Reader!HOLDS
<1> HIDE DEF s
<1>2. s.epoch = b.epoch /\ s.auth = b.auth
  BY <1>1, ReadFields DEF s
<1>3. Reserved(b.epoch) <=> s.epoch = U64_MAX - 1
  BY <1>1, <1>2, StreamAssumption DEF Reserved, Epochs
<1>4. Read(n) = Reader!Make("KeysUnsampled", s.epoch + 1, s.auth, Reader!NoFields)
  <2>1. /\ n.tag = "KeysUnsampled" /\ n.epoch = s.epoch + 1 /\ n.auth = s.auth /\ "KeysUnsampled" \in Tags
        /\ Reader!HOLDS["KeysUnsampled"] = {}
    BY <1>2 DEF Tags, Reader!HOLDS
  <2> HIDE DEF n
  <2> QED BY <2>1, ReadAs
<1>5. Read(Failed) = Reader!Failed
  BY DEF Read
<1>6. RecvCt2Sampled(b, m) =
        Gets(None, IF Reserved(b.epoch) THEN Failed ELSE IF m.epoch = b.epoch + 1 THEN n ELSE b)
  BY DEF RecvCt2Sampled
<1>7. its = Reader!Result(IF Reserved(b.epoch) THEN Reader!Failed
                          ELSE IF m.epoch = b.epoch + 1 THEN Read(n) ELSE s, None)
  BY <1>2, <1>3, <1>4 DEF Reader!InCt2Sampled, ReadMsg
<1> HIDE DEF n, its
<1> QED BY <1>5, <1>6, <1>7, SilentSame DEF its, s

\* Both heed a message, or neither does.
LEMMA HeedsAlike ==
  ASSUME NEW b, b.tag \in Tags, b.tag # "Ct2Sampled", NEW m, Carrying(m)
  PROVE  Reader!Heeds(Read(b), ReadMsg(m)) <=> Awaited(b, m)
<1> DEFINE s == Read(b)
           x == ReadMsg(m)
<1>1. s.tag = b.tag /\ s.epoch = b.epoch
  BY ReadFields
<1>2. x.epoch = m.epoch /\ x.type = m.ty
      /\ x.codeword = IF m.data = None THEN None ELSE ReadChunk(m.data)
  BY DEF ReadMsg
<1>3. m.ty # "None" => (x.codeword # None <=> m.data # None)
  BY <1>2, CodewordThere DEF Carrying
<1> HIDE DEF s, x
<1>4. s.tag \in DOMAIN Reader!Types /\ x.type \in Reader!Types[s.tag] <=> TypeAwaited(b.tag, m.ty)
  BY <1>1, <1>2 DEF Reader!Types, TypeAwaited, Tags, Reader!HOLDS
<1>5. TypeAwaited(b.tag, m.ty) => m.ty # "None"
  BY DEF TypeAwaited, Tags, Reader!HOLDS
<1>6. Reader!Heeds(s, x) <=> /\ m.epoch = b.epoch
                             /\ TypeAwaited(b.tag, m.ty)
                             /\ x.codeword # None \/ b.tag = "EkReceivedCt1Sampled"
  BY <1>1, <1>2, <1>4 DEF Reader!Heeds
<1>7. Awaited(b, m) <=> /\ m.epoch = b.epoch
                        /\ TypeAwaited(b.tag, m.ty)
                        /\ m.data # None \/ b.tag = "EkReceivedCt1Sampled"
  BY DEF Awaited
<1>8. Reader!Heeds(s, x) <=> Awaited(b, m)
  BY <1>3, <1>5, <1>6, <1>7
<1> QED BY <1>8 DEF s, x

\* A message that is not heeded changes nothing.
LEMMA IgnoresAlike ==
  ASSUME NEW b, b.tag \in Tags, b.tag # "Ct2Sampled", NEW m, Carrying(m), ~Awaited(b, m)
  PROVE  ReceivesSame(b, m)
<1> DEFINE s == Read(b)
           x == ReadMsg(m)
<1>1. s # Reader!Failed /\ s.tag = b.tag /\ b.tag # "Failed"
  BY ReadFields DEF Tags, Reader!HOLDS
<1>2. ~Reader!Heeds(s, x)
  BY HeedsAlike
<1>3. step_receive(b, m) = Gets(None, b)
  BY <1>1 DEF step_receive
<1> HIDE DEF s, x
<1>4. Reader!receive(s, x, {}) = Reader!Result(s, None)
  BY <1>1, <1>2 DEF Reader!receive
<1>5. Same(Gets(None, b), Reader!receive(s, x, {}))
  BY <1>4, SilentSame DEF s
<1> QED BY <1>3, <1>5 DEF ReceivesSame, s, x

\* What a message that is heeded goes to.
LEMMA HeededBy ==
  ASSUME NEW b, b.tag \in Tags, b.tag # "Ct2Sampled", NEW m, Carrying(m), Awaited(b, m)
  PROVE  /\ b.tag \in {"KeysSampled", "HeaderSent", "Ct1Received", "EkSentCt1Received",
                       "NoHeaderReceived", "Ct1Sampled", "Ct1Acknowledged", "EkReceivedCt1Sampled"}
         /\ step_receive(b, m) =
              CASE b.tag = "KeysSampled" -> RecvKeysSampled(b, m.data)
                [] b.tag = "HeaderSent" -> RecvHeaderSent(b, m.data)
                [] b.tag = "Ct1Received" -> RecvCt1Received(b, m.data)
                [] b.tag = "EkSentCt1Received" -> RecvEkSent(b, m.data)
                [] b.tag = "NoHeaderReceived" -> RecvNoHeader(b, m.data)
                [] b.tag = "Ct1Sampled" -> RecvCt1Sampled(b, m.ty, m.data)
                [] b.tag = "Ct1Acknowledged" -> RecvCt1Acknowledged(b, m.data)
                [] b.tag = "EkReceivedCt1Sampled" -> Gets(None, finish_encaps(b, b.ek_vector))
         /\ LET s  == Read(b)
                cw == ReadMsg(m).codeword
            IN  Reader!receive(s, ReadMsg(m), {}) =
                  CASE b.tag = "KeysSampled" -> Reader!InKeysSampled(s, cw)
                    [] b.tag = "HeaderSent" -> Reader!InHeaderSent(s, cw)
                    [] b.tag = "Ct1Received" -> Reader!InCt1Received(s, cw)
                    [] b.tag = "EkSentCt1Received" -> Reader!InEkSentCt1Received(s, cw, {})
                    [] b.tag = "NoHeaderReceived" -> Reader!InNoHeaderReceived(s, cw)
                    [] b.tag = "Ct1Sampled" -> Reader!InCt1Sampled(s, m.ty, cw, {})
                    [] b.tag = "Ct1Acknowledged" -> Reader!InCt1Acknowledged(s, cw, {})
                    [] b.tag = "EkReceivedCt1Sampled" ->
                         Reader!Result(Reader!CompleteEncapsulation(s, s.ek_vector, {}), None)
<1> DEFINE s == Read(b)
           x == ReadMsg(m)
<1>1. b.tag \in {"KeysSampled", "HeaderSent", "Ct1Received", "EkSentCt1Received",
                 "NoHeaderReceived", "Ct1Sampled", "Ct1Acknowledged", "EkReceivedCt1Sampled"}
  BY DEF Awaited, TypeAwaited, Tags, Reader!HOLDS
<1>2. s # Reader!Failed /\ s.tag = b.tag
  BY ReadFields
<1>3. Reader!Heeds(s, x) /\ x.type = m.ty
  BY HeedsAlike DEF ReadMsg
<1>4. b.tag # "Failed"
  BY <1>1
<1> HIDE DEF s, x
<1>5. step_receive(b, m) =
        CASE b.tag = "KeysSampled" -> RecvKeysSampled(b, m.data)
          [] b.tag = "HeaderSent" -> RecvHeaderSent(b, m.data)
          [] b.tag = "Ct1Received" -> RecvCt1Received(b, m.data)
          [] b.tag = "EkSentCt1Received" -> RecvEkSent(b, m.data)
          [] b.tag = "NoHeaderReceived" -> RecvNoHeader(b, m.data)
          [] b.tag = "Ct1Sampled" -> RecvCt1Sampled(b, m.ty, m.data)
          [] b.tag = "Ct1Acknowledged" -> RecvCt1Acknowledged(b, m.data)
          [] b.tag = "EkReceivedCt1Sampled" -> Gets(None, finish_encaps(b, b.ek_vector))
  BY <1>4, Zenon DEF step_receive
<1>6. Reader!receive(s, x, {}) =
        CASE b.tag = "KeysSampled" -> Reader!InKeysSampled(s, x.codeword)
          [] b.tag = "HeaderSent" -> Reader!InHeaderSent(s, x.codeword)
          [] b.tag = "Ct1Received" -> Reader!InCt1Received(s, x.codeword)
          [] b.tag = "EkSentCt1Received" -> Reader!InEkSentCt1Received(s, x.codeword, {})
          [] b.tag = "NoHeaderReceived" -> Reader!InNoHeaderReceived(s, x.codeword)
          [] b.tag = "Ct1Sampled" -> Reader!InCt1Sampled(s, m.ty, x.codeword, {})
          [] b.tag = "Ct1Acknowledged" -> Reader!InCt1Acknowledged(s, x.codeword, {})
          [] b.tag = "EkReceivedCt1Sampled" ->
               Reader!Result(Reader!CompleteEncapsulation(s, s.ek_vector, {}), None)
  BY <1>1, <1>2, <1>3 DEF Reader!receive
<1> QED BY <1>1, <1>5, <1>6 DEF s, x

\* Every state of an epoch.
LEMMA ReceivesAlike ==
  ASSUME NEW e \in Epochs, NEW b \in HeaderSide(e) \cup CiphertextSide(e), NEW m, Carrying(m)
  PROVE  ReceivesSame(b, m)
<1> DEFINE its == Reader!receive(Read(b), ReadMsg(m), {})
           cw == ReadMsg(m).codeword
<1>1. CASE b \in Ct2Sampled(e)
  <2>1. b.tag = "Ct2Sampled"
    BY <1>1 DEF Ct2Sampled
  <2>2. Read(b).tag = "Ct2Sampled" /\ Read(b) # Reader!Failed
    BY <2>1, ReadFields DEF Tags, Reader!HOLDS
  <2>3. its = Reader!InCt2Sampled(Read(b), ReadMsg(m))
    BY <2>2 DEF Reader!receive
  <2>4. step_receive(b, m) = RecvCt2Sampled(b, m)
    BY <2>1 DEF step_receive
  <2> QED BY <1>1, <2>3, <2>4, Ct2SampledAlike DEF ReceivesSame
<1>2. CASE b \notin Ct2Sampled(e) /\ ~Awaited(b, m)
  <2>1. b.tag \in Tags /\ b.tag # "Ct2Sampled"
    BY <1>2 DEF Tags, Reader!HOLDS, HeaderSide, CiphertextSide, KeysUnsampled, KeysSampled, HeaderSent,
                Ct1Received, EkSentCt1Received, NoHeaderReceived, HeaderReceived, Ct1Sampled,
                EkReceivedCt1Sampled, Ct1Acknowledged
  <2> QED BY <1>2, <2>1, IgnoresAlike
<1>3. CASE b \notin Ct2Sampled(e) /\ Awaited(b, m)
  <2>1. b.tag \in Tags /\ b.tag # "Ct2Sampled"
    BY <1>3 DEF Tags, Reader!HOLDS, HeaderSide, CiphertextSide, KeysUnsampled, KeysSampled, HeaderSent,
                Ct1Received, EkSentCt1Received, NoHeaderReceived, HeaderReceived, Ct1Sampled,
                EkReceivedCt1Sampled, Ct1Acknowledged
  <2>2. b.tag # "EkReceivedCt1Sampled" => m.data # None
    BY <1>3 DEF Awaited
  <2>3. m.ty # "None" /\ (b.tag = "EkSentCt1Received" => m.ty = "Ct2")
    BY <1>3, <2>1 DEF Awaited, TypeAwaited, Tags, Reader!HOLDS
  <2>4. m.data # None => cw = ReadChunk(m.data)
    BY DEF ReadMsg
  <2>5. m.data # None => /\ \E v : m.data \in Codewords(v)
                         /\ m.ty = "Ct2" => \E x \in Epochs : m.data \in Codewords(Ct2Frame(x))
    BY <2>3 DEF Carrying
  <2> HIDE DEF cw, its
  <2>6. ASSUME NEW got, NEW it, Same(got, it), step_receive(b, m) = got, its = it
        PROVE  ReceivesSame(b, m)
    BY <2>6 DEF ReceivesSame, its
  <2>7. CASE b \in KeysSampled(e)
    <3>1. b.tag = "KeysSampled"
      BY <2>7 DEF KeysSampled
    <3>2. step_receive(b, m) = RecvKeysSampled(b, m.data) /\ its = Reader!InKeysSampled(Read(b), cw)
      BY <1>3, <2>1, <3>1, HeededBy DEF its, cw
    <3> QED BY <2>2, <2>4, <2>5, <2>6, <2>7, <3>1, <3>2, KeysSampledAlike
  <2>8. CASE b \in HeaderSent(e)
    <3>1. b.tag = "HeaderSent"
      BY <2>8 DEF HeaderSent
    <3>2. step_receive(b, m) = RecvHeaderSent(b, m.data) /\ its = Reader!InHeaderSent(Read(b), cw)
      BY <1>3, <2>1, <3>1, HeededBy DEF its, cw
    <3> QED BY <2>2, <2>4, <2>5, <2>6, <2>8, <3>1, <3>2, HeaderSentAlike
  <2>9. CASE b \in Ct1Received(e)
    <3>1. b.tag = "Ct1Received"
      BY <2>9 DEF Ct1Received
    <3>2. step_receive(b, m) = RecvCt1Received(b, m.data) /\ its = Reader!InCt1Received(Read(b), cw)
      BY <1>3, <2>1, <3>1, HeededBy DEF its, cw
    <3> QED BY <2>2, <2>4, <2>5, <2>6, <2>9, <3>1, <3>2, Ct1ReceivedAlike
  <2>10. CASE b \in EkSentCt1Received(e)
    <3>1. b.tag = "EkSentCt1Received"
      BY <2>10 DEF EkSentCt1Received
    <3>2. step_receive(b, m) = RecvEkSent(b, m.data) /\ its = Reader!InEkSentCt1Received(Read(b), cw, {})
      BY <1>3, <2>1, <3>1, HeededBy DEF its, cw
    <3> QED BY <2>2, <2>3, <2>4, <2>5, <2>6, <2>10, <3>1, <3>2, EkSentAlike
  <2>11. CASE b \in NoHeaderReceived(e)
    <3>1. b.tag = "NoHeaderReceived"
      BY <2>11 DEF NoHeaderReceived
    <3>2. step_receive(b, m) = RecvNoHeader(b, m.data) /\ its = Reader!InNoHeaderReceived(Read(b), cw)
      BY <1>3, <2>1, <3>1, HeededBy DEF its, cw
    <3> QED BY <2>2, <2>4, <2>5, <2>6, <2>11, <3>1, <3>2, NoHeaderAlike
  <2>12. CASE b \in Ct1Sampled(e)
    <3>1. b.tag = "Ct1Sampled"
      BY <2>12 DEF Ct1Sampled
    <3>2. /\ step_receive(b, m) = RecvCt1Sampled(b, m.ty, m.data)
          /\ its = Reader!InCt1Sampled(Read(b), m.ty, cw, {})
      BY <1>3, <2>1, <3>1, HeededBy DEF its, cw
    <3> QED BY <2>2, <2>4, <2>5, <2>6, <2>12, <3>1, <3>2, Ct1SampledAlike
  <2>13. CASE b \in Ct1Acknowledged(e)
    <3>1. b.tag = "Ct1Acknowledged"
      BY <2>13 DEF Ct1Acknowledged
    <3>2. step_receive(b, m) = RecvCt1Acknowledged(b, m.data) /\ its = Reader!InCt1Acknowledged(Read(b), cw, {})
      BY <1>3, <2>1, <3>1, HeededBy DEF its, cw
    <3> QED BY <2>2, <2>4, <2>5, <2>6, <2>13, <3>1, <3>2, Ct1AcknowledgedAlike
  <2>14. CASE b \in EkReceivedCt1Sampled(e)
    <3>1. b.tag = "EkReceivedCt1Sampled"
      BY <2>14 DEF EkReceivedCt1Sampled
    <3>2. /\ step_receive(b, m) = Gets(None, finish_encaps(b, b.ek_vector))
          /\ its = Reader!Result(Reader!CompleteEncapsulation(Read(b), Read(b).ek_vector, {}), None)
      BY <1>3, <2>1, <3>1, HeededBy DEF its
    <3> QED BY <2>6, <2>14, <3>2, EkReceivedAlike
  <2>15. CASE b \in KeysUnsampled(e) \cup HeaderReceived(e)
    <3>1. b.tag \in {"KeysUnsampled", "HeaderReceived"}
      BY <2>15 DEF KeysUnsampled, HeaderReceived
    <3> QED BY <1>3, <2>1, <3>1, HeededBy
  <2> QED BY <1>3, <2>7, <2>8, <2>9, <2>10, <2>11, <2>12, <2>13, <2>14, <2>15
          DEF HeaderSide, CiphertextSide
<1> QED BY <1>1, <1>2, <1>3

-----------------------------------------------------------------------------
(* The exchange *)

\* A message handed over carries what an epoch streams, altered or not.
LEMMA HandedCarry ==
  ASSUME NEW p \in Party, \A n \in net[p] : Genuine(n), NEW m \in Handed(p)
  PROVE  Carrying(m)
<1>1. ASSUME NEW n, Genuine(n) PROVE Carrying(n)
  <2>1. CASE n.ty = "None"
    BY <2>1 DEF Carrying
  <2>2. CASE n.ty # "None"
    <3>1. n.epoch \in Epochs /\ n.ty \in MessageTypes /\ n.data \in Codewords(Value(n.epoch, n.ty))
      BY <1>1, <2>2 DEF Genuine
    <3>2. Value(n.epoch, n.ty) \in Carried /\ (n.ty = "Ct2" => Value(n.epoch, n.ty) = Ct2Frame(n.epoch))
      BY <3>1, CarriedValues DEF Value, MessageTypes
    <3> QED BY <3>1, <3>2 DEF Carrying
  <2> QED BY <2>1, <2>2
<1>2. PICK n \in net[p] :
        \/ m = n
        \/ \E d \in {-1, 1} : m = [n EXCEPT !.epoch = EpochOf(braid[p]) + d]
        \/ /\ n.ty \in {"Ek", "EkCt1Ack"}
           /\ m = [n EXCEPT !.ty = IF @ = "Ek" THEN "EkCt1Ack" ELSE "Ek"]
        \/ m = [n EXCEPT !.data = None]
  BY DEF Handed
<1>3. Genuine(n) /\ Carrying(n) /\ n \in [epoch : Epochs, ty : {n.ty}, data : {n.data}]
  BY <1>1 DEF Genuine
<1>4. CASE \E d \in {-1, 1} : m = [n EXCEPT !.epoch = EpochOf(braid[p]) + d]
  <2>1. m.data = n.data /\ m.ty = n.ty
    BY <1>3, <1>4
  <2> QED BY <1>3, <2>1 DEF Carrying
<1>5. CASE n.ty \in {"Ek", "EkCt1Ack"} /\ m = [n EXCEPT !.ty = IF @ = "Ek" THEN "EkCt1Ack" ELSE "Ek"]
  <2>1. m.data = n.data /\ m.ty # "Ct2" /\ n.ty # "None"
    BY <1>3, <1>5
  <2> QED BY <1>3, <2>1 DEF Carrying
<1>6. CASE m = [n EXCEPT !.data = None]
  <2>1. m.data = None
    BY <1>3, <1>6
  <2> QED BY <2>1 DEF Carrying
<1> QED BY <1>2, <1>3, <1>4, <1>5, <1>6

\* Wherever the invariant holds, the two agree.
LEMMA ReaderFollows == IInv => ReaderAgreesOnBraid
<1> SUFFICES ASSUME IInv, NEW p \in Party
             PROVE  LET fresh == <<p, EpochOf(braid[p])>>
                        ours  == step_send(braid[p], fresh)
                        its   == Reader!send(Read(braid[p]), {}, fresh)
                    IN  /\ Read(ours.state) = its.state
                        /\ braid[p] # Failed => /\ ReadMsg(ours.msg) = its.message
                                                /\ ReadOut(ours.out) = its.output
                        /\ \A m \in Handed(p) :
                             LET got == step_receive(braid[p], m)
                                 its2 == Reader!receive(Read(braid[p]), ReadMsg(m), {})
                             IN  Read(got.state) = its2.state /\ ReadOut(got.out) = its2.output
  BY DEF ReaderAgreesOnBraid
<1> DEFINE b == braid[p]
           fresh == <<p, EpochOf(b)>>
<1>1. ASSUME NEW m \in Handed(p), ReceivesSame(b, m)
      PROVE  LET got == step_receive(b, m)
                 its2 == Reader!receive(Read(b), ReadMsg(m), {})
             IN  Read(got.state) = its2.state /\ ReadOut(got.out) = its2.output
  <2> DEFINE got == step_receive(b, m)
             its2 == Reader!receive(Read(b), ReadMsg(m), {})
  <2> HIDE DEF got, its2
  <2>1. its2 = Reader!Result(Read(got.state), ReadOut(got.out))
    BY <1>1 DEF ReceivesSame, Same, got, its2
  <2>2. Read(got.state) = its2.state /\ ReadOut(got.out) = its2.output
    BY <2>1 DEF Reader!Result
  <2> QED BY <2>2 DEF got, its2
<1>2. CASE b = Failed
  <2>1. Read(b) = Reader!Failed
    BY <1>2 DEF Read
  <2>2. step_send(b, fresh).state = Failed
    BY <1>2 DEF step_send, Failed, Streaming, Sends
  <2>3. Reader!send(Read(b), {}, fresh) = Reader!SendResult(Reader!Failed, None, None)
    <3> DEFINE s == Read(b)
    <3>1. s = Reader!Failed /\ s.tag = "Failed" /\ "Failed" \notin DOMAIN Reader!SendsFrom
      BY <2>1 DEF Reader!Failed, Reader!SendsFrom
    <3> HIDE DEF s
    <3>2. Reader!send(s, {}, fresh) = Reader!SendResult(Reader!Failed, None, None)
      BY <3>1 DEF Reader!send
    <3> QED BY <3>2 DEF s
  <2>4. ASSUME NEW m \in Handed(p) PROVE ReceivesSame(b, m)
    <3>1. step_receive(b, m) = Gets(None, b)
      BY <1>2 DEF step_receive, Failed
    <3>2. Reader!receive(Read(b), ReadMsg(m), {}) = Reader!Result(Read(b), None)
      <4> DEFINE s == Read(b)
      <4>1. s = Reader!Failed /\ s.tag = "Failed"
        BY <2>1 DEF Reader!Failed
      <4> HIDE DEF s
      <4>2. Reader!receive(s, ReadMsg(m), {}) = Reader!Result(s, None)
        BY <4>1 DEF Reader!receive
      <4> QED BY <4>2 DEF s
    <3> QED BY <3>1, <3>2, SilentSame DEF ReceivesSame
  <2> HIDE DEF fresh
  <2>5. Read(step_send(b, fresh).state) = Reader!send(Read(b), {}, fresh).state
    BY <1>2, <2>1, <2>2, <2>3 DEF Reader!SendResult
  <2> QED BY <1>1, <1>2, <2>4, <2>5 DEF fresh
<1>3. CASE b # Failed
  <2>1. b.epoch \in Epochs /\ b \in HeaderSide(b.epoch) \cup CiphertextSide(b.epoch)
    BY <1>3 DEF IInv, InEpoch, StatesOf
  <2>2. fresh \in Drawn
    BY <1>3, <2>1 DEF EpochOf, Drawn, Epochs
  <2>3. SendsSame(b, fresh)
    BY <2>1, <2>2, SendsAlike
  <2>4. ASSUME NEW m \in Handed(p) PROVE ReceivesSame(b, m)
    <3>1. Carrying(m)
      BY HandedCarry DEF IInv, Posted
    <3> QED BY <2>1, <3>1, ReceivesAlike
  <2> HIDE DEF b
  <2> QED BY <1>1, <2>3, <2>4 DEF SendsSame, b
<1> QED BY <1>2, <1>3

\* In every state of the exchange, and for every message handed over, genuine or altered,
\* the reader's Braid sends the same message and key, gives the same key and goes on to the
\* same state (braid/src/braid.rs send and receive, and reader/tacenta_reader/braid.py).
THEOREM ReaderFollowsBraid == Spec => []ReaderAgreesOnBraid
BY Invariance, ReaderFollows, PTL
=============================================================================
