------------------------- MODULE ReaderAgreesBraid -------------------------
(***************************************************************************)
(* The two implementations of the Braid, side by side, in every state that *)
(* the exchange of module BraidAgreement reaches (see module               *)
(* ReaderAgrees).  No operation of the KEM fails here: the library's       *)
(* incremental KEM has no failure of its own.                              *)
(***************************************************************************)
EXTENDS BraidAgreement

Reader == INSTANCE ReaderBraid WITH ChunkCount <- Needed

(* The reader's form of what the library holds *)

ReadEnc(enc) == [value |-> enc.val, next |-> enc.next, exhausted |-> enc.exhausted]

ReadChunk(c) == [index |-> c.index, value |-> c.val]

ReadDec(dec) == [needed |-> dec.needed, held |-> {ReadChunk(c) : c \in dec.have}]

ReadOut(out) == IF out = None THEN None ELSE [epoch |-> out.key_epoch, key |-> out.key]

\* A codeword, in either form, is not the absent value.
Carried == Drawn \cup Encapsulation \cup FramedHeader \cup FramedCt2

ASSUME CodewordAssumption ==
  None \notin [val : Carried, index : Nat] /\ None \notin [index : Nat, value : Carried]

ReadMsg(msg) ==
  [epoch |-> msg.epoch, type |-> msg.ty, codeword |-> IF msg.data = None THEN None ELSE ReadChunk(msg.data)]

\* The stream a field of the reader's state carries; the library's variants have one
\* encoder and one decoder at most.
EncoderFields == {"hdr_enc", "ek_enc", "ct1_enc", "ct2_enc"}

DecoderFields == {"hdr_dec", "ek_dec", "ct1_dec", "ct2_dec"}

Field(b, f) ==
  CASE f \in EncoderFields -> ReadEnc(b.enc)
    [] f \in DecoderFields -> ReadDec(b.dec)
    [] f = "key_pair" -> b.kp
    [] f = "encaps" -> b.ct1
    [] OTHER -> b[f]

Read(b) ==
  IF b = Failed THEN Reader!Failed
  ELSE Reader!Make(b.tag, b.epoch, b.auth, [f \in Reader!HOLDS[b.tag] |-> Field(b, f)])

-----------------------------------------------------------------------------
(* Properties *)

\* Messages a party may be handed: those under way, and any of them moved to an epoch
\* next to the party's own, without its codeword, or with its acknowledgement added or
\* removed.
Handed(p) ==
  LET acks == {m \in net[p] : m.ty \in {"Ek", "EkCt1Ack"}}
  IN  net[p]
        \cup {[m EXCEPT !.epoch = EpochOf(braid[p]) + d] : m \in net[p], d \in {-1, 1}}
        \cup {[m EXCEPT !.ty = IF @ = "Ek" THEN "EkCt1Ack" ELSE "Ek"] : m \in acks}
        \cup {[m EXCEPT !.data = None] : m \in net[p]}

\* In every state of the library's exchange the reader's send gives the same message,
\* key and next state, and its receive the same key and next state for every message,
\* genuine or altered: the ceiling, an exhausted encoder and codewords of two values
\* included.
ReaderAgreesOnBraid ==
  \A p \in Party :
    LET fresh == <<p, EpochOf(braid[p])>>
        ours  == step_send(braid[p], fresh)
        its   == Reader!send(Read(braid[p]), {}, fresh)
    IN  /\ Read(ours.state) = its.state
        /\ braid[p] # Failed => ReadMsg(ours.msg) = its.message /\ ReadOut(ours.out) = its.output
        /\ \A m \in Handed(p) :
             LET got == step_receive(braid[p], m)
                 its2 == Reader!receive(Read(braid[p]), ReadMsg(m), {})
             IN  Read(got.state) = its2.state /\ ReadOut(got.out) = its2.output
=============================================================================
