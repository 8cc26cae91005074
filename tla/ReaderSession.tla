--------------------------- MODULE ReaderSession ---------------------------
(***************************************************************************)
(* A session of the specification-only reader as it is stored              *)
(* (reader/tacenta_reader/persistence.py): the formats of its parts, what  *)
(* their readers refuse and as what, and the semantic rules that tie the   *)
(* parts to each other; around it, two parties that exchange messages,     *)
(* save, crash and read back what they saved, with a KEM that may fail.    *)
(*                                                                         *)
(* Of the two ratchets the model keeps what the storage rules read: the    *)
(* ratchet key pair, which chains there are, and the epochs of the sparse  *)
(* chains.  An image is what the writer lays down, with the version bytes  *)
(* and whether it is followed by bytes that do not belong to it.           *)
(***************************************************************************)
EXTENDS ReaderBraid

CONSTANTS
  Initiator, Responder,
  EPOCHS_KEPT,
  Stranger,      \* an identity that is not a party
  LowOrder,      \* a canonical curve key that is not an identity key
  MaxEpoch,      \* bound: the last epoch a party sends messages for
  MaxLead,       \* bound: messages a party sends without hearing from its peer
  MaxFaults      \* bound: crashes and failed KEM operations together

ASSUME SessionAssumption == Cardinality({Initiator, Responder, Stranger, LowOrder}) = 4

VARIABLES
  session,   \* session[p]: what p holds in memory, and the message it has not sent yet
  disk,      \* disk[p]: the image p saved last
  net,       \* net[p]: the messages under way to p
  lead,      \* lead[p]: messages p has sent since it last received one
  faults     \* crashes and failed KEM operations so far

vars == <<session, disk, net, lead, faults>>

Party == {Initiator, Responder}

Peer(p) == IF p = Initiator THEN Responder ELSE Initiator

STATE_VERSION == 1

-----------------------------------------------------------------------------
(* The stored parts and their invariants *)

ratchet_invariant(c) == c.ckr => c.cks /\ c.dhr # None

spqr_invariant(s) ==
  /\ \A e \in s.chains : e <= s.epoch /\ s.epoch < e + EPOCHS_KEPT
  /\ s.epoch \in s.chains

\* A sending chain alone is the sender's; no chain at all is the receiver's.
classical_role(c) ==
  CASE c.cks /\ ~c.ckr -> "sender" [] ~c.cks /\ ~c.ckr -> "receiver" [] OTHER -> None

triple_invariant(t) ==
  LET role == classical_role(t.classical)
  IN  role # None => (t.sparse.direction = "A2b") = (role = "sender")

\* The encoders and decoders are sized for the value their name says.
Coder == [hdr_enc |-> "hdr", ek_enc |-> "ek", ct1_enc |-> "ct1", ct2_enc |-> "ct2",
          hdr_dec |-> "hdr", ek_dec |-> "ek", ct1_dec |-> "ct1", ct2_dec |-> "ct2"]

braid_invariant(b) ==
  b # Failed =>
    /\ b.epoch >= 1
    /\ \A f \in HOLDS[b.tag] \cap {"hdr_dec", "ek_dec", "ct1_dec", "ct2_dec"} :
         b[f].needed = ChunkCount[Coder[f]]

\* An encoder marked exhausted stands at the last index; a decoder holds no more
\* than it needs, and no index twice.
CodersRead(b) ==
  \A f \in HOLDS[b.tag] \cap DOMAIN Coder :
    IF "exhausted" \in DOMAIN b[f] THEN b[f].exhausted => b[f].next = MAX_CODEWORDS - 1
    ELSE /\ Cardinality(b[f].held) <= b[f].needed
         /\ \A c, d \in b[f].held : c.index = d.index => c = d

-----------------------------------------------------------------------------
(* The readers.  Each gives "ok" or the kind of its refusal. *)

\* Variant: an inner wrong version is passed through as what it is.
WrapPassesThrough(kinds) ==
  IF "WrongVersion" \in kinds THEN "WrongVersion" ELSE IF kinds = {"ok"} THEN "ok" ELSE "Malformed"

\* A part its own reader refuses, whatever that reader's reason, is malformed.
Wrap(kinds) == IF kinds = {"ok"} THEN "ok" ELSE "Malformed"

Verdict(version, parses) ==
  IF version # STATE_VERSION THEN "WrongVersion" ELSE IF parses THEN "ok" ELSE "Malformed"

ratchet_from_bytes(c) == Verdict(c.version, ~c.trailing /\ ratchet_invariant(c))

spqr_from_bytes(s) == Verdict(s.version, ~s.trailing /\ spqr_invariant(s))

triple_from_bytes(t) ==
  IF t.version # STATE_VERSION THEN "WrongVersion"
  ELSE IF t.trailing \/ Wrap({ratchet_from_bytes(t.classical), spqr_from_bytes(t.sparse)}) # "ok"
    THEN "Malformed"
  ELSE Verdict(t.version, triple_invariant(t))

braid_from_bytes(b) ==
  Verdict(b.version, /\ ~b.trailing
                     /\ b.state # Failed =>
                          b.state.epoch # U64_MAX /\ CodersRead(b.state) /\ braid_invariant(b.state))

\* The private half of a ratchet key pair, and the identities that can sign.
x25519_public(secret) == secret

is_identity_key(k) == k # LowOrder

\* The role read from established_ephemeral, which a responder carries for life.
is_initiator(s) == s.established_ephemeral = None

\* Variant: the direction of the sparse ratchet is not compared with the role.
SemanticWithoutDirection(s) ==
  LET b == s.braid.state IN
    /\ x25519_public(s.ratchet_private) = s.triple.classical.dhs
    /\ b # Failed => (b.epoch % 2 = 1 <=> is_header_sender(b)) = is_initiator(s)
    /\ s.identity_ad = IF is_initiator(s) THEN <<s.ours, s.peer>> ELSE <<s.peer, s.ours>>

\* Variant: the sparse epoch is not compared with the Braid's.
SemanticWithoutEpoch(s) ==
  LET b == s.braid.state IN
    /\ x25519_public(s.ratchet_private) = s.triple.classical.dhs
    /\ s.identity_ad = IF is_initiator(s) THEN <<s.ours, s.peer>> ELSE <<s.peer, s.ours>>
    /\ b # Failed => (is_header_sender(b) = (b.epoch % 2 = 1)) = is_initiator(s)
    /\ (s.triple.sparse.direction = "A2b") = is_initiator(s)
    /\ is_identity_key(s.ours) /\ is_identity_key(s.peer)

\* session_semantic: each part says the same of the epoch, of the role and of the
\* keys as the others.
session_semantic(s) ==
  LET t == s.triple
      b == s.braid.state
      encapsulated == {"Ct1Sampled", "EkReceivedCt1Sampled", "Ct1Acknowledged", "Ct2Sampled"}
  IN  /\ x25519_public(s.ratchet_private) = t.classical.dhs
      /\ b # Failed => t.sparse.epoch = IF b.tag \in encapsulated THEN b.epoch ELSE b.epoch - 1
      /\ s.identity_ad = IF is_initiator(s) THEN <<s.ours, s.peer>> ELSE <<s.peer, s.ours>>
      /\ b # Failed => (is_header_sender(b) = (b.epoch % 2 = 1)) = is_initiator(s)
      /\ (t.sparse.direction = "A2b") = is_initiator(s)
      /\ s.pending_initial = None \/ s.established_ephemeral = None
      /\ is_identity_key(s.ours) /\ is_identity_key(s.peer)
      /\ triple_invariant(t) /\ braid_invariant(b)

Halves(img) == Wrap({triple_from_bytes(img.triple), braid_from_bytes(img.braid)})

session_from_bytes(img) ==
  IF img.version # STATE_VERSION THEN "WrongVersion"
  ELSE IF Halves(img) # "ok" THEN Halves(img)
  ELSE IF img.trailing THEN "Malformed"
  ELSE IF ~session_semantic(img) THEN "Inconsistent"
  ELSE "ok"

\* Variant: only the own key is looked at.
ScanOurs(img) ==
  IF img.version # STATE_VERSION THEN {"WrongVersion"}
  ELSE {f \in {"ours"} : ~is_identity_key(img[f])}

\* scan_stored_session_identities: the identity keys the rule refuses, whatever else
\* may be wrong with the image.
scan_stored_session_identities(img) ==
  IF img.version # STATE_VERSION THEN {"WrongVersion"}
  ELSE {f \in {"ours", "peer"} : ~is_identity_key(img[f])}

-----------------------------------------------------------------------------
(* The operations on the session in memory *)

\* A session is held as its image: the writer adds only the version bytes.
NewSession(p, sk) ==
  LET leads == p = Initiator IN
  [version |-> STATE_VERSION, trailing |-> FALSE,
   triple |-> [version |-> STATE_VERSION, trailing |-> FALSE,
     classical |-> [version |-> STATE_VERSION, trailing |-> FALSE, dhs |-> <<p, 0>>,
                    dhr |-> IF leads THEN <<Responder, 0>> ELSE None, cks |-> leads, ckr |-> FALSE],
     sparse |-> [version |-> STATE_VERSION, trailing |-> FALSE, epoch |-> 0, chains |-> {0},
                 direction |-> IF leads THEN "A2b" ELSE "B2a"]],
   braid |-> [version |-> STATE_VERSION, trailing |-> FALSE,
              state |-> IF leads THEN init_initiator(sk) ELSE init_responder(sk)],
   ratchet_private |-> <<p, 0>>, identity_ad |-> <<Initiator, Responder>>,
   ours |-> p, peer |-> Peer(p),
   pending_initial |-> IF leads THEN "handshake" ELSE None,
   established_ephemeral |-> IF leads THEN None ELSE "ephemeral"]

\* The next epoch's chains; those EPOCHS_KEPT behind go.
_advance(sparse, out) ==
  [sparse EXCEPT !.epoch = out.epoch,
                 !.chains = {e \in @ \cup {out.epoch} : out.epoch < e + EPOCHS_KEPT}]

\* The sparse half of a send or a receive at `epoch`: "ok", EpochGap or NoChain.
SparseRefusal(sparse, epoch, out) ==
  IF out # None /\ out.epoch # sparse.epoch + 1 THEN "EpochGap"
  ELSE LET s == IF out = None THEN sparse ELSE _advance(sparse, out)
       IN  IF epoch \in s.chains THEN "ok" ELSE "NoChain"

\* Variant: the agreement's output is dropped.
SparseUnmoved(sparse, out) == sparse

Sparse(sparse, out) == IF out = None THEN sparse ELSE _advance(sparse, out)

\* What is drawn after a crash is not what was drawn before it.
DrawnFor(p) == <<p, session[p].img.braid.state.epoch, faults.crashes>>

\* What agreement.send gives p, if the operations in fail_on fail.
Agreement(p, fail_on) == AgreementSend(session[p].img.braid.state, fail_on, DrawnFor(p))

Usable(p) == session[p].img # None /\ session[p].img.braid.state # Failed

Init ==
  /\ session = [p \in Party |-> [img |-> NewSession(p, "sk"), outbox |-> None]]
  /\ disk = [p \in Party |-> session[p].img]
  /\ net = [p \in Party |-> {}]
  /\ lead = [p \in Party |-> 0]
  /\ faults = [crashes |-> 0, kem |-> 0]

\* encrypt: the message is made on a copy and waits until the session is saved.
Encrypt(p) ==
  LET ag  == Agreement(p, {})
      img == session[p].img
  IN  /\ Usable(p)
      /\ session[p].outbox = None /\ lead[p] < MaxLead
      /\ img.braid.state.epoch <= MaxEpoch
      /\ img.triple.classical.cks
      /\ SparseRefusal(img.triple.sparse, ag.epoch, ag.output) = "ok"
      /\ session' = [session EXCEPT
           ![p].img.triple.sparse = Sparse(@, ag.output),
           ![p].img.braid.state = ag.state,
           ![p].outbox = [dh |-> img.triple.classical.dhs, pq_epoch |-> ag.epoch, braid |-> ag.message]]
      /\ UNCHANGED <<disk, net, lead, faults>>

\* encrypt, when the KEM fails the agreement: the message is refused and the session
\* keeps the failed agreement.
EncryptFails(p) ==
  /\ Usable(p) /\ session[p].outbox = None
  /\ faults.crashes + faults.kem < MaxFaults
  /\ \E op \in KemOps :
       /\ ~Agreement(p, {op}).ok
       /\ session' = [session EXCEPT ![p].img.braid.state = Agreement(p, {op}).state]
  /\ faults' = [faults EXCEPT !.kem = @ + 1]
  /\ UNCHANGED <<disk, net, lead>>

\* Variant: the message leaves first, and the image is saved when there is none to send.
SendFirst(p) ==
  /\ session[p].img # None
  /\ session[p].img # disk[p] \/ session[p].outbox # None
  /\ disk' = IF session[p].outbox = None THEN [disk EXCEPT ![p] = session[p].img] ELSE disk
  /\ net' = IF session[p].outbox = None THEN net
            ELSE [net EXCEPT ![Peer(p)] = {session[p].outbox}]
  /\ lead' = IF session[p].outbox = None THEN lead ELSE [lead EXCEPT ![p] = @ + 1]
  /\ session' = [session EXCEPT ![p].outbox = None]
  /\ UNCHANGED faults

\* Session::export and its caller: the image is saved, then the message leaves and
\* the key that came with it counts.  One message is under way to a party at a time:
\* if the one before it is still there, that one is lost.
Save(p) ==
  /\ session[p].img # None
  /\ session[p].img # disk[p] \/ session[p].outbox # None
  /\ disk' = [disk EXCEPT ![p] = session[p].img]
  /\ net' = IF session[p].outbox = None THEN net
            ELSE [net EXCEPT ![Peer(p)] = {session[p].outbox}]
  /\ lead' = IF session[p].outbox = None THEN lead ELSE [lead EXCEPT ![p] = @ + 1]
  /\ session' = [session EXCEPT ![p].outbox = None]
  /\ UNCHANGED faults

\* A header's ratchet key that is not the one held takes a ratchet step.
Steps(c, dh) == dh # c.dhr

\* A key pair is drawn for a step that needs one; a party and its peer never have
\* more than two of its keys between them, so two names are enough.
FreshKey(c) == <<c.dhs[1], 1 - c.dhs[2]>>

\* decrypt: both halves and the agreement on a copy, adopted because the message is
\* genuine; hearing from the peer ends the wrapper of the initial message.
Decrypt(p, m, fail_on) ==
  LET img == session[p].img
      c   == img.triple.classical
      ag  == AgreementReceive(img.braid.state, m.braid, fail_on)
      fresh == FreshKey(c)
  IN  /\ ag.ok /\ SparseRefusal(img.triple.sparse, m.pq_epoch, ag.output) = "ok"
      /\ session' = [session EXCEPT
           ![p].img.triple.sparse = Sparse(@, ag.output),
           ![p].img.triple.classical =
             IF Steps(c, m.dh) THEN [@ EXCEPT !.dhs = fresh, !.dhr = m.dh, !.cks = TRUE, !.ckr = TRUE] ELSE @,
           ![p].img.ratchet_private = IF Steps(c, m.dh) THEN fresh ELSE @,
           ![p].img.braid.state = ag.state,
           ![p].img.pending_initial = None]

\* A message is received with every operation of the KEM working or, if that makes a
\* difference, with one failing.
Receive(p) ==
  \E m \in net[p] :
    /\ Usable(p) /\ session[p].outbox = None
    /\ \/ Decrypt(p, m, {}) /\ UNCHANGED faults
       \/ /\ faults.crashes + faults.kem < MaxFaults
          /\ \E op \in KemOps :
               /\ receive(session[p].img.braid.state, m.braid, {op})
                    # receive(session[p].img.braid.state, m.braid, {})
               /\ Decrypt(p, m, {op})
          /\ faults' = [faults EXCEPT !.kem = @ + 1]
    /\ net' = [net EXCEPT ![p] = @ \ {m}]
    /\ lead' = [lead EXCEPT ![p] = 0]
    /\ UNCHANGED <<disk>>

\* A crash; the restart reads what was saved last, and goes on only if it is accepted.
Crash(p) ==
  /\ faults.crashes + faults.kem < MaxFaults
  /\ session[p].img # disk[p] \/ session[p].outbox # None
  /\ session' = [session EXCEPT
       ![p] = IF session_from_bytes(disk[p]) = "ok"
                THEN [img |-> disk[p], outbox |-> None]
                ELSE [img |-> None, outbox |-> None]]
  /\ faults' = [faults EXCEPT !.crashes = @ + 1]
  /\ UNCHANGED <<disk, net, lead>>

Next == \E p \in Party : Encrypt(p) \/ EncryptFails(p) \/ Save(p) \/ Receive(p) \/ Crash(p)

Spec == Init /\ [][Next]_vars

-----------------------------------------------------------------------------
(* Properties *)

\* No state the operations produce is refused: every session in memory, failed or
\* not, is accepted when it is written and read back, so a restart never finds a
\* session it cannot use.
NoStateIsRefused ==
  \A p \in Party : session[p].img # None /\ session_from_bytes(session[p].img) = "ok"

\* What a reader must notice: one field of the stored image is another session's,
\* or a part has a version nobody knows.
Spoiled(img) ==
  {[img EXCEPT !.triple.sparse.direction = IF @ = "A2b" THEN "B2a" ELSE "A2b"],
   [img EXCEPT !.ours = img.peer, !.peer = img.ours],
   [img EXCEPT !.peer = Stranger],
   [img EXCEPT !.peer = LowOrder, !.identity_ad = IF is_initiator(img) THEN <<img.ours, LowOrder>> ELSE <<LowOrder, img.ours>>],
   [img EXCEPT !.ratchet_private = FreshKey(img.triple.classical)],
   [img EXCEPT !.triple.sparse.version = 2], [img EXCEPT !.triple.version = 2], [img EXCEPT !.braid.version = 2],
   [img EXCEPT !.established_ephemeral = IF @ = None THEN "ephemeral" ELSE None]}
  \cup (IF img.braid.state = Failed THEN {} ELSE
          {[img EXCEPT !.braid.state.epoch = @ + 1], [img EXCEPT !.braid.state.epoch = @ + 2],
           [img EXCEPT !.triple.sparse.epoch = @ + 1, !.triple.sparse.chains = @ \cup {img.triple.sparse.epoch + 1}]})

\* Every spoiled image of every reachable session is refused, at whatever point of the
\* exchange it was saved: as malformed when a part's own reader objects, an unknown
\* version inside included, and as inconsistent when only the parts together are wrong.
SpoiledIsRefused ==
  \A p \in Party : session[p].img # None =>
    \A img \in Spoiled(session[p].img) :
      session_from_bytes(img) =
        IF Halves(img) = "ok" THEN "Inconsistent" ELSE "Malformed"

\* Sessions of an earlier release, which did not have the rule for identity keys: the
\* same session with a key for one side or the other that the rule excludes.
FromBeforeTheRule(img) ==
  LET With(ours, peer) ==
        [img EXCEPT !.ours = ours, !.peer = peer,
                    !.identity_ad = IF is_initiator(img) THEN <<ours, peer>> ELSE <<peer, ours>>]
  IN  {With(o, q) : o \in {img.ours, LowOrder}, q \in {img.peer, LowOrder}}

\* The scan finds beforehand exactly the stored sessions that a reader with the
\* identity-key rule will refuse.
ScanForetellsRefusal ==
  \A p \in Party : session[p].img # None =>
    \A img \in FromBeforeTheRule(session[p].img) :
      (scan_stored_session_identities(img) = {}) = (session_from_bytes(img) = "ok")

\* The mixture of two saves: the ratchets of one and the agreement of the other.
Mixtures(p) ==
  LET new == session[p].img
      old == disk[p]
  IN  {new} \cup {[new EXCEPT !.triple = old.triple, !.ratchet_private = old.ratchet_private],
                  [new EXCEPT !.braid = old.braid]}

\* A session never gets stuck between its parts: in memory, or read from a save of
\* which one half was replaced by that of the save before and that the reader
\* accepts, its next send finds the chain of the epoch the agreement names and the
\* agreement's output follows the ratchet's epoch.
NeverWedged ==
  \A p \in Party : \A img \in Mixtures(p) :
    img.braid.state # Failed /\ session_from_bytes(img) = "ok" =>
      LET ag == AgreementSend(img.braid.state, {}, <<p, img.braid.state.epoch>>)
      IN  SparseRefusal(img.triple.sparse, ag.epoch, ag.output) = "ok"

\* The agreement fails only where the KEM failed, or where no epoch can follow: no
\* crash between a save and the message that waits for it, and no loss, breaks it.
FailsOnlyForCause ==
  (\E p \in Party : session[p].img # None /\ session[p].img.braid.state = Failed) =>
    \/ faults.kem > 0
    \/ \E p \in Party : session[p].img.triple.sparse.epoch = U64_MAX - 1

\* The readers and the scan refuse, as what it is, every image they should.
RefusalsAreRight == SpoiledIsRefused /\ ScanForetellsRefusal

\* Only a failed KEM or the last epoch stops a session.
GoesOn == NeverWedged /\ FailsOnlyForCause
=============================================================================
