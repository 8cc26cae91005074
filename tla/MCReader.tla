------------------------------ MODULE MCReader ------------------------------
(***************************************************************************)
(* The second implementation, its vectors and its wire formats, for TLC.   *)
(* Its parts share no state.  A behaviour is about one of them; the        *)
(* variables of the others are Nil throughout.                             *)
(***************************************************************************)
EXTENDS InventoryGenerator

CONSTANTS
  Nil,
  \* the identity vectors
  Keys, NonCanonical, CurveIdentityKeys, CurveLowOrder, Cases,
  \* the verifiers
  t1, t2,
  \* the wire formats
  P, AG_TYPES, EK_LEN, Cells, Sent, MaxChanges,
  \* the protobuf profile
  Base, TagBase, PB_MAX_VARINT_BYTES, PB_MAX_U32, PB_MAX_FIELD_NUMBER, PB_MAX_MESSAGE_LEN, PB_MAX_FIELDS,
  MaxRegion,
  \* the handshake
  Handshakes, Spellings, Texts, MAX_LAST_RESORT_SEEN, MaxId,
  \* the operation traces
  U32_MAX, Owner, Stranger, Hs, Numbers, FirstCounts, MaxSent, ReadAgain, CrossCeiling

VARIABLES
  table, added, model, published,
  issued, stored, thread, accepted, last,
  bytes, changes,
  region,
  store, initiators, sessions, rotations,
  libraryStore, mail, session, state, problems

-----------------------------------------------------------------------------
(* The inventory vectors *)

\* An input with one cell changed, cut anywhere, or with one more.
Edits(d) ==
  {[d EXCEPT ![i] = v] : i \in DOMAIN d, v \in {0, 1, 2, 5, 98}} \union {SubSeq(d, 1, n) : n \in 0..Len(d)}
    \union {Append(d, v) : v \in {0, 1}}
    \union {SubSeq(d, 1, i - 1) \o SubSeq(d, i + 1, Len(d)) : i \in DOMAIN d}

MCIdentityKeys == 20..60

Bases == {Raw, Encode(Plain), Encode(alice(<<B(1, 21)>>, 2, 0, <<R(B(1, 22), 2)>>))}
Twice == UNION {Edits(d) : d \in Edits(Encode(alice(<<B(1, 21)>>, 2, 0, <<>>)))}

Policies == {base_policy, Refusing(base_policy, 22, "active"), Refusing(base_policy, 22, "revoked"),
             RefuseStatement(base_policy), RefuseEvery}

MCOffered ==
  {Case("refusal", d) : d \in Twice \union UNION {Edits(d) : d \in Bases}}
    \union {Case("statement", s) : s \in {alice(a, g, f, r) :
              a \in {<<>>, <<B(1, 21)>>, <<B(2, 22), B(1, 21)>>, <<B(1, 0), B(1, 0)>>}, g \in 1..3, f \in 0..2,
              r \in {<<>>, <<R(B(1, 21), 2)>>, <<R(B(2, 23), 2), R(B(1, 24), 1)>>}}}
    \union {Accepts(sign_body(k, d), e, Alice, p) :
              k \in {ALICE_KEY, BOB_KEY}, d \in UNION {Edits(d) : d \in Bases},
              e \in {None, "freshness"}, p \in Policies}

-----------------------------------------------------------------------------
(* The identity vectors *)

Identity ==
  INSTANCE IdentityGenerator WITH
    new <- added, Offered <- Cases, IdentityKeys <- CurveIdentityKeys, LowOrder <- CurveLowOrder, None <- Nil

\* The same, to write its cases with.
Author ==
  INSTANCE IdentityGenerator WITH
    new <- added, Offered <- {}, IdentityKeys <- CurveIdentityKeys, LowOrder <- CurveLowOrder, None <- Nil

MCKeys == {"K", "KP", "KPP", "KOLD", "KD", "K_T", "U0", "U1", "U2", "PM1", "O8A", "O8B", "P", "K255", "K+P",
           "KD255", "SPK", "OPK"}

Altered(b) ==
  {b, [b EXCEPT !.signer = "KD"], [b EXCEPT !.spk_ok = FALSE], [b EXCEPT !.kem_ok = FALSE], [b EXCEPT !.spk = "U0"],
   [b EXCEPT !.spk = "P"], [b EXCEPT !.opk = "O8A"], [b EXCEPT !.opk = "P"], [b EXCEPT !.opk = Nil],
   [b EXCEPT !.has_id = FALSE], [b EXCEPT !.opk = Nil, !.has_id = FALSE], [b EXCEPT !.ek = "short"],
   [b EXCEPT !.ek = "unencodable"]}

MCBundles == UNION {UNION {Altered(c) : c \in Altered(Author!bundle(ik, ik))} : ik \in {"K", "KPP", "K_T", "K255"}}

Rec(current, retired) == Author!Record(current, retired)

MCRecords ==
  {<<Rec({"K"}, {})>>, <<Rec({"K"}, {"KPP"})>>, <<Rec({"K"}, {}), Rec({"K"}, {})>>,
   <<Rec({"K"}, {}), Rec({"KD"}, {"K"})>>, <<Author!EmptyRecord, Rec({"K", "P"}, {})>>, <<Rec({"K"}, {"K"})>>}

\* A case the author offers, the intent being what the script answers, or a session.
MCCases ==
  UNION {{[Author!Case(e, rs, b, i) EXCEPT !.raw = r] :
            i \in {Author!initiator(e, rs, b)[1], "session"}, r \in BOOLEAN} :
         <<e, rs, b>> \in {Author!K1, Author!FirstContact} \X MCRecords \X MCBundles}

identityVars == <<table, added, model, published>>
NoIdentity == table = Nil /\ added = Nil /\ model = Nil /\ published = Nil

-----------------------------------------------------------------------------
(* The verifiers *)

MCAlice == <<1>>
MCBob == <<2>>

\* Issuer 7 serves both accounts under one key, issuer 8 serves Bob alone.
MCBound == <<[id |-> 7, account |-> AnyAccount, key |-> 5], [id |-> 8, account |-> MCBob, key |-> 6]>>

D(device, key) == DeviceBinding(device, key)

MCStatements ==
  { Statement(7, MCAlice, 1, <<D(1, 2)>>, 0, <<>>),
    Statement(7, MCAlice, 2, <<D(1, 3)>>, 0, <<Revocation(D(1, 2), 2)>>),
    Statement(7, MCBob, 1, <<D(1, 2), D(2, 3)>>, 1, <<>>),
    Statement(8, MCBob, 2, <<D(2, 3)>>, 0, <<>>),
    Statement(8, MCAlice, 2, <<D(2, 3)>>, 0, <<>>),
    \* what an issuer must not sign
    Statement(7, MCAlice, 3, <<D(1, 2), D(1, 3)>>, 0, <<>>),
    Statement(7, MCAlice, 3, <<D(2, 4)>>, 0, <<>>),
    Statement(7, MCAlice, 3, <<D(2, 2), D(1, 3)>>, 0, <<>>) }

Verifiers ==
  INSTANCE InventoryVerifiers WITH
    Threads <- {t1, t2}, Accounts <- {MCAlice, MCBob}, Bound <- MCBound, Secrets <- {5, 6},
    Offered <- MCStatements, MAX_ACCOUNT_BYTES <- 2, MAX_ACTIVE_BINDINGS <- 2, MAX_RECENT_REVOCATIONS <- 2,
    IdentityKeys <- {2, 3}, MaxIssued <- 2

verifierVars == <<issued, stored, thread, accepted, last>>
NoVerifiers == issued = Nil /\ stored = Nil /\ thread = Nil /\ accepted = Nil /\ last = Nil

-----------------------------------------------------------------------------
(* Bytes: the wire formats and the protobuf profile *)

WireBytes ==
  INSTANCE WireFormats WITH
    edits <- changes, MaxEdits <- MaxChanges, Ads <- {<<>>, <<1>>, <<1, 1>>, <<2>>}

MCMissing == -1   \* an absent field

Header(dh, type, codeword) ==
  [dh |-> dh, pn |-> 0, n |-> 1, pq_epoch |-> 0, pq_n |-> 1, ag_epoch |-> 1, ag_type |-> type, codeword |-> codeword]
Initial(ct, rest) ==
  [identity |-> 1, ephemeral |-> 2, kem_ciphertext |-> ct, signed_prekey_id |-> 1, one_time_prekey_id |-> 0,
   kem_prekey_id |-> 2, ratchet_message |-> rest]
Bundle(opk, id) ==
  [identity_key |-> 1, signed_prekey |-> 2, spk_sig |-> 3, kem_prekey |-> <<1, 2>>, kem_sig |-> 3,
   one_time_prekey |-> opk, signed_prekey_id |-> 1, one_time_prekey_id |-> id, kem_prekey_id |-> 2]

MCSent ==
  {[kind |-> "header", of |-> Header(1, 1, c)] : c \in {MCMissing, 0, 2}}
    \union {[kind |-> "message", of |-> [header |-> Header(1, 2, 1), ciphertext |-> ct]] : ct \in {<<>>, <<1, 2>>}}
    \union {[kind |-> "initial", of |-> Initial(ct, rest)] : ct \in {<<>>, <<1, 2>>}, rest \in {<<>>, <<1, 1, 1>>}}
    \union {[kind |-> "bundle", of |-> Bundle(opk, id)] : opk \in {MCMissing, 0, 2}, id \in {0, 3}}

\* A required integer and optional bytes; field 2's tag takes two bytes.
Protobuf ==
  INSTANCE ProtobufProfile WITH
    MessageType <- <<[wire |-> 0, required |-> TRUE], [wire |-> 2, required |-> FALSE]>>

byteVars == <<bytes, changes, region>>
NoWire == bytes = Nil /\ changes = Nil
NoBytes == NoWire /\ region = Nil

-----------------------------------------------------------------------------
(* The handshake and the operation traces *)

Handshake == INSTANCE ReaderHandshake WITH initiator <- initiators

handshakeVars == <<store, initiators, sessions, rotations>>
NoHandshake == store = Nil /\ initiators = Nil /\ sessions = Nil /\ rotations = Nil

Traces ==
  INSTANCE OperationReader WITH
    store <- libraryStore, None <- Nil, MAX_LAST_RESORT_SEEN <- 1

traceVars == <<libraryStore, mail, session, state, problems>>
NoTraces == libraryStore = Nil /\ mail = Nil /\ session = Nil /\ state = Nil /\ problems = Nil

-----------------------------------------------------------------------------
ASSUME Identity!KeyKinds
ASSUME Verifiers!VerifiersAssumption
ASSUME WireBytes!WireAssumption /\ Protobuf!ProfileAssumption
ASSUME Handshake!HandshakeAssumption

NoInventory == corpus = Nil /\ new = Nil /\ built = Nil

MCInit ==
  \/ Init /\ NoIdentity /\ NoVerifiers /\ NoBytes /\ NoHandshake /\ NoTraces
  \/ Identity!Init /\ NoInventory /\ NoVerifiers /\ NoBytes /\ NoHandshake /\ NoTraces
  \/ Verifiers!Init /\ NoInventory /\ NoIdentity /\ NoBytes /\ NoHandshake /\ NoTraces
  \/ WireBytes!Init /\ region = Nil /\ NoInventory /\ NoIdentity /\ NoVerifiers /\ NoHandshake /\ NoTraces
  \/ Protobuf!Init /\ NoWire /\ NoInventory /\ NoIdentity /\ NoVerifiers /\ NoHandshake /\ NoTraces
  \/ Handshake!Init /\ NoInventory /\ NoIdentity /\ NoVerifiers /\ NoBytes /\ NoTraces
  \/ Traces!Init /\ NoInventory /\ NoIdentity /\ NoVerifiers /\ NoBytes /\ NoHandshake

MCNext ==
  \/ /\ new # Nil /\ Next
     /\ UNCHANGED <<identityVars, verifierVars, byteVars, handshakeVars, traceVars>>
  \/ /\ added # Nil /\ Identity!Next
     /\ UNCHANGED <<vars, verifierVars, byteVars, handshakeVars, traceVars>>
  \/ /\ issued # Nil /\ Verifiers!Next
     /\ UNCHANGED <<vars, identityVars, byteVars, handshakeVars, traceVars>>
  \/ /\ bytes # Nil /\ WireBytes!Next
     /\ UNCHANGED <<region, vars, identityVars, verifierVars, handshakeVars, traceVars>>
  \/ /\ region # Nil /\ Protobuf!Next
     /\ UNCHANGED <<bytes, changes, vars, identityVars, verifierVars, handshakeVars, traceVars>>
  \/ /\ store # Nil /\ Handshake!Next
     /\ UNCHANGED <<vars, identityVars, verifierVars, byteVars, traceVars>>
  \/ /\ libraryStore # Nil /\ Traces!Next
     /\ UNCHANGED <<vars, identityVars, verifierVars, byteVars, handshakeVars>>

MCSpec == MCInit /\ [][MCNext]_<<vars, identityVars, verifierVars, byteVars, handshakeVars, traceVars>>

\* Two readings of the inventory pages agree on every changed statement, and a vector
\* that is written passes the reader (generate-inventory-vectors.py, inventory.py).
InventoryVectorsHold == new # Nil => CorpusHoldsUp

\* Two readings of the identity pages agree on every bundle, and a vector that is written
\* passes the reader (generate-identity-vectors.py, admission.py).
IdentityVectorsHold == added # Nil => Identity!VectorsHold

\* Verifying threads accept what an issuer signed for the account, newest last, and
\* refuse nothing an issuer signs by its duty (inventory.py).
VerifiersHold == issued # Nil => Verifiers!VerifiersHold

\* Bytes are read as one thing, the thing that was written, or refused (wire.py,
\* protobuf.py).
BytesAreTheValue ==
  /\ bytes # Nil => WireBytes!BytesAreTheValue
  /\ region # Nil => Protobuf!RegionIsItsFields

\* A responder opens a session for every handshake it should, once, whichever spelling
\* its messages come in, and refuses in the order the pages give (pqxdh.py, session_e2e.py).
HandshakesHold == store # Nil => Handshake!HandshakesHold

=============================================================================
