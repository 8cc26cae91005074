-------------------------- MODULE ReaderHandshake --------------------------
(***************************************************************************)
(* The responder's side of session establishment in the independent reader *)
(* (pqxdh.py, admission.py), and the derivation its runner makes of whole  *)
(* sessions (session_e2e.py): initiators fetch bundles, wrap their first   *)
(* messages in initial messages and repeat the wrapper; the network        *)
(* delivers wrappers late, twice and altered; the responder opens sessions *)
(* from them, or reads them as repeats, and rotates its keys meanwhile.    *)
(*                                                                         *)
(* A curve key is an agreement class and one of its spellings: every       *)
(* clamped scalar gives the spellings of a class the same output, the      *)
(* class 0 gives none, spelling 0 is the one in the prime-order subgroup   *)
(* and spelling Spellings is not canonical.  A secret is a number, and     *)
(* the class of its public key is that number.  SK is the tuple of what    *)
(* is hashed into it; ML-KEM is external.                                  *)
(***************************************************************************)
EXTENDS Integers, FiniteSets, FiniteSetsExt

CONSTANTS
  Handshakes,            \* handshakes begun, numbered from 1
  Spellings,             \* canonical spellings of a class
  Texts,                 \* bound: messages an initiator wraps
  MAX_LAST_RESORT_SEEN,  \* record entries for each last-resort key
  MaxId                  \* bound: prekey identifiers given out

\* What the constants must be.
HandshakeAssumption ==
  /\ Handshakes \subseteq Nat \ {0} /\ Spellings \in Nat \ {0, 1}
  /\ {Texts, MAX_LAST_RESORT_SEEN, MaxId} \subseteq Nat \ {0}

VARIABLES
  store,      \* the responder's prekey store
  initiator,  \* initiator[h]: the bundle of handshake h and the messages sent on it
  sessions,   \* the responder's sessions
  rotations   \* rotations[h]: signed and KEM rotations since h fetched its bundle

vars == <<store, initiator, sessions, rotations>>

None == -1
NoBundle == [signed |-> 0, one_time |-> 0, kem |-> 0]
ABSENT_ID == 0
NonContributory == {-1}

-----------------------------------------------------------------------------
(* Keys *)

Bob == 1000
Alice(h) == 1000 + h          \* each handshake has an initiator of its own
Ephemeral(h) == 2000 + h
Unrelated == 3000
BobRatchet == 4000            \* the ratchet key the responder draws on opening
OneTimeKem == 4               \* the identifier of the one-time KEM prekey
CurvePrekey(id) == id         \* the secret of the prekey with that identifier

Key(class, spelling) == [class |-> class, spelling |-> spelling]
x25519_public(secret) == Key(secret, 0)
LowOrder == Key(0, 0)

\* The canonical spellings of a key's class: the key and its translates.
torsion_translates(key) == {Key(key.class, s) : s \in 0..(Spellings - 1)}

is_identity_key(key) == key.class # 0 /\ key.spelling = 0

x25519_contributory(secret, key) ==
  IF key.class = 0 THEN NonContributory ELSE {secret, key.class}

\* An encoded key that is not canonical does not decode.
decode_ec(key) == key.spelling < Spellings

-----------------------------------------------------------------------------
(* Agreement *)

shared_secret(dhs, ss) == <<dhs, ss>>

associated_data(ika, ikb) == <<ika, ikb>>

\* DH1 to DH4, DH4 only with a one-time prekey.
initiator_agreements(h, b) ==
  <<x25519_contributory(Alice(h), x25519_public(CurvePrekey(b.signed))),
    x25519_contributory(Ephemeral(h), x25519_public(Bob)),
    x25519_contributory(Ephemeral(h), x25519_public(CurvePrekey(b.signed))),
    IF b.one_time = ABSENT_ID THEN {}
    ELSE x25519_contributory(Ephemeral(h), x25519_public(CurvePrekey(b.one_time)))>>

responder_agreements(m) ==
  <<x25519_contributory(CurvePrekey(m.signed_prekey_id), m.identity),
    x25519_contributory(Bob, m.ephemeral),
    x25519_contributory(CurvePrekey(m.signed_prekey_id), m.ephemeral),
    IF m.one_time_prekey_id = ABSENT_ID THEN {}
    ELSE x25519_contributory(CurvePrekey(m.one_time_prekey_id), m.ephemeral)>>

Contributory(dhs) == \A i \in 1..4 : dhs[i] # NonContributory

\* Decapsulation under another key gives a secret nobody else holds.
Decapsulate(kem_id, ct) == <<kem_id, ct.h, ct.to>>

responder_sk(m) == shared_secret(responder_agreements(m), Decapsulate(m.kem_prekey_id, m.kem_ciphertext))

-----------------------------------------------------------------------------
(* The initiator *)

\* The bundle names the last one-time key of each kind, or the last-resort KEM
\* key and no one-time curve key.
publish(p) ==
  [signed   |-> p.signed,
   one_time |-> IF p.one_time = {} THEN ABSENT_ID ELSE Max(p.one_time),
   kem      |-> IF p.kem_one_time = {} THEN p.kem ELSE Max(p.kem_one_time)]

InitiatorSK(h, b) == shared_secret(initiator_agreements(h, b), <<b.kem, h, b.kem>>)

\* The wrapper around the initiator's message n.
Wrapper(h, n) ==
  LET b == initiator[h].bundle IN
    [identity |-> x25519_public(Alice(h)), ephemeral |-> x25519_public(Ephemeral(h)),
     kem_ciphertext |-> [to |-> b.kem, h |-> h, whole |-> TRUE],
     signed_prekey_id |-> b.signed, one_time_prekey_id |-> b.one_time, kem_prekey_id |-> b.kem,
     ratchet_message |-> [sk |-> InitiatorSK(h, b), n |-> n,
                          ad |-> associated_data(x25519_public(Alice(h)), x25519_public(Bob))]]

Begun == {h \in Handshakes : initiator[h].bundle # NoBundle}

Wrappers == UNION {{Wrapper(h, n) : n \in 0..(initiator[h].sent - 1)} : h \in Begun}

Respelled(m) == {[m EXCEPT !.ephemeral = k] : k \in torsion_translates(m.ephemeral)}

\* What the network makes of a wrapper.
Altered(m) ==
  Respelled(m)
    \union {[m EXCEPT !.ephemeral = k] :
              k \in {LowOrder, x25519_public(Unrelated), Key(m.ephemeral.class, Spellings)}}
    \union {[m EXCEPT !.identity = k] :
              k \in {Key(m.identity.class, 1), Key(m.identity.class, Spellings), LowOrder}
                      \union {x25519_public(Alice(h)) : h \in Handshakes}}
    \union {[m EXCEPT !.kem_ciphertext.whole = FALSE], [m EXCEPT !.one_time_prekey_id = ABSENT_ID],
            [m EXCEPT !.one_time_prekey_id = MaxId], [m EXCEPT !.kem_prekey_id = MaxId],
            [m EXCEPT !.kem_prekey_id = store.kem], [m EXCEPT !.signed_prekey_id = store.signed]}

-----------------------------------------------------------------------------
(* The responder opens a session *)

find_signed_prekey(p, id) == id \in {p.signed, p.previous_signed}

\* Variant: the retired KEM prekey is not looked for.
FindCurrentKem(p, id) == id = p.kem \/ id \in p.kem_one_time

find_kem_prekey(p, id) == id \in {p.kem, p.previous_kem} \union p.kem_one_time

\* Variant: the one-time prekey is looked up before the identity is checked.
PrefixOneTimeFirst(p, m) ==
  IF ~decode_ec(m.identity) \/ ~decode_ec(m.ephemeral) THEN "decode-failure"
  ELSE IF ~find_signed_prekey(p, m.signed_prekey_id) \/ ~find_kem_prekey(p, m.kem_prekey_id) THEN "unknown-prekey"
  ELSE IF m.one_time_prekey_id # ABSENT_ID /\ m.one_time_prekey_id \notin p.one_time THEN "unknown-prekey"
  ELSE IF ~is_identity_key(m.identity) THEN "invalid-identity-key"
  ELSE IF ~m.kem_ciphertext.whole THEN "KemCiphertextRefused"
  ELSE "ok"

responder_prefix(p, m) ==
  IF ~decode_ec(m.identity) \/ ~decode_ec(m.ephemeral) THEN "decode-failure"
  ELSE IF ~find_signed_prekey(p, m.signed_prekey_id) \/ ~find_kem_prekey(p, m.kem_prekey_id) THEN "unknown-prekey"
  ELSE IF ~is_identity_key(m.identity) THEN "invalid-identity-key"
  ELSE IF m.one_time_prekey_id # ABSENT_ID /\ m.one_time_prekey_id \notin p.one_time THEN "unknown-prekey"
  ELSE IF ~m.kem_ciphertext.whole THEN "KemCiphertextRefused"
  ELSE "ok"

on_last_resort_path(p, id) == id \in {p.kem, p.previous_kem}

\* The replay identity, a hash of SK.
last_resort_fingerprint(sk) == <<sk>>

\* Variant: the handshake is known by the bytes of its ephemeral.
CheckByBytes(p, m, sk) ==
  IF ~on_last_resort_path(p, m.kem_prekey_id) THEN "ok"
  ELSE IF m.ephemeral \in {s.established : s \in sessions} THEN "Replayed"
  ELSE IF Cardinality({e \in p.seen : e.kem = m.kem_prekey_id}) >= MAX_LAST_RESORT_SEEN THEN "RecordFull"
  ELSE "ok"

check_last_resort(p, m, sk) ==
  IF ~on_last_resort_path(p, m.kem_prekey_id) THEN "ok"
  ELSE IF last_resort_fingerprint(sk) \in {e.fp : e \in p.seen} THEN "Replayed"
  ELSE IF Cardinality({e \in p.seen : e.kem = m.kem_prekey_id}) >= MAX_LAST_RESORT_SEEN THEN "RecordFull"
  ELSE "ok"

\* Variant: the agreements stay out of the key, which is the KEM's secret alone.
AuthenticatesByKem(m, sk) == m.ratchet_message.sk[2] = sk[2]

\* The ratchet message inside, sealed under SK and both identities.
Authenticates(m, sk) ==
  /\ m.ratchet_message.sk = sk
  /\ m.ratchet_message.ad = associated_data(m.identity, x25519_public(Bob))

Refusal(p, m) ==
  IF responder_prefix(p, m) # "ok" THEN responder_prefix(p, m)
  ELSE IF ~Contributory(responder_agreements(m)) THEN "NonContributory"
  ELSE IF check_last_resort(p, m, responder_sk(m)) # "ok" THEN check_last_resort(p, m, responder_sk(m))
  ELSE IF ~Authenticates(m, responder_sk(m)) THEN "authentication-failure"
  ELSE "ok"

\* The one-time keys are spent, and a last-resort handshake recorded, only once
\* the message inside has authenticated.
Spent(p, m) ==
  [p EXCEPT !.one_time = @ \ {m.one_time_prekey_id},
            !.kem_one_time = @ \ {m.kem_prekey_id},
            !.seen = IF on_last_resort_path(p, m.kem_prekey_id)
                       THEN @ \union {[kem |-> m.kem_prekey_id, fp |-> last_resort_fingerprint(responder_sk(m))]}
                       ELSE @]

session_of(m) ==
  [no |-> Cardinality(sessions), sk |-> responder_sk(m), peer |-> m.identity, established |-> m.ephemeral,
   ad |-> associated_data(m.identity, x25519_public(Bob)), ratchet_private |-> BobRatchet,
   read |-> {m.ratchet_message.n}]

-----------------------------------------------------------------------------
(* The responder reads a wrapper on a session it has *)

\* Variant: the ephemeral is compared byte for byte.
AcceptByBytes(s, m) ==
  IF m.ephemeral # s.established \/ m.identity # s.peer THEN "NotARepeatedInitial" ELSE "ok"

\* Variant: the identity is not compared.
AcceptAnyIdentity(s, m) ==
  LET established == x25519_contributory(s.ratchet_private, s.established)
      incoming    == x25519_contributory(s.ratchet_private, m.ephemeral) IN
    IF established = NonContributory \/ incoming = NonContributory \/ established # incoming
      THEN "NotARepeatedInitial" ELSE "ok"

accept_repeated_initial(s, m) ==
  LET established == x25519_contributory(s.ratchet_private, s.established)
      incoming    == x25519_contributory(s.ratchet_private, m.ephemeral) IN
    IF established = NonContributory \/ incoming = NonContributory THEN "NotARepeatedInitial"
    ELSE IF established # incoming THEN "NotARepeatedInitial"
    ELSE IF m.identity # s.peer THEN "NotARepeatedInitial"
    ELSE "ok"

\* The session's ordinary receive: a message of its own, not read before.
DecryptsInner(s, inner) == inner.sk = s.sk /\ inner.ad = s.ad /\ inner.n \notin s.read

receive_repeated_initial(s, m) ==
  IF ~decode_ec(m.identity) \/ ~decode_ec(m.ephemeral) THEN "decode-failure"
  ELSE IF accept_repeated_initial(s, m) # "ok" THEN accept_repeated_initial(s, m)
  ELSE IF ~DecryptsInner(s, m.ratchet_message) THEN "RatchetError"
  ELSE "ok"

-----------------------------------------------------------------------------
(* Behaviour *)

Init ==
  /\ store \in {[signed |-> 1, previous_signed |-> None, one_time |-> ones, kem |-> 3, previous_kem |-> None,
                 kem_one_time |-> kems, seen |-> {}, next_id |-> 5] : ones \in {{}, {2}}, kems \in {{}, {OneTimeKem}}}
  /\ initiator = [h \in Handshakes |-> [bundle |-> NoBundle, sent |-> 0]]
  /\ sessions = {}
  /\ rotations = [h \in Handshakes |-> [signed |-> 0, kem |-> 0]]

\* Several initiators may hold the same bundle.
Fetch(h) ==
  /\ initiator[h].bundle = NoBundle
  /\ initiator' = [initiator EXCEPT ![h].bundle = publish(store)]
  /\ UNCHANGED <<store, sessions, rotations>>

Send(h) ==
  /\ h \in Begun /\ initiator[h].sent < Texts
  /\ initiator' = [initiator EXCEPT ![h].sent = @ + 1]
  /\ UNCHANGED <<store, sessions, rotations>>

Open(m) ==
  /\ Refusal(store, m) = "ok"
  /\ store' = Spent(store, m)
  /\ sessions' = sessions \union {session_of(m)}
  /\ UNCHANGED <<initiator, rotations>>

Repeat(s, m) ==
  /\ receive_repeated_initial(s, m) = "ok"
  /\ sessions' = (sessions \ {s}) \union {[s EXCEPT !.read = @ \union {m.ratchet_message.n}]}
  /\ UNCHANGED <<store, initiator, rotations>>

Aged(kind) == [h \in Handshakes |-> IF h \in Begun THEN [rotations[h] EXCEPT ![kind] = @ + 1] ELSE rotations[h]]

RotateSigned ==
  /\ store.next_id < MaxId
  /\ store' = [store EXCEPT !.previous_signed = store.signed, !.signed = store.next_id, !.next_id = @ + 1]
  /\ rotations' = Aged("signed")
  /\ UNCHANGED <<initiator, sessions>>

RotateKem ==
  /\ store.next_id < MaxId
  /\ store' = [store EXCEPT !.previous_kem = store.kem, !.kem = store.next_id, !.next_id = @ + 1,
                            !.seen = {e \in @ : e.kem # store.previous_kem}]
  /\ rotations' = Aged("kem")
  /\ UNCHANGED <<initiator, sessions>>

Next ==
  \/ \E h \in Handshakes : Fetch(h) \/ Send(h)
  \/ \E w \in Wrappers : \E m \in Altered(w) : Open(m) \/ \E s \in sessions : Repeat(s, m)
  \/ RotateSigned \/ RotateKem

Spec == Init /\ [][Next]_vars

-----------------------------------------------------------------------------
(* The runner's derivations *)

\* h_initial_message_admission on a vector: a message and the refusal it names,
\* "valid" for the one that opens.
h_initial_message_admission(m, expected) ==
  LET got == responder_prefix(store, m) IN
    IF got # "ok" THEN (IF got = expected THEN "Pass" ELSE "Fail")
    ELSE IF expected = "valid" /\ Contributory(responder_agreements(m)) THEN "Skip" ELSE "Fail"

\* Session vectors, for the session s opened by h's first message: the
\* responder's agreements in every spelling.
e2e_agreements(h) ==
  /\ \A m \in Respelled(Wrapper(h, 0)) : responder_sk(m) = InitiatorSK(h, initiator[h].bundle)
  /\ ~Contributory(responder_agreements([Wrapper(h, 0) EXCEPT !.ephemeral = LowOrder]))

refused(s, m) == receive_repeated_initial(s, m) = "NotARepeatedInitial"
no_plaintext(s, m) == receive_repeated_initial(s, m) = "RatchetError"

\* Wrappers on the session: what is read, what is not a repeat, what was read.
e2e_repeats(h, s) ==
  LET repeat == Wrapper(h, 1)
      low == [repeat EXCEPT !.ephemeral = LowOrder] IN
    /\ refused(s, low)
    /\ no_plaintext(s, Wrapper(h, 0))
    /\ \A m \in Respelled(repeat) : receive_repeated_initial(s, m) = "ok"
    /\ refused(s, [repeat EXCEPT !.ephemeral = x25519_public(Unrelated)])
    /\ \A other \in Handshakes \ {h} : refused(s, [repeat EXCEPT !.identity = x25519_public(Alice(other))])
    /\ refused([s EXCEPT !.established = LowOrder], low)

\* The replay record refuses every spelling, and nothing but the record does.
e2e_last_resort(h, s) ==
  on_last_resort_path(store, Wrapper(h, 0).kem_prekey_id) =>
    \A m \in Respelled(Wrapper(h, 0)) :
      /\ check_last_resort(store, m, responder_sk(m)) = "Replayed"
      /\ check_last_resort([store EXCEPT !.seen = {}], m, responder_sk(m)) = "ok"

-----------------------------------------------------------------------------
(* Properties *)

OfHandshake(h, s) == h \in Begun /\ s.sk = InitiatorSK(h, initiator[h].bundle)

\* Every session is an initiator's, under that initiator's identity, and holds
\* only messages it sent.
SessionsAreInitiators ==
  /\ \A s \in sessions :
       \E h \in Handshakes :
         OfHandshake(h, s) /\ s.peer = x25519_public(Alice(h)) /\ s.read \subseteq 0..(initiator[h].sent - 1)
  /\ store.next_id \in 5..MaxId /\ {e.kem : e \in store.seen} \subseteq {store.kem, store.previous_kem}

\* One handshake opens at most one session, however often, in whichever spelling
\* and around whichever message its wrapper arrives, and whichever keys were
\* rotated in between (check_last_resort, receive_last_resort; the one-time keys).
OneSessionEach ==
  \A s, t \in sessions : s.sk = t.sk => s.no = t.no

\* The derivation of session_e2e.py holds in every state a session that has read
\* only its first message can be in, not only in the two the vectors record.
E2EHolds ==
  \A h \in Begun, s \in sessions :
    OfHandshake(h, s) /\ s.read = {0} => e2e_agreements(h) /\ e2e_repeats(h, s) /\ e2e_last_resort(h, s)

\* A wrapper whose message the session has not read is read in every spelling, and
\* one it has read is not read again, also when a later message opened the session
\* (accept_repeated_initial compares agreement classes).
EverySpellingIsRead ==
  \A h \in Begun, s \in sessions :
    OfHandshake(h, s) =>
      \A n \in 0..(initiator[h].sent - 1) : \A m \in Respelled(Wrapper(h, n)) :
        receive_repeated_initial(s, m) = IF n \in s.read THEN "RatchetError" ELSE "ok"

\* Another session spent one of the one-time keys a bundle named.
Taken(h) ==
  LET b == initiator[h].bundle IN
    \E g \in Begun \ {h} : \E s \in sessions :
      LET c == initiator[g].bundle IN
        OfHandshake(g, s) /\ (\/ c.one_time = b.one_time /\ b.one_time # ABSENT_ID
                              \/ c.kem = b.kem /\ b.kem = OneTimeKem)

\* A bundle opens a session while at most one rotation of each kind came after it,
\* nobody spent its one-time keys and the record of its last-resort key has room:
\* the retired keys are honoured (_find_signed_prekey, _find_kem_prekey).
FreshBundleOpens ==
  \A h \in Begun :
    (/\ \A s \in sessions : ~OfHandshake(h, s)
     /\ rotations[h].signed <= 1 /\ rotations[h].kem <= 1 /\ ~Taken(h)
     /\ Cardinality({s \in sessions : \E g \in Begun : OfHandshake(g, s)
                       /\ initiator[g].bundle.kem = initiator[h].bundle.kem}) < MAX_LAST_RESORT_SEEN)
      => \A n \in 0..(initiator[h].sent - 1) :
           /\ h_initial_message_admission(Wrapper(h, n), "valid") = "Skip"
           /\ \A m \in Respelled(Wrapper(h, n)) : Refusal(store, m) = "ok"

\* Behind an identity that is not an identity key nothing else is reported, once
\* the two prekeys are found: not a spent one-time key, not a short ciphertext
\* (responder_prefix, step 3).
IdentityIsRefusedFirst ==
  \A w \in Wrappers :
    find_signed_prekey(store, w.signed_prekey_id) /\ find_kem_prekey(store, w.kem_prekey_id) =>
      \A k \in {LowOrder, Key(w.identity.class, 1)}, id \in {w.one_time_prekey_id, MaxId}, whole \in BOOLEAN :
        h_initial_message_admission(
          [w EXCEPT !.identity = k, !.one_time_prekey_id = id, !.kem_ciphertext.whole = whole],
          "invalid-identity-key") = "Pass"

\* A responder opens the sessions it should, each once, and reads their repeats.
HandshakesHold ==
  /\ SessionsAreInitiators /\ OneSessionEach /\ E2EHolds
  /\ EverySpellingIsRead /\ FreshBundleOpens /\ IdentityIsRefusedFirst
=============================================================================
