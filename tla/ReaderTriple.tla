---------------------------- MODULE ReaderTriple ----------------------------
(***************************************************************************)
(* Two parties of the specification-only reader in one Triple Ratchet      *)
(* session (reader/tacenta_reader/triple.py): the classical ratchet and    *)
(* the sparse ratchet side by side, the agreement that feeds the sparse    *)
(* one, the commit rules, and the eviction that alternates between two     *)
(* full stores.                                                            *)
(*                                                                         *)
(* The network loses, delays, duplicates, reorders and alters messages.    *)
(* Around the session stands the storage layer the library asks its        *)
(* callers for: a message leaves, and a received one counts, only when     *)
(* the session that produced it is on disk; a crash at any point loses     *)
(* what is not.                                                            *)
(***************************************************************************)
EXTENDS Integers, FiniteSets, Sequences

CONSTANTS
  MAX_SKIP, MAX_SKIPPED_STORE, MAX_SKIPPED_AGE, U32_MAX, EPOCHS_KEPT, U64_MAX, None,
  Initiator, Responder,
  Trigger,      \* the send that completes the agreement's epoch 1
  LowOrder,     \* a public key whose agreements are all zero
  InitiatorSends, ResponderSends,   \* bound: messages each party encrypts
  MaxUnsaved,   \* bound: messages sealed or opened since a party's last save
  MaxCrashes    \* bound: crashes of both parties together

ASSUME Initiator # Responder /\ MaxUnsaved \in Nat \ {0} /\ MaxCrashes \in Nat

VARIABLES
  session,    \* session[p]: what p holds in memory
  disk,       \* disk[p]: what p saved last
  sent,       \* sent[p]: the messages that left p; each may arrive any number of times
  drawn,      \* drawn[p]: key pairs p has drawn; randomness is not wound back by a crash
  bodies,     \* bodies[p]: plaintexts p has encrypted, ever
  crashes

vars == <<session, disk, sent, drawn, bodies, crashes>>

Party == {Initiator, Responder}

Peer(p) == IF p = Initiator THEN Responder ELSE Initiator

R == INSTANCE ReaderRatchet

S == INSTANCE ReaderSparse

-----------------------------------------------------------------------------
(* The boundaries *)

\* x25519, symbolically: the set of the two key pairs, or the all-zero output.
x25519(a, b) == IF b = LowOrder THEN {} ELSE {a, b}

\* ScriptedAgreement: state [epoch, sends].  The Trigger-th send of a party still in
\* epoch 0 yields the secret of epoch 1, is sent on epoch 0 and marked ag_epoch 1;
\* a message marked with the next epoch yields the same secret to its receiver.
AgreementSend(ag) ==
  IF ag.epoch = 0 /\ ag.sends + 1 = Trigger
    THEN [state |-> [epoch |-> 1, sends |-> ag.sends + 1], ag_epoch |-> 1, epoch |-> 0,
          out |-> [key_epoch |-> 1, key |-> 1]]
    ELSE [state |-> [ag EXCEPT !.sends = @ + 1], ag_epoch |-> ag.epoch, epoch |-> ag.epoch, out |-> None]

AgreementReceive(ag, hdr) ==
  IF hdr.ag_epoch = ag.epoch + 1
    THEN [state |-> [ag EXCEPT !.epoch = @ + 1], out |-> [key_epoch |-> ag.epoch + 1, key |-> ag.epoch + 1]]
    ELSE [state |-> ag, out |-> None]

\* combine: a message key is the pair of both halves' keys.
combine(mk_ec, mk_pq) == <<mk_ec, mk_pq>>

\* A message opens under its key if its header is the one it was sealed with.
Opens(m, key) == m.key = key /\ m.ad = m.hdr

-----------------------------------------------------------------------------
(* A party: the two halves, the private key beside them, the agreement *)

init_initiator(sk, fresh, peer_signed_prekey) ==
  [classical |-> R!init_initiator(sk, fresh, peer_signed_prekey, x25519(fresh, peer_signed_prekey)),
   sparse |-> S!init(sk, "A2b"), ratchet_private |-> fresh, agreement |-> [epoch |-> 0, sends |-> 0]]

init_responder(sk, signed_prekey) ==
  [classical |-> R!init_responder(sk, signed_prekey),
   sparse |-> S!init(sk, "B2a"), ratchet_private |-> signed_prekey, agreement |-> [epoch |-> 0, sends |-> 0]]

Refused(r) == [ok |-> FALSE, err |-> r.err, shortfall |-> r.shortfall]

\* Variant: the classical half of the copy is not adopted.
EncryptWithoutClassical(party, body) ==
  LET ag  == AgreementSend(party.agreement)
      c   == R!send(party.classical)
      s   == S!send(party.sparse, ag.epoch, ag.out)
      hd  == R!Header(party.classical)
      hdr == [dh |-> hd.dh, pn |-> hd.pn, n |-> hd.n, pq_epoch |-> ag.epoch,
              pq_n |-> s.state.chains[ag.epoch].send.n, ag_epoch |-> ag.ag_epoch]
  IN  IF ~c.ok THEN Refused(c)
      ELSE IF ~s.ok THEN Refused(s)
      ELSE [ok |-> TRUE, party |-> [party EXCEPT !.sparse = s.state, !.agreement = ag.state],
            message |-> [hdr |-> hdr, ad |-> hdr, key |-> combine(c.key, s.key), body |-> body]]

\* encrypt: the agreement, then the classical half, then the sparse half, on
\* copies that replace the party only when both halves produced a key.
encrypt(party, body) ==
  LET ag  == AgreementSend(party.agreement)
      c   == R!send(party.classical)
      s   == S!send(party.sparse, ag.epoch, ag.out)
      hd  == R!Header(party.classical)
      hdr == [dh |-> hd.dh, pn |-> hd.pn, n |-> hd.n, pq_epoch |-> ag.epoch,
              pq_n |-> s.state.chains[ag.epoch].send.n, ag_epoch |-> ag.ag_epoch]
  IN  IF ~c.ok THEN Refused(c)
      ELSE IF ~s.ok THEN Refused(s)
      ELSE [ok |-> TRUE,
            party |-> [party EXCEPT !.classical = c.state, !.sparse = s.state, !.agreement = ag.state],
            message |-> [hdr |-> hdr, ad |-> hdr, key |-> combine(c.key, s.key), body |-> body]]

\* Variants: the candidate is adopted only if it took a ratchet step; and whether or
\* not the tag verifies.
DecryptNotAdopted(party, m, fresh) ==
  LET ag == AgreementReceive(party.agreement, m.hdr)
      c  == R!receive(party.classical, m.hdr, <<x25519(party.ratchet_private, m.hdr.dh), fresh,
                                                 x25519(fresh, m.hdr.dh)>>)
      s  == S!receive(party.sparse, m.hdr.pq_epoch, m.hdr.pq_n, ag.out)
  IN  IF ~c.ok THEN Refused(c)
      ELSE IF ~s.ok THEN Refused(s)
      ELSE IF ~Opens(m, combine(c.key, s.key)) THEN [ok |-> FALSE, err |-> "BadTag", shortfall |-> 0]
      ELSE [ok |-> TRUE, stepped |-> c.stepped,
            party |-> IF ~c.stepped THEN party ELSE
                      [classical |-> c.state, sparse |-> s.state, agreement |-> ag.state,
                       ratchet_private |-> fresh]]

DecryptUnchecked(party, m, fresh) ==
  LET ag == AgreementReceive(party.agreement, m.hdr)
      c  == R!receive(party.classical, m.hdr, <<x25519(party.ratchet_private, m.hdr.dh), fresh,
                                                 x25519(fresh, m.hdr.dh)>>)
      s  == S!receive(party.sparse, m.hdr.pq_epoch, m.hdr.pq_n, ag.out)
  IN  IF ~c.ok THEN Refused(c)
      ELSE IF ~s.ok THEN Refused(s)
      ELSE [ok |-> TRUE, stepped |-> c.stepped,
            party |-> [classical |-> c.state, sparse |-> s.state, agreement |-> ag.state,
                       ratchet_private |-> IF c.stepped THEN fresh ELSE party.ratchet_private]]

\* decrypt: the contributory check before either ratchet, then the agreement, the
\* classical half, the sparse half, and the tag; the fresh key is kept if used.
Adopted(party, m, fresh, ag, c, s) ==
  IF ~c.ok THEN Refused([c EXCEPT !.err = IF @ = "SkippedStoreFull" THEN "ClassicalFull" ELSE @])
  ELSE IF ~s.ok THEN Refused([s EXCEPT !.err = IF @ = "SkippedStoreFull" THEN "SparseFull" ELSE @])
  ELSE IF ~Opens(m, combine(c.key, s.key)) THEN [ok |-> FALSE, err |-> "BadTag", shortfall |-> 0]
  ELSE [ok |-> TRUE, stepped |-> c.stepped,
        party |-> [classical |-> c.state, sparse |-> s.state, agreement |-> ag.state,
                   ratchet_private |-> IF c.stepped THEN fresh ELSE party.ratchet_private]]

decrypt(party, m, fresh) ==
  LET dh_current == x25519(party.ratchet_private, m.hdr.dh)
      dh_fresh   == x25519(fresh, m.hdr.dh)
      ag == AgreementReceive(party.agreement, m.hdr)
  IN  IF {} \in {dh_current, dh_fresh} THEN [ok |-> FALSE, err |-> "NonContributory", shortfall |-> 0]
      ELSE Adopted(party, m, fresh, ag,
                   R!receive(party.classical, m.hdr, <<dh_current, fresh, dh_fresh>>),
                   S!receive(party.sparse, m.hdr.pq_epoch, m.hdr.pq_n, ag.out))

AtLeastDouble(shortfall, last) == IF shortfall > 2 * last THEN shortfall ELSE 2 * last

\* decrypt_with_eviction: while a full store is the only refusal, evict from that
\* store of the working copy, by the shortfall or twice the last batch, and retry.
RECURSIVE Retry(_, _, _, _, _, _)
Retry(working, m, fresh, lastClassical, lastSparse, r) ==
  LET bc == AtLeastDouble(r.shortfall, lastClassical)
      bs == AtLeastDouble(r.shortfall, lastSparse)
      c == [working EXCEPT !.classical = R!evict(@, bc)]
      s == [working EXCEPT !.sparse = S!evict(@, bs)]
  IN  IF ~r.ok /\ r.err = "ClassicalFull" /\ working.classical.skipped # {}
        THEN Retry(c, m, fresh, bc, lastSparse, decrypt(c, m, fresh))
      ELSE IF ~r.ok /\ r.err = "SparseFull" /\ working.sparse.skipped # {}
        THEN Retry(s, m, fresh, lastClassical, bs, decrypt(s, m, fresh))
      ELSE r

\* Variants: a full store refuses; the batch of one store is taken for the other's.
WithoutEviction(party, m, fresh) == decrypt(party, m, fresh)

OneBatchForBoth(party, m, fresh) == Retry(party, m, fresh, 1, 1, decrypt(party, m, fresh))

decrypt_with_eviction(party, m, fresh) == Retry(party, m, fresh, 0, 0, decrypt(party, m, fresh))

-----------------------------------------------------------------------------
(* The session and its storage *)

Init ==
  LET a == <<Initiator, 0>>
      b == <<Responder, 0>>
      Fresh(pt) == [party |-> pt, outbox |-> {}, accepted |-> {}, dropped |-> {}]
  IN  /\ session = [p \in Party |-> Fresh(IF p = Initiator THEN init_initiator(<< >>, a, b)
                                                           ELSE init_responder(<< >>, b))]
      /\ disk = session
      /\ sent = [p \in Party |-> {}]
      /\ drawn = [p \in Party |-> 0]
      /\ bodies = [p \in Party |-> 0]
      /\ crashes = 0

Unsaved(p) ==
  Cardinality(session[p].outbox) + Cardinality(session[p].accepted \ disk[p].accepted)

\* The message is encrypted and waits until the session is saved.
Encrypt(p) ==
  LET r == encrypt(session[p].party, bodies[p]) IN
    /\ bodies[p] < IF p = Initiator THEN InitiatorSends ELSE ResponderSends
    /\ Unsaved(p) < MaxUnsaved
    /\ r.ok
    /\ session' = [session EXCEPT ![p].party = r.party, ![p].outbox = @ \cup {r.message}]
    /\ bodies' = [bodies EXCEPT ![p] = @ + 1]
    /\ UNCHANGED <<disk, sent, drawn, crashes>>

\* Variant: the message leaves before the session is saved.
TransmitFirst(p) ==
  /\ session[p].outbox # {}
  /\ sent' = [sent EXCEPT ![p] = @ \cup session[p].outbox]
  /\ session' = [session EXCEPT ![p].outbox = {}]
  /\ UNCHANGED <<disk, drawn, bodies, crashes>>

\* Session::export and its caller: persist, then transmit and acknowledge.
Persist(p) ==
  /\ session[p] # disk[p]
  /\ sent' = [sent EXCEPT ![p] = @ \cup session[p].outbox]
  /\ session' = [session EXCEPT ![p].outbox = {}]
  /\ disk' = [disk EXCEPT ![p] = session'[p]]
  /\ UNCHANGED <<drawn, bodies, crashes>>

FreshKey(p) == <<p, drawn[p] + 1>>

Result(p, m) == decrypt_with_eviction(session[p].party, m, FreshKey(p))

\* The message keys a store of `old` held that `new` has not: used, expired,
\* retired or evicted.
Lost(old, new) == {e.key : e \in old.skipped} \ {e.key : e \in new.skipped}

Decrypt(p, m) ==
  LET old == session[p].party
  IN  \E r \in {Result(p, m)} :
      /\ r.ok
      /\ Unsaved(p) < MaxUnsaved
      /\ session' = [session EXCEPT
           ![p].party = r.party,
           ![p].accepted = @ \cup {m},
           ![p].dropped = @ \cup ((Lost(old.classical, r.party.classical)
                                     \cup Lost(old.sparse, r.party.sparse)) \ {m.key[1], m.key[2]})]
      /\ drawn' = [drawn EXCEPT ![p] = IF r.stepped THEN @ + 1 ELSE @]
      /\ UNCHANGED <<disk, sent, bodies, crashes>>

\* A refusal: the candidate, what was evicted from it too, is thrown away.
Refuse(p, m) == ~Result(p, m).ok /\ UNCHANGED vars

Crash(p) ==
  /\ crashes < MaxCrashes
  /\ session[p] # disk[p]
  /\ session' = [session EXCEPT ![p] = disk[p]]
  /\ crashes' = crashes + 1
  /\ UNCHANGED <<disk, sent, drawn, bodies>>

\* On the way a header comes before a ciphertext that was sealed with another, its
\* number is changed, or its ratchet key is one that contributes nothing.
Altered(m) ==
  {[m EXCEPT !.ad = None],
   [m EXCEPT !.hdr.n = @ + 1], [m EXCEPT !.hdr.pq_n = @ + 1], [m EXCEPT !.hdr.dh = LowOrder]}

Receive(p) ==
  \E m \in sent[Peer(p)] : \E x \in {m} \cup Altered(m) : Decrypt(p, x) \/ Refuse(p, x)

Next == \E p \in Party : Encrypt(p) \/ Persist(p) \/ Receive(p) \/ Crash(p)

Spec == Init /\ [][Next]_vars

-----------------------------------------------------------------------------
(* Properties *)

\* No two messages that left a party share a message key, in the combination or in
\* either half, or a name a receiver finds the key by: not even when the party
\* crashed between encrypting one and the other.
NoKeyReuse ==
  \A p, q \in Party : \A m \in sent[p], x \in sent[q] :
    \/ p = q /\ m = x
    \/ /\ m.key[1] # x.key[1] /\ m.key[2] # x.key[2]
       /\ <<m.hdr.dh, m.hdr.n>> # <<x.hdr.dh, x.hdr.n>>
       /\ p = q => <<m.hdr.pq_epoch, m.hdr.pq_n>> # <<x.hdr.pq_epoch, x.hdr.pq_n>>

\* A message that was decrypted does not decrypt again, and one that was
\* decrypted and saved does not decrypt after a crash either.
NoReplay ==
  \A p \in Party :
    /\ \A m \in session[p].accepted : ~Result(p, m).ok
    /\ disk[p].accepted \subseteq session[p].accepted

\* A message key is used once by the party that seals with it and once by the one
\* that opens with it, crashes included (Session.encrypt, Session.decrypt).
UsedOnce == NoKeyReuse /\ NoReplay

\* One receive may skip at most MAX_SKIP keys on a chain.
TooFarAhead(p, m) ==
  LET c  == session[p].party.classical
      ch == session[p].party.sparse.chains
      at == IF m.hdr.pq_epoch \in DOMAIN ch THEN ch[m.hdr.pq_epoch].receive.n ELSE 0
  IN  \/ m.hdr.pq_n - 1 - at > MAX_SKIP
      \/ IF m.hdr.dh = c.dhr THEN m.hdr.n - c.nr > MAX_SKIP
         ELSE m.hdr.n > MAX_SKIP \/ (c.ckr # None /\ m.hdr.pn - c.nr > MAX_SKIP)

\* A genuine message that was not decrypted yet decrypts whenever it arrives,
\* unless one of its two keys was stored and lost, or it is too far ahead: a full
\* store on either side, or on both at once, never closes the receive direction,
\* and no altered message or crash costs a genuine one its key.
GenuineDecrypts ==
  \A p \in Party : \A m \in sent[Peer(p)] \ session[p].accepted :
    {m.key[1], m.key[2]} \cap session[p].dropped = {} /\ ~TooFarAhead(p, m)
      => Result(p, m).ok

\* The keys a step of p evicts from its sparse and its classical store.
EvictedSparse(p) ==
  LET new == session'[p].party.sparse IN
    {e \in session[p].party.sparse.skipped :
       e \notin new.skipped /\ e.epoch \in DOMAIN new.chains
         /\ \A m \in session'[p].accepted \ session[p].accepted : m.key[2] # e.key}

EvictedClassical(p) ==
  LET new == session'[p].party.classical IN
    {e \in session[p].party.classical.skipped :
       e \notin new.skipped /\ new.events - e.stored_at < MAX_SKIPPED_AGE
         /\ \A m \in session'[p].accepted \ session[p].accepted : m.key[1] # e.key}

\* Each store gives up only what the message needs of it: after a receive that
\* evicted from a store, and took no ratchet step, that store is full, whatever
\* the other store needed.
EvictionIsExact ==
  [][\A p \in Party :
       session'[p].accepted \ session[p].accepted # {} =>
       LET old == session[p].party
           new == session'[p].party
       IN  /\ EvictedSparse(p) # {} => Cardinality(new.sparse.skipped) = MAX_SKIPPED_STORE
           /\ EvictedClassical(p) # {} /\ old.classical.dhr = new.classical.dhr =>
                Cardinality(new.classical.skipped) = MAX_SKIPPED_STORE]_vars
=============================================================================
