--------------------------- MODULE DoubleRatchet ---------------------------
(***************************************************************************)
(* Two parties that run the Double Ratchet over a network that loses,      *)
(* delays, duplicates, reorders and alters messages.  The ratchet is       *)
(* module Ratchet; what this module adds is the way the session drives it  *)
(* (tacenta-core/lifecycle, Session::encrypt and decrypt_ratchet):         *)
(*   - the Diffie-Hellman private key beside the state, and the fresh key  *)
(*     drawn for every receive and kept only if a ratchet step used it;    *)
(*   - a receive that runs on a copy, which replaces the state only when   *)
(*     the message authenticates;                                          *)
(*   - eviction from the copy when the skipped-key store is full.          *)
(***************************************************************************)
EXTENDS Ratchet

CONSTANTS
  Initiator, Responder,
  MaxSent,            \* bound: messages the initiator sends
  MaxReplies          \* bound: messages the responder sends

ASSUME PartyAssumption ==
  /\ Initiator # Responder
  /\ MaxSent \in Nat /\ MaxReplies \in Nat

VARIABLES
  state,            \* state[p]: the ratchet state of party p
  ratchet_private,  \* ratchet_private[p]: the key pair p agrees with
  sent,             \* sent[p]: the messages p has sent; any of them may be
                    \* delivered at any time, any number of times, or never
  accepted,         \* accepted[p]: the messages p has decrypted
  dropped           \* dropped[p]: message keys p deleted unused

vars == <<state, ratchet_private, sent, accepted, dropped>>

Party == {Initiator, Responder}

Peer(p) == IF p = Initiator THEN Responder ELSE Initiator

-----------------------------------------------------------------------------
(* Types *)

KeyPair == Party \X Nat

Root == Seq(SUBSET KeyPair)

ChainKey == [root : Root, step : Nat]

Entry == [dh : KeyPair, n : U32, stored_at : U32, key : ChainKey, pos : Nat]

Header == [dh : KeyPair, pn : U32, n : U32]

Message == [hdr : Header, ad : Header, key : ChainKey]

RatchetState ==
  [dhs_pub : KeyPair, dhr_pub : KeyPair \cup {None}, rk : Root,
   cks : ChainKey \cup {None}, ckr : ChainKey \cup {None},
   ns : U32, nr : U32, pn : U32, skipped : SUBSET Entry, events : U32, pushed : Nat]

ASSUME NoneAssumption == None \notin ChainKey /\ None \notin KeyPair

-----------------------------------------------------------------------------
(* The Diffie-Hellman boundary.  A key pair is named by its owner and a     *)
(* count, and an agreement is the set of the two key pairs.                 *)

DH(a, b) == {a, b}

\* random_secret: a key pair not used before.
FreshKey(p) == <<p, ratchet_private[p][2] + 1>>

-----------------------------------------------------------------------------
(* The authenticated cipher.  A message is sealed under a message key with  *)
(* its header as associated data; it opens only under both.                 *)

Seal(header, key) == [hdr |-> header, ad |-> header, key |-> key]

Opens(m, key) == m.key = key /\ m.ad = m.hdr

-----------------------------------------------------------------------------
(* Receiving into a full store *)

\* Variant: one key more than the header implies.
ShortfallAndOne(st, header) ==
  LET need   == IF header.n > st.nr THEN header.n - st.nr ELSE 0
      excess == Cardinality(st.skipped) + need - MAX_SKIPPED_STORE
  IN  IF excess < 1 THEN 1 ELSE excess + 1

\* The size of the first eviction: the excess the header implies, at least one.
receive_shortfall(st, header) ==
  LET need   == IF header.n > st.nr THEN header.n - st.nr ELSE 0
      excess == Cardinality(st.skipped) + need - MAX_SKIPPED_STORE
  IN  IF excess < 1 THEN 1 ELSE excess

\* How many keys have been evicted after k rounds: the batch doubles.
EvictedAfter(st, header, k) == receive_shortfall(st, header) * (2^k - 1)

\* Variant: a full store refuses.
ReceiveWithoutEviction(st, header, dh_out_recv, dh_out_send, new_dhs_pub) ==
  receive(st, header, dh_out_recv, dh_out_send, new_dhs_pub)

\* Evict and retry until the store is no longer what refuses, or is empty.
receive_with_eviction(st, header, dh_out_recv, dh_out_send, new_dhs_pub) ==
  LET Attempt(s) == receive(s, header, dh_out_recv, dh_out_send, new_dhs_pub)
      Retry(k)   == Attempt(evict_oldest(st, EvictedAfter(st, header, k)))
      first      == Attempt(st)
      settled    == {k \in 1..Cardinality(st.skipped) : Retry(k).err # "SkippedStoreFull"}
  IN  IF first.err # "SkippedStoreFull" \/ settled = {}
        THEN first
        ELSE Retry(CHOOSE k \in settled : \A j \in settled : k <= j)

\* What p computes from the header of m, before the message authenticates.
Candidate(p, m) ==
  receive_with_eviction(state[p], m.hdr, DH(ratchet_private[p], m.hdr.dh),
                        DH(FreshKey(p), m.hdr.dh), FreshKey(p))

\* Variant: the candidate counts before the message authenticates.
KeyFound(p, m) == Candidate(p, m).ok

Decrypts(p, m) == Candidate(p, m).ok /\ Opens(m, Candidate(p, m).key)

-----------------------------------------------------------------------------
(* Initial state: both parties hold the secret the handshake agreed, and    *)
(* the responder's first ratchet key is its signed prekey.                  *)

SharedSecret == << >>

Init ==
  LET a == <<Initiator, 0>>
      b == <<Responder, 0>>
  IN  /\ ratchet_private = [p \in Party |-> <<p, 0>>]
      /\ state = [p \in Party |->
                    IF p = Initiator THEN init_sender(SharedSecret, a, b, DH(a, b))
                                     ELSE init_receiver(SharedSecret, b)]
      /\ sent = [p \in Party |-> {}]
      /\ accepted = [p \in Party |-> {}]
      /\ dropped = [p \in Party |-> {}]

-----------------------------------------------------------------------------
(* Actions *)

\* Session::encrypt.  A refused send changes nothing.
Encrypt(p) ==
  LET r == send(state[p])
      m == Seal(SendHeader(state[p]), r.key)
  IN  /\ Cardinality(sent[p]) < IF p = Initiator THEN MaxSent ELSE MaxReplies
      /\ r.ok
      /\ state' = [state EXCEPT ![p] = r.state]
      /\ sent' = [sent EXCEPT ![p] = @ \cup {m}]
      /\ UNCHANGED <<ratchet_private, accepted, dropped>>

\* Session::decrypt_ratchet on a message that authenticates: the candidate
\* replaces the state, and the fresh key is adopted if a step used it.
Decrypt(p, m) ==
  LET next == Candidate(p, m).state IN
    /\ Decrypts(p, m)
    /\ state' = [state EXCEPT ![p] = next]
    /\ ratchet_private' =
         [ratchet_private EXCEPT ![p] =
            IF next.dhs_pub # state[p].dhs_pub THEN FreshKey(p) ELSE @]
    /\ accepted' = [accepted EXCEPT ![p] = @ \cup {m}]
    /\ dropped' = [dropped EXCEPT ![p] =
         @ \cup ({e.key : e \in state[p].skipped}
                   \ ({e.key : e \in next.skipped} \cup {m.key}))]
    /\ UNCHANGED sent

\* Session::decrypt_ratchet on a message that does not: an error, and nothing
\* the header asked for is kept.
Refuse(p, m) ==
  /\ ~Decrypts(p, m)
  /\ UNCHANGED vars

\* The message m with its header replaced on the way: by that of another message
\* of the peer, or by one that asks for another number.
Altered(p, m) ==
  LET headers == {x.hdr : x \in sent[Peer(p)]}
  IN  {[m EXCEPT !.hdr = h] : h \in headers}
        \cup {[m EXCEPT !.hdr.n = i] : i \in {n \in U32 : n <= MAX_SKIP}}

Receive(p) ==
  \E m \in sent[Peer(p)] : \E x \in {m} \cup Altered(p, m) :
    Decrypt(p, x) \/ Refuse(p, x)

Next == \E p \in Party : Encrypt(p) \/ Receive(p)

Spec == Init /\ [][Next]_vars

-----------------------------------------------------------------------------
(* Properties *)

\* Every variable has the type its field in the code has: the counters of both
\* parties, the ones a header sets too, stay within a u32.
TypeOK ==
  /\ state \in [Party -> RatchetState]
  /\ ratchet_private \in [Party -> KeyPair]
  /\ sent \in [Party -> SUBSET Message]
  /\ accepted \in [Party -> SUBSET Message]
  /\ dropped \in [Party -> SUBSET ChainKey]
  /\ \A p \in Party : accepted[p] \subseteq sent[Peer(p)]

\* Whatever the run, both parties can be written to storage and read back:
\* State::invariant, which from_bytes checks, holds of every state the
\* operations reach, and the private key is the one behind the public key sent.
Restorable ==
  \A p \in Party : invariant(state[p]) /\ ratchet_private[p] = state[p].dhs_pub

\* A message decrypts at most once: no copy of an accepted message, however
\* late, whatever ratchet steps were taken since, decrypts again.
NoReplay ==
  \A p \in Party : \A m \in accepted[p] : ~Decrypts(p, m)

\* Too many messages are missing before m for one receive to skip them: on the
\* chain m belongs to, or on the one before it, which m closes.
TooFarAhead(p, m) ==
  IF m.hdr.dh = state[p].dhr_pub
    THEN m.hdr.n - state[p].nr > MAX_SKIP
    ELSE \/ m.hdr.n > MAX_SKIP
         \/ state[p].ckr # None /\ m.hdr.pn - state[p].nr > MAX_SKIP

\* A genuine message that has not been accepted decrypts whenever it arrives,
\* after any loss and any reordering, with two exceptions: its key was stored
\* and then deleted by age or eviction, or too many messages before it are
\* missing.  In particular a full store never stops the receive direction, and
\* no altered message costs a genuine one its key.
GenuineDecrypts ==
  \A p \in Party : \A m \in sent[Peer(p)] \ accepted[p] :
    m.key \notin dropped[p] /\ ~TooFarAhead(p, m) => Decrypts(p, m)

\* What a party's state still derives: the stored keys, and every key from a
\* chain key's step on.
Derivable(p, key) ==
  \/ \E e \in state[p].skipped : e.key = key
  \/ \E ck \in {state[p].ckr, state[p].cks} \ {None} :
       ck.root = key.root /\ ck.step <= key.step

\* Forward secrecy: neither the receiver of an accepted message nor the sender
\* of any message still holds what its key derives from.
ForwardSecrecy ==
  \A p \in Party :
    /\ \A m \in accepted[p] : ~Derivable(p, m.key)
    /\ \A m \in sent[p] : ~Derivable(p, m.key)

\* No two messages, of one party or of both, are sealed under the same key, and
\* none have the same name: the ratchet key and number a receiver finds its key by.
NoKeyReuse ==
  \A p, q \in Party : \A m \in sent[p], x \in sent[q] :
    m.key = x.key \/ (m.hdr.dh = x.hdr.dh /\ m.hdr.n = x.hdr.n) => p = q /\ m = x

\* A message key is used once by the party that seals with it and once by the one
\* that opens with it (Session::encrypt, decrypt_ratchet).
UsedOnce == NoKeyReuse /\ NoReplay

\* The keys a step of p loses to eviction: not used by the step, not expired.
Evicted(p) ==
  {e \in state[p].skipped :
     /\ e \notin state'[p].skipped
     /\ state'[p].events - e.stored_at < MAX_SKIPPED_AGE
     /\ \A m \in accepted'[p] \ accepted[p] : m.key # e.key}

\* Eviction on the current chain makes exactly the room the message needs: when a
\* key is lost before its time, the keys left and the new ones fill the store.
EvictionIsExact ==
  [][\A p \in Party :
       Evicted(p) # {} /\ state'[p].dhr_pub = state[p].dhr_pub =>
         Cardinality(state'[p].skipped) = MAX_SKIPPED_STORE]_vars
=============================================================================
