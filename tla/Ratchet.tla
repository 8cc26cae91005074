------------------------------ MODULE Ratchet ------------------------------
(***************************************************************************)
(* The Double Ratchet state machine of one party: tacenta-core/ratchet.    *)
(*                                                                         *)
(* The crate is a set of functions over a State value; here each of them   *)
(* is an operator over a record with the same fields.  Module DoubleRatchet *)
(* gives two parties such a state and a network between them.              *)
(*                                                                         *)
(* Key derivation is symbolic.  A root key is the sequence of secrets that *)
(* were folded into it, so two parties hold the same root key exactly when *)
(* they folded in the same secrets in the same order.  A chain key is the  *)
(* root it was split from and the number of steps taken since, and the     *)
(* message key of a step is the chain key it was derived from.             *)
(*                                                                         *)
(* The skipped-key store is a vector whose entries are appended at the end *)
(* and removed without disturbing the order of the others.  Only the order *)
(* of the entries is ever read, so the vector is a set of entries that     *)
(* carry their place in that order (field pos), and the state counts the   *)
(* entries ever appended (field pushed), which gives the next one its      *)
(* place.                                                                  *)
(***************************************************************************)
EXTENDS Integers, FiniteSets, Sequences

CONSTANTS
  MAX_SKIP,           \* most keys skipped on one chain by one message
  MAX_SKIPPED_STORE,  \* most keys held in the store
  MAX_SKIPPED_AGE,    \* accepted receives a stored key may outlive
  U32_MAX,            \* the ceiling of every u32 counter
  None                \* the absent value of an Option

ASSUME BoundsAssumption ==
  /\ MAX_SKIP \in Nat \ {0}
  /\ MAX_SKIPPED_STORE \in Nat
  /\ MAX_SKIPPED_STORE >= 2 * MAX_SKIP   \* one receive may skip on two chains
  /\ MAX_SKIPPED_AGE \in Nat \ {0, 1}   \* a key outlives the receive that stores it
  /\ U32_MAX \in Nat \ {0}

\* Where the receive clock stops, one below its ceiling.
MAX_EVENTS == U32_MAX - 1

U32 == 0..U32_MAX

saturating_add(a, b) == IF a + b > U32_MAX THEN U32_MAX ELSE a + b

-----------------------------------------------------------------------------
(* Keys and results *)

ChainStart(root) == [root |-> root, step |-> 0]

\* KDF_RK: fold dh_out into the root key; the pair (new root, new chain).
kdf_rk(rk, dh_out) ==
  LET root == Append(rk, dh_out) IN <<root, ChainStart(root)>>

\* KDF_CK: the pair (next chain key, message key).
kdf_ck(ck) == <<[ck EXCEPT !.step = @ + 1], ck>>

\* derive_chain: the chain key `count` steps on.
ChainAfter(ck, count) == [ck EXCEPT !.step = @ + count]

Ok(state, key) == [ok |-> TRUE, err |-> "none", state |-> state, key |-> key]

Err(e, state) == [ok |-> FALSE, err |-> e, state |-> state, key |-> None]

-----------------------------------------------------------------------------
(* Constructors *)

\* The party that sends first holds the peer's initial ratchet public key.
init_sender(sk, our_pub, peer_pub, dh_out) ==
  LET derived == kdf_rk(sk, dh_out) IN
    [dhs_pub |-> our_pub, dhr_pub |-> peer_pub, rk |-> derived[1],
     cks |-> derived[2], ckr |-> None, ns |-> 0, nr |-> 0, pn |-> 0,
     skipped |-> {}, events |-> 0, pushed |-> 0]

\* The party that receives first has only the root key.
init_receiver(sk, our_pub) ==
  [dhs_pub |-> our_pub, dhr_pub |-> None, rk |-> sk,
   cks |-> None, ckr |-> None, ns |-> 0, nr |-> 0, pn |-> 0,
   skipped |-> {}, events |-> 0, pushed |-> 0]

-----------------------------------------------------------------------------
(* The skipped-key store *)

\* What `evict_oldest` looks for: the least stored_at, and the first such entry
\* in the vector.
Older(a, b) ==
  \/ a.stored_at < b.stored_at
  \/ a.stored_at = b.stored_at /\ a.pos < b.pos

\* The store without its `count` oldest keys.
evict_oldest(state, count) ==
  [state EXCEPT !.skipped =
     {e \in @ : Cardinality({f \in state.skipped : Older(f, e)}) >= count}]

\* Drop the keys held under dhr for the numbers about to be derived again.
purge_chain_range(skipped, dhr, from, upto) ==
  {e \in skipped : ~(e.dh = dhr /\ e.n >= from /\ e.n < upto)}

\* Variant: the keys up to and including number upto.
DerivedOneTooMany(ck, dhr, from, upto, now, first) ==
  {[dh |-> dhr, n |-> i, stored_at |-> now,
    key |-> ChainAfter(ck, i - from), pos |-> first + (i - from)] : i \in from..upto}

\* The keys numbered from..upto-1 of the chain under dhr, stamped and appended.
DerivedEntries(ck, dhr, from, upto, now, first) ==
  {[dh |-> dhr, n |-> i, stored_at |-> now,
    key |-> ChainAfter(ck, i - from), pos |-> first + (i - from)] : i \in from..(upto - 1)}

\* The first message number too far ahead to skip to; and the room in the store.
WrappingLimit(nr) == (nr + MAX_SKIP) % (U32_MAX + 1)

SkipLimit(nr) == saturating_add(nr, MAX_SKIP)

RoomForOneMore(kept, count) == Cardinality(kept) + count <= MAX_SKIPPED_STORE + 1

HasRoom(kept, count) == Cardinality(kept) + count <= MAX_SKIPPED_STORE

\* Store the keys of the current receiving chain below `upto`.  The refusals
\* come before any write, so a refused skip leaves the state alone.
skip_message_keys(state, upto) ==
  LET count == upto - state.nr
      kept  == purge_chain_range(state.skipped, state.dhr_pub, state.nr, upto)
  IN  IF state.ckr = None \/ state.dhr_pub = None \/ upto <= state.nr
        THEN Ok(state, None)
      ELSE IF upto > SkipLimit(state.nr)
        THEN Err("TooManySkipped", state)
      ELSE IF ~HasRoom(kept, count)
        THEN Err("SkippedStoreFull", state)
      ELSE Ok([state EXCEPT
                 !.ckr = ChainAfter(@, count),
                 !.nr = upto,
                 !.pushed = @ + count,
                 !.skipped = kept \cup DerivedEntries(state.ckr, state.dhr_pub, state.nr,
                                                      upto, state.events, state.pushed)],
              None)

\* Variant: the clock runs into its ceiling.
AgeWithoutParking(state) ==
  LET now == saturating_add(state.events, 1)
  IN  [state EXCEPT !.events = now,
                    !.skipped = {e \in @ : now - e.stored_at < MAX_SKIPPED_AGE}]

\* Count one accepted receive and delete the keys that have outlived
\* MAX_SKIPPED_AGE.  The clock stops at MAX_EVENTS.
age_store(state) ==
  LET stepped == saturating_add(state.events, 1)
      now     == IF stepped = U32_MAX THEN MAX_EVENTS ELSE stepped
  IN  [state EXCEPT !.events = now,
                    !.skipped = {e \in @ : now - e.stored_at < MAX_SKIPPED_AGE}]

\* The entry a header names: the first match in the vector.
Matches(state, header) ==
  {e \in state.skipped : e.dh = header.dh /\ e.n = header.n}

FirstMatch(state, header) ==
  CHOOSE e \in Matches(state, header) :
    \A f \in Matches(state, header) : e.pos <= f.pos

-----------------------------------------------------------------------------
(* Operations *)

\* Variants: a send that saturates at the last number, and one that does not
\* advance the chain key.
SendSaturating(state) ==
  IF state.cks = None
    THEN Err("NoSendingChain", state)
    ELSE Ok([state EXCEPT !.cks = kdf_ck(@)[1], !.ns = saturating_add(@, 1)], kdf_ck(state.cks)[2])

SendWithSameKey(state) ==
  IF state.cks = None
    THEN Err("NoSendingChain", state)
    ELSE Ok([state EXCEPT !.ns = @ + 1], kdf_ck(state.cks)[2])

\* Advance the sending chain; the header goes with the result.
send(state) ==
  IF state.cks = None
    THEN Err("NoSendingChain", state)
  ELSE IF state.ns = U32_MAX
    THEN Err("ChainExhausted", state)
  ELSE Ok([state EXCEPT !.cks = kdf_ck(@)[1], !.ns = @ + 1], kdf_ck(state.cks)[2])

SendHeader(state) == [dh |-> state.dhs_pub, pn |-> state.pn, n |-> state.ns]

\* A Diffie-Hellman ratchet step: a new receiving chain from dh_out_recv and a
\* new sending chain from dh_out_send under new_dhs_pub.
dh_ratchet(state, header, dh_out_recv, dh_out_send, new_dhs_pub) ==
  LET recv == kdf_rk(state.rk, dh_out_recv)
      sent == kdf_rk(recv[1], dh_out_send)
  IN  [state EXCEPT !.pn = state.ns, !.ns = 0, !.nr = 0, !.dhr_pub = header.dh,
                    !.rk = sent[1], !.ckr = recv[2], !.cks = sent[2],
                    !.dhs_pub = new_dhs_pub]

\* Skip to the header's number on the current chain and take the key there.
ReceiveOnChain(state, header) ==
  LET skip == skip_message_keys(state, header.n)
      cur  == skip.state
  IN  IF ~skip.ok THEN skip
      ELSE IF header.n < cur.nr THEN Err("OutOfOrder", cur)
      ELSE IF cur.ckr = None THEN Err("NoReceivingChain", cur)
      ELSE IF cur.nr = U32_MAX THEN Err("ChainExhausted", cur)
      ELSE Ok(age_store([cur EXCEPT !.ckr = kdf_ck(@)[1], !.nr = @ + 1]),
              kdf_ck(cur.ckr)[2])

\* try_skipped on a stored key: it leaves the store with the message it opens.
TakeAndKeep(state, e) == Ok(age_store(state), e.key)

TakeSkipped(state, e) == Ok(age_store([state EXCEPT !.skipped = @ \ {e}]), e.key)

\* A stored key first; otherwise a ratchet step when the header names another
\* ratchet key, and the key at the header's number on the chain that results.
\* On Err the state in the result may have moved, as the code's has.
receive(state, header, dh_out_recv, dh_out_send, new_dhs_pub) ==
  IF Matches(state, header) # {}
    THEN TakeSkipped(state, FirstMatch(state, header))
  ELSE IF state.dhr_pub = None \/ state.dhr_pub # header.dh
    THEN LET skip == skip_message_keys(state, header.pn)
         IN  IF ~skip.ok THEN skip
             ELSE ReceiveOnChain(dh_ratchet(skip.state, header, dh_out_recv,
                                            dh_out_send, new_dhs_pub), header)
  ELSE ReceiveOnChain(state, header)

-----------------------------------------------------------------------------
(* State::invariant, the predicate a restored state must satisfy: its named *)
(* clauses, and their conjunction.                                          *)

StoreBounded(state) == Cardinality(state.skipped) <= MAX_SKIPPED_STORE

StoreIsMap(state) ==
  \A e, f \in state.skipped : e.dh = f.dh /\ e.n = f.n => e = f

StoreNotAhead(state) == \A e \in state.skipped : e.stored_at <= state.events

ClockBelowCeiling(state) == state.events < U32_MAX

ChainsOpenInOrder(state) ==
  state.ckr # None => state.cks # None /\ state.dhr_pub # None

invariant(state) ==
  /\ StoreBounded(state)
  /\ ClockBelowCeiling(state)
  /\ StoreIsMap(state)
  /\ StoreNotAhead(state)
  /\ ChainsOpenInOrder(state)
=============================================================================
