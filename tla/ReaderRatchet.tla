--------------------------- MODULE ReaderRatchet ---------------------------
(***************************************************************************)
(* The Double Ratchet of the specification-only reader                     *)
(* (reader/tacenta_reader/ratchet.py): a second implementation, written    *)
(* from the protocol pages, that replays the vectors of the first.         *)
(*                                                                         *)
(* Every function of the file is pure: it works on a clone and either      *)
(* returns it or raises.  A result is therefore a record that is the       *)
(* returned value or the exception, never a half-changed state.            *)
(*                                                                         *)
(* Keys are symbolic as in module Ratchet.  The store is a dict, whose     *)
(* order is the order of insertion: a set of entries with their place.     *)
(***************************************************************************)
EXTENDS Integers, FiniteSets, Sequences

CONSTANTS MAX_SKIP, MAX_SKIPPED_STORE, MAX_SKIPPED_AGE, U32_MAX, None

MAX_EVENTS == U32_MAX - 1

Return(state, key, stepped) ==
  [ok |-> TRUE, err |-> "none", shortfall |-> 0, state |-> state, key |-> key, stepped |-> stepped]

Raise(err, shortfall) ==
  [ok |-> FALSE, err |-> err, shortfall |-> shortfall, state |-> None, key |-> None, stepped |-> FALSE]

\* (new root key, chain key), and (next chain key, message key).
kdf_rk(rk, dh_out) ==
  LET root == Append(rk, dh_out) IN <<root, [root |-> root, step |-> 0]>>

kdf_ck(ck) == <<[ck EXCEPT !.step = @ + 1], ck>>

State(dhs_pub, dhr, rk, cks) ==
  [dhs_pub |-> dhs_pub, dhr |-> dhr, rk |-> rk, cks |-> cks, ckr |-> None,
   ns |-> 0, nr |-> 0, pn |-> 0, events |-> 0, skipped |-> {}, pushed |-> 0]

init_initiator(sk, dhs_pub, peer_signed_prekey, dh_out) ==
  State(dhs_pub, peer_signed_prekey, kdf_rk(sk, dh_out)[1], kdf_rk(sk, dh_out)[2])

init_responder(sk, signed_prekey_pub) == State(signed_prekey_pub, None, sk, None)

Header(state) == [dh |-> state.dhs_pub, pn |-> state.pn, n |-> state.ns]

send(state) ==
  IF state.cks = None THEN Raise("NoSendingChain", 0)
  ELSE IF state.ns = U32_MAX THEN Raise("ChainExhausted", 0)
  ELSE Return([state EXCEPT !.cks = kdf_ck(@)[1], !.ns = @ + 1], kdf_ck(state.cks)[2], FALSE)

-----------------------------------------------------------------------------
(* The store *)

\* The keys of the receiving chain from nr up to `until`, stored one by one: a pair
\* already held is deleted first, so the new key is last in order.
_store(s, until) ==
  {e \in s.skipped : ~(e.dh = s.dhr /\ e.n \in s.nr..(until - 1))} \cup
    {[dh |-> s.dhr, n |-> i, stored_at |-> s.events, key |-> [s.ckr EXCEPT !.step = @ + (i - s.nr)],
      pos |-> s.pushed + (i - s.nr)] : i \in s.nr..(until - 1)}

\* Variant: the bound is on the number skipped to, not on how many are skipped.
SkipTooShort(s, until) ==
  IF until <= s.nr THEN Return(s, None, FALSE)
  ELSE IF until > MAX_SKIP THEN Raise("TooManySkipped", 0)
  ELSE Return([s EXCEPT !.skipped = _store(s, until), !.ckr.step = @ + (until - s.nr),
                        !.nr = until, !.pushed = @ + (until - s.nr)], None, FALSE)

\* Store the keys from nr up to `until`, exclusive, on the receiving chain.  The
\* shortfall counts the numbers that would be new to the store.
_skip(s, until) ==
  LET count == until - s.nr
      held  == {e \in s.skipped : e.dh = s.dhr /\ e.n \in s.nr..(until - 1)}
      over  == Cardinality(s.skipped) + (count - Cardinality(held)) - MAX_SKIPPED_STORE
  IN  IF until <= s.nr THEN Return(s, None, FALSE)
      ELSE IF count > MAX_SKIP THEN Raise("TooManySkipped", 0)
      ELSE IF over > 0 THEN Raise("SkippedStoreFull", over)
      ELSE Return([s EXCEPT !.skipped = _store(s, until), !.ckr.step = @ + count,
                            !.nr = until, !.pushed = @ + count], None, FALSE)

\* Variant: the clock does not stop below its ceiling.
AgeWithoutStop(s) ==
  [s EXCEPT !.events = @ + 1, !.skipped = {e \in @ : s.events + 1 - e.stored_at < MAX_SKIPPED_AGE}]

\* The end of every accepted receive: count it, and delete what is too old.
_age(s) ==
  LET now == IF s.events + 1 < MAX_EVENTS THEN s.events + 1 ELSE MAX_EVENTS
  IN  [s EXCEPT !.events = now, !.skipped = {e \in @ : now - e.stored_at < MAX_SKIPPED_AGE}]

\* Variant: the keys that were stored last go.
EvictNewest(state, count) ==
  [state EXCEPT !.skipped =
     {e \in @ : Cardinality({x \in state.skipped : x.pos > e.pos}) >= count}]

\* The `count` oldest keys go: the smallest stamp, ties to the one stored first.
evict(state, count) ==
  LET Before(a, b) == a.stored_at < b.stored_at \/ (a.stored_at = b.stored_at /\ a.pos < b.pos)
  IN  [state EXCEPT !.skipped =
         {e \in @ : Cardinality({x \in state.skipped : Before(x, e)}) >= count}]

-----------------------------------------------------------------------------
(* Receiving *)

\* The last lines of `receive`: skip to the number, take its key, age the store.
TakeNext(s, n, stepped) ==
  LET skip == _skip(s, n)
      cur  == skip.state
  IN  IF ~skip.ok THEN skip
      ELSE IF cur.nr = U32_MAX THEN Raise("ChainExhausted", 0)
      ELSE Return(_age([cur EXCEPT !.ckr = kdf_ck(@)[1], !.nr = @ + 1]), kdf_ck(cur.ckr)[2], stepped)

\* The Diffie-Hellman ratchet step; step is (DH now, fresh public key, DH fresh).
DhRatchet(s, dh, step) ==
  LET recv == kdf_rk(s.rk, step[1])
      sent == kdf_rk(recv[1], step[3])
  IN  [s EXCEPT !.rk = sent[1], !.ckr = recv[2], !.cks = sent[2], !.dhr = dh,
                !.nr = 0, !.pn = s.ns, !.ns = 0, !.dhs_pub = step[2]]

\* A stored key first.  A header with another ratchet key takes a step, after the
\* old chain, if there is one, is skipped to pn.  A header on the chain in hand is
\* refused without a chain, and below nr.
receive(state, header, step) ==
  LET stored == {e \in state.skipped : e.dh = header.dh /\ e.n = header.n}
      closed == IF state.ckr = None THEN Return(state, None, FALSE) ELSE _skip(state, header.pn)
  IN  IF stored # {}
        THEN Return(_age([state EXCEPT !.skipped = @ \ stored]), (CHOOSE e \in stored : TRUE).key, FALSE)
      ELSE IF state.dhr = None \/ header.dh # state.dhr
        THEN IF closed.ok THEN TakeNext(DhRatchet(closed.state, header.dh, step), header.n, TRUE)
                          ELSE closed
      ELSE IF state.ckr = None THEN Raise("NoReceivingChain", 0)
      ELSE IF header.n < state.nr THEN Raise("OutOfOrder", 0)
      ELSE TakeNext(state, header.n, FALSE)
=============================================================================
