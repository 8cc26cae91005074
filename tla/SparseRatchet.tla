--------------------------- MODULE SparseRatchet ---------------------------
(***************************************************************************)
(* The sparse post-quantum ratchet of one party: tacenta-core/spqr.        *)
(*                                                                         *)
(* Each function of the crate is an operator over a record with the fields *)
(* of its State.  The vector of (epoch, Chains) pairs is read only by      *)
(* epoch and set_chains keeps one pair an epoch, so it is a function from  *)
(* epochs.  Both chains of a pair are always present: the code holds an    *)
(* absent one only in a state it was handed from outside.                  *)
(*                                                                         *)
(* Keys are symbolic, as in module Ratchet: a root key is the sequence of  *)
(* secrets folded into it, a chain key is its root, the direction it was   *)
(* derived for and the steps taken, and the message key numbered n is the  *)
(* chain key at step n.                                                    *)
(***************************************************************************)
EXTENDS Integers, FiniteSets, Sequences

CONSTANTS
  MAX_SKIP,           \* most keys skipped on one chain by one message
  MAX_SKIPPED_STORE,  \* most keys held in the store
  EPOCHS_KEPT,        \* epochs of chains and skipped keys kept
  U64_MAX,            \* the ceiling of epochs and message numbers
  None

ASSUME BoundsAssumption ==
  /\ MAX_SKIP \in Nat \ {0}
  /\ MAX_SKIPPED_STORE \in Nat /\ MAX_SKIPPED_STORE >= MAX_SKIP
  /\ EPOCHS_KEPT \in Nat /\ EPOCHS_KEPT >= 2   \* the epoch reported may be one behind
  /\ U64_MAX \in Nat \ {0}

U64 == 0..U64_MAX

saturating_add(a, b) == IF a + b > U64_MAX THEN U64_MAX ELSE a + b

Opposite(d) == IF d = "A2b" THEN "B2a" ELSE "A2b"

-----------------------------------------------------------------------------
(* Keys and results *)

\* The pair of chains a root key opens: the two parties assign the two chain
\* keys oppositely.
Chain(root, dir, n) == [ck |-> [root |-> root, dir |-> dir, step |-> n], n |-> n]

OpenChains(root, direction) ==
  [send |-> Chain(root, direction, 0), receive |-> Chain(root, Opposite(direction), 0)]

\* kdf_ck: the chain `n` steps on, and the key of the step that makes number n.
StepTo(ch, n) == [ck |-> [ch.ck EXCEPT !.step = n], n |-> n]

MessageKey(ch, n) == [ch.ck EXCEPT !.step = n]

Ok(state, key) == [ok |-> TRUE, err |-> "none", state |-> state, key |-> key]

Err(e, state) == [ok |-> FALSE, err |-> e, state |-> state, key |-> None]

init(sk, direction) ==
  [rk |-> sk, epoch |-> 0, chains |-> [e \in {0} |-> OpenChains(sk, direction)],
   skipped |-> {}, pushed |-> 0, direction |-> direction]

-----------------------------------------------------------------------------
(* Epochs *)

set_chains(chains, e, c) ==
  [f \in DOMAIN chains \cup {e} |-> IF f = e THEN c ELSE chains[f]]

\* Whether epoch e is inside the window that ends at `current`.
NarrowWindow(e, current) == current + 1 < saturating_add(e, EPOCHS_KEPT)

InWindow(e, current) == current < saturating_add(e, EPOCHS_KEPT)

\* Retire the chains and skipped keys of the epochs outside the window.
ChainsOnly(state, current) ==
  [state EXCEPT !.chains = [e \in {f \in DOMAIN @ : InWindow(f, current)} |-> @[e]]]

clear_old_epochs(state, current) ==
  [state EXCEPT !.chains = [e \in {f \in DOMAIN @ : InWindow(f, current)} |-> @[e]],
                !.skipped = {s \in @ : InWindow(s.epoch, current)}]

\* Fold a new secret into the root key and open its epoch's chains.  The
\* ceiling is refused rather than opened.
advance(state, out) ==
  LET next == state.epoch + 1
      root == Append(state.rk, out.key)
  IN  IF next >= U64_MAX
        THEN Err("ChainExhausted", state)
      ELSE IF out.key_epoch # next
        THEN Err("EpochOutOfOrder", state)
      ELSE Ok(clear_old_epochs(
                [state EXCEPT !.rk = root, !.epoch = next,
                   !.chains = set_chains(@, next, OpenChains(root, state.direction))], next),
              None)

maybe_advance(state, out) == IF out = None THEN Ok(state, None) ELSE advance(state, out)

-----------------------------------------------------------------------------
(* The skipped-key store: a set of entries that carry their place in the    *)
(* vector, whose front is the oldest                                        *)

\* The store without the `count` keys at the front.
evict_oldest(state, count) ==
  [state EXCEPT !.skipped =
     {s \in @ : Cardinality({t \in state.skipped : t.pos < s.pos}) >= count}]

Matches(state, e, n) == {s \in state.skipped : s.epoch = e /\ s.n = n}

FirstMatch(state, e, n) ==
  CHOOSE s \in Matches(state, e, n) : \A t \in Matches(state, e, n) : s.pos <= t.pos

DerivedEntries(e, ch, upto, first) ==
  {[epoch |-> e, n |-> i, key |-> MessageKey(ch, i), pos |-> first + (i - ch.n)] :
     i \in (ch.n + 1)..upto}

NoBound(kept, count) == TRUE

HasRoom(kept, count) == Cardinality(kept) + count <= MAX_SKIPPED_STORE

\* Step the receiving chain of epoch e to `upto`, storing every key passed.
skip_message_keys(state, e, upto) ==
  IF e \notin DOMAIN state.chains THEN Err("NoChain", state)
  ELSE
    LET ch    == state.chains[e].receive
        count == upto - ch.n
        kept  == {s \in state.skipped : ~(s.epoch = e /\ ch.n < s.n /\ s.n <= upto)}
    IN  IF upto <= ch.n THEN Ok(state, None)
        ELSE IF count > MAX_SKIP THEN Err("TooManySkipped", state)
        ELSE IF ~HasRoom(kept, count) THEN Err("SkippedStoreFull", state)
        ELSE Ok([state EXCEPT
                   !.skipped = kept \cup DerivedEntries(e, ch, upto, state.pushed),
                   !.pushed = @ + count,
                   !.chains[e].receive = StepTo(ch, upto)],
                None)

-----------------------------------------------------------------------------
(* Operations *)

\* The next key on the sending chain of the epoch the agreement reports.
send(state, sending_epoch, out) ==
  LET adv == maybe_advance(state, out)
      st  == adv.state
  IN  IF ~adv.ok THEN adv
      ELSE IF sending_epoch \notin DOMAIN st.chains THEN Err("NoChain", st)
      ELSE LET ch == st.chains[sending_epoch].send
           IN  IF ch.n = U64_MAX THEN Err("ChainExhausted", st)
               ELSE Ok([st EXCEPT !.chains[sending_epoch].send = StepTo(ch, ch.n + 1)],
                       MessageKey(ch, ch.n + 1))

\* The number that goes in the header with the key `send` gives.
SendNumber(state, sending_epoch, out) ==
  maybe_advance(state, out).state.chains[sending_epoch].send.n + 1

\* try_skipped on a stored key, which leaves the store.
TakeAndKeep(state, s) == Ok(state, s.key)

TakeSkipped(state, s) == Ok([state EXCEPT !.skipped = @ \ {s}], s.key)

\* The key at number n of the receiving chain, once the ones before are stored.
TakeNext(state, e, n) ==
  LET skip == skip_message_keys(state, e, IF n = 0 THEN 0 ELSE n - 1)
      st   == skip.state
  IN  IF ~skip.ok THEN skip
      ELSE LET ch == st.chains[e].receive
           IN  IF ch.n = U64_MAX THEN Err("ChainExhausted", st)
               ELSE IF n # ch.n + 1 THEN Err("OutOfOrder", st)
               ELSE Ok([st EXCEPT !.chains[e].receive = StepTo(ch, n)], MessageKey(ch, n))

\* The agreement's secret first; then a stored key, or the chain.
receive(state, receiving_epoch, out, n) ==
  LET adv == maybe_advance(state, out)
      st  == adv.state
  IN  IF ~adv.ok THEN adv
      ELSE IF Matches(st, receiving_epoch, n) # {}
        THEN TakeSkipped(st, FirstMatch(st, receiving_epoch, n))
        ELSE TakeNext(st, receiving_epoch, n)

-----------------------------------------------------------------------------
(* State::invariant, the predicate a restored state must satisfy            *)

StoreBounded(state) == Cardinality(state.skipped) <= MAX_SKIPPED_STORE

StoreIsMap(state) ==
  \A s, t \in state.skipped : s.epoch = t.epoch /\ s.n = t.n => s = t

ChainsInWindow(state) ==
  \A e \in DOMAIN state.chains : e <= state.epoch /\ InWindow(e, state.epoch)

CurrentOpen(state) == state.epoch \in DOMAIN state.chains

SkippedHaveChains(state) == \A s \in state.skipped : s.epoch \in DOMAIN state.chains

invariant(state) ==
  /\ StoreBounded(state)
  /\ ChainsInWindow(state)
  /\ CurrentOpen(state)
  /\ StoreIsMap(state)
  /\ SkippedHaveChains(state)
=============================================================================
