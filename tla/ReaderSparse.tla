---------------------------- MODULE ReaderSparse ----------------------------
(***************************************************************************)
(* The sparse post-quantum ratchet of the specification-only reader        *)
(* (reader/tacenta_reader/spqr.py), in the form of module ReaderRatchet:   *)
(* pure functions that return a new state or raise.                        *)
(*                                                                         *)
(* Either chain of an epoch may be absent, as a state read from storage    *)
(* may have it.  The dict of chains keeps the order its entries were last  *)
(* replaced in, most recent last; the dict of skipped keys the order they  *)
(* were stored in.                                                         *)
(***************************************************************************)
EXTENDS Integers, FiniteSets, Sequences

CONSTANTS MAX_SKIP, MAX_SKIPPED_STORE, EPOCHS_KEPT, U64_MAX, None

Return(state, key) ==
  [ok |-> TRUE, err |-> "none", shortfall |-> 0, state |-> state, key |-> key]

Raise(err, shortfall) ==
  [ok |-> FALSE, err |-> err, shortfall |-> shortfall, state |-> None, key |-> None]

\* kdf_chain: the chain at number n, and the message key of number n.
ChainAt(ch, n) == [ck |-> [ch.ck EXCEPT !.step = n], n |-> n]

MessageKey(ch, n) == [ch.ck EXCEPT !.step = n]

\* The pair of chains of a root: A2b sends on the first and receives on the second.
_assign(direction, root) ==
  LET Chain(dir) == [ck |-> [root |-> root, dir |-> dir, step |-> 0], n |-> 0]
  IN  IF direction = "A2b" THEN [send |-> Chain("A2b"), receive |-> Chain("B2a")]
                           ELSE [send |-> Chain("B2a"), receive |-> Chain("A2b")]

init(sk, direction) ==
  [rk |-> sk, epoch |-> 0, direction |-> direction,
   chains |-> [e \in {0} |-> _assign(direction, sk)], order |-> <<0>>,
   skipped |-> {}, pushed |-> 0]

\* The entry of an epoch is popped and put back, last in order.
_touch(s, epoch) == [s EXCEPT !.order = Append(SelectSeq(@, LAMBDA e : e # epoch), epoch)]

\* Whether epoch e is kept when the current epoch is E; the sum saturates.
Kept(e, E) == E < (IF e + EPOCHS_KEPT < U64_MAX THEN e + EPOCHS_KEPT ELSE U64_MAX)

\* Open the next epoch, refusing a gap and the last epoch, and retire the epochs
\* out of the window with the skipped keys stored under them.
_advance(s, secret, secret_epoch) ==
  LET root   == Append(s.rk, secret)
      opened == [e \in DOMAIN s.chains \cup {secret_epoch} |->
                   IF e = secret_epoch THEN _assign(s.direction, root) ELSE s.chains[e]]
      kept   == {e \in DOMAIN opened : Kept(e, secret_epoch)}
  IN  IF secret_epoch # s.epoch + 1 THEN Raise("EpochGap", 0)
      ELSE IF secret_epoch = U64_MAX THEN Raise("ChainExhausted", 0)
      ELSE Return([_touch(s, secret_epoch) EXCEPT
                     !.rk = root, !.epoch = secret_epoch,
                     !.chains = [e \in kept |-> opened[e]],
                     !.order = SelectSeq(@, LAMBDA e : e \in kept),
                     !.skipped = {k \in @ : k.epoch \in kept}], None)

\* The first lines of `send` and `receive`.  out is None or [key_epoch, key].
Advanced(s, out) == IF out = None THEN Return(s, None) ELSE _advance(s, out.key, out.key_epoch)

\* The number goes into the header with the key.
send(state, agreement_epoch, out) ==
  LET adv == Advanced(state, out)
      s   == adv.state
      ch  == s.chains[agreement_epoch].send
  IN  IF ~adv.ok THEN adv
      ELSE IF agreement_epoch \notin DOMAIN s.chains THEN Raise("NoChain", 0)
      ELSE IF ch = None THEN Raise("ChainRetired", 0)
      ELSE IF ch.n = U64_MAX THEN Raise("ChainExhausted", 0)
      ELSE Return(_touch([s EXCEPT !.chains[agreement_epoch].send = ChainAt(ch, ch.n + 1)], agreement_epoch),
                  MessageKey(ch, ch.n + 1))

\* Variant: the numbers skipped are limited one above the bound.
StepForwardOneMore(s, msg_epoch, n) ==
  LET ch == s.chains[msg_epoch].receive
  IN  IF n - ch.n > MAX_SKIP + 2 THEN Raise("TooManySkipped", 0)
      ELSE Return(_touch([s EXCEPT !.chains[msg_epoch].receive = ChainAt(ch, n)], msg_epoch), MessageKey(ch, n))

\* Step the receiving chain past every number below n, storing their keys after
\* all others, and take the key of n.
StepForward(s, msg_epoch, n) ==
  LET ch      == s.chains[msg_epoch].receive
      numbers == (ch.n + 1)..(n - 1)
      held    == {k \in s.skipped : k.epoch = msg_epoch /\ k.n \in numbers}
      fresh   == Cardinality(numbers) - Cardinality(held)
      over    == Cardinality(s.skipped) + fresh - MAX_SKIPPED_STORE
      stored  == {[epoch |-> msg_epoch, n |-> i, key |-> MessageKey(ch, i), pos |-> s.pushed + (i - ch.n)] :
                    i \in numbers}
  IN  IF Cardinality(numbers) > MAX_SKIP THEN Raise("TooManySkipped", 0)
      ELSE IF over > 0 THEN Raise("SkippedStoreFull", over)
      ELSE Return(_touch([s EXCEPT !.skipped = (@ \ held) \cup stored, !.pushed = @ + Cardinality(numbers),
                                   !.chains[msg_epoch].receive = ChainAt(ch, n)], msg_epoch),
                  MessageKey(ch, n))

Take(s, stored) == Return([s EXCEPT !.skipped = @ \ stored], (CHOOSE k \in stored : TRUE).key)

receive(state, msg_epoch, n, out) ==
  LET adv    == Advanced(state, out)
      s      == adv.state
      stored == {k \in s.skipped : k.epoch = msg_epoch /\ k.n = n}
      ch     == s.chains[msg_epoch].receive
  IN  IF ~adv.ok THEN adv
      ELSE IF stored # {} THEN Take(s, stored)
      ELSE IF msg_epoch \notin DOMAIN s.chains THEN Raise("NoChain", 0)
      ELSE IF ch = None THEN Raise("ChainRetired", 0)
      ELSE IF n <= ch.n THEN Raise(IF ch.n = U64_MAX THEN "ChainExhausted" ELSE "OutOfOrder", 0)
      ELSE StepForward(s, msg_epoch, n)

\* The keys stored first go first, whatever their epoch.
evict(state, count) ==
  [state EXCEPT !.skipped =
     {k \in @ : Cardinality({j \in state.skipped : j.pos < k.pos}) >= count}]
=============================================================================
