-------------------------- MODULE SparseExchange ---------------------------
(***************************************************************************)
(* Two parties that run the sparse post-quantum ratchet (module            *)
(* SparseRatchet) on the keys of a continuous agreement (module Agreement),*)
(* over a network that loses, delays, duplicates and reorders messages.    *)
(* The session's part is modelled too: a receive runs on copies that are   *)
(* kept, agreement and ratchet together, only when the message             *)
(* authenticates, and evicts from the copy when the store is full.         *)
(***************************************************************************)
EXTENDS SparseRatchet

CONSTANTS
  Initiator, Responder,
  MaxSent,     \* bound: messages the initiator sends
  MaxReplies,  \* bound: messages the responder sends
  LastEpoch    \* bound: the last epoch the agreement completes

ASSUME PartyAssumption ==
  /\ Initiator # Responder
  /\ MaxSent \in Nat /\ MaxReplies \in Nat
  /\ LastEpoch \in Nat /\ LastEpoch + 2 <= U64_MAX   \* the ceiling is reserved

VARIABLES
  held, known,  \* the agreement: epochs held, epoch reported
  state,        \* state[p]: the ratchet state of party p
  sent,         \* sent[p]: the messages p has sent
  accepted,     \* accepted[p]: the messages p has decrypted
  dropped       \* dropped[p]: message keys p evicted

vars == <<held, known, state, sent, accepted, dropped>>

A == INSTANCE Agreement

Party == {Initiator, Responder}

Peer(p) == IF p = Initiator THEN Responder ELSE Initiator

SharedSecret == << >>

\* The key of epoch e, as the agreement hands it to the ratchet.
OutputOf(e) == [key_epoch |-> e, key |-> e]

\* The absent value is not a chain, so that a chain that is there is not taken for none.
ASSUME NoneAssumption ==
  None \notin [ck : [root : Seq(Nat), dir : {"A2b", "B2a"}, step : Nat], n : Nat]

Init ==
  /\ A!Init
  /\ state = [p \in Party |-> init(SharedSecret, IF p = Initiator THEN "A2b" ELSE "B2a")]
  /\ sent = [p \in Party |-> {}]
  /\ accepted = [p \in Party |-> {}]
  /\ dropped = [p \in Party |-> {}]

-----------------------------------------------------------------------------
(* Receiving into a full store *)

\* The size of the first eviction: the excess the header implies, at least one.
receive_shortfall(st, m) ==
  LET received == st.chains[m.epoch].receive.n
      need     == IF m.n - 1 > received THEN m.n - 1 - received ELSE 0
      excess   == Cardinality(st.skipped) + need - MAX_SKIPPED_STORE
  IN  IF m.epoch \notin DOMAIN st.chains \/ excess < 1 THEN 1 ELSE excess

EvictedAfter(st, m, k) == receive_shortfall(st, m) * (2^k - 1)

ReceiveOnce(st, m, out) == receive(st, m.epoch, out, m.n)

\* Evict and retry until the store is no longer what refuses, or is empty.
receive_with_eviction(st, m, out) ==
  LET Attempt(s) == receive(s, m.epoch, out, m.n)
      Retry(k)   == Attempt(evict_oldest(st, EvictedAfter(st, m, k)))
      settled    == {k \in 1..Cardinality(st.skipped) : Retry(k).err # "SkippedStoreFull"}
  IN  IF Attempt(st).err # "SkippedStoreFull" \/ settled = {}
        THEN Attempt(st)
        ELSE Retry(CHOOSE k \in settled : \A j \in settled : k <= j)

-----------------------------------------------------------------------------
(* Actions *)

\* Session::encrypt: the agreement first, then the ratchet on the epoch the
\* agreement reports; both are kept, or neither.
Encrypt(p, out) ==
  LET r == send(state[p], known[p], out)
      m == [epoch |-> known[p], n |-> SendNumber(state[p], known[p], out),
            key |-> r.key, held |-> held'[p]]
  IN  /\ Cardinality(sent[p]) < IF p = Initiator THEN MaxSent ELSE MaxReplies
      /\ IF out = None THEN UNCHANGED <<held, known>> ELSE A!FirstKey(p)
      /\ r.ok
      /\ state' = [state EXCEPT ![p] = r.state]
      /\ sent' = [sent EXCEPT ![p] = @ \cup {m}]
      /\ UNCHANGED <<accepted, dropped>>

\* What the agreement does with message m, which carries the sender's progress:
\* a message sent with the next epoch's key in hand may complete that epoch, and
\* one that reports an epoch p has not reported yet tells p that both hold it.
Agrees(p, m, out) ==
  \/ /\ out # None
     /\ m.held = held[p] + 1 /\ m.epoch = held[p]
     /\ A!SecondKey(p)
  \/ out = None /\ m.epoch > known[p] /\ A!Learn(p)
  \/ out = None /\ m.epoch <= known[p] /\ UNCHANGED <<held, known>>

Candidate(p, m, out) == receive_with_eviction(state[p], m, out)

Decrypts(p, m, out) == Candidate(p, m, out).ok /\ Candidate(p, m, out).key = m.key

\* The stored keys of epochs still in the window that `next` no longer has.
Evicted(st, next) == {s \in st.skipped \ next.skipped : s.epoch \in DOMAIN next.chains}

\* Session::decrypt_ratchet on a message that authenticates.
Decrypt(p, m, out) ==
  LET next == Candidate(p, m, out).state IN
    /\ Decrypts(p, m, out)
    /\ Agrees(p, m, out)
    /\ state' = [state EXCEPT ![p] = next]
    /\ accepted' = [accepted EXCEPT ![p] = @ \cup {m}]
    /\ dropped' = [dropped EXCEPT ![p] =
         @ \cup ({s.key : s \in Evicted(state[p], next)} \ {m.key})]
    /\ UNCHANGED sent

\* Session::decrypt_ratchet on one that does not: nothing is kept.
Refuse(p, m, out) ==
  /\ ~Decrypts(p, m, out)
  /\ UNCHANGED vars

Outputs(p) == {None, OutputOf(held[p] + 1)}

Next ==
  \E p \in Party : \E out \in Outputs(p) :
    \/ Encrypt(p, out)
    \/ \E m \in sent[Peer(p)] : Decrypt(p, m, out) \/ Refuse(p, m, out)

Spec == Init /\ [][Next]_vars

-----------------------------------------------------------------------------
(* Properties *)

\* Both parties can be stored and restored at any time (State::invariant), and
\* the ratchet has folded in exactly the keys the agreement gave.
Restorable ==
  \A p \in Party : invariant(state[p]) /\ state[p].epoch = held[p]

\* The agreement never gets ahead of the ratchet: in every state the epoch it
\* reports has a sending chain, and the key of the next epoch, where it can
\* come, is one the ratchet takes; only a chain at the last number refuses.
SendAlwaysPossible ==
  \A p \in Party :
    \A out \in {o \in Outputs(p) : o # None => A!MayBegin(p)} :
      LET r == send(state[p], known[p], out)
      IN  r.ok \/ (r.err = "ChainExhausted" /\ state[p].chains[known[p]].send.n = U64_MAX)

\* The ratchet has what the agreement asks of it: a state that can be stored, with
\* the chain for every send.
KeepsPace == Restorable /\ SendAlwaysPossible

\* A message decrypts at most once, however often it is delivered and whatever
\* epochs have passed.
NoReplay ==
  \A p \in Party : \A m \in accepted[p] : \A out \in Outputs(p) : ~Decrypts(p, m, out)

\* The messages of p's peer that p may still be able to read: those of an epoch
\* inside the window, before and after the agreement's next key.
Current(p, m, out) ==
  InWindow(m.epoch, IF out = None THEN state[p].epoch ELSE state[p].epoch + 1)

TooFarAhead(p, m) ==
  m.epoch \in DOMAIN state[p].chains /\ m.n - 1 - state[p].chains[m.epoch].receive.n > MAX_SKIP

\* A genuine message decrypts whenever it arrives, with three exceptions: its
\* epoch is retired, its key was evicted, or too many messages before it are
\* missing.  A message that completes an epoch is one that decrypts under it.
GenuineDecrypts ==
  \A p \in Party : \A m \in sent[Peer(p)] \ accepted[p] : \A out \in Outputs(p) :
    Current(p, m, out) /\ m.key \notin dropped[p] /\ ~TooFarAhead(p, m)
      /\ (out # None => held[Peer(p)] > held[p]) => Decrypts(p, m, out)

\* What a party's state still derives.
Derivable(p, key) ==
  \/ \E s \in state[p].skipped : s.key = key
  \/ \E e \in DOMAIN state[p].chains :
       \E ch \in {state[p].chains[e].send, state[p].chains[e].receive} :
         /\ ch.ck.root = key.root /\ ch.ck.dir = key.dir
         /\ ch.n < key.step

\* Forward secrecy: no state derives the key of a message its party sent or
\* accepted, nor any key of an epoch that is out of the window, read or not.
ForwardSecrecy ==
  \A p \in Party :
    /\ \A m \in accepted[p] \cup sent[p] : ~Derivable(p, m.key)
    /\ \A m \in sent[Peer(p)] : ~InWindow(m.epoch, state[p].epoch) => ~Derivable(p, m.key)

\* What was used or retired is gone: it neither decrypts again nor can be derived.
ForgetsUsed == NoReplay /\ ForwardSecrecy
=============================================================================
