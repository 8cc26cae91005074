----------------------------- MODULE Agreement -----------------------------
(***************************************************************************)
(* What a sparse continuous key agreement promises the ratchet above it    *)
(* (the interface of Braid::send and Braid::receive, without its messages):*)
(* one key an epoch; in every epoch one party gets the key first and the   *)
(* other once; the parties take turns; and a party that reports an epoch   *)
(* knows that both hold its key.  Module BraidAgreement implements this,   *)
(* module SparseExchange builds on it.                                     *)
(***************************************************************************)
EXTENDS Integers

CONSTANTS
  Initiator, Responder,
  LastEpoch     \* the last epoch both parties can complete

VARIABLES
  held,   \* held[p]: the epochs whose key p has, 1..held[p]
  known   \* known[p]: the epoch p reports

agreement == <<held, known>>

Party == {Initiator, Responder}

Peer(p) == IF p = Initiator THEN Responder ELSE Initiator

Init ==
  /\ held = [p \in Party |-> 0]
  /\ known = [p \in Party |-> 0]

\* Who has the key of epoch e first: the responder in odd epochs.
FirstHolder(e) == IF e % 2 = 1 THEN Responder ELSE Initiator

\* The next epoch can begin, with p: both parties report the one before.
MayBegin(p) ==
  /\ FirstHolder(held[p] + 1) = p
  /\ held[p] <= LastEpoch
  /\ \A q \in Party : held[q] = held[p] /\ known[q] = held[p]

\* A send of p yields the key of the epoch after the one both parties report.
FirstKey(p) ==
  /\ MayBegin(p)
  /\ held' = [held EXCEPT ![p] = @ + 1]
  /\ UNCHANGED known

\* A receive of p yields the key its peer already has, and both hold it now.
SecondKey(p) ==
  /\ held[Peer(p)] = held[p] + 1
  /\ held[p] < LastEpoch
  /\ held' = [held EXCEPT ![p] = @ + 1]
  /\ known' = [known EXCEPT ![p] = held[p] + 1]

\* A receive tells p that its peer has caught up.
Learn(p) ==
  /\ held[Peer(p)] = held[p]
  /\ known[p] = held[p] - 1
  /\ known' = [known EXCEPT ![p] = held[p]]
  /\ UNCHANGED held

\* No epoch follows the one that begins after the last: p gives the agreement up
\* and reports nothing.
Abandon(p) ==
  /\ \E q \in Party : held[q] > LastEpoch
  /\ known' = [known EXCEPT ![p] = 0]
  /\ UNCHANGED held

Next == \E p \in Party : FirstKey(p) \/ SecondKey(p) \/ Learn(p) \/ Abandon(p)

Spec == Init /\ [][Next]_agreement
=============================================================================
