-------------------------- MODULE BraidAgreement ---------------------------
(***************************************************************************)
(* Two parties that run the ML-KEM Braid (module Braid) over messages that *)
(* are lost, delayed and reordered.                                        *)
(*                                                                         *)
(* A Braid message rides on a session message, and the session gives it    *)
(* two guarantees this module relies on: what it delivers is what the peer *)
(* sent, and it delivers it at most once (the receive runs on a copy that  *)
(* is kept only when the message authenticates, and no message decrypts    *)
(* twice: DoubleRatchet!NoReplay).  A failed agreement neither sends nor   *)
(* receives: the session refuses with AgreementFailed.                     *)
(***************************************************************************)
EXTENDS Braid

CONSTANTS
  Initiator, Responder,
  MaxEpoch,      \* bound: the last epoch a party sends messages for
  MaxInFlight,   \* bound: messages under way to a party
  MaxLost,       \* bound: messages lost
  MaxLead        \* traffic: messages a party sends without hearing from its peer

ASSUME TrafficAssumption ==
  /\ Initiator # Responder
  /\ {MaxEpoch, MaxInFlight, MaxLost, MaxLead} \subseteq Nat

VARIABLES
  braid,    \* braid[p]: the agreement of party p
  net,      \* net[p]: the messages under way to p
  outputs,  \* outputs[p]: the keys the agreement has given p, in order
  lead,     \* lead[p]: messages p has sent since it last received one
  lost      \* messages lost so far

vars == <<braid, net, outputs, lead, lost>>

Party == {Initiator, Responder}

Peer(p) == IF p = Initiator THEN Responder ELSE Initiator

PresharedSecret == "sk"

\* The values None stands beside: the keys an agreement gives, and the header and
\* ct2 as they are framed for sending, each with its MAC.
Drawn == Party \X Nat
Encapsulation == [kp : Drawn, r : Drawn]
EpochKey == [secret : Encapsulation, epoch : Nat]
EpochOutput == [key_epoch : Nat, key : EpochKey]
Absorbed == Seq(Nat \X ({PresharedSecret} \cup EpochKey))
FramedHeader == [header : Drawn, mac : {"ekheader"} \X Absorbed \X Nat \X Drawn]
FramedCt2 ==
  [ct2 : Encapsulation,
   mac : {"ciphertext"} \X Absorbed \X Nat \X Encapsulation \X Encapsulation]

ASSUME NoneAssumption ==
  None \notin EpochOutput /\ None \notin FramedHeader /\ None \notin FramedCt2

\* What the sequence of keys becomes when a step yields `out`.
Emit(keys, out) == IF out = None THEN keys ELSE Append(keys, out)

Init ==
  /\ braid = [p \in Party |-> IF p = Initiator THEN initiator(PresharedSecret)
                                               ELSE responder(PresharedSecret)]
  /\ net = [p \in Party |-> {}]
  /\ outputs = [p \in Party |-> << >>]
  /\ lead = [p \in Party |-> 0]
  /\ lost = 0

-----------------------------------------------------------------------------
(* Actions *)

\* Braid::send, committed by Session::encrypt.  A key pair or an encapsulation
\* is drawn at most once an epoch, so the epoch names it.
Send(p) ==
  LET r == step_send(braid[p], <<p, EpochOf(braid[p])>>)
  IN  /\ braid[p] # Failed
      /\ EpochOf(braid[p]) <= MaxEpoch
      /\ lead[p] < MaxLead
      /\ Cardinality(net[Peer(p)]) < MaxInFlight
      /\ braid' = [braid EXCEPT ![p] = r.state]
      /\ net' = [net EXCEPT ![Peer(p)] = @ \cup {r.msg}]
      /\ outputs' = [outputs EXCEPT ![p] = Emit(@, r.out)]
      /\ lead' = [lead EXCEPT ![p] = @ + 1]
      /\ UNCHANGED lost

\* Braid::receive, committed by Session::decrypt_ratchet.
Receive(p) ==
  \E msg \in net[p] :
    LET r == step_receive(braid[p], msg)
    IN  /\ braid[p] # Failed
        /\ braid' = [braid EXCEPT ![p] = r.state]
        /\ net' = [net EXCEPT ![p] = @ \ {msg}]
        /\ outputs' = [outputs EXCEPT ![p] = Emit(@, r.out)]
        /\ lead' = [lead EXCEPT ![p] = 0]
        /\ UNCHANGED lost

\* The network loses a message.
Lose(p) ==
  \E msg \in net[p] :
    /\ lost < MaxLost
    /\ net' = [net EXCEPT ![p] = @ \ {msg}]
    /\ lost' = lost + 1
    /\ UNCHANGED <<braid, outputs, lead>>

Next == \E p \in Party : Send(p) \/ Receive(p) \/ Lose(p)

Spec == Init /\ [][Next]_vars

\* Both parties keep writing and what is not lost is delivered.
Fairness == \A p \in Party : WF_vars(Send(p)) /\ WF_vars(Receive(p))

FairSpec == Spec /\ Fairness

-----------------------------------------------------------------------------
(* Properties *)

KeysHeld(p) == Len(outputs[p])

\* The keys come in the order of their epochs, none skipped and none twice, and
\* the two parties' keys of one epoch are the same: what Triple::send and
\* Triple::receive need of the outputs they fold in.
KeysAgree ==
  \A p \in Party : \A e \in 1..KeysHeld(p) :
    /\ outputs[p][e].key_epoch = e
    /\ e <= KeysHeld(Peer(p)) => outputs[p][e] = outputs[Peer(p)][e]

\* The epoch a party reports with a message is one whose key both parties hold.
ReportedIsShared ==
  \A p \in Party : reported(braid[p]) <= KeysHeld(p) /\ reported(braid[p]) <= KeysHeld(Peer(p))

\* The two parties agree on the keys they hold and on how far both have come.
ViewsAgree == KeysAgree /\ ReportedIsShared

\* Session::structural_invariant, which import checks: how many epoch keys have
\* been folded in follows from the agreement's state, and the agreement plays
\* the role the session was established with.
Importable ==
  \A p \in Party : braid[p] # Failed =>
    /\ KeysHeld(p) =
         IF braid[p].tag \in {"Ct1Sampled", "EkReceivedCt1Sampled", "Ct1Acknowledged", "Ct2Sampled"}
           THEN braid[p].epoch
           ELSE braid[p].epoch - 1
    /\ is_initiator(braid[p]) = (p = Initiator)
    /\ braid[p].epoch \in 1..(U64_MAX - 1)

\* No loss and no order of delivery makes an honest agreement fail.  It is
\* abandoned only where no epoch can follow: one party has the last key there is,
\* and both have all those before.
FailsOnlyAtCeiling ==
  \A p \in Party : braid[p] = Failed =>
    /\ \A q \in Party : KeysHeld(q) >= U64_MAX - 2
    /\ \E q \in Party : KeysHeld(q) = U64_MAX - 1

\* Nothing the network does takes an honest party to a state that import would
\* refuse, or to Failed before the last epoch.
StaysUsable == Importable /\ FailsOnlyAtCeiling

\* The Braid implements the agreement it is used as: an epoch's key reaches the
\* two parties one after the other, in turn, and a party reports an epoch only
\* when both hold its key.
Abstract == INSTANCE Agreement WITH
  LastEpoch <- U64_MAX - 2,
  held <- [p \in Party |-> Len(outputs[p])],
  known <- [p \in Party |-> reported(braid[p])]

ImplementsAgreement == Abstract!Spec

\* While both parties keep writing, every epoch completes.
EpochsComplete == <>(\A p \in Party : KeysHeld(p) >= MaxEpoch)

\* The acknowledgement of ct1 always has a chunk to ride on.
AckAlwaysHasAChunk ==
  \A p \in Party : braid[p].tag = "Ct1Received" => ~braid[p].enc.exhausted
=============================================================================
