-------------------------- MODULE MCEstablishment --------------------------
(* Small instances of Establishment. *)
EXTENDS Establishment, TLC

Peers == Permutations(Handshakes)
=============================================================================
