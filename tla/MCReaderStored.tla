--------------------------- MODULE MCReaderStored ---------------------------
(***************************************************************************)
(* The two things the reader stores, for TLC: a session and a prekey       *)
(* store.  They share no state.  A behaviour is about one of them; the     *)
(* variables of the other are None throughout.                             *)
(***************************************************************************)
EXTENDS ReaderSession, TLC

CONSTANTS
  HdrChunks, EkChunks, Ct1Chunks, Ct2Chunks,
  Handshakes, Owner, MAX_LAST_RESORT_SEEN, U32_MAX

VARIABLES store, accepted, before, sent, image

Store == INSTANCE ReaderStore WITH disk <- image

ASSUME Store!ReaderStoreAssumption

MCChunkCount == "hdr" :> HdrChunks @@ "ek" :> EkChunks @@ "ct1" :> Ct1Chunks @@ "ct2" :> Ct2Chunks

Peers == Permutations(Handshakes)

storeVars == <<store, accepted, before, sent, image>>

MCInit ==
  \/ /\ Init
     /\ store = None /\ accepted = None /\ before = None /\ sent = None /\ image = None
  \/ /\ Store!Init
     /\ session = None /\ disk = None /\ net = None /\ lead = None /\ faults = None

MCNext ==
  \/ session # None /\ Next /\ UNCHANGED storeVars
  \/ store # None /\ Store!Next /\ UNCHANGED vars

MCSpec == MCInit /\ [][MCNext]_<<vars, storeVars>>

\* Every session the operations produce can be stored and read back.
StoredSessionIsAccepted == session # None => NoStateIsRefused

\* Spoiled sessions are refused, as what they are, and the scan foretells it.
StoredSessionRefusals == session # None => RefusalsAreRight

\* Only a failed KEM or the last epoch stops a session, mixtures of two saves included.
StoredSessionGoesOn == session # None => GoesOn


=============================================================================
