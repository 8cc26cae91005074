------------------------- MODULE MCBraidAgreement --------------------------
(* Instances of BraidAgreement, with the reader beside it, for TLC. *)
EXTENDS ReaderAgreesBraid, TLC

CONSTANTS HdrChunks, EkChunks, Ct1Chunks, Ct2Chunks

MCNeeded == "hdr" :> HdrChunks @@ "ek" :> EkChunks @@ "ct1" :> Ct1Chunks @@ "ct2" :> Ct2Chunks
=============================================================================
