---------------------------- MODULE AttestFloor ----------------------------
(***************************************************************************)
(* The floors of attest.py (tacenta-proofs/scripts): the theorems whose    *)
(* `#print axioms` pin may not be deleted, the declarations whose          *)
(* statement pin may not be, those whose statement pin must be `#print`,   *)
(* and the theorems that may rest on the compiler.  The lists are written  *)
(* in blocks keyed by Lean module; a block is kept as the module and the   *)
(* number of names in it, since every name of a block is treated alike.    *)
(***************************************************************************)
EXTENDS Naturals, Sequences, FiniteSets, FiniteSetsExt, SequencesExt

-----------------------------------------------------------------------------
(* Theorems whose axiom pin may not be deleted. *)

RequiredPins1 ==
  <<<<"UnitLifecycleT1", 6>>, <<"SessionBraidReceiveVacuity", 6>>,
   <<"SessionBraidReceiveRepair", 12>>, <<"SessionUnitDecoderBound", 4>>,
   <<"SessionUnitBraidImportInv", 1>>, <<"UnitSatisfiabilityBraidAgreements", 3>>,
   <<"UnitSatisfiabilityErasureAgrees", 3>>, <<"UnitSatisfiabilityBraidStates", 5>>,
   <<"UnitBraidEntryPoints", 8>>, <<"UnitErasureRs", 9>>, <<"UnitErasureRs", 2>>,
   <<"Gf65536", 2>>, <<"SessionUnitSpqrT3", 8>>, <<"SessionUnitTripleT3", 3>>,
   <<"SessionT3", 1>>, <<"SpqrT3", 2>>, <<"UnitSpqrT3", 2>>, <<"UnitTripleT3", 3>>,
   <<"Braid", 4>>, <<"Polynomial", 1>>, <<"ErasureT3", 1>>,
   <<"UnitSatisfiabilityRecords", 9>>>>

RequiredPins2 ==
  <<<<"UnitSatisfiabilityJoint", 25>>, <<"UnitSatisfiabilityErasure", 9>>,
   <<"UnitSatisfiabilityRatchet", 14>>, <<"UnitSatisfiabilitySession", 4>>,
   <<"UnitSatisfiabilityZeroizeScope", 11>>, <<"DispatchEvidenceVacuity", 19>>,
   <<"BraidPreserve", 14>>, <<"SessionUnitBraidPreserve", 14>>,
   <<"BraidPreserveWitness", 4>>, <<"BraidPreserveCorollary", 2>>>>

RequiredPins3 ==
  <<<<"SessionUnitBraidPreserveDecoder", 5>>, <<"SessionUnitBraidPreserveFacts", 11>>,
   <<"SparseReplacementBound", 10>>, <<"SparseReachableStore", 33>>,
   <<"UnitHeadroomSatisfiable", 30>>, <<"UnitHeadroomInvariant", 21>>>>

RequiredPins4 ==
  <<<<"NumericBoundary", 11>>, <<"NumericBoundaryLeaf", 7>>,
   <<"NumericBoundaryTriple", 3>>, <<"NumericBoundarySession", 4>>,
   <<"NumericShapeWitness", 2>>, <<"NumericWitnessLeaf", 23>>,
   <<"NumericWitnessTriple", 12>>, <<"NumericWitnessSession", 31>>,
   <<"DecodedStateDischarge", 9>>, <<"SessionUnitDecodedStateDischarge", 14>>>>

RequiredPins5 ==
  <<<<"SatisfiabilitySpqrLaws", 29>>, <<"SatisfiabilityRatchetLaws", 10>>,
   <<"SatisfiabilityBraidZeroize", 1>>, <<"UnitSatisfiabilityTripleLaws", 36>>,
   <<"SpqrFromBytesWitness", 2>>, <<"BraidFromBytesWitness", 2>>,
   <<"SessionUnitBraidFromBytesWitness", 2>>, <<"RatchetDecodedWitness", 2>>,
   <<"UnitLifecycleAtomicity", 7>>, <<"UnitLifecycleRepair", 2>>,
   <<"UnitLifecycleResponderEstablishReplay", 5>>, <<"UnitT3", 1>>,
   <<"UnitSpqrT3", 1>>, <<"UnitTripleT3", 1>>, <<"UnitLifecycleT3", 3>>>>

RequiredPins6 ==
  <<<<"UnitLifecycleTamperedReply", 22>>, <<"UnitLifecycleIntegrationScreen", 24>>,
   <<"UnitLifecycleKdf", 19>>, <<"KdfLeafAgreements", 12>>,
   <<"KdfTripleUnitAgreements", 7>>>>

RequiredPins7 ==
  <<<<"UnitLifecycleReceivePreserve", 50>>, <<"UnitOracleShape", 13>>,
   <<"UnitOracleModel", 2>>, <<"UnitOracleDh", 1>>, <<"UnitOracleAead", 1>>,
   <<"UnitOracleKemSig", 7>>, <<"UnitOracleJoint", 7>>, <<"UnitOracleDecrypt", 3>>,
   <<"Lifecycle", 3>>, <<"UnitLifecycleRetryLoopT3", 5>>,
   <<"UnitLifecycleDecryptRatchetT3", 11>>>>

RequiredPins8 ==
  <<<<"UnitLifecycleDecryptRatchetScreen", 23>>,
   <<"UnitLifecycleTripleRefusalT3", 9>>,
   <<"UnitLifecycleDecryptRatchetCompleteT3", 6>>,
   <<"UnitLifecycleDecryptRatchetCompleteScreen", 9>>,
   <<"UnitLifecycleDecryptRatchetT3", 2>>,
   <<"UnitSatisfiabilitySpqrSessionLaws", 9>>,
   <<"UnitSatisfiabilityZeroizeScope", 1>>, <<"UnitLifecycleDecryptRatchetT3", 2>>,
   <<"UnitLifecycleDecryptScreen", 28>>>>

RequiredPins9 ==
  <<<<"UnitKemWrapperModel", 44>>, <<"UnitHeldKemWitness", 36>>,
   <<"UnitLifecycleInitialAgreementT3", 8>>,
   <<"UnitLifecycleInitiatorRepeatedReply", 8>>,
   <<"UnitLifecycleInitiatorSecondMessage", 2>>, <<"SessionUnitDecodeEc", 11>>>>

RequiredPins10 ==
  <<<<"UnitLifecycleDecryptRunBounds", 19>>,
   <<"UnitLifecycleEstablishInitiatorShape", 29>>,
   <<"UnitLifecycleEstablishedDecrypt", 12>>, <<"UnitLifecycleDecryptStates", 36>>,
   <<"UnitLifecycleDecryptT3", 21>>>>

RequiredPins11 ==
  <<<<"UnitLifecycleSessionCodec", 83>>, <<"UnitLifecycleSessionRoundTrip", 7>>,
   <<"UnitLifecycleSparseSkipKindT3", 2>>, <<"UnitLifecycleRestoredSession", 18>>>>

RequiredPins12 ==
  <<<<"UnitLifecycleEstablishedEncrypt", 63>>>>

RequiredPins13 ==
  <<<<"UnitLifecycleEstablishResponder", 80>>,
   <<"UnitLifecycleResponderFirstFrame", 46>>>>

RequiredPins14 ==
  <<<<"UnitLifecycleResponderFirstReceipt", 42>>,
   <<"UnitLifecycleResponderRepeatedFrame", 8>>,
   <<"UnitLifecycleResponderSuccessor", 18>>, <<"UnitLifecycleResponderReply", 19>>,
   <<"UnitLifecycleResponderReplyReceipt", 32>>>>

RequiredPins15 ==
  <<<<"UnitLifecycleResponderSecondReceipt", 19>>,
   <<"UnitLifecycleResponderSecondSend", 8>>, <<"UnitTripleInvModel", 11>>,
   <<"UnitLifecycleSendPreserve", 29>>, <<"UnitLifecycleInitiatorSecondSend", 11>>>>

REQUIRED_PINS ==
  RequiredPins1 \o RequiredPins2 \o RequiredPins3 \o RequiredPins4 \o
    RequiredPins5 \o RequiredPins6 \o RequiredPins7 \o RequiredPins8 \o
    RequiredPins9 \o RequiredPins10 \o RequiredPins11 \o RequiredPins12 \o
    RequiredPins13 \o RequiredPins14 \o RequiredPins15

-----------------------------------------------------------------------------
(* Theorems that may rest on the compiler. *)

CompilerTrustedPins ==
  <<<<"UnitLifecycleRestoredSession", 9>>, <<"Serialization", 1>>,
   <<"UnitLifecycleSessionRoundTrip", 2>>>>

COMPILER_TRUSTED_PINS == CompilerTrustedPins

-----------------------------------------------------------------------------
(* Declarations whose statement pin may not be deleted. *)

StatementPins1 ==
  <<<<"DispatchEvidenceVacuity", 19>>, <<"UnitSatisfiabilityRecords", 3>>,
   <<"SessionUnitSpqrT1", 2>>, <<"SessionUnitBraidT1", 1>>,
   <<"SessionUnitSpqrT3", 8>>, <<"SessionUnitTripleT3", 3>>,
   <<"UnitSatisfiabilitySession", 1>>, <<"BraidPreserve", 18>>,
   <<"BraidPreserveCorollary", 2>>, <<"BraidPreserveDecoder", 4>>,
   <<"BraidPreserveWitness", 2>>, <<"NumericShapeWitness", 63>>>>

StatementPins2 ==
  <<<<"SessionUnitBraidPreserve", 18>>, <<"SessionUnitBraidPreserveDecoder", 4>>,
   <<"SessionUnitBraidPreserveFacts", 14>>, <<"BraidFromBytesWitness", 2>>,
   <<"RatchetDecodedWitness", 2>>, <<"SatisfiabilityBraidZeroize", 2>>,
   <<"SatisfiabilityRatchetLaws", 13>>, <<"SatisfiabilitySpqrLaws", 45>>,
   <<"SessionUnitBraidFromBytesWitness", 2>>, <<"SpqrFromBytesWitness", 2>>,
   <<"UnitHeadroomInvariant", 10>>, <<"UnitHeadroomSatisfiable", 9>>>>

StatementPins3 ==
  <<<<"UnitSatisfiabilityTripleLaws", 54>>, <<"UnitBraidEntryPoints", 4>>,
   <<"UnitBraidEntryPoints", 4>>, <<"UnitErasureRs", 2>>, <<"UnitErasureRs", 9>>,
   <<"UnitLifecycleAtomicity", 7>>, <<"UnitLifecycleRepair", 2>>,
   <<"UnitLifecycleResponderEstablishReplay", 5>>,
   <<"UnitSatisfiabilityBraidAgreements", 3>>,
   <<"UnitSatisfiabilityBraidStates", 10>>,
   <<"UnitSatisfiabilityErasureAgrees", 3>>, <<"UnitT3", 1>>, <<"UnitSpqrT3", 1>>,
   <<"UnitTripleT3", 1>>, <<"UnitLifecycleT3", 3>>>>

StatementPins4 ==
  <<<<"UnitLifecycleTamperedReply", 38>>, <<"UnitLifecycleIntegrationScreen", 34>>,
   <<"UnitLifecycleKdf", 20>>, <<"KdfLeafAgreements", 12>>,
   <<"KdfTripleUnitAgreements", 7>>>>

StatementPins5 ==
  <<<<"UnitLifecycleReceivePreserve", 56>>, <<"UnitOracleShape", 24>>,
   <<"UnitOracleModel", 4>>, <<"UnitOracleDh", 1>>, <<"UnitOracleAead", 1>>,
   <<"UnitOracleKemSig", 9>>, <<"UnitOracleJoint", 8>>, <<"UnitOracleDecrypt", 5>>,
   <<"Lifecycle", 3>>, <<"UnitLifecycleT1", 8>>, <<"UnitSatisfiabilityJoint", 8>>,
   <<"Braid", 4>>>>

StatementPins6 ==
  <<<<"Lifecycle", 7>>, <<"UnitLifecycleT3", 6>>, <<"SparseReplacementBound", 10>>,
   <<"SpqrT3", 1>>, <<"SparseReachableStore", 40>>,
   <<"UnitLifecycleRetryLoopT3", 11>>, <<"UnitLifecycleDecryptRatchetT3", 18>>,
   <<"UnitLifecycleT3", 3>>, <<"SessionUnitSpqrT3", 2>>>>

StatementPins7 ==
  <<<<"UnitLifecycleDecryptRatchetScreen", 42>>,
   <<"UnitLifecycleTripleRefusalT3", 10>>,
   <<"UnitLifecycleDecryptRatchetCompleteT3", 7>>,
   <<"UnitLifecycleDecryptRatchetCompleteScreen", 14>>,
   <<"UnitLifecycleDecryptRatchetT3", 3>>,
   <<"UnitSatisfiabilitySpqrSessionLaws", 11>>, <<"UnitSatisfiabilityRatchet", 4>>,
   <<"UnitSatisfiabilityZeroizeScope", 1>>, <<"UnitLifecycleDecryptRatchetT3", 2>>>>

StatementPins8 ==
  <<<<"UnitLifecycleDecryptScreen", 39>>, <<"UnitKemWrapperModel", 64>>>>

StatementPins9 ==
  <<<<"UnitHeldKemWitness", 48>>, <<"UnitLifecycleInitialAgreementT3", 8>>,
   <<"UnitLifecycleInitiatorRepeatedReply", 8>>,
   <<"UnitLifecycleInitiatorSecondMessage", 3>>, <<"Lifecycle", 1>>,
   <<"SessionUnitDecodeEc", 11>>, <<"Lifecycle", 1>>,
   <<"UnitLifecycleDecryptRunBounds", 25>>>>

StatementPins10 ==
  <<<<"UnitLifecycleEstablishInitiatorShape", 41>>,
   <<"UnitLifecycleEstablishedDecrypt", 16>>, <<"UnitLifecycleDecryptStates", 50>>,
   <<"UnitLifecycleDecryptT3", 24>>>>

StatementPins11 ==
  <<<<"UnitLifecycleSessionCodec", 109>>, <<"UnitLifecycleSessionRoundTrip", 9>>,
   <<"UnitLifecycleSparseSkipKindT3", 2>>>>

StatementPins12 ==
  <<<<"UnitLifecycleRestoredSession", 24>>, <<"UnitLifecycleEstablishedEncrypt", 91>>>>

StatementPins13 ==
  <<<<"UnitLifecycleEstablishResponder", 102>>>>

StatementPins14 ==
  <<<<"UnitLifecycleResponderFirstFrame", 66>>,
   <<"UnitLifecycleResponderFirstReceipt", 63>>,
   <<"UnitLifecycleResponderRepeatedFrame", 8>>>>

StatementPins15 ==
  <<<<"UnitLifecycleResponderSuccessor", 21>>, <<"UnitLifecycleResponderReply", 23>>,
   <<"UnitLifecycleResponderReplyReceipt", 43>>,
   <<"UnitLifecycleResponderSecondReceipt", 25>>,
   <<"UnitLifecycleResponderSecondSend", 13>>>>

StatementPins16 ==
  <<<<"UnitTripleInvModel", 16>>, <<"UnitLifecycleSendPreserve", 32>>,
   <<"UnitLifecycleInitiatorSecondSend", 16>>>>

REQUIRED_STATEMENT_PINS ==
  StatementPins1 \o StatementPins2 \o StatementPins3 \o StatementPins4 \o
    StatementPins5 \o StatementPins6 \o StatementPins7 \o StatementPins8 \o
    StatementPins9 \o StatementPins10 \o StatementPins11 \o StatementPins12 \o
    StatementPins13 \o StatementPins14 \o StatementPins15 \o StatementPins16

-----------------------------------------------------------------------------
(* Definitions whose statement pin must print the body. *)

PrintForm1 ==
  <<<<"SessionUnitSpqrT1", 2>>, <<"SessionUnitBraidT1", 1>>, <<"Lifecycle", 5>>,
   <<"UnitLifecycleT3", 6>>, <<"SparseReachableStore", 7>>,
   <<"UnitLifecycleTamperedReply", 16>>, <<"UnitOracleShape", 11>>,
   <<"UnitOracleModel", 2>>, <<"UnitOracleKemSig", 2>>, <<"UnitOracleJoint", 1>>,
   <<"UnitOracleDecrypt", 2>>, <<"UnitLifecycleT1", 8>>,
   <<"UnitSatisfiabilityJoint", 8>>, <<"UnitLifecycleIntegrationScreen", 10>>,
   <<"UnitLifecycleKdf", 1>>, <<"UnitLifecycleReceivePreserve", 6>>,
   <<"UnitLifecycleRetryLoopT3", 6>>, <<"UnitLifecycleDecryptRatchetT3", 7>>,
   <<"UnitLifecycleDecryptRatchetScreen", 19>>, <<"UnitLifecycleT3", 3>>,
   <<"SessionUnitSpqrT3", 2>>>>

PrintForm2 ==
  <<<<"UnitLifecycleTripleRefusalT3", 1>>,
   <<"UnitLifecycleDecryptRatchetCompleteT3", 1>>,
   <<"UnitLifecycleDecryptRatchetCompleteScreen", 5>>,
   <<"UnitLifecycleDecryptRatchetT3", 1>>,
   <<"UnitSatisfiabilitySpqrSessionLaws", 2>>, <<"UnitSatisfiabilityRatchet", 4>>,
   <<"UnitLifecycleDecryptScreen", 11>>, <<"UnitKemWrapperModel", 20>>,
   <<"UnitHeldKemWitness", 12>>, <<"Lifecycle", 1>>, <<"Lifecycle", 1>>,
   <<"UnitLifecycleDecryptRunBounds", 6>>,
   <<"UnitLifecycleEstablishInitiatorShape", 12>>,
   <<"UnitLifecycleEstablishedDecrypt", 4>>, <<"UnitLifecycleDecryptStates", 14>>,
   <<"UnitLifecycleDecryptT3", 3>>>>

PrintForm3 ==
  <<<<"UnitLifecycleSessionCodec", 26>>, <<"UnitLifecycleSessionRoundTrip", 2>>,
   <<"UnitLifecycleRestoredSession", 6>>, <<"UnitLifecycleEstablishedEncrypt", 28>>,
   <<"UnitLifecycleInitiatorSecondMessage", 1>>,
   <<"UnitLifecycleEstablishResponder", 22>>,
   <<"UnitLifecycleResponderFirstFrame", 20>>>>

PrintForm4 ==
  <<<<"UnitLifecycleResponderFirstReceipt", 21>>,
   <<"UnitLifecycleResponderSuccessor", 3>>, <<"UnitLifecycleResponderReply", 4>>,
   <<"UnitLifecycleResponderReplyReceipt", 11>>,
   <<"UnitLifecycleResponderSecondReceipt", 6>>,
   <<"UnitLifecycleResponderSecondSend", 5>>, <<"UnitTripleInvModel", 5>>,
   <<"UnitLifecycleSendPreserve", 3>>, <<"UnitLifecycleInitiatorSecondSend", 5>>>>

REQUIRED_PRINT_FORM ==
  PrintForm1 \o PrintForm2 \o PrintForm3 \o PrintForm4

-----------------------------------------------------------------------------
(* What the gate reads of them *)

\* How many names of module mod a list holds, over all its blocks.
NamesOf(list, mod) ==
  FoldSeq(LAMBDA block, sum : (IF block[1] = mod THEN block[2] ELSE 0) + sum, 0, list)

Total(list) == FoldSeq(LAMBDA block, sum : block[2] + sum, 0, list)

ModulesOf(list) == {list[i][1] : i \in DOMAIN list}

Modules == ModulesOf(REQUIRED_PINS) \union ModulesOf(REQUIRED_STATEMENT_PINS)
=============================================================================
