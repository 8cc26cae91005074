--------------------------- MODULE NegativeTables ----------------------------
(***************************************************************************)
(* The planted changes of the scripts check-*-negatives.py.  A control is  *)
(* one change to a copy of a Lean module that Lean has to refuse at a      *)
(* named place.  A control keeps its copy, the places of its refusal (in   *)
(* the order the script tries them), its label and what the label names;   *)
(* the edited text and the expected message are left out: an error either  *)
(* matches the message or does not.                                        *)
(***************************************************************************)
EXTENDS Naturals, Sequences

\* The label tables INSIDE, PROJECTION and STATEMENT_SHAPE, and the two
\* kinds of unlabelled control.
Labels == {"inside", "projection", "statement_shape", "pin", "leaf"}

\* placed: the theorem whose conjunct the proof places unchanged where the
\* control is refused, as passed_through reads it off the module.
Controls(n, copy, at, label, of, placed) ==
    [i \in 1..n |-> [copy |-> copy, at |-> at, label |-> label, of |-> of, placed |-> placed]]

Inside(n, decl) == Controls(n, "module", <<decl>>, "inside", decl, "none")
Projection(n, decl, called) == Controls(n, "module", <<decl>>, "projection", called, called)
Shape(n, decl, projected) == Controls(n, "module", <<decl>>, "statement_shape", projected, "none")
LeafOf(n, copy, decls) == Controls(n, copy, decls, "leaf", "none", "none")
Leaf(n, decl) == LeafOf(n, "module", <<decl>>)
Pin(copy, name) == Controls(1, copy, <<name>>, "pin", "none", "none")

\* What a script runs: its controls, the unmodified copies (sources) Lean has
\* to accept first, how it judges a refusal, and for the labelled scripts the
\* composing theorems and those a statement-shape check may project.
Script(controls, sources, judge, labelled, composing, projected) ==
    [controls |-> controls, sources |-> sources, judge |-> judge, labelled |-> labelled,
     composing |-> composing, projected |-> projected]
Labelled(controls, sources, composing) == Script(controls, sources, "named", TRUE, composing, composing)
Plain(controls, sources, judge) == Script(controls, sources, judge, FALSE, {}, {})


InitiatorRepeatedReplyControls ==
    Inside(6, "reply_again_refused_of_invariant")
    \o Inside(4, "initiator_repeated_reply_refused")
    \o Projection(1, "initiator_repeated_reply_refused", "reply_again_refused_of_invariant")
    \o Projection(2, "initiator_repeated_reply_refused", "initiator_receives_reply_successor")
    \o Shape(2, "repeated_reply_refused_reachable", "initiator_repeated_reply_refused")
    \o Leaf(2, "reply_again_receive_outOfOrder") \o Leaf(2, "reply_again_model_refused")
    \o Leaf(1, "byteTrace_seed_two_extra")
    \o Pin("pinned", "reply_again_receive_outOfOrder/check")
InitiatorRepeatedReply ==
    Labelled(InitiatorRepeatedReplyControls, <<"module", "pinned">>,
        {"initiator_repeated_reply_refused", "reply_again_refused_of_invariant"})

InitiatorSecondMessageControls ==
    Inside(5, "initiator_sends_second_message")
    \o Inside(2, "first_send_second_message_reachable")
    \o Projection(2, "initiator_sends_second_message", "initiator_second_send_after_reply")
    \o Projection(1, "first_send_second_message_reachable", "initiator_sends_second_message")
    \o Pin("pinned", "SecondMessageRun")
InitiatorSecondMessage ==
    Labelled(InitiatorSecondMessageControls, <<"module", "pinned">>,
        {"first_send_second_message_reachable", "initiator_sends_second_message"})

InitiatorSecondSendControls ==
    Inside(6, "initiator_second_send_after_reply")
    \o Projection(1, "initiator_second_send_after_reply", "initiator_receives_reply")
    \o Leaf(2, "braid_send_keysSampled") \o Leaf(1, "encryptProviders_of_invariant")
    \o Leaf(1, "braidSendTraceCounted_of_keysSampled") \o Leaf(2, "second_send_key")
    \o Leaf(1, "second_model_step") \o Leaf(1, "first_send_model_session_encoder")
    \o Pin("pinned", "secondFrame")
InitiatorSecondSend ==
    Labelled(InitiatorSecondSendControls, <<"module", "pinned">>,
        {"initiator_second_send_after_reply"})

KdfRealisationControls ==
    Inside(1, "hkdfAgrees") \o Leaf(1, "hkdfAgrees_salt_ikm_swapped")
    \o Leaf(1, "hmacAgrees_key_data_swapped") \o Inside(1, "hmacAgrees")
    \o Shape(1, "sessionHkdfTotal", "hkdfAgrees") \o Leaf(1, "DecryptRatchetAgreements.of_kdf")
    \o Inside(1, "decrypt_ratchet_refines_complete_of_kdf")
    \o Pin("pinned", "KdfFreeAgreements")
KdfRealisation ==
    Labelled(KdfRealisationControls, <<"module", "pinned">>,
        {"decrypt_ratchet_refines_complete_of_kdf", "hkdfAgrees", "hmacAgrees"})

ReceivePreservationControls ==
    Inside(6, "decrypt_ratchet_keeps_invariant_in_order")
    \o Inside(2, "decrypt_keeps_invariant_in_order")
    \o Inside(3, "initiator_receives_reply_successor")
    \o Projection(2, "initiator_receives_reply_successor", "initiator_receives_reply")
    \o Inside(1, "responder_successor_via_preservation") \o Leaf(1, "spqr_receive_inOrder")
    \o Leaf(1, "modelCounterRoom_receive") \o Leaf(1, "two_chunk_loop")
    \o Leaf(1, "decoder_step_keeps")
    \o LeafOf(1, "module", <<"keeps_output_none", "keeps_epoch">>)
    \o Leaf(1, "structural_clear_pending") \o Leaf(1, "modelTripleInv_receive_inOrder")
    \o Shape(1, "decrypt_keeps_invariant_model_step", "decrypt_keeps_invariant_in_order")
    \o Pin("pinned", "KeepsAgreementState")
ReceivePreservation ==
    Labelled(ReceivePreservationControls, <<"module", "pinned">>,
        {"decrypt_keeps_invariant_in_order", "decrypt_ratchet_keeps_invariant_in_order",
         "initiator_receives_reply_successor", "responder_successor_via_preservation"})

ResponderEstablishReplayControls ==
    Inside(4, "establish_responder_again_refused")
    \o Inside(2, "initiator_first_send_responder_replay_refused")
    \o Projection(1, "initiator_first_send_responder_replay_refused", "commit_last_resort")
    \o Shape(2, "first_send_replay_refused_reachable", "initiator_first_send_responder_replay_refused")
    \o Leaf(1, "replay_refused_of_mem") \o Leaf(1, "commit_last_resort")
    \o Pin("pinned", "replay_refused_of_mem/check")
ResponderEstablishReplay ==
    Labelled(ResponderEstablishReplayControls, <<"module", "pinned">>,
        {"establish_responder_again_refused", "initiator_first_send_responder_replay_refused"})

ResponderRepeatedFrameControls ==
    Inside(5, "responder_first_frame_repeat_refused")
    \o Inside(3, "initiator_first_send_responder_repeat_refused")
    \o Projection(1, "initiator_first_send_responder_repeat_refused", "responder_first_frame_repeat_refused")
    \o Projection(1, "initiator_first_send_responder_repeat_refused", "established_encrypt_outcomes")
    \o Shape(2, "first_send_repeat_refused_reachable", "initiator_first_send_responder_repeat_refused")
    \o Leaf(1, "repeat_receive_outOfOrder") \o Leaf(2, "repeat_frame_model_refused")
    \o Leaf(1, "same_ephemeral_repeat") \o Pin("pinned", "repeat_receive_outOfOrder/check")
ResponderRepeatedFrame ==
    Labelled(ResponderRepeatedFrameControls, <<"module", "pinned">>,
        {"initiator_first_send_responder_repeat_refused", "responder_first_frame_repeat_refused"})

ResponderReplyControls ==
    Inside(5, "initiator_first_send_responder_replies")
    \o Inside(1, "responder_first_frame_successor_keys")
    \o Inside(1, "initiator_first_send_responder_successor_keys")
    \o Leaf(1, "braid_send_noHeader") \o Leaf(1, "braidSendTraceCounted_of_noHeader")
    \o Leaf(1, "reply_send_key") \o Leaf(1, "sendAgreement_noHeader_output")
    \o Leaf(1, "encryptHeadroom_reply") \o Leaf(2, "reply_model_step")
    \o Shape(1, "first_send_reply_reachable", "initiator_first_send_responder_replies")
    \o Pin("pinned", "replyFrame")
ResponderReply ==
    Labelled(ResponderReplyControls, <<"module", "pinned">>,
        {"initiator_first_send_responder_replies", "initiator_first_send_responder_successor_keys",
         "responder_first_frame_successor_keys"})

ResponderReplyReceiptControls ==
    Projection(1, "initiator_receives_reply_outcomes", "decrypt_refines_ratchet_frame_of_counter_headroom")
    \o Inside(2, "initiator_receives_reply_outcomes")
    \o Projection(1, "initiator_receives_reply_outcomes", "reply_receipt_model_outcomes")
    \o Inside(2, "initiator_receives_reply_outcomes")
    \o Projection(1, "initiator_receives_reply_two_outcomes", "initiator_receives_reply_outcomes")
    \o Inside(2, "initiator_receives_reply_two_outcomes")
    \o Inside(1, "initiator_receives_reply")
    \o Projection(1, "initiator_receives_reply", "initiator_receives_reply_two_outcomes")
    \o Leaf(1, "reply_receive_key") \o Leaf(1, "reply_receive_stale")
    \o Leaf(1, "reply_receive_key") \o Leaf(1, "modelReply_notConstant")
    \o Leaf(1, "fresh_public_of_draw") \o Leaf(1, "initiator_reply_agreement")
    \o Leaf(1, "reply_receipt_model_outcomes") \o Leaf(1, "first_send_model_session")
    \o Shape(1, "first_send_reply_receipt_reachable", "reply_receipt_reach_run")
    \o Pin("pinned", "replyReceiptSession")
ResponderReplyReceipt ==
    Script(ResponderReplyReceiptControls, <<"module", "pinned">>, "named", TRUE,
        {"initiator_receives_reply", "initiator_receives_reply_outcomes",
         "initiator_receives_reply_two_outcomes"},
        {"initiator_receives_reply", "initiator_receives_reply_outcomes",
         "initiator_receives_reply_two_outcomes", "reply_receipt_reach_run"})

ResponderSecondReceiptControls ==
    Inside(4, "responder_receives_second_message_two_outcomes")
    \o Inside(3, "responder_receives_second_message") \o Inside(2, "second_receipt_reach_run")
    \o Inside(1, "first_send_second_receipt_reachable")
    \o Inside(1, "first_send_second_receipt_stale_reachable")
    \o Projection(1, "responder_receives_second_message_two_outcomes", "initiator_sends_second_message")
    \o Projection(1, "responder_receives_second_message", "responder_receives_second_message_two_outcomes")
    \o Leaf(1, "second_receive_stale") \o Leaf(1, "second_receive_key")
    \o Leaf(1, "established_responder_decoder_small") \o Leaf(1, "secondReceipt_inOrderStep")
    \o Pin("pinned", "SecondReceiptStaleRun") \o Pin("pinned", "SecondReceiptRun")
ResponderSecondReceipt ==
    Labelled(ResponderSecondReceiptControls, <<"module", "pinned">>,
        {"first_send_second_receipt_reachable", "first_send_second_receipt_stale_reachable",
         "responder_receives_second_message", "responder_receives_second_message_two_outcomes",
         "second_receipt_reach_run"})

ResponderSecondSendControls ==
    Inside(8, "responder_sends_second_reply") \o Inside(3, "first_send_second_reply_reachable")
    \o Projection(1, "responder_sends_second_reply", "responder_receives_second_message")
    \o Projection(1, "first_send_second_reply_reachable", "responder_sends_second_reply")
    \o Projection(1, "responder_sends_second_reply", "encrypt_keeps_invariant_no_draw")
    \o Leaf(1, "second_reply_send_key") \o Leaf(2, "second_reply_model_step")
    \o Leaf(1, "modelCounterRoom_secondReplier") \o Leaf(1, "responder_second_send_refines")
    \o Pin("pinned", "SecondReplyRun") \o Pin("pinned", "secondReplyFrame")
ResponderSecondSend ==
    Labelled(ResponderSecondSendControls, <<"module", "pinned">>,
        {"first_send_second_reply_reachable", "responder_sends_second_reply"})

ResponderSuccessorControls ==
    Leaf(2, "triple_eq_received") \o Leaf(1, "received_counterHeadroom")
    \o Leaf(1, "receivedTriple_invariant") \o Leaf(2, "structural_received")
    \o Leaf(2, "decoder_invariant_small") \o Leaf(1, "braid_receive_noHeader")
    \o Leaf(1, "decrypt_ratchet_ok_parts")
    \o Inside(1, "initiator_first_send_responder_successor_hypotheses")
    \o Projection(1, "initiator_first_send_responder_successor_hypotheses", "responder_first_frame_successor")
    \o Projection(1, "responder_first_frame_successor", "responder_first_frame_inner_succeeds")
    \o Shape(2, "initiator_first_send_responder_successor_admissible", "initiator_first_send_responder_successor_hypotheses")
    \o Shape(1, "first_send_receive_successor_reachable", "initiator_first_send_responder_successor_hypotheses")
    \o Pin("pinned", "receivedSession")
ResponderSuccessor ==
    Labelled(ResponderSuccessorControls, <<"module", "pinned">>,
        {"initiator_first_send_responder_successor_hypotheses", "responder_first_frame_successor"})

SendPreservationControls ==
    Inside(3, "encrypt_keeps_invariant_no_draw")
    \o Projection(2, "initiator_first_send_responder_reply_successor", "initiator_first_send_responder_replies")
    \o Inside(1, "established_encrypt_triple_invariant_via_preservation")
    \o Inside(1, "encrypt_keeps_invariant_no_draw")
    \o Inside(2, "initiator_first_send_responder_reply_successor")
    \o Leaf(1, "spqr_send_frame") \o Leaf(1, "modelCounterRoom_encrypt")
    \o Leaf(1, "next_chunk_keeps") \o Leaf(1, "braid_send_no_draw")
    \o Leaf(1, "structural_congr") \o LeafOf(1, "bridge", <<"triple_invariant_iff_model">>)
    \o LeafOf(1, "bridge", <<"spqr_inv_iff_model">>)
    \o Shape(1, "initiator_first_send_responder_reply_admissible", "initiator_first_send_responder_reply_successor")
    \o Pin("pinned", "ModelTripleInv")
SendPreservation ==
    Labelled(SendPreservationControls, <<"bridge", "pinned", "module">>,
        {"encrypt_keeps_invariant_no_draw",
         "established_encrypt_triple_invariant_via_preservation",
         "initiator_first_send_responder_reply_successor"})

SparseSkipKindControls ==
    Inside(3, "skip_message_keys_refines_detailed")
    \o Leaf(1, "sparseReceiveRefusalOfReal_injective")
SparseSkipKind ==
    Labelled(SparseSkipKindControls, <<"module", "pinned">>,
        {"skip_message_keys_refines_detailed"})

TamperedReplyControls ==
    Inside(8, "initiator_refuses_tampered_reply") \o Leaf(1, "open_none_of_not_tagged")
    \o Leaf(1, "not_notTagged_of_seal") \o Leaf(1, "notTagged_of_short")
    \o Leaf(1, "modelTagged_checksTag") \o Leaf(1, "taggedTop_checksTag_not_openSealUnique")
    \o Leaf(1, "taggedLenient_roundTrip_not_checksTag")
    \o Leaf(2, "tampered_reply_model_refusal") \o Leaf(1, "replyFrame_take")
    \o Pin("pinned", "TagMatches") \o Pin("pinned", "AeadOpenChecksTagShape")
    \o Pin("pinned", "NotTagged")
TamperedReply ==
    Labelled(TamperedReplyControls, <<"module", "pinned">>,
        {"initiator_refuses_tampered_reply"})

DecryptRatchetControls ==
    LeafOf(1, "loop", <<"evictHalf_congr_of_covers",
            "batchCovers_double",
            "shortfall_classical_covers",
            "shortfall_post_quantum_covers">>)
    \o LeafOf(1, "loop", <<"receive_with_eviction_loop_refines">>)
    \o LeafOf(1, "loop", <<"receiveWithEvictionLoopResult_stop">>)
    \o LeafOf(1, "loop", <<"shortfall_classical_covers">>)
    \o LeafOf(2, "t3", <<"tripleRefusalOpen_exactly">>)
    \o LeafOf(1, "t3", <<"RetryRunBounds.toRetryReceiveBounds">>)
    \o LeafOf(1, "t3", <<"decrypt_ratchet_refines_or_open">>)
    \o LeafOf(1, "t3", <<"decrypt_ratchet_refines_unless_open">>)
    \o LeafOf(1, "joint", <<"evict_run_satisfiable">>) \o Pin("t3pinned", "TripleRefusalOpen")
    \o LeafOf(1, "refusal", <<"ratchet_receive_tail_refusal_refines">>)
    \o LeafOf(1, "refusal", <<"ratchet_skip_refusal_refines">>)
    \o LeafOf(1, "refusal", <<"spqr_receive_refusal_refines">>)
    \o LeafOf(1, "refusal", <<"triple_receive_refusal_refines">>)
    \o LeafOf(1, "complete", <<"openRefusal_closes">>)
    \o Pin("completepinned", "DecryptRatchetRefinesCompleteStatement")
    \o LeafOf(1, "completescreen", <<"ref_model_triple_refuses">>)

DecryptRunControls ==
    LeafOf(2, "runbounds", <<"retryRunBounds_of_invariant">>)
    \o LeafOf(1, "runbounds", <<"retryRunBounds_of_triple_invariant">>)
    \o LeafOf(1, "runbounds", <<"parkedSession_not_counterHeadroom">>)
    \o LeafOf(1, "runbounds", <<"decryptRatchetRun_of_invariant">>)
    \o Pin("runboundspinned", "CounterHeadroom")
    \o LeafOf(3, "states", <<"storedTriple_invariant">>)
    \o LeafOf(1, "states", <<"storedSession_counterHeadroom">>)
    \o LeafOf(2, "states", <<"structural_storedSession">>)
    \o LeafOf(1, "states", <<"structural_responderSession", "responderTriple_invariant">>)
    \o LeafOf(1, "states", <<"structural_pendingSession">>)
    \o LeafOf(1, "states", <<"session_decode_ec_ephemeral">>)
    \o LeafOf(5, "decryptcopy", <<"decrypt_passthrough_step_refines_ctl">>)
    \o LeafOf(3, "decrypt", <<"decrypt_refines_ratchet_frame">>)
    \o Pin("decryptpinned", "DecryptRefinesRatchetFrameStatement")
DecryptRatchet == Plain(DecryptRatchetControls \o DecryptRunControls,
        <<"loop", "t3", "t3pinned", "joint", "refusal", "complete", "completepinned",
          "completescreen", "runbounds", "runboundspinned", "states", "decryptcopy", "decrypt",
          "decryptpinned">>, "somewhere")

EncryptControls ==
    LeafOf(2, "encrypt", <<"encryptHeadroom_parts">>)
    \o LeafOf(1, "encrypt", <<"tripleStoreFacts_parts">>)
    \o LeafOf(2, "encrypt", <<"braidSendTraceCounted_of_keysUnsampled">>)
    \o LeafOf(1, "encrypt", <<"established_encrypt_outcomes">>)
    \o LeafOf(2, "encrypt", <<"established_triple_send_ok">>)
    \o LeafOf(2, "encrypt", <<"established_encrypt_model_cases">>)
    \o LeafOf(1, "encrypt", <<"established_triple_next_counters">>)
    \o LeafOf(1, "encrypt", <<"triple_eq_sent">>)
    \o LeafOf(2, "encrypt", <<"established_encrypt_successor_admissible">>)
    \o LeafOf(1, "encrypt", <<"genFill_answers">>)
    \o Pin("encryptpinned", "KeyGenAnswersShape")
Encrypt == Plain(EncryptControls,
        <<"encrypt", "encryptpinned">>, "atPlace")

EstablishedControls ==
    LeafOf(1, "shape", <<"init_sender_ok">>) \o LeafOf(4, "shape", <<"structural_parts">>)
    \o LeafOf(1, "shape", <<"dhPublicValid_valid">>)
    \o LeafOf(2, "shape", <<"counterHeadroom_parts">>)
    \o LeafOf(2, "shape", <<"sessionRefines_parts">>)
    \o LeafOf(1, "shape", <<"establish_initiator_for_succeeds">>)
    \o LeafOf(1, "decrypt", <<"established_decrypt_laws_model">>)
    \o Pin("shapepinned", "DhPublicValidShape")
Established == Plain(EstablishedControls,
        <<"shape", "shapepinned", "decrypt">>, "somewhere")

ResponderFrameControls ==
    Leaf(1, "shared_secret_symmetric") \o Leaf(1, "modelFirstFrame_symmetric")
    \o Leaf(1, "first_frame_laws_model") \o Leaf(1, "responder_first_frame_prepares")
    \o Leaf(1, "distinct_kem_last") \o Leaf(1, "distinct_pool_last")
    \o Leaf(1, "responder_first_frame_prepares") \o Leaf(1, "replay_refusal_cause")
    \o Leaf(3, "responder_first_frame_prepares") \o Leaf(1, "decode_first_frame")
    \o Leaf(1, "publish_parts") \o Leaf(1, "kem_slot_one_time")
    \o Leaf(1, "establish_initiator_for_secret") \o Leaf(1, "first_send_responder_reachable")
    \o Leaf(1, "first_send_responder_prepares") \o Leaf(1, "replay_refusal_cause")
    \o Leaf(1, "first_send_responder_prepares") \o Pin("pinned", "DhAgreeSymmetricShape")
ResponderFrame == Plain(ResponderFrameControls,
        <<"module", "pinned">>, "somewhere")

ResponderControls ==
    Leaf(4, "responder_structural") \o Leaf(1, "hdr_decoder_checks")
    \o Leaf(1, "fresh_decoder_invariant") \o Leaf(1, "hdr_decoder_checks")
    \o Leaf(1, "counterHeadroom_responder_prepared")
    \o Leaf(2, "sessionRefines_responder_prepared") \o Leaf(3, "establish_responder_cases")
    \o Leaf(2, "responderCommit_effects") \o Leaf(1, "establish_responder_refines")
    \o Leaf(1, "decryptRatchet_oracle") \o Leaf(1, "responder_route_laws_model")
    \o Pin("pinned", "ResponderCommit")
Responder == Plain(ResponderControls,
        <<"module", "pinned">>, "somewhere")

ResponderReceiptControls ==
    Leaf(3, "first_receive_key") \o Leaf(1, "decode_encodeMessage")
    \o Leaf(2, "first_frame_model_outcomes") \o Leaf(1, "aead_open_sealed")
    \o Leaf(1, "responder_candidate_agreement") \o Leaf(1, "first_identityAd_eq")
    \o Leaf(1, "first_init_pair") \o Leaf(1, "first_receipt_run_inputs")
    \o Leaf(1, "responder_first_frame_inner_outcomes")
    \o Leaf(1, "initiator_first_send_responder_receives")
    \o Leaf(1, "first_frame_model_outcomes")
    \o Leaf(1, "initiator_first_send_responder_receives")
    \o Leaf(1, "responder_first_frame_succeeds")
    \o Leaf(2, "initiator_first_send_responder_receives")
    \o Leaf(1, "modelFirstReceipt_aeadRoundTrip") \o Pin("pinned", "DhAgreeContributoryShape")
ResponderReceipt == Plain(ResponderReceiptControls,
        <<"module", "pinned">>, "somewhere")

RestoredControls ==
    LeafOf(1, "restored", <<"import_ok_gives_invariant">>)
    \o LeafOf(1, "restored", <<"counterHeadroom_iff_check">>)
    \o LeafOf(1, "restored", <<"sessionRefines_restored">>)
    \o LeafOf(2, "roundtrip", <<"export_import_of_shape">>)
    \o LeafOf(1, "codec", <<"ratchet_to_bytes_spec">>)
    \o LeafOf(1, "codec", <<"read_epoch_of">>)
    \o LeafOf(1, "codec", <<"lifecycle_take_len_prefixed_of">>)
    \o LeafOf(1, "restored", <<"codecShape_parts">>)
    \o LeafOf(1, "restored", <<"restored_laws_model_established">>)
    \o Pin("restoredpinned", "KemCiphertextLenBoundShape")
    \o Pin("restoredpinned", "restored_decrypt_laws_model")
Restored == Plain(RestoredControls,
        <<"codec", "roundtrip", "restored", "restoredpinned">>, "atPlace")

DischargeNativeDecideControls ==
    LeafOf(1, "spqr", <<"protocol_info_agrees">>)
    \o LeafOf(1, "spqr", <<"chain_start_agrees">>)
    \o LeafOf(1, "spqr", <<"root_label_agrees">>)
    \o LeafOf(1, "spqr", <<"chain_label_agrees">>) \o LeafOf(1, "spqr", <<"max_skip_agrees">>)
    \o LeafOf(1, "spqr", <<"max_skipped_store_agrees">>)
    \o LeafOf(1, "spqr", <<"max_skip_val">>)
    \o LeafOf(1, "spqr", <<"receive_refines_continuation">>)
    \o LeafOf(1, "triple", <<"combine_info_agrees">>)
    \o LeafOf(1, "triple", <<"split_info_agrees">>)
    \o LeafOf(1, "roundtrip", <<"export_message_fits">>)
    \o Pin("spqr-pinned", "protocol_info_agrees")
DischargeNativeDecide == Plain(DischargeNativeDecideControls,
        <<"spqr", "triple", "roundtrip", "spqr-pinned">>, "first")

AtomicityControls ==
    LeafOf(3, "decrypt_ratchet", <<>>) \o LeafOf(2, "decrypt", <<>>)
    \o LeafOf(5, "encrypt", <<>>) \o LeafOf(2, "establish_responder", <<>>)
Atomicity ==
    Plain(AtomicityControls, <<"decrypt_ratchet", "decrypt", "encrypt", "establish_responder">>, "anywhere")

RepairControls == LeafOf(4, "module", <<>>) \o LeafOf(1, "lemma", <<>>)
Repair == Plain(RepairControls, <<"module", "lemma">>, "anywhere")

SendRefusalControls == LeafOf(2, "module", <<>>)
SendRefusal == Plain(SendRefusalControls, <<"module">>, "unguarded")

SparseStoreFullControls == LeafOf(2, "module", <<"BRANCH_HEAD">>)
SparseStoreFull == Plain(SparseStoreFullControls, <<"module">>, "branch")

\* negatives-control-counts.json: the number of controls of each class and of
\* unmodified copies that each labelled script is recorded with.
Count(i, p, s, n, l, b) ==
    [inside |-> i, projection |-> p, statement_shape |-> s, pin |-> n, leaf |-> l, baselines |-> b]

Record ==
    [InitiatorRepeatedReply |-> Count(10, 3, 2, 1, 5, 2),
     InitiatorSecondMessage |-> Count(7, 3, 0, 1, 0, 2),
     InitiatorSecondSend |-> Count(6, 1, 0, 1, 8, 2),
     KdfRealisation |-> Count(3, 0, 1, 1, 3, 2),
     ReceivePreservation |-> Count(12, 2, 1, 1, 7, 2),
     ResponderEstablishReplay |-> Count(6, 1, 2, 1, 2, 2),
     ResponderRepeatedFrame |-> Count(8, 2, 2, 1, 4, 2),
     ResponderReply |-> Count(7, 0, 1, 1, 7, 2),
     ResponderReplyReceipt |-> Count(7, 4, 1, 1, 8, 2),
     ResponderSecondReceipt |-> Count(11, 2, 0, 2, 4, 2),
     ResponderSecondSend |-> Count(11, 3, 0, 2, 5, 2),
     ResponderSuccessor |-> Count(1, 2, 3, 1, 10, 2),
     SendPreservation |-> Count(7, 2, 1, 1, 7, 3),
     SparseSkipKind |-> Count(3, 0, 0, 0, 1, 2),
     TamperedReply |-> Count(8, 0, 0, 3, 9, 2)]

Scripts ==
    [InitiatorRepeatedReply |-> InitiatorRepeatedReply,
     InitiatorSecondMessage |-> InitiatorSecondMessage,
     InitiatorSecondSend |-> InitiatorSecondSend,
     KdfRealisation |-> KdfRealisation,
     ReceivePreservation |-> ReceivePreservation,
     ResponderEstablishReplay |-> ResponderEstablishReplay,
     ResponderRepeatedFrame |-> ResponderRepeatedFrame,
     ResponderReply |-> ResponderReply,
     ResponderReplyReceipt |-> ResponderReplyReceipt,
     ResponderSecondReceipt |-> ResponderSecondReceipt,
     ResponderSecondSend |-> ResponderSecondSend,
     ResponderSuccessor |-> ResponderSuccessor,
     SendPreservation |-> SendPreservation,
     SparseSkipKind |-> SparseSkipKind,
     TamperedReply |-> TamperedReply,
     DecryptRatchet |-> DecryptRatchet,
     Encrypt |-> Encrypt,
     Established |-> Established,
     ResponderFrame |-> ResponderFrame,
     Responder |-> Responder,
     ResponderReceipt |-> ResponderReceipt,
     Restored |-> Restored,
     DischargeNativeDecide |-> DischargeNativeDecide,
     Atomicity |-> Atomicity,
     Repair |-> Repair,
     SendRefusal |-> SendRefusal,
     SparseStoreFull |-> SparseStoreFull]

LabelledScripts == {s \in DOMAIN Scripts : Scripts[s].labelled}

=============================================================================
