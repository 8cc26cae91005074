-------------------------- MODULE OperationReader --------------------------
(***************************************************************************)
(* The specification-only reader of operation traces                       *)
(* (session-operation-reader.py) beside the library it judges: every step  *)
(* runs an operation of the prekey store (module PrekeyStore) or of a      *)
(* session, declares what it did in the vocabulary of the trace grammar,   *)
(* and asks the reader's rule for its verdict, with facts that are true of *)
(* the step.                                                               *)
(*                                                                         *)
(* An effect is a set of <<field, value>> pairs.                           *)
(***************************************************************************)
EXTENDS PrekeyStore

CONSTANTS
  Hs,            \* handshakes
  Numbers,       \* message numbers of a session
  FirstCounts,   \* one-time keys of the stores a trace starts with
  MaxSent,       \* bound: messages a session sends
  ReadAgain,     \* whether a wrapper around a message already read may come again
  CrossCeiling   \* whether a trace may reach the last identifier and go on

VARIABLES
  store,    \* the library's store
  mail,     \* initial messages sent
  session,  \* the library's session
  state,    \* the reader's StoreState
  problems  \* what the reader finds wrong with the last step

vars == <<store, mail, session, state, problems>>

Life == 1
NoRefusal == "none"
Unchanged == {<<"prekey_store", "unchanged">>, <<"session", "unchanged">>}

Verdict(outcome, refusal, effect) == [outcome |-> outcome, refusal |-> refusal, effect |-> effect]
Ok(effect) == Verdict("ok", NoRefusal, effect)

-----------------------------------------------------------------------------
(* The reader's rules *)

AtCeiling == Unchanged \union {<<"next_id", "at-ceiling">>}

rule_create_prekey_store ==
  Ok({<<"prekey_store", "created">>, <<"session", "unchanged">>, <<"next_id", "advanced">>})

rule_publish_bundle == Ok(Unchanged)

rule_replenish(s) ==
  IF s.next_id_at_ceiling THEN Ok(AtCeiling)
  ELSE Ok({<<"prekey_store", "replenished">>, <<"session", "unchanged">>, <<"next_id", "advanced">>})

\* Variant: a retired key is never reported dropped.
RotateAlwaysRetains(s) ==
  IF s.next_id_at_ceiling THEN Ok(AtCeiling)
  ELSE Ok({<<"prekey_store", "signed-prekey-rotated">>, <<"session", "unchanged">>, <<"next_id", "advanced">>,
           <<"retired_signed_prekey", "retained">>})

rule_rotate_signed(s) ==
  IF s.next_id_at_ceiling THEN Ok(AtCeiling)
  ELSE Ok({<<"prekey_store", "signed-prekey-rotated">>, <<"session", "unchanged">>, <<"next_id", "advanced">>,
           <<"retired_signed_prekey", IF s.retired_signed_occupied THEN "dropped" ELSE "retained">>})


\* What the reader remembers of a rotation.
after_rotate_signed(s) == IF s.next_id_at_ceiling THEN s ELSE [s EXCEPT !.retired_signed_occupied = TRUE]

rule_rotate_kem(s) ==
  IF s.next_id_at_ceiling THEN Ok(AtCeiling)
  ELSE Ok({<<"prekey_store", "kem-prekey-rotated">>, <<"session", "unchanged">>, <<"next_id", "advanced">>,
           <<"retired_kem_prekey", IF s.retired_kem_occupied THEN "dropped" ELSE "retained">>})

after_rotate_kem(s) == IF s.next_id_at_ceiling THEN s ELSE [s EXCEPT !.retired_kem_occupied = TRUE]

rule_establish_initiator(facts) ==
  IF ~facts.bundle_well_formed THEN Verdict("refused", "decode-failure", Unchanged)
  ELSE IF ~facts.signatures_valid \/ ~facts.dh_contributory THEN Verdict("refused", NoRefusal, Unchanged)
  ELSE Ok({<<"prekey_store", "unchanged">>, <<"session", "initiator-pending">>})

NothingSpent ==
  Unchanged \union {<<"one_time_curve", "unchanged">>, <<"one_time_kem", "unchanged">>,
                    <<"last_resort_record", "unchanged">>}

rule_establish_responder(facts) ==
  LET curve == IF facts.names_one_time_curve THEN "deleted" ELSE "absent" IN
    IF facts.is_last_resort /\ facts.is_last_resort_replay
      THEN Verdict("refused", "ReplayedLastResort", NothingSpent)
    ELSE IF facts.is_last_resort /\ facts.last_resort_record_full
      THEN Verdict("refused", "LastResortRecordFull", NothingSpent)
    ELSE IF facts.already_consumed THEN Verdict("refused", NoRefusal, NothingSpent)
    ELSE IF ~facts.ciphertext_authenticates
      THEN Verdict("refused", "authentication-failure", NothingSpent)
    ELSE IF facts.is_last_resort
      THEN Ok({<<"prekey_store", "last-resort-fingerprint-added">>, <<"session", "responder-established">>,
               <<"one_time_curve", curve>>, <<"one_time_kem", "last-resort">>, <<"last_resort_record", "added">>})
    ELSE Ok({<<"prekey_store", "one-time-keys-deleted">>, <<"session", "responder-established">>,
             <<"one_time_curve", curve>>, <<"one_time_kem", "deleted">>})

Accepted == Ok({<<"prekey_store", "unchanged">>, <<"session", "message-accepted">>})

\* An already-read repeat is an ok step that changes nothing.
rule_receive_repeated_initial(facts) ==
  IF facts.actor_role = "initiator" \/ ~(facts.ephemeral_matches /\ facts.identity_matches)
    THEN Verdict("refused", "NotARepeatedInitial", Unchanged)
  ELSE IF ~facts.inner_message_already_read THEN Accepted
  ELSE Ok(Unchanged)

rule_send(facts) ==
  IF facts.braid_already_failed THEN Verdict("refused", NoRefusal, Unchanged) ELSE Accepted

rule_receive(facts) ==
  IF facts.braid_already_failed \/ facts.is_duplicate THEN Verdict("refused", NoRefusal, Unchanged)
  ELSE IF ~facts.ciphertext_authenticates THEN Verdict("refused", "authentication-failure", Unchanged)
  ELSE IF facts.braid_mac_fails THEN Ok({<<"prekey_store", "unchanged">>, <<"session", "terminal-failed">>})
  ELSE Accepted

rule_restore_prekey_store == Ok({<<"prekey_store", "restored">>, <<"session", "unchanged">>})
rule_restore_session == Ok({<<"prekey_store", "unchanged">>, <<"session", "restored">>})

\* The problems of a step: none when what is declared is what the verdict says.
compare(declared, verdict) ==
  (IF declared.outcome # verdict.outcome THEN {"outcome"} ELSE {})
    \union (IF verdict.outcome = "refused" /\ declared.refusal # verdict.refusal THEN {"refusal"} ELSE {})
    \union {field[1] : field \in verdict.effect \ declared.effect}

-----------------------------------------------------------------------------
(* What a step declares of the library *)

StoreEffect(new, changed) == <<"prekey_store", IF new = store THEN "unchanged" ELSE changed>>

NextId(new) ==
  <<"next_id", IF new.next_id > store.next_id THEN "advanced"
               ELSE IF new.next_id = U32_MAX THEN "at-ceiling" ELSE "unchanged">>

NotTouched == <<"session", "unchanged">>

Judge(declared, verdict) == problems' = compare(declared, verdict)

StartState(st) ==
  [next_id_at_ceiling |-> st.next_id = U32_MAX, retired_signed_occupied |-> FALSE, retired_kem_occupied |-> FALSE]

NoSession == [role |-> "none", hs |-> None, read |-> {}, failed |-> FALSE, sent |-> 0]

Init ==
  /\ \E n \in FirstCounts : store = create_prekeys(n, Life)
  /\ mail = {}
  /\ session = NoSession
  /\ state = StartState(store)
  /\ problems = compare(Ok({<<"prekey_store", "created">>, NotTouched, <<"next_id", "advanced">>}),
                        rule_create_prekey_store)

\* A trace ends before the store it works on has given out its last identifier,
\* or begins with one that has.
InTrace(new) == CrossCeiling \/ new.next_id < U32_MAX \/ state.next_id_at_ceiling

Publish ==
  /\ Judge(Ok({StoreEffect(store, "published"), NotTouched}), rule_publish_bundle)
  /\ UNCHANGED <<store, mail, session, state>>

Replenish(count) ==
  LET new == replenish(store, Owner, count, Life) IN
    /\ InTrace(new) /\ store' = new
    /\ Judge(Ok({StoreEffect(new, "replenished"), NextId(new), NotTouched}), rule_replenish(state))
    /\ UNCHANGED <<mail, session, state>>

Retired(previous) == IF previous = None THEN "retained" ELSE "dropped"

RotateSigned ==
  LET new == rotate_signed_prekey(store, Owner, Life) IN
    /\ InTrace(new) /\ store' = new
    /\ Judge(Ok({StoreEffect(new, "signed-prekey-rotated"), NextId(new), NotTouched,
                <<"retired_signed_prekey", Retired(store.previous_signed)>>}), rule_rotate_signed(state))
    /\ state' = after_rotate_signed(state)
    /\ UNCHANGED <<mail, session>>

RotateKem ==
  LET new == rotate_kem(store, Owner, Life) IN
    /\ InTrace(new) /\ store' = new
    /\ Judge(Ok({StoreEffect(new, "kem-prekey-rotated"), NextId(new), NotTouched,
                <<"retired_kem_prekey", Retired(store.previous_kem)>>}), rule_rotate_kem(state))
    /\ state' = after_rotate_kem(state)
    /\ UNCHANGED <<mail, session>>

\* The reader's store state has nothing to restore; neither has the store.
RestoreStore ==
  /\ Judge(Ok({<<"prekey_store", "restored">>, NotTouched}), rule_restore_prekey_store)
  /\ UNCHANGED <<store, mail, session, state>>

\* An initiator with one of the bundles this store gives out, which may have been
\* damaged in several ways on its way to her.
EstablishInitiator(hs, b, facts) ==
  LET sound == facts.bundle_well_formed /\ facts.signatures_valid /\ facts.dh_contributory IN
    /\ hs \notin {m.hs : m \in mail}
    /\ mail' = IF sound THEN mail \union {Initial(hs, b, n) : n \in Numbers} ELSE mail
    /\ Judge(IF sound THEN Ok({StoreEffect(store, "read"), <<"session", "initiator-pending">>})
            ELSE Verdict("refused", IF facts.bundle_well_formed THEN NoRefusal ELSE "decode-failure", Unchanged),
            rule_establish_initiator(facts))
    /\ UNCHANGED <<store, session, state>>

\* The names the grammar has for the library's refusals.
GrammarName(refusal) ==
  CASE refusal \in {"ReplayedLastResort", "LastResortRecordFull"} -> refusal
    [] refusal = "Aead" -> "authentication-failure"
    [] OTHER -> NoRefusal

\* Facts of an initial message; a replay shows only in a secret that can be derived.
ResponderFacts(m) ==
  [is_last_resort          |-> IsLastResort(store, m.kem_id),
   is_last_resort_replay   |-> Found(store, m) /\ Replayed(store, responder_shared_secret(store, m)),
   last_resort_record_full |-> Found(store, m) /\ last_resort_seen_for(store, m.kem_id) >= MAX_LAST_RESORT_SEEN,
   already_consumed        |-> ~Found(store, m),
   ciphertext_authenticates |-> Found(store, m) /\ responder_shared_secret(store, m) = m.secret,
   names_one_time_curve    |-> m.one_time_id # ABSENT_ID]

SpentEffect(m, new) ==
  {StoreEffect(new, IF new.last_resort_seen # store.last_resort_seen
                      THEN "last-resort-fingerprint-added" ELSE "one-time-keys-deleted"),
   <<"one_time_curve", IF new = store THEN "unchanged"
                       ELSE IF m.one_time_id = ABSENT_ID THEN "absent" ELSE "deleted">>,
   <<"one_time_kem", IF new = store THEN "unchanged"
                     ELSE IF new.kem_one_time = store.kem_one_time THEN "last-resort" ELSE "deleted">>,
   <<"last_resort_record", IF new.last_resort_seen = store.last_resort_seen THEN "unchanged" ELSE "added">>}

EstablishResponder(m) ==
  LET new == establish_responder(store, m)
      refusal == Refusal(store, m) IN
    /\ store' = new
    /\ session' = IF refusal # "None" THEN session
                  ELSE [role |-> "responder", hs |-> m.hs, read |-> {m.n}, failed |-> FALSE, sent |-> 0]
    /\ Judge(IF refusal # "None" THEN Verdict("refused", GrammarName(refusal), SpentEffect(m, new) \union {NotTouched})
            ELSE Ok(SpentEffect(m, new) \union {<<"session", "responder-established">>}),
            rule_establish_responder(ResponderFacts(m)))
    /\ UNCHANGED <<mail, state>>

\* Session::decrypt on an initial message.
ReceiveRepeatedInitial(m) ==
  LET same == session.role = "responder" /\ m.hs = session.hs
      again == m.n \in session.read IN
    /\ session # NoSession /\ ~session.failed
    /\ ReadAgain \/ ~(same /\ again)
    /\ session' = IF same THEN [session EXCEPT !.read = @ \union {m.n}] ELSE session
    /\ Judge(IF ~same THEN Verdict("refused", "NotARepeatedInitial", Unchanged)
            ELSE IF again THEN Verdict("refused", NoRefusal, Unchanged) ELSE Accepted,
            rule_receive_repeated_initial(
              [actor_role |-> session.role, ephemeral_matches |-> same, identity_matches |-> same,
               inner_message_already_read |-> again]))
    /\ UNCHANGED <<store, mail, state>>

\* Session::encrypt.
Send ==
  /\ session # NoSession /\ session.sent < MaxSent
  /\ session' = IF session.failed THEN session ELSE [session EXCEPT !.sent = @ + 1]
  /\ Judge(IF session.failed THEN Verdict("refused", NoRefusal, Unchanged) ELSE Accepted,
          rule_send([braid_already_failed |-> session.failed]))
  /\ UNCHANGED <<store, mail, state>>

\* Session::decrypt on a ratchet message: the Braid's failure is adopted with the
\* message that shows it, once that message has authenticated.
Receive(n, tag, mac) ==
  LET duplicate == n \in session.read
      taken == ~session.failed /\ ~duplicate /\ tag IN
    /\ session # NoSession
    /\ session' = IF taken THEN [session EXCEPT !.read = @ \union {n}, !.failed = ~mac] ELSE session
    /\ Judge(IF taken THEN (IF mac THEN Accepted
                           ELSE Ok({<<"prekey_store", "unchanged">>, <<"session", "terminal-failed">>}))
            ELSE Verdict("refused", IF session.failed \/ duplicate THEN NoRefusal ELSE "authentication-failure",
                         Unchanged),
            rule_receive([braid_already_failed |-> session.failed, is_duplicate |-> duplicate,
                          ciphertext_authenticates |-> tag, braid_mac_fails |-> ~mac]))
    /\ UNCHANGED <<store, mail, state>>

\* A restored session keeps its failure.
RestoreSession ==
  /\ session # NoSession
  /\ Judge(Ok({<<"prekey_store", "unchanged">>, <<"session", "restored">>}), rule_restore_session)
  /\ UNCHANGED <<store, mail, session, state>>

BundleFacts == [bundle_well_formed : BOOLEAN, signatures_valid : BOOLEAN, dh_contributory : BOOLEAN]

Next ==
  \/ Publish \/ Replenish(1) \/ RotateSigned \/ RotateKem \/ RestoreStore
  \/ \E hs \in Hs, b \in Publications(store), facts \in BundleFacts : EstablishInitiator(hs, b, facts)
  \/ \E m \in mail : EstablishResponder(m) \/ ReceiveRepeatedInitial(m)
  \/ Send \/ RestoreSession
  \/ \E n \in Numbers, tag, mac \in BOOLEAN : Receive(n, tag, mac)

Spec == Init /\ [][Next]_vars

-----------------------------------------------------------------------------
\* The reader accepts what the library does, at every step of every trace: the
\* outcome, the refusal where the pages name one, and every effect the rule lists,
\* with the reader's own memory of the retired keys (compare, main).
ReaderAccepts == problems = {}

\* The reader remembers of the store what the store is (StoreState).
StateIsTrue ==
  /\ state.retired_signed_occupied = (store.previous_signed # None)
  /\ state.retired_kem_occupied = (store.previous_kem # None)

=============================================================================
