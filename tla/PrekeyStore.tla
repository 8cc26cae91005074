---------------------------- MODULE PrekeyStore ----------------------------
(***************************************************************************)
(* The prekey store (tacenta-core/lifecycle, PrekeyStore) and what a       *)
(* responder does with it when an initial message arrives.  A store is a   *)
(* record, and every operation is an operator from stores to stores.       *)
(*                                                                         *)
(* A key is a name: the identifier it was given, the process life it was   *)
(* drawn in (two draws are never equal, and within one life no identifier  *)
(* is given out twice) and the identity that signed it.  A secret is the   *)
(* handshake together with the responder's keys that went into it.         *)
(***************************************************************************)
EXTENDS Naturals, Sequences, FiniteSets

CONSTANTS
  U32_MAX,               \* the last u32, which is never issued
  MAX_LAST_RESORT_SEEN,  \* record entries for each last-resort key
  Owner, Stranger,       \* the store's own identity and another one
  None

ASSUME StoreAssumption ==
  /\ U32_MAX \in Nat /\ U32_MAX >= 3
  /\ MAX_LAST_RESORT_SEEN \in Nat \ {0}
  /\ Owner # Stranger

ABSENT_ID == 0

Smaller(a, b) == IF a < b THEN a ELSE b

-----------------------------------------------------------------------------
(* Making keys *)

Key(id, life, identity) == [id |-> id, life |-> life, sig |-> identity]

\* count keys numbered from first on.
Batch(first, count, life, identity) ==
  [i \in 1..count |-> Key(first + i - 1, life, identity)]

MAX_CREATED_ONE_TIME == (U32_MAX - 3) \div 2

create_prekeys(one_time_count, life) ==
  LET n == Smaller(one_time_count, MAX_CREATED_ONE_TIME)
  IN  [next_id          |-> 2 * n + 3,
       signed           |-> Key(1, life, Owner),
       one_time         |-> Batch(2, n, life, Owner),
       kem              |-> Key(n + 2, life, Owner),
       kem_one_time     |-> Batch(n + 3, n, life, Owner),
       previous_signed  |-> None,
       previous_kem     |-> None,
       last_resort_seen |-> {},
       blocked          |-> {}]

\* Variant: any identity may sign.
ReplenishAsAnyone(st, identity, count, life) ==
  LET curve == Smaller(count, U32_MAX - st.next_id)
      kems  == Smaller(count, U32_MAX - st.next_id - curve)
  IN  [st EXCEPT !.next_id      = @ + curve + kems,
                 !.one_time     = @ \o Batch(st.next_id, curve, life, identity),
                 !.kem_one_time = @ \o Batch(st.next_id + curve, kems, life, identity)]

\* Curve keys first, then KEM keys, as far as the identifiers reach.
replenish(st, identity, count, life) ==
  LET curve == Smaller(count, U32_MAX - st.next_id)
      kems  == Smaller(count, U32_MAX - st.next_id - curve)
  IN  IF identity # Owner
        THEN st
        ELSE [st EXCEPT !.next_id      = @ + curve + kems,
                        !.one_time     = @ \o Batch(st.next_id, curve, life, identity),
                        !.kem_one_time = @ \o Batch(st.next_id + curve, kems, life, identity)]

MayRotate(st, identity) == st.next_id < U32_MAX /\ identity = Owner

\* The replaced key stays for one rotation; the one before it is wiped.
rotate_signed_prekey(st, identity, life) ==
  IF ~MayRotate(st, identity)
    THEN st
    ELSE [st EXCEPT !.next_id         = @ + 1,
                    !.signed          = Key(st.next_id, life, identity),
                    !.previous_signed = st.signed]

\* Variant: the record starts again with the new key.
RotateAndForget(st, identity, life) ==
  IF ~MayRotate(st, identity)
    THEN st
    ELSE [st EXCEPT !.next_id          = @ + 1,
                    !.kem              = Key(st.next_id, life, identity),
                    !.previous_kem     = st.kem,
                    !.last_resort_seen = {},
                    !.blocked          = {}]

\* The record loses the entries of the key this rotation wipes.
rotate_kem(st, identity, life) ==
  LET wiped == IF st.previous_kem = None THEN ABSENT_ID ELSE st.previous_kem.id
  IN  IF ~MayRotate(st, identity)
        THEN st
        ELSE [st EXCEPT !.next_id          = @ + 1,
                        !.kem              = Key(st.next_id, life, identity),
                        !.previous_kem     = st.kem,
                        !.last_resort_seen = {e \in @ : e.id # wiped},
                        !.blocked          = @ \ {wiped}]

-----------------------------------------------------------------------------
(* Bundles *)

Bundle(st, one_time, kem) == [signed |-> st.signed, one_time |-> one_time, kem |-> kem]

publish(st) ==
  Bundle(st, IF st.one_time = << >> THEN None ELSE st.one_time[Len(st.one_time)],
             IF st.kem_one_time = << >> THEN st.kem ELSE st.kem_one_time[Len(st.kem_one_time)])

publish_one_time_batch(st) ==
  LET curves == Len(st.one_time)
      kems   == Len(st.kem_one_time)
  IN  {Bundle(st, st.one_time[curves - i], st.kem_one_time[kems - i]) :
         i \in 0..(Smaller(curves, kems) - 1)}

publish_multi_use(st) == Bundle(st, None, st.kem)

\* What a directory can be given by this store as it stands.
Publications(st) == {publish(st), publish_multi_use(st)} \cup publish_one_time_batch(st)

verify_bundle(b) == b.signed.sig = Owner /\ b.kem.sig = Owner

-----------------------------------------------------------------------------
(* The initial message *)

Secret(hs, signed, one_time, kem) ==
  [hs |-> hs, signed |-> signed, one_time |-> one_time, kem |-> kem]

\* The identifiers a bundle's keys are known by, and message n of the
\* handshake: the same wrapper around another ratchet message each time.
Initial(hs, b, n) ==
  [hs          |-> hs,
   signed_id   |-> b.signed.id,
   one_time_id |-> IF b.one_time = None THEN ABSENT_ID ELSE b.one_time.id,
   kem_id      |-> b.kem.id,
   n           |-> n,
   secret      |-> Secret(hs, b.signed, b.one_time, b.kem)]

-----------------------------------------------------------------------------
(* Responding to it *)

\* Variant: of the last-resort keys only the current one is found.
CurrentOnly(current, previous, id) == {k \in {current} : k.id = id}

\* The current key of a kind and the one a rotation retired, by identifier.
Named(current, previous, id) == {k \in {current, previous} \ {None} : k.id = id}

\* The first entry with the identifier.
Find(keys, id) ==
  LET hits == {i \in DOMAIN keys : keys[i].id = id}
  IN  IF hits = {} THEN {} ELSE {keys[CHOOSE i \in hits : \A j \in hits : i <= j]}

\* The last entry takes the place of the one removed.
Take(keys, id) ==
  LET hits == {i \in DOMAIN keys : keys[i].id = id}
      i    == CHOOSE k \in hits : \A j \in hits : k <= j
  IN  IF hits = {} THEN keys
      ELSE [j \in 1..(Len(keys) - 1) |-> IF j = i THEN keys[Len(keys)] ELSE keys[j]]

IsLastResort(st, id) == Named(st.kem, st.previous_kem, id) # {}

\* Variant: one bound for both keys.
SeenInAll(st, id) == Cardinality(st.last_resort_seen)

last_resort_seen_for(st, id) == Cardinality({e \in st.last_resort_seen : e.id = id})

\* Variant: keys of an older record count as open.
RemainingUnblocked(st, id) == MAX_LAST_RESORT_SEEN - last_resort_seen_for(st, id)

last_resort_record_remaining_for(st, id) ==
  IF id \in st.blocked THEN 0
  ELSE MAX_LAST_RESORT_SEEN - last_resort_seen_for(st, id)

\* Variant: only the current key's entries are compared.
SeenUnderCurrent(st, sk) == \E e \in st.last_resort_seen : e.id = st.kem.id /\ e.fp = sk

Replayed(st, sk) == \E e \in st.last_resort_seen : e.fp = sk

\* Every identifier of the message names a key that may be used.
Found(st, m) ==
  /\ Named(st.signed, st.previous_signed, m.signed_id) # {}
  /\ IF IsLastResort(st, m.kem_id)
       THEN m.kem_id \notin st.blocked
       ELSE Find(st.kem_one_time, m.kem_id) # {}
  /\ m.one_time_id = ABSENT_ID \/ Find(st.one_time, m.one_time_id) # {}

\* The secret these keys give.
responder_shared_secret(st, m) ==
  LET The(keys) == CHOOSE k \in keys : TRUE
      resort    == Named(st.kem, st.previous_kem, m.kem_id)
  IN  Secret(m.hs, The(Named(st.signed, st.previous_signed, m.signed_id)),
             IF m.one_time_id = ABSENT_ID THEN None ELSE The(Find(st.one_time, m.one_time_id)),
             The(IF resort # {} THEN resort ELSE Find(st.kem_one_time, m.kem_id)))

\* Variant: the one-time curve key stays.
SpendKemOnly(st, m, sk) ==
  LET resort == IsLastResort(st, m.kem_id)
  IN  [st EXCEPT
        !.kem_one_time = IF resort THEN @ ELSE Take(@, m.kem_id),
        !.last_resort_seen = IF resort THEN @ \cup {[id |-> m.kem_id, fp |-> sk]} ELSE @]

\* What an authenticated message leaves behind: the one-time keys it named are
\* deleted, and a last-resort handshake is recorded.
Spend(st, m, sk) ==
  LET resort == IsLastResort(st, m.kem_id)
  IN  [st EXCEPT
        !.kem_one_time = IF resort THEN @ ELSE Take(@, m.kem_id),
        !.one_time = IF m.one_time_id = ABSENT_ID THEN @ ELSE Take(@, m.one_time_id),
        !.last_resort_seen = IF resort THEN @ \cup {[id |-> m.kem_id, fp |-> sk]} ELSE @]

\* Why the message is refused, or "None".  An identifier that is not found is
\* refused before the secret is derived, a replay before a full record, and
\* both before anything is decrypted.
Refusal(st, m) ==
  LET sk == responder_shared_secret(st, m)
  IN  IF ~Found(st, m) THEN "UnknownOrBlocked"
      ELSE IF IsLastResort(st, m.kem_id) /\ Replayed(st, sk) THEN "ReplayedLastResort"
      ELSE IF IsLastResort(st, m.kem_id)
                /\ last_resort_seen_for(st, m.kem_id) >= MAX_LAST_RESORT_SEEN
        THEN "LastResortRecordFull"
      ELSE IF m.secret # sk THEN "Aead"
      ELSE "None"

\* Variant: the one-time keys go when they are read.
SpendOnRead(st, m) ==
  IF Refusal(st, m) \in {"None", "Aead"}
    THEN Spend(st, m, responder_shared_secret(st, m))
    ELSE st

\* The store after the message: unchanged unless it authenticated.
establish_responder(st, m) ==
  IF Refusal(st, m) = "None"
    THEN Spend(st, m, responder_shared_secret(st, m))
    ELSE st

-----------------------------------------------------------------------------
(* What PrekeyStore::from_bytes accepts *)

LiveIds(st) ==
  <<st.signed.id, st.kem.id>>
    \o (IF st.previous_signed = None THEN << >> ELSE <<st.previous_signed.id>>)
    \o (IF st.previous_kem = None THEN << >> ELSE <<st.previous_kem.id>>)
    \o [i \in DOMAIN st.one_time |-> st.one_time[i].id]
    \o [i \in DOMAIN st.kem_one_time |-> st.kem_one_time[i].id]

LastResortIds(st) == {k.id : k \in {st.kem, st.previous_kem} \ {None}}

invariant(st) ==
  LET ids == LiveIds(st)
  IN  /\ \A i \in DOMAIN ids : ids[i] # ABSENT_ID /\ ids[i] < st.next_id
      /\ \A i, j \in DOMAIN ids : ids[i] = ids[j] => i = j
      /\ \A e, f \in st.last_resort_seen : e.fp = f.fp => e = f
      /\ \A e \in st.last_resort_seen : e.id \in LastResortIds(st)
      /\ \A id \in LastResortIds(st) : last_resort_seen_for(st, id) <= MAX_LAST_RESORT_SEEN
      /\ st.blocked \subseteq LastResortIds(st)

signatures_verify(st) ==
  /\ \A k \in {st.signed, st.kem, st.previous_signed, st.previous_kem} \ {None} : k.sig = Owner
  /\ \A i \in DOMAIN st.kem_one_time : st.kem_one_time[i].sig = Owner

\* A format without tags: every entry is taken for one of the current key.
Untagged(st) ==
  [st EXCEPT !.last_resort_seen = {[id |-> st.kem.id, fp |-> e.fp] : e \in @}]

\* Variant: a record of the old format is taken as it is.
KeepOldRecord(st) == st

\* Reading a store of the format before: its record cannot be compared with
\* what is recorded now, so the keys it may cover are blocked.
Upgraded(st) == [st EXCEPT !.blocked = IF st.last_resort_seen = {} THEN {} ELSE LastResortIds(st)]

from_bytes_accepts(st) == invariant(st) /\ signatures_verify(st)

=============================================================================
