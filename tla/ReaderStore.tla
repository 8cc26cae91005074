---------------------------- MODULE ReaderStore ----------------------------
(***************************************************************************)
(* The prekey store of the specification-only reader                       *)
(* (reader/tacenta_reader/prekeys.py and persistence.py) with the replay   *)
(* record of its last-resort key (pqxdh.py): both rotations, the handshake *)
(* that names a last-resort key, the five versions of the stored store     *)
(* that are read and the one that is written, and what the reader refuses  *)
(* and as what.                                                            *)
(*                                                                         *)
(* A key is its identifier and the identity that signed it; the pair       *)
(* behind it is whole or not.  A record entry is the key it is tagged with *)
(* and a fingerprint: of a handshake's public bytes in the old releases,   *)
(* of its agreed secret in this one.                                       *)
(***************************************************************************)
EXTENDS Naturals, Sequences, FiniteSets, SequencesExt

CONSTANTS
  Handshakes,            \* the handshakes made with the store's owner
  Owner, Stranger,       \* the store's identity, and another one
  LowOrder,              \* a canonical curve key that is not an identity key
  MAX_LAST_RESORT_SEEN,  \* record entries for each last-resort key
  U32_MAX,               \* the identifier that is never given out
  None

\* What the constants must be.
ReaderStoreAssumption ==
  /\ U32_MAX \in Nat /\ MAX_LAST_RESORT_SEEN \in Nat \ {0}
  /\ Cardinality({Owner, Stranger, LowOrder}) = 3

VARIABLES
  store,     \* the store in memory
  accepted,  \* accepted[h]: how often this release accepted handshake h
  before,    \* the handshakes an older release accepted, with the keys they named
  sent,      \* sent[h]: the last-resort key h was made with, None before
  disk       \* the image saved last, and what was accepted when it was saved

vars == <<store, accepted, before, sent, disk>>

PREKEY_STORE_VERSION == 5
VERSIONS_READ == 1..5

-----------------------------------------------------------------------------
(* The store and its rotations *)

Key(id, signer) == [id |-> id, signer |-> signer, whole |-> TRUE]

Ids(keys) == {k.id : k \in keys}

\* The retired key, when there is one.
Present(k) == IF k = None THEN {} ELSE {k}

LiveKem(p) == Ids({p.kem} \union Present(p.previous_kem))

FirstStore ==
  [identity_public |-> Owner, signed |-> Key(1, Owner), one_time |-> <<2>>,
   kem |-> Key(3, Owner), kem_one_time |-> <<Key(4, Owner)>>, next_id |-> 5,
   seen |-> <<>>, legacy_blocked |-> <<>>, previous_signed |-> None, previous_kem |-> None]

\* A rotation that is not made: another identity's is refused, and without an
\* identifier left it returns silently.
NoRotation(p, identity) == identity # p.identity_public \/ p.next_id >= U32_MAX

rotate_signed_prekey(p, identity) ==
  IF NoRotation(p, identity) THEN p
  ELSE [p EXCEPT !.previous_signed = p.signed,
                 !.signed          = Key(p.next_id, identity),
                 !.next_id         = @ + 1]

\* Variant: a rotation signs for whoever asks.
RotateForAnyone(p, identity) ==
  IF p.next_id >= U32_MAX THEN p
  ELSE [p EXCEPT !.previous_kem = p.kem, !.kem = Key(p.next_id, identity), !.next_id = @ + 1,
                 !.seen = SelectSeq(@, LAMBDA e : e.kem \notin Ids(Present(p.previous_kem)))]

\* Variant: the record starts again with the new key.
RotateForgetting(p, identity) ==
  IF NoRotation(p, identity) THEN p
  ELSE [p EXCEPT !.previous_kem = p.kem, !.kem = Key(p.next_id, identity), !.next_id = @ + 1,
                 !.seen = <<>>]

\* The entries of the key the rotation wipes leave with it.  The markers stay.
rotate_kem(p, identity) ==
  LET wiped == Ids(Present(p.previous_kem))
  IN  IF NoRotation(p, identity) THEN p
      ELSE [p EXCEPT !.previous_kem = p.kem,
                     !.kem          = Key(p.next_id, identity),
                     !.next_id      = @ + 1,
                     !.seen         = SelectSeq(@, LAMBDA e : e.kem \notin wiped)]

-----------------------------------------------------------------------------
(* The last-resort path of a handshake *)

\* The replay identity of this release is a hash of the agreed secret, which
\* both the handshake and the key go into.
last_resort_fingerprint(h, id) == <<"secret", h, id>>

\* The releases that wrote versions 2 to 4 took the public bytes.
OldFingerprint(h, id) == <<"public", h, id>>

on_last_resort_path(p, id) == id \in LiveKem(p)


\* A fingerprint any entry holds is a replay, whatever its tag; the budget is
\* that of the key the handshake names.
check_last_resort(p, h, id) ==
  IF ~on_last_resort_path(p, id) THEN "OffPath"
  ELSE IF \E i \in DOMAIN p.seen : p.seen[i].fp = last_resort_fingerprint(h, id) THEN "Replayed"
  ELSE IF Cardinality({i \in DOMAIN p.seen : p.seen[i].kem = id}) >= MAX_LAST_RESORT_SEEN
    THEN "RecordFull"
  ELSE "ok"

receive_last_resort(p, h, id) ==
  [p EXCEPT !.seen = Append(@, [kem |-> id, fp |-> last_resort_fingerprint(h, id)])]

-----------------------------------------------------------------------------
(* The stored store *)

prekey_store_to_bytes(p) == [version |-> PREKEY_STORE_VERSION, trailing |-> FALSE, store |-> p]

\* What an older release laid down: no tags before version 4, no record in
\* version 1, no retired keys before version 3, and never a marker.
legacy(p, version) ==
  [version |-> version, trailing |-> FALSE,
   store |-> [p EXCEPT !.legacy_blocked  = <<>>,
                       !.seen            = IF version = 1 THEN <<>>
                                           ELSE IF version = 4 THEN p.seen
                                           ELSE [i \in DOMAIN p.seen |-> [kem |-> None, fp |-> p.seen[i].fp]],
                       !.previous_signed = IF version >= 3 THEN @ ELSE None,
                       !.previous_kem    = IF version >= 3 THEN @ ELSE None]]

SignedKeys(p) ==
  {p.signed, p.kem} \union Range(p.kem_one_time) \union Present(p.previous_signed)
    \union Present(p.previous_kem)

kem_pair_problem(p) ==
  \E k \in {p.kem} \union Range(p.kem_one_time) \union Present(p.previous_kem) : ~k.whole

\* Every identifier the store gave out, one for each place that holds one.
AllIds(p) ==
  <<p.signed.id, p.kem.id>> \o p.one_time \o [i \in DOMAIN p.kem_one_time |-> p.kem_one_time[i].id]
    \o SetToSeq(Ids(Present(p.previous_signed))) \o SetToSeq(Ids(Present(p.previous_kem)))

is_identity_key(k) == k # LowOrder

RecordIsSound(p) ==
  /\ \A i \in DOMAIN p.seen : p.seen[i].kem \in LiveKem(p)
  /\ \A id \in LiveKem(p) : Cardinality({i \in DOMAIN p.seen : p.seen[i].kem = id}) <= MAX_LAST_RESORT_SEEN
  /\ \A i, j \in DOMAIN p.seen : p.seen[i].fp = p.seen[j].fp => i = j

MarkersAreSound(p) ==
  /\ Range(p.legacy_blocked) \subseteq LiveKem(p)
  /\ \A i \in 1..(Len(p.legacy_blocked) - 1) : p.legacy_blocked[i] < p.legacy_blocked[i + 1]


prekey_store_semantic(p) ==
  /\ \A i \in DOMAIN AllIds(p) : AllIds(p)[i] # 0 /\ AllIds(p)[i] < p.next_id
  /\ IsInjective(AllIds(p))
  /\ RecordIsSound(p)
  /\ MarkersAreSound(p)
  /\ is_identity_key(p.identity_public)

prekey_store_signatures(p) == \A k \in SignedKeys(p) : k.signer = p.identity_public

SeenCeiling(version) ==
  CASE version \in {4, 5} -> 2 * MAX_LAST_RESORT_SEEN
    [] version \in {2, 3} -> MAX_LAST_RESORT_SEEN
    [] OTHER -> 0

\* Untagged entries are read back under the current key.
Tagged(img) ==
  LET p == img.store IN
    IF img.version \in {4, 5} THEN p.seen
    ELSE [i \in DOMAIN p.seen |-> [kem |-> p.kem.id, fp |-> p.seen[i].fp]]

\* Variant: only the keys the entries name are marked.
MarkTagged(img) ==
  IF img.version = PREKEY_STORE_VERSION THEN (img.store).legacy_blocked
  ELSE SetToSortSeq({e.kem : e \in Range(Tagged(img))}, <)

\* An old record that holds anything marks every key it may cover.
Markers(img) ==
  IF img.version = PREKEY_STORE_VERSION THEN (img.store).legacy_blocked
  ELSE IF (img.store).seen = <<>> THEN <<>>
  ELSE SetToSortSeq(LiveKem(img.store), <)

Decoded(img) == [img.store EXCEPT !.seen = Tagged(img), !.legacy_blocked = Markers(img)]

\* The refusals in the reader's order: signatures last, and as a kind of their own.
prekey_store_from_bytes(img) ==
  IF img.version \notin VERSIONS_READ THEN "WrongVersion"
  ELSE IF \/ kem_pair_problem(img.store)
          \/ Len((img.store).seen) > SeenCeiling(img.version)
          \/ Len((img.store).legacy_blocked) > 2
          \/ img.trailing
    THEN "Malformed"
  ELSE IF img.version = PREKEY_STORE_VERSION /\ prekey_store_to_bytes(Decoded(img)) # img
    THEN "NonCanonical"
  ELSE IF ~prekey_store_semantic(Decoded(img)) THEN "Malformed"
  ELSE IF ~prekey_store_signatures(Decoded(img)) THEN "Incoherent"
  ELSE "ok"

\* The key the scan reports, read before any other rule is applied.
scan_stored_prekey_identity(img) == is_identity_key((img.store).identity_public)

-----------------------------------------------------------------------------
(* The owner's program, and the handshakes it receives *)

\* A store some release had come to: with or without one rotation behind it, and
\* with handshakes in its record.
StoreBefore(rotated, entries, Fingerprint(_, _)) ==
  LET p == IF rotated THEN rotate_kem(FirstStore, Owner) ELSE FirstStore
  IN  [p EXCEPT !.seen = SetToSeq({[kem |-> e[2], fp |-> Fingerprint(e[1], e[2])] : e \in entries})]

\* The image at the start comes from a release of each version.
FirstImage(version, rotated, entries) ==
  IF version = PREKEY_STORE_VERSION
    THEN prekey_store_to_bytes(StoreBefore(rotated, entries, last_resort_fingerprint))
    ELSE legacy(StoreBefore(rotated, entries, OldFingerprint), version)

Init ==
  \E version \in VERSIONS_READ, rotated \in BOOLEAN, h \in Handshakes, id \in {None, 3, 5} :
    LET entries == IF id = None THEN {} ELSE {<<h, id>>}
        img     == FirstImage(version, rotated, entries)
    IN  /\ rotated => version >= 3
        /\ id = None \/ (version > 1 /\ id \in LiveKem(img.store))
        /\ store = Decoded(img)
        /\ sent = [g \in Handshakes |-> IF id # None /\ g = h THEN id ELSE None]
        /\ before = IF version = PREKEY_STORE_VERSION THEN {} ELSE entries
        /\ accepted = [g \in Handshakes |->
                         IF version = PREKEY_STORE_VERSION /\ id # None /\ g = h THEN 1 ELSE 0]
        /\ disk = [image |-> img, accepted |-> accepted]

\* A peer uses the bundle that carries the current last-resort key.
Send(h) ==
  /\ sent[h] = None
  /\ sent' = [sent EXCEPT ![h] = store.kem.id]
  /\ UNCHANGED <<before, store, accepted, disk>>

\* The message arrives, perhaps not for the first time.  It authenticates only
\* under the key it was made with.
Receive(h) ==
  /\ sent[h] # None
  /\ check_last_resort(store, h, sent[h]) = "ok"
  /\ store' = receive_last_resort(store, h, sent[h])
  /\ accepted' = [accepted EXCEPT ![h] = @ + 1]
  /\ UNCHANGED <<before, sent, disk>>

RotateSigned ==
  \E identity \in {Owner, Stranger} :
    /\ store' = rotate_signed_prekey(store, identity)
    /\ UNCHANGED <<before, accepted, sent, disk>>

RotateKem ==
  \E identity \in {Owner, Stranger} :
    /\ store' = rotate_kem(store, identity)
    /\ UNCHANGED <<before, accepted, sent, disk>>

Save ==
  /\ disk' = [image |-> prekey_store_to_bytes(store), accepted |-> accepted]
  /\ UNCHANGED <<before, store, accepted, sent>>

\* The program stops and reads what it saved last.
Restart ==
  /\ prekey_store_from_bytes(disk.image) = "ok"
  /\ store' = Decoded(disk.image)
  /\ accepted' = disk.accepted
  /\ UNCHANGED <<before, sent, disk>>

Next ==
  \/ \E h \in Handshakes : Send(h) \/ Receive(h)
  \/ RotateSigned \/ RotateKem \/ Save \/ Restart

Spec == Init /\ [][Next]_vars

-----------------------------------------------------------------------------
(* Properties *)

\* A handshake this release accepted is never accepted again, whatever rotations,
\* saves and restarts come between (receive_last_resort, rotate_kem).
NoSecondAcceptance == \A h \in Handshakes : accepted[h] <= 1

\* A first handshake on a key that can still decrypt it is refused only when that
\* key itself has accepted its budget (check_last_resort counts by key).
BudgetIsPerKey ==
  \A h \in Handshakes :
    (/\ sent[h] \in LiveKem(store) /\ accepted[h] = 0
     /\ Cardinality({g \in Handshakes : sent[g] = sent[h] /\ accepted[g] > 0}) < MAX_LAST_RESORT_SEEN
     /\ before = {})
      => check_last_resort(store, h, sent[h]) = "ok"

\* While the store is free of markers, what is written is read back as it was
\* ("No state the operations produce is refused", prekeys.py).
UnmarkedIsReadBack ==
  store.legacy_blocked = <<>> =>
    /\ prekey_store_from_bytes(prekey_store_to_bytes(store)) = "ok"
    /\ Decoded(prekey_store_to_bytes(store)) = store

\* A key that can still decrypt a handshake an older release accepted is marked,
\* through every rotation and restart (prekey_store_from_bytes, "Legacy markers").
OldKeysAreMarked ==
  \A e \in before : e[2] \in LiveKem(store) => e[2] \in Range(store.legacy_blocked)

\* The spoilt images of PS-19a to PS-23 and of the signature rule, each with the
\* kind of refusal it must meet.
Spoilt(p) ==
  LET bytes(q) == prekey_store_to_bytes(q)
      same == p.seen \o p.seen
      two  == SetToSortSeq(LiveKem(p), >)
  IN  {<<[bytes(p) EXCEPT !.version = 6], "WrongVersion">>,
       <<[bytes(p) EXCEPT !.trailing = TRUE], "Malformed">>,
       <<bytes([p EXCEPT !.kem.whole = FALSE]), "Malformed">>,
       <<bytes([p EXCEPT !.one_time = <<0>>]), "Malformed">>,
       <<bytes([p EXCEPT !.next_id = p.kem.id]), "Malformed">>,
       <<bytes([p EXCEPT !.one_time = <<(p.kem_one_time[1]).id>>]), "Malformed">>,
       <<bytes([p EXCEPT !.previous_signed = p.signed]), "Malformed">>,
       <<bytes([p EXCEPT !.legacy_blocked = <<p.next_id>>]), "Malformed">>,
       <<bytes([p EXCEPT !.legacy_blocked = <<p.kem.id, p.kem.id>>]), "Malformed">>,
       <<bytes([p EXCEPT !.seen = <<[kem |-> (p.kem_one_time[1]).id, fp |-> "new"]>>]), "Malformed">>,
       <<bytes([p EXCEPT !.identity_public = LowOrder]), "Malformed">>,
       <<bytes([p EXCEPT !.identity_public = Stranger]), "Incoherent">>,
       <<bytes([p EXCEPT !.kem_one_time = <<Key(4, Stranger)>>]), "Incoherent">>}
      \union (IF p.seen = <<>> THEN {} ELSE {<<bytes([p EXCEPT !.seen = same]), "Malformed">>})
      \union (IF Len(two) < 2 THEN {} ELSE {<<bytes([p EXCEPT !.legacy_blocked = two]), "Malformed">>})

\* Each of them is refused, and as what it is: a rule that no later one makes up
\* for (prekey_store_semantic, prekey_store_signatures).  A store whose identity the
\* scan reports is one of them (scan_stored_prekey_identity).
SpoiltIsRefused ==
  prekey_store_semantic(store) =>
    \A s \in Spoilt(store) :
      /\ prekey_store_from_bytes(s[1]) = s[2]
      /\ scan_stored_prekey_identity(s[1]) \/ s[2] = "Malformed"

\* The replay record does its two duties: it refuses the second use of a handshake
\* and nothing else.
RecordHolds == NoSecondAcceptance /\ BudgetIsPerKey

\* What is stored is read as it was, with the markers of the older releases, or
\* refused as what it is.
StoredIsTrue == UnmarkedIsReadBack /\ OldKeysAreMarked /\ SpoiltIsRefused
=============================================================================
