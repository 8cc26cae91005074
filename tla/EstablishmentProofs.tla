------------------------ MODULE EstablishmentProofs ------------------------
(***************************************************************************)
(* Proofs about module Establishment, for every value of its constants.    *)
(*                                                                         *)
(* Each operation of the prekey store has one lemma: of a store that is    *)
(* sound it makes a sound one.  A sound store is accepted when it is read  *)
(* back, and its remaining budget is what the next peer meets.  The second *)
(* part is about restarts: what memory and the disk may differ in, and     *)
(* that the operations add only keys with identifiers not issued before.   *)
(* The third counts the sessions of a handshake against what makes the     *)
(* store refuse it, and follows the keys of each bundle where they went.   *)
(***************************************************************************)
EXTENDS Establishment, TLAPS, FiniteSetTheorems, WellFoundedInduction

-----------------------------------------------------------------------------
(* Sound stores *)

Fingerprint ==
  [hs : Handshakes \cup {Old}, signed : StoreKey \cup {None}, one_time : StoreKey \cup {None},
   kem : StoreKey \cup {None}]

RecordEntry == [id : Nat, fp : Fingerprint]

StoreType ==
  [next_id : Nat, signed : StoreKey, one_time : Seq(StoreKey), kem : StoreKey,
   kem_one_time : Seq(StoreKey), previous_signed : StoreKey \cup {None},
   previous_kem : StoreKey \cup {None}, last_resort_seen : SUBSET RecordEntry,
   blocked : SUBSET Nat]

\* The identifiers of the current and the retired keys.
MultiUse(st) == {k.id : k \in {st.signed, st.kem, st.previous_signed, st.previous_kem} \ {None}}

\* The identifiers of a vector of keys.
Ids(keys) == {keys[i].id : i \in DOMAIN keys}

\* No two of a vector's keys have the same.
Distinct(keys) == \A i, j \in DOMAIN keys : keys[i].id = keys[j].id => i = j

\* Each identifier was issued and names one key.
IdsIssued(st) ==
  /\ st.next_id <= U32_MAX
  /\ \A id \in MultiUse(st) \cup Ids(st.one_time) \cup Ids(st.kem_one_time) : 0 < id /\ id < st.next_id

MultiUseDistinct(st) ==
  /\ st.signed.id # st.kem.id
  /\ st.previous_signed # None => st.previous_signed.id \notin {st.signed.id, st.kem.id}
  /\ st.previous_kem # None => st.previous_kem.id \notin {st.signed.id, st.kem.id}
  /\ st.previous_signed # None /\ st.previous_kem # None => st.previous_signed.id # st.previous_kem.id

OneTimeDistinct(st) ==
  /\ Distinct(st.one_time) /\ Distinct(st.kem_one_time)
  /\ Ids(st.one_time) \cap Ids(st.kem_one_time) = {}
  /\ MultiUse(st) \cap (Ids(st.one_time) \cup Ids(st.kem_one_time)) = {}

\* The record is about last-resort keys, within the budget of each.
RecordSound(st) ==
  /\ IsFiniteSet(st.last_resort_seen)
  /\ \A e, f \in st.last_resort_seen : e.fp = f.fp => e = f
  /\ \A e \in st.last_resort_seen : e.id \in LastResortIds(st)
  /\ \A id \in LastResortIds(st) : last_resort_seen_for(st, id) <= MAX_LAST_RESORT_SEEN
  /\ st.blocked \subseteq LastResortIds(st)

SoundStore(st) ==
  /\ st \in StoreType
  /\ IdsIssued(st)
  /\ MultiUseDistinct(st)
  /\ OneTimeDistinct(st)
  /\ RecordSound(st)

-----------------------------------------------------------------------------
(* Sound stores are accepted *)

LEMMA ConcatDistinct ==
  ASSUME NEW s \in Seq(Nat), NEW t \in Seq(Nat),
         \A i, j \in DOMAIN s : s[i] = s[j] => i = j,
         \A i, j \in DOMAIN t : t[i] = t[j] => i = j,
         \A i \in DOMAIN s, j \in DOMAIN t : s[i] # t[j]
  PROVE  /\ s \o t \in Seq(Nat)
         /\ \A i, j \in DOMAIN (s \o t) : (s \o t)[i] = (s \o t)[j] => i = j
         /\ \A i \in DOMAIN (s \o t) :
              \/ \E j \in DOMAIN s : (s \o t)[i] = s[j]
              \/ \E j \in DOMAIN t : (s \o t)[i] = t[j]
<1>1. /\ s \o t \in Seq(Nat) /\ Len(s \o t) = Len(s) + Len(t)
      /\ DOMAIN s = 1..Len(s) /\ DOMAIN t = 1..Len(t) /\ DOMAIN (s \o t) = 1..(Len(s) + Len(t))
      /\ Len(s) \in Nat /\ Len(t) \in Nat
  OBVIOUS
<1>2. \A i \in 1..(Len(s) + Len(t)) : (s \o t)[i] = IF i <= Len(s) THEN s[i] ELSE t[i - Len(s)]
  OBVIOUS
<1>3. ASSUME NEW i \in DOMAIN (s \o t)
      PROVE  IF i <= Len(s) THEN i \in DOMAIN s /\ (s \o t)[i] = s[i]
                            ELSE i - Len(s) \in DOMAIN t /\ (s \o t)[i] = t[i - Len(s)]
  BY <1>1, <1>2
<1>4. \A i \in DOMAIN (s \o t) : \/ \E j \in DOMAIN s : (s \o t)[i] = s[j]
                                 \/ \E j \in DOMAIN t : (s \o t)[i] = t[j]
  BY <1>3
<1>5. ASSUME NEW i \in DOMAIN (s \o t), NEW j \in DOMAIN (s \o t), (s \o t)[i] = (s \o t)[j]
      PROVE  i = j
  BY <1>1, <1>3, <1>5
<1> QED BY <1>1, <1>4, <1>5

\* What PrekeyStore::from_bytes checks holds of a sound store.
LEMMA SoundIsAccepted ==
  ASSUME NEW st, SoundStore(st)
  PROVE  from_bytes_accepts(st)
<1> DEFINE a == <<st.signed.id, st.kem.id>>
           b == IF st.previous_signed = None THEN << >> ELSE <<st.previous_signed.id>>
           c == IF st.previous_kem = None THEN << >> ELSE <<st.previous_kem.id>>
           d == [i \in DOMAIN st.one_time |-> st.one_time[i].id]
           e == [i \in DOMAIN st.kem_one_time |-> st.kem_one_time[i].id]
           One(s) == s \in Seq(Nat) /\ \A i, j \in DOMAIN s : s[i] = s[j] => i = j
           Live(s) == \A i \in DOMAIN s : s[i] # 0 /\ s[i] < st.next_id
<1>1. /\ st \in StoreType /\ st.next_id \in Nat /\ st.signed \in StoreKey /\ st.kem \in StoreKey
      /\ st.previous_signed # None => st.previous_signed \in StoreKey
      /\ st.previous_kem # None => st.previous_kem \in StoreKey
      /\ st.one_time \in Seq(StoreKey) /\ st.kem_one_time \in Seq(StoreKey)
      /\ st.signed # None /\ st.kem # None
  BY NoneAssumption DEF SoundStore, StoreType, StoreKey
<1>2. /\ \A i \in DOMAIN st.one_time : st.one_time[i] \in StoreKey
      /\ \A i \in DOMAIN st.kem_one_time : st.kem_one_time[i] \in StoreKey
  BY <1>1
<1>3. /\ {st.signed.id, st.kem.id} \subseteq MultiUse(st)
      /\ st.previous_signed # None => st.previous_signed.id \in MultiUse(st)
      /\ st.previous_kem # None => st.previous_kem.id \in MultiUse(st)
  BY <1>1 DEF MultiUse
<1>4. /\ One(a) /\ DOMAIN a = {1, 2} /\ One(b) /\ One(c)
      /\ \A i \in DOMAIN b : st.previous_signed # None /\ b[i] = st.previous_signed.id
      /\ \A i \in DOMAIN c : st.previous_kem # None /\ c[i] = st.previous_kem.id
  <2>1. st.signed.id \in Nat /\ st.kem.id \in Nat /\ st.signed.id # st.kem.id
    BY <1>1 DEF StoreKey, SoundStore, MultiUseDistinct
  <2>2. One(a) /\ DOMAIN a = {1, 2}
    BY <2>1
  <2>3. One(b) /\ \A i \in DOMAIN b : st.previous_signed # None /\ b[i] = st.previous_signed.id
    <3>1. CASE st.previous_signed = None
      BY <3>1
    <3>2. CASE st.previous_signed # None
      <4>1. st.previous_signed.id \in Nat
        BY <1>1, <3>2 DEF StoreKey
      <4> QED BY <3>2, <4>1
    <3> QED BY <3>1, <3>2
  <2>4. One(c) /\ \A i \in DOMAIN c : st.previous_kem # None /\ c[i] = st.previous_kem.id
    <3>1. CASE st.previous_kem = None
      BY <3>1
    <3>2. CASE st.previous_kem # None
      <4>1. st.previous_kem.id \in Nat
        BY <1>1, <3>2 DEF StoreKey
      <4> QED BY <3>2, <4>1
    <3> QED BY <3>1, <3>2
  <2> QED BY <2>2, <2>3, <2>4
<1>5. /\ One(d) /\ DOMAIN d = DOMAIN st.one_time
      /\ One(e) /\ DOMAIN e = DOMAIN st.kem_one_time
      /\ \A i \in DOMAIN d : d[i] = st.one_time[i].id /\ d[i] \in Ids(st.one_time)
      /\ \A i \in DOMAIN e : e[i] = st.kem_one_time[i].id /\ e[i] \in Ids(st.kem_one_time)
  <2>1. d \in Seq(Nat) /\ e \in Seq(Nat)
    <3>1. /\ DOMAIN st.one_time = 1..Len(st.one_time) /\ Len(st.one_time) \in Nat
          /\ DOMAIN st.kem_one_time = 1..Len(st.kem_one_time) /\ Len(st.kem_one_time) \in Nat
      BY <1>1
    <3>2. /\ \A i \in DOMAIN st.one_time : st.one_time[i].id \in Nat
          /\ \A i \in DOMAIN st.kem_one_time : st.kem_one_time[i].id \in Nat
      BY <1>2 DEF StoreKey
    <3>3. d \in [1..Len(st.one_time) -> Nat] /\ e \in [1..Len(st.kem_one_time) -> Nat]
      BY <3>1, <3>2
    <3> HIDE DEF d, e
    <3> QED BY <3>1, <3>3
  <2> QED BY <2>1 DEF SoundStore, OneTimeDistinct, Distinct, Ids
<1>6. \A i \in DOMAIN a : a[i] \in {st.signed.id, st.kem.id}
  BY <1>4
<1> HIDE DEF a, b, c, d, e
<1>7. /\ One(a \o b)
      /\ \A i \in DOMAIN (a \o b) : (a \o b)[i] \in {st.signed.id, st.kem.id}
                                    \/ (st.previous_signed # None /\ (a \o b)[i] = st.previous_signed.id)
  <2>1. \A i \in DOMAIN a, j \in DOMAIN b : a[i] # b[j]
    BY <1>4, <1>6 DEF SoundStore, MultiUseDistinct
  <2>3. /\ One(a \o b)
        /\ \A i \in DOMAIN (a \o b) : \/ \E j \in DOMAIN a : (a \o b)[i] = a[j]
                                     \/ \E j \in DOMAIN b : (a \o b)[i] = b[j]
    BY <1>4, <2>1, ConcatDistinct
  <2> QED BY <1>4, <1>6, <2>3
<1> DEFINE ab == a \o b
<1> HIDE DEF ab
<1>8. /\ One(ab \o c)
      /\ \A i \in DOMAIN (ab \o c) : (ab \o c)[i] \in MultiUse(st)
  <2>1. \A i \in DOMAIN ab, j \in DOMAIN c : ab[i] # c[j]
    BY <1>4, <1>7 DEF SoundStore, MultiUseDistinct, ab
  <2>2. One(ab)
    BY <1>7 DEF ab
  <2>3. /\ One(ab \o c)
        /\ \A i \in DOMAIN (ab \o c) : \/ \E j \in DOMAIN ab : (ab \o c)[i] = ab[j]
                                     \/ \E j \in DOMAIN c : (ab \o c)[i] = c[j]
    BY <1>4, <2>1, <2>2, ConcatDistinct
  <2> QED BY <1>3, <1>4, <1>7, <2>3 DEF ab
<1> DEFINE abc == ab \o c
<1> HIDE DEF abc
<1>9. /\ One(abc \o d)
      /\ \A i \in DOMAIN (abc \o d) : (abc \o d)[i] \in MultiUse(st) \cup Ids(st.one_time)
  <2>1. \A i \in DOMAIN abc, j \in DOMAIN d : abc[i] # d[j]
    BY <1>5, <1>8 DEF SoundStore, OneTimeDistinct, abc
  <2>2. One(abc)
    BY <1>8 DEF abc
  <2>3. /\ One(abc \o d)
        /\ \A i \in DOMAIN (abc \o d) : \/ \E j \in DOMAIN abc : (abc \o d)[i] = abc[j]
                                     \/ \E j \in DOMAIN d : (abc \o d)[i] = d[j]
    BY <1>5, <2>1, <2>2, ConcatDistinct
  <2> QED BY <1>5, <1>8, <2>3 DEF abc
<1> DEFINE abcd == abc \o d
<1> HIDE DEF abcd
<1>10. /\ One(abcd \o e)
       /\ \A i \in DOMAIN (abcd \o e) :
            (abcd \o e)[i] \in MultiUse(st) \cup Ids(st.one_time) \cup Ids(st.kem_one_time)
  <2>1. \A i \in DOMAIN abcd, j \in DOMAIN e : abcd[i] # e[j]
    BY <1>5, <1>9 DEF SoundStore, OneTimeDistinct, abcd
  <2>2. One(abcd)
    BY <1>9 DEF abcd
  <2>3. /\ One(abcd \o e)
        /\ \A i \in DOMAIN (abcd \o e) : \/ \E j \in DOMAIN abcd : (abcd \o e)[i] = abcd[j]
                                     \/ \E j \in DOMAIN e : (abcd \o e)[i] = e[j]
    BY <1>5, <2>1, <2>2, ConcatDistinct
  <2> QED BY <1>5, <1>9, <2>3 DEF abcd
<1>11. LiveIds(st) = abcd \o e
  BY DEF LiveIds, a, b, c, d, e, ab, abc, abcd
<1>12. Live(LiveIds(st)) /\ One(LiveIds(st))
  <2> DEFINE all == abcd \o e
  <2>0. One(all)
    BY <1>10
  <2>2. \A i \in DOMAIN all : 0 < all[i] /\ all[i] < st.next_id
    BY <1>10 DEF SoundStore, IdsIssued
  <2> HIDE DEF all
  <2>1. One(all) /\ \A i \in DOMAIN all : all[i] \in Nat
    BY <2>0
  <2>3. Live(all)
    BY <2>1, <2>2
  <2> QED BY <1>11, <2>1, <2>3 DEF all
<1>13. invariant(st)
  BY <1>12 DEF invariant, SoundStore, RecordSound, ABSENT_ID
<1>14. signatures_verify(st)
  BY <1>1, <1>2 DEF signatures_verify, StoreKey
<1> QED BY <1>13, <1>14 DEF from_bytes_accepts

-----------------------------------------------------------------------------
(* Vectors of one-time keys *)

LEMMA IdsAreNumbers ==
  ASSUME NEW keys \in Seq(StoreKey)
  PROVE  Ids(keys) \subseteq Nat
<1>1. \A i \in DOMAIN keys : keys[i] \in StoreKey
  OBVIOUS
<1> QED BY <1>1 DEF Ids, StoreKey

LEMMA BatchIsSound ==
  ASSUME NEW first \in Nat, NEW count \in Nat, NEW now \in Nat
  PROVE  LET keys == Batch(first, count, now, Owner)
         IN  /\ keys \in Seq(StoreKey) /\ Distinct(keys)
             /\ \A id \in Ids(keys) : first <= id /\ id < first + count
<1> DEFINE keys == Batch(first, count, now, Owner)
<1>1. /\ DOMAIN keys = 1..count
      /\ \A i \in 1..count : keys[i] \in StoreKey /\ keys[i].id = first + i - 1
  BY DEF Batch, Key, StoreKey
<1>2. keys \in Seq(StoreKey)
  <2>1. keys = [i \in 1..count |-> keys[i]]
    BY DEF Batch
  <2>2. keys \in [1..count -> StoreKey]
    BY <1>1, <2>1
  <2> HIDE DEF keys
  <2> QED BY <2>2
<1> HIDE DEF keys
<1> QED BY <1>1, <1>2 DEF Distinct, Ids, keys

LEMMA KeysConcat ==
  ASSUME NEW a \in Seq(StoreKey), NEW b \in Seq(StoreKey), Distinct(a), Distinct(b),
         Ids(a) \cap Ids(b) = {}
  PROVE  a \o b \in Seq(StoreKey) /\ Distinct(a \o b) /\ Ids(a \o b) = Ids(a) \cup Ids(b)
<1> DEFINE c == a \o b
<1>1. /\ c \in Seq(StoreKey) /\ Len(a) \in Nat /\ Len(b) \in Nat
      /\ DOMAIN a = 1..Len(a) /\ DOMAIN b = 1..Len(b) /\ DOMAIN c = 1..(Len(a) + Len(b))
      /\ \A i \in 1..(Len(a) + Len(b)) : c[i] = IF i <= Len(a) THEN a[i] ELSE b[i - Len(a)]
  OBVIOUS
<1> HIDE DEF c
<1>2. ASSUME NEW i \in DOMAIN c
      PROVE  \/ i \in DOMAIN a /\ c[i] = a[i] /\ c[i].id \in Ids(a)
             \/ i - Len(a) \in DOMAIN b /\ ~(i <= Len(a)) /\ c[i] = b[i - Len(a)] /\ c[i].id \in Ids(b)
  BY <1>1 DEF Ids
<1>3. Distinct(c)
  <2> SUFFICES ASSUME NEW i \in DOMAIN c, NEW j \in DOMAIN c, c[i].id = c[j].id PROVE i = j
    BY DEF Distinct
  <2>1. CASE i \in DOMAIN a /\ c[i] = a[i] /\ c[i].id \in Ids(a)
    <3>1. j \in DOMAIN a /\ c[j] = a[j]
      BY <1>2, <2>1
    <3> QED BY <2>1, <3>1 DEF Distinct
  <2>2. CASE i - Len(a) \in DOMAIN b /\ ~(i <= Len(a)) /\ c[i] = b[i - Len(a)] /\ c[i].id \in Ids(b)
    <3>1. j - Len(a) \in DOMAIN b /\ c[j] = b[j - Len(a)]
      BY <1>2, <2>2
    <3>2. i - Len(a) = j - Len(a)
      BY <2>2, <3>1 DEF Distinct
    <3> QED BY <1>1, <3>2
  <2> QED BY <1>2, <2>1, <2>2
<1>4. Ids(c) \subseteq Ids(a) \cup Ids(b)
  BY <1>2 DEF Ids
<1>5. Ids(a) \subseteq Ids(c)
  <2> SUFFICES ASSUME NEW i \in DOMAIN a PROVE a[i].id \in Ids(c)
    BY DEF Ids
  <2>1. i \in DOMAIN c /\ c[i] = a[i]
    BY <1>1
  <2> QED BY <2>1 DEF Ids
<1>6. Ids(b) \subseteq Ids(c)
  <2> SUFFICES ASSUME NEW i \in DOMAIN b PROVE b[i].id \in Ids(c)
    BY DEF Ids
  <2>1. i + Len(a) \in DOMAIN c /\ c[i + Len(a)] = b[i]
    BY <1>1
  <2> QED BY <2>1 DEF Ids
<1> QED BY <1>1, <1>3, <1>4, <1>5, <1>6 DEF c

\* swap_remove leaves the other keys, each once.
LEMMA TakeIsSound ==
  ASSUME NEW keys \in Seq(StoreKey), Distinct(keys), NEW id
  PROVE  /\ Take(keys, id) \in Seq(StoreKey) /\ Distinct(Take(keys, id))
         /\ Ids(Take(keys, id)) \subseteq Ids(keys)
<1> DEFINE hits == {i \in DOMAIN keys : keys[i].id = id}
           least == CHOOSE k \in hits : \A j \in hits : k <= j
           new == [j \in 1..(Len(keys) - 1) |-> IF j = least THEN keys[Len(keys)] ELSE keys[j]]
<1>1. CASE hits = {}
  BY <1>1 DEF Take
<1>2. CASE hits # {}
  <2>1. Take(keys, id) = new
    BY <1>2 DEF Take
  <2>2. Len(keys) \in Nat /\ DOMAIN keys = 1..Len(keys) /\ Len(keys) >= 1
    BY <1>2
  <2> HIDE DEF least, hits
  <2> DEFINE from(j) == IF j = least THEN Len(keys) ELSE j
  <2>3. \A j \in 1..(Len(keys) - 1) : from(j) \in DOMAIN keys /\ new[j] = keys[from(j)]
    BY <2>2
  <2>4. DOMAIN new = 1..(Len(keys) - 1)
    OBVIOUS
  <2>5. new \in Seq(StoreKey)
    <3>1. \A i \in DOMAIN keys : keys[i] \in StoreKey
      BY <2>2
    <3>2. new \in [1..(Len(keys) - 1) -> StoreKey] /\ Len(keys) - 1 \in Nat
      BY <2>2, <2>3, <3>1
    <3> HIDE DEF new
    <3> QED BY <3>2
  <2> HIDE DEF new
  <2>6. Distinct(new)
    <3> SUFFICES ASSUME NEW i \in DOMAIN new, NEW j \in DOMAIN new, new[i].id = new[j].id PROVE i = j
      BY DEF Distinct
    <3>1. from(i) = from(j)
      BY <2>3, <2>4 DEF Distinct
    <3> QED BY <2>2, <2>4, <3>1
  <2>7. Ids(new) \subseteq Ids(keys)
    BY <2>3, <2>4 DEF Ids
  <2> QED BY <2>1, <2>5, <2>6, <2>7
<1> QED BY <1>1, <1>2

-----------------------------------------------------------------------------
(* The operations of the store *)

\* The record of a store depends on nothing but the last-resort keys and itself.
LEMMA RecordKept ==
  ASSUME NEW st, NEW t, RecordSound(st), t.kem = st.kem, t.previous_kem = st.previous_kem,
         t.last_resort_seen = st.last_resort_seen, t.blocked = st.blocked
  PROVE  RecordSound(t)
<1>1. LastResortIds(t) = LastResortIds(st)
  BY DEF LastResortIds
<1>2. \A id : last_resort_seen_for(t, id) = last_resort_seen_for(st, id)
  BY DEF last_resort_seen_for
<1> QED BY <1>1, <1>2 DEF RecordSound

LEMMA CreateIsSound ==
  ASSUME NEW count \in Nat
  PROVE  SoundStore(create_prekeys(count, 0)) /\ create_prekeys(count, 0).last_resort_seen = {}
<1> DEFINE st == create_prekeys(count, 0)
           n == Smaller(count, MAX_CREATED_ONE_TIME)
           curves == Batch(2, n, 0, Owner)
           kems == Batch(n + 3, n, 0, Owner)
<1>1. n \in Nat /\ 2 * n + 3 <= U32_MAX /\ U32_MAX \in Nat
  BY StoreAssumption DEF Smaller, MAX_CREATED_ONE_TIME
<1>2. /\ st.next_id = 2 * n + 3 /\ st.signed = Key(1, 0, Owner) /\ st.kem = Key(n + 2, 0, Owner)
      /\ st.one_time = curves /\ st.kem_one_time = kems
      /\ st.previous_signed = None /\ st.previous_kem = None
      /\ st.last_resort_seen = {} /\ st.blocked = {}
      /\ st = [next_id |-> st.next_id, signed |-> st.signed, one_time |-> st.one_time, kem |-> st.kem,
               kem_one_time |-> st.kem_one_time, previous_signed |-> st.previous_signed,
               previous_kem |-> st.previous_kem, last_resort_seen |-> st.last_resort_seen,
               blocked |-> st.blocked]
  BY DEF create_prekeys
<1>3. /\ curves \in Seq(StoreKey) /\ Distinct(curves)
      /\ \A id \in Ids(curves) : 2 <= id /\ id < n + 2
  <2>1. 2 + n = n + 2
    BY <1>1
  <2> QED BY <1>1, <2>1, BatchIsSound
<1>4. /\ kems \in Seq(StoreKey) /\ Distinct(kems)
      /\ \A id \in Ids(kems) : n + 3 <= id /\ id < 2 * n + 3
  <2>1. n + 3 + n = 2 * n + 3 /\ n + 3 \in Nat
    BY <1>1
  <2> QED BY <1>1, <2>1, BatchIsSound
<1> HIDE DEF st, n, curves, kems
<1>5. st.signed \in StoreKey /\ st.signed.id = 1 /\ st.kem \in StoreKey /\ st.kem.id = n + 2
  BY <1>1, <1>2 DEF Key, StoreKey
<1>6. st \in StoreType
  BY <1>1, <1>2, <1>3, <1>4, <1>5 DEF StoreType
<1>7. MultiUse(st) = {1, n + 2}
  BY <1>2, <1>5, NoneAssumption DEF MultiUse, StoreKey
<1>8. Ids(curves) \subseteq Nat /\ Ids(kems) \subseteq Nat
  BY <1>3, <1>4, IdsAreNumbers
<1>9. IdsIssued(st) /\ MultiUseDistinct(st) /\ OneTimeDistinct(st)
  BY <1>1, <1>2, <1>3, <1>4, <1>5, <1>7, <1>8, SMTT(60) DEF IdsIssued, MultiUseDistinct, OneTimeDistinct
<1>10. RecordSound(st)
  <2>1. \A id : last_resort_seen_for(st, id) = 0
    <3>1. \A id : {e \in st.last_resort_seen : e.id = id} = {}
      BY <1>2
    <3> QED BY <3>1, FS_EmptySet DEF last_resort_seen_for
  <2> QED BY <1>2, <2>1, StoreAssumption, FS_EmptySet DEF RecordSound
<1> QED BY <1>2, <1>6, <1>9, <1>10 DEF SoundStore, st

\* What a sound store holds.
LEMMA StoreTyped ==
  ASSUME NEW st, SoundStore(st)
  PROVE  /\ st \in StoreType /\ st.next_id \in Nat /\ U32_MAX \in Nat
         /\ st.signed \in StoreKey /\ st.kem \in StoreKey /\ st.signed # None /\ st.kem # None
         /\ st.signed.id \in Nat /\ st.kem.id \in Nat
         /\ st.previous_signed \in StoreKey \cup {None} /\ st.previous_kem \in StoreKey \cup {None}
         /\ st.one_time \in Seq(StoreKey) /\ st.kem_one_time \in Seq(StoreKey)
         /\ Ids(st.one_time) \subseteq Nat /\ Ids(st.kem_one_time) \subseteq Nat
         /\ MultiUse(st) \subseteq Nat /\ LastResortIds(st) \subseteq MultiUse(st)
         /\ st.signed.id \in MultiUse(st) /\ st.kem.id \in LastResortIds(st)
<1>1. /\ st \in StoreType /\ st.next_id \in Nat /\ U32_MAX \in Nat
      /\ st.signed \in StoreKey /\ st.kem \in StoreKey
      /\ st.previous_signed \in StoreKey \cup {None} /\ st.previous_kem \in StoreKey \cup {None}
      /\ st.one_time \in Seq(StoreKey) /\ st.kem_one_time \in Seq(StoreKey)
  BY StoreAssumption DEF SoundStore, StoreType
<1>2. st.signed # None /\ st.kem # None
  BY <1>1, NoneAssumption DEF StoreKey
<1>3. MultiUse(st) \subseteq Nat
  BY <1>1 DEF MultiUse, StoreKey
<1>4. LastResortIds(st) \subseteq MultiUse(st) /\ st.signed.id \in MultiUse(st)
      /\ st.kem.id \in LastResortIds(st)
  BY <1>2 DEF LastResortIds, MultiUse
<1> QED BY <1>1, <1>2, <1>3, <1>4, IdsAreNumbers DEF StoreKey

LEMMA ReplenishIsSound ==
  ASSUME NEW st, SoundStore(st), NEW identity, NEW count \in Nat, NEW now \in Nat
  PROVE  LET t == replenish(st, identity, count, now)
         IN  SoundStore(t) /\ t.last_resort_seen = st.last_resort_seen
<1> DEFINE t == replenish(st, identity, count, now)
           curve == Smaller(count, U32_MAX - st.next_id)
           kems == Smaller(count, U32_MAX - st.next_id - curve)
           A == Batch(st.next_id, curve, now, Owner)
           B == Batch(st.next_id + curve, kems, now, Owner)
<1>1. CASE identity # Owner
  BY <1>1 DEF replenish
<1>2. CASE identity = Owner
  <2>0. st.next_id <= U32_MAX /\ st \in StoreType /\ st.next_id \in Nat /\ U32_MAX \in Nat
    BY StoreTyped DEF SoundStore, IdsIssued
  <2>1. curve \in Nat /\ kems \in Nat /\ st.next_id + curve + kems <= U32_MAX
    BY <2>0 DEF Smaller
  <2> HIDE DEF curve, kems
  <2>2. A \in Seq(StoreKey) /\ Distinct(A) /\ \A id \in Ids(A) : st.next_id <= id /\ id < st.next_id + curve
    BY <2>0, <2>1, BatchIsSound
  <2>3. /\ B \in Seq(StoreKey) /\ Distinct(B)
        /\ \A id \in Ids(B) : st.next_id + curve <= id /\ id < st.next_id + curve + kems
    <3>1. st.next_id + curve \in Nat
      BY <2>0, <2>1
    <3> QED BY <2>1, <3>1, BatchIsSound
  <2>4. t = [st EXCEPT !.next_id = @ + curve + kems, !.one_time = @ \o A, !.kem_one_time = @ \o B]
    BY <1>2 DEF replenish, curve, kems
  <2> HIDE DEF A, B, t
  <2>5. /\ t.next_id = st.next_id + curve + kems
        /\ t.one_time = st.one_time \o A /\ t.kem_one_time = st.kem_one_time \o B
        /\ t.signed = st.signed /\ t.kem = st.kem /\ t.previous_signed = st.previous_signed
        /\ t.previous_kem = st.previous_kem /\ t.last_resort_seen = st.last_resort_seen
        /\ t.blocked = st.blocked
    BY <2>0, <2>4 DEF StoreType
  <2>6. Ids(A) \subseteq Nat /\ Ids(B) \subseteq Nat
    BY <2>2, <2>3, IdsAreNumbers
  <2>7. /\ st.one_time \in Seq(StoreKey) /\ st.kem_one_time \in Seq(StoreKey)
        /\ Ids(st.one_time) \subseteq Nat /\ Ids(st.kem_one_time) \subseteq Nat /\ MultiUse(st) \subseteq Nat
        /\ Distinct(st.one_time) /\ Distinct(st.kem_one_time)
    BY StoreTyped DEF SoundStore, OneTimeDistinct
  <2>8. \A id \in MultiUse(st) \cup Ids(st.one_time) \cup Ids(st.kem_one_time) : 0 < id /\ id < st.next_id
    BY DEF SoundStore, IdsIssued
  <2>9. /\ t.one_time \in Seq(StoreKey) /\ Distinct(t.one_time)
        /\ Ids(t.one_time) = Ids(st.one_time) \cup Ids(A)
    <3>1. Ids(st.one_time) \cap Ids(A) = {}
      BY <2>0, <2>2, <2>6, <2>7, <2>8
    <3> QED BY <2>2, <2>5, <2>7, <3>1, KeysConcat
  <2>10. /\ t.kem_one_time \in Seq(StoreKey) /\ Distinct(t.kem_one_time)
         /\ Ids(t.kem_one_time) = Ids(st.kem_one_time) \cup Ids(B)
    <3>1. Ids(st.kem_one_time) \cap Ids(B) = {}
      BY <2>0, <2>1, <2>3, <2>6, <2>7, <2>8
    <3> QED BY <2>3, <2>5, <2>7, <3>1, KeysConcat
  <2>11. t \in StoreType
    <3>1. /\ t.next_id \in Nat /\ t.signed \in StoreKey /\ t.kem \in StoreKey
          /\ t.one_time \in Seq(StoreKey) /\ t.kem_one_time \in Seq(StoreKey)
          /\ t.previous_signed \in StoreKey \cup {None} /\ t.previous_kem \in StoreKey \cup {None}
          /\ t.last_resort_seen \in SUBSET RecordEntry /\ t.blocked \in SUBSET Nat
      BY <2>0, <2>1, <2>5, <2>9, <2>10, SMTT(60) DEF StoreType
    <3> QED BY <2>0, <2>4, <3>1 DEF StoreType
  <2>12. MultiUse(t) = MultiUse(st)
    BY <2>5 DEF MultiUse
  <2>13. IdsIssued(t)
    <3> SUFFICES ASSUME NEW id \in MultiUse(t) \cup Ids(t.one_time) \cup Ids(t.kem_one_time)
                 PROVE  0 < id /\ id < t.next_id
      BY <2>1, <2>5 DEF IdsIssued
    <3>1. CASE id \in MultiUse(st) \cup Ids(st.one_time) \cup Ids(st.kem_one_time)
      BY <2>0, <2>1, <2>5, <2>7, <2>8, <3>1
    <3>2. CASE id \in Ids(A)
      <4>1. 0 < st.next_id
        BY <2>0, <2>7, <2>8, StoreTyped
      <4> QED BY <2>0, <2>1, <2>2, <2>5, <2>6, <3>2, <4>1
    <3>3. CASE id \in Ids(B)
      <4>1. 0 < st.next_id
        BY <2>0, <2>7, <2>8, StoreTyped
      <4> QED BY <2>0, <2>1, <2>3, <2>5, <2>6, <3>3, <4>1
    <3> QED BY <2>9, <2>10, <2>12, <3>1, <3>2, <3>3
  <2>14. MultiUseDistinct(t)
    BY <2>5 DEF MultiUseDistinct, SoundStore
  <2>15. OneTimeDistinct(t)
    <3>1. /\ Ids(st.one_time) \cap Ids(st.kem_one_time) = {}
          /\ MultiUse(st) \cap (Ids(st.one_time) \cup Ids(st.kem_one_time)) = {}
      BY DEF SoundStore, OneTimeDistinct
    <3>2. \A id \in Ids(A) \cup Ids(B) :
            id \notin MultiUse(st) \cup Ids(st.one_time) \cup Ids(st.kem_one_time)
      BY <2>0, <2>1, <2>2, <2>3, <2>6, <2>7, <2>8, SMTT(60)
    <3>3. Ids(A) \cap Ids(B) = {}
      BY <2>0, <2>1, <2>2, <2>3, <2>6
    <3> QED BY <2>9, <2>10, <2>12, <3>1, <3>2, <3>3 DEF OneTimeDistinct
  <2>16. RecordSound(t)
    BY <2>5, RecordKept DEF SoundStore
  <2> QED BY <2>5, <2>11, <2>13, <2>14, <2>15, <2>16 DEF SoundStore, t
<1> QED BY <1>1, <1>2

LEMMA RotateSignedIsSound ==
  ASSUME NEW st, SoundStore(st), NEW identity, NEW now \in Nat
  PROVE  LET t == rotate_signed_prekey(st, identity, now)
         IN  SoundStore(t) /\ t.last_resort_seen = st.last_resort_seen
<1> DEFINE t == rotate_signed_prekey(st, identity, now)
<1>1. CASE ~MayRotate(st, identity)
  BY <1>1 DEF rotate_signed_prekey
<1>2. CASE MayRotate(st, identity)
  <2>0. /\ st.next_id < U32_MAX /\ identity = Owner /\ st \in StoreType /\ st.next_id \in Nat
        /\ U32_MAX \in Nat /\ st.signed # None /\ st.signed \in StoreKey
        /\ st.kem \in StoreKey /\ st.kem # None
        /\ st.signed.id \in MultiUse(st) /\ st.kem.id \in MultiUse(st)
    BY <1>2, StoreTyped DEF MayRotate
  <2>1. t = [st EXCEPT !.next_id = @ + 1, !.signed = Key(st.next_id, now, Owner),
                       !.previous_signed = st.signed]
    BY <1>2, <2>0 DEF rotate_signed_prekey
  <2> HIDE DEF t
  <2>2. /\ t.next_id = st.next_id + 1 /\ t.signed = Key(st.next_id, now, Owner)
        /\ t.previous_signed = st.signed /\ t.kem = st.kem /\ t.previous_kem = st.previous_kem
        /\ t.one_time = st.one_time /\ t.kem_one_time = st.kem_one_time
        /\ t.last_resort_seen = st.last_resort_seen /\ t.blocked = st.blocked
    BY <2>0, <2>1 DEF StoreType
  <2>3. t.signed \in StoreKey /\ t.signed.id = st.next_id /\ t.signed # None
    BY <2>0, <2>2, NoneAssumption DEF Key, StoreKey
  <2>4. t \in StoreType
    <3>1. /\ t.next_id \in Nat /\ t.signed \in StoreKey /\ t.kem \in StoreKey
          /\ t.one_time \in Seq(StoreKey) /\ t.kem_one_time \in Seq(StoreKey)
          /\ t.previous_signed \in StoreKey \cup {None} /\ t.previous_kem \in StoreKey \cup {None}
          /\ t.last_resort_seen \in SUBSET RecordEntry /\ t.blocked \in SUBSET Nat
      BY <2>0, <2>2, <2>3 DEF StoreType
    <3> QED BY <2>0, <2>1, <3>1 DEF StoreType
  <2>5. MultiUse(t) \subseteq MultiUse(st) \cup {st.next_id}
    BY <2>0, <2>2, <2>3 DEF MultiUse
  <2>6. \A id \in MultiUse(st) \cup Ids(st.one_time) \cup Ids(st.kem_one_time) :
          id \in Nat /\ 0 < id /\ id < st.next_id
    BY StoreTyped DEF SoundStore, IdsIssued
  <2>7. IdsIssued(t)
    <3>1. 0 < st.next_id
      BY <2>0, <2>6
    <3> QED BY <2>0, <2>2, <2>5, <2>6, <3>1 DEF IdsIssued
  <2>8. MultiUseDistinct(t)
    <3>1. t.previous_kem # None => t.previous_kem.id \in MultiUse(st)
      BY <2>2 DEF MultiUse
    <3>2. t.signed.id \notin MultiUse(st)
      BY <2>0, <2>3, <2>6
    <3> QED BY <2>0, <2>2, <3>1, <3>2 DEF MultiUseDistinct, SoundStore
  <2>9. OneTimeDistinct(t)
    BY <2>0, <2>2, <2>5, <2>6 DEF OneTimeDistinct, SoundStore
  <2>10. RecordSound(t)
    BY <2>2, RecordKept DEF SoundStore
  <2> QED BY <2>2, <2>4, <2>7, <2>8, <2>9, <2>10 DEF SoundStore, t
<1> QED BY <1>1, <1>2

LEMMA RotateKemIsSound ==
  ASSUME NEW st, SoundStore(st), NEW identity, NEW now \in Nat
  PROVE  LET t == rotate_kem(st, identity, now)
         IN  SoundStore(t) /\ t.last_resort_seen \subseteq st.last_resort_seen
<1> DEFINE t == rotate_kem(st, identity, now)
           wiped == IF st.previous_kem = None THEN ABSENT_ID ELSE st.previous_kem.id
           seen == {e \in st.last_resort_seen : e.id # wiped}
<1>1. CASE ~MayRotate(st, identity)
  BY <1>1 DEF rotate_kem
<1>2. CASE MayRotate(st, identity)
  <2>0. /\ st.next_id < U32_MAX /\ identity = Owner /\ st \in StoreType /\ st.next_id \in Nat
        /\ U32_MAX \in Nat /\ st.signed # None /\ st.signed \in StoreKey
        /\ st.kem \in StoreKey /\ st.kem # None
        /\ st.signed.id \in MultiUse(st) /\ st.kem.id \in MultiUse(st)
    BY <1>2, StoreTyped DEF MayRotate
  <2>1. t = [st EXCEPT !.next_id = @ + 1, !.kem = Key(st.next_id, now, Owner), !.previous_kem = st.kem,
                       !.last_resort_seen = seen, !.blocked = @ \ {wiped}]
    BY <1>2, <2>0 DEF rotate_kem
  <2> HIDE DEF t, seen, wiped
  <2>2. /\ t.next_id = st.next_id + 1 /\ t.kem = Key(st.next_id, now, Owner)
        /\ t.previous_kem = st.kem /\ t.signed = st.signed /\ t.previous_signed = st.previous_signed
        /\ t.one_time = st.one_time /\ t.kem_one_time = st.kem_one_time
        /\ t.last_resort_seen = seen /\ t.blocked = st.blocked \ {wiped}
    BY <2>0, <2>1 DEF StoreType
  <2>3. t.kem \in StoreKey /\ t.kem.id = st.next_id /\ t.kem # None
    BY <2>0, <2>2, NoneAssumption DEF Key, StoreKey
  <2>4. t \in StoreType
    <3>1. /\ t.next_id \in Nat /\ t.signed \in StoreKey /\ t.kem \in StoreKey
          /\ t.one_time \in Seq(StoreKey) /\ t.kem_one_time \in Seq(StoreKey)
          /\ t.previous_signed \in StoreKey \cup {None} /\ t.previous_kem \in StoreKey \cup {None}
          /\ t.last_resort_seen \in SUBSET RecordEntry /\ t.blocked \in SUBSET Nat
      BY <2>0, <2>2, <2>3 DEF StoreType, seen
    <3> QED BY <2>0, <2>1, <3>1 DEF StoreType
  <2>5. MultiUse(t) \subseteq MultiUse(st) \cup {st.next_id}
    BY <2>0, <2>2, <2>3 DEF MultiUse
  <2>6. \A id \in MultiUse(st) \cup Ids(st.one_time) \cup Ids(st.kem_one_time) :
          id \in Nat /\ 0 < id /\ id < st.next_id
    BY StoreTyped DEF SoundStore, IdsIssued
  <2>7. IdsIssued(t)
    <3>1. 0 < st.next_id
      BY <2>0, <2>6
    <3> QED BY <2>0, <2>2, <2>5, <2>6, <3>1 DEF IdsIssued
  <2>8. MultiUseDistinct(t)
    <3>1. t.previous_signed # None => t.previous_signed.id \in MultiUse(st)
      BY <2>2 DEF MultiUse
    <3>2. t.kem.id \notin MultiUse(st)
      BY <2>0, <2>3, <2>6
    <3> QED BY <2>0, <2>2, <3>1, <3>2 DEF MultiUseDistinct, SoundStore
  <2>9. OneTimeDistinct(t)
    BY <2>0, <2>2, <2>5, <2>6 DEF OneTimeDistinct, SoundStore
  <2>10. RecordSound(t)
    <3>1. LastResortIds(t) = {st.next_id, st.kem.id}
      BY <2>0, <2>2, <2>3 DEF LastResortIds
    <3>2. \A id \in LastResortIds(st) : id = wiped \/ id = st.kem.id
      BY <2>0 DEF LastResortIds, wiped
    <3>3. /\ \A e \in st.last_resort_seen : e.id \in LastResortIds(st)
          /\ IsFiniteSet(st.last_resort_seen) /\ st.blocked \subseteq LastResortIds(st)
          /\ \A e, f \in st.last_resort_seen : e.fp = f.fp => e = f
          /\ \A id \in LastResortIds(st) : last_resort_seen_for(st, id) <= MAX_LAST_RESORT_SEEN
      BY DEF SoundStore, RecordSound
    <3>4. IsFiniteSet(seen) /\ seen \subseteq st.last_resort_seen
      BY <3>3, FS_Subset DEF seen
    <3>5. \A e \in seen : e.id = st.kem.id
      BY <3>2, <3>3 DEF seen
    <3>6. t.blocked \subseteq LastResortIds(t)
      BY <2>2, <3>1, <3>2, <3>3
    <3>7. last_resort_seen_for(t, st.next_id) = 0
      <4>1. st.kem.id # st.next_id
        BY <2>0, <2>6
      <4>2. {e \in t.last_resort_seen : e.id = st.next_id} = {}
        BY <2>2, <3>5, <4>1
      <4> QED BY <4>2, FS_EmptySet DEF last_resort_seen_for
    <3>8. last_resort_seen_for(t, st.kem.id) <= MAX_LAST_RESORT_SEEN
      <4> DEFINE old == {e \in st.last_resort_seen : e.id = st.kem.id}
                 new == {e \in t.last_resort_seen : e.id = st.kem.id}
      <4>1. IsFiniteSet(old) /\ new \in SUBSET old
        BY <2>2, <3>3, <3>4, FS_Subset
      <4>2. Cardinality(new) <= Cardinality(old) /\ IsFiniteSet(new)
        BY <4>1, FS_Subset
      <4>3. Cardinality(new) \in Nat /\ Cardinality(old) \in Nat
        BY <4>1, <4>2, FS_CardinalityType
      <4>4. Cardinality(old) <= MAX_LAST_RESORT_SEEN
        BY <3>3, StoreTyped DEF last_resort_seen_for
      <4> HIDE DEF old, new
      <4>5. Cardinality(new) <= MAX_LAST_RESORT_SEEN
        BY <4>2, <4>3, <4>4, StoreAssumption
      <4> QED BY <4>5 DEF last_resort_seen_for, new
    <3> QED BY <2>2, <3>1, <3>3, <3>4, <3>5, <3>6, <3>7, <3>8, StoreAssumption DEF RecordSound
  <2> QED BY <2>2, <2>4, <2>7, <2>8, <2>9, <2>10 DEF SoundStore, seen, t
<1> QED BY <1>1, <1>2

-----------------------------------------------------------------------------
(* establish_responder *)

\* A set of naturals that is not empty has a least element.
LEMMA LeastExists ==
  ASSUME NEW S \in SUBSET Nat, S # {}
  PROVE  \E x \in S : \A y \in S : x <= y
<1> DEFINE R == OpToRel(<, Nat)
<1>1. IsWellFoundedOn(R, Nat)
  BY NatLessThanWellFounded
<1>2. \A x, y \in Nat : <<y, x>> \in R <=> y < x
  BY DEF OpToRel
<1> HIDE DEF R
<1>3. \A Q, N, T : IsWellFoundedOn(Q, N) /\ T \subseteq N /\ T # {}
                     => \E x \in T : \A y \in T : ~(<<y, x>> \in Q)
  BY WFMin
<1>4. S \subseteq Nat /\ S # {}
  OBVIOUS
<1>5. \E x \in S : \A y \in S : ~(<<y, x>> \in R)
  BY <1>1, <1>3, <1>4, Zenon
<1>6. PICK x \in S : \A y \in S : ~(<<y, x>> \in R)
  BY <1>5
<1>7. \A y \in S : ~(y < x)
  BY <1>2, <1>4, <1>6, Zenon
<1> QED BY <1>4, <1>7

\* A search that finds a key finds one of that name.
LEMMA FindFinds ==
  ASSUME NEW keys \in Seq(StoreKey), NEW id
  PROVE  Find(keys, id) \subseteq StoreKey
<1> DEFINE hits == {i \in DOMAIN keys : keys[i].id = id}
<1>1. CASE hits = {}
  BY <1>1 DEF Find
<1>2. CASE hits # {}
  <2>1. PICK k \in hits : \A j \in hits : k <= j
    <3>1. hits \in SUBSET Nat
      OBVIOUS
    <3> QED BY <1>2, <3>1, LeastExists
  <2>2. (CHOOSE i \in hits : \A j \in hits : i <= j) \in hits
    BY <2>1
  <2> HIDE DEF hits
  <2>3. Find(keys, id) = {keys[CHOOSE i \in hits : \A j \in hits : i <= j]}
    BY <1>2 DEF Find, hits
  <2>4. \A i \in hits : keys[i] \in StoreKey
    BY DEF hits
  <2> QED BY <2>2, <2>3, <2>4
<1> QED BY <1>1, <1>2

LEMMA NamedFinds ==
  ASSUME NEW current \in StoreKey \cup {None}, NEW previous \in StoreKey \cup {None}, NEW id
  PROVE  /\ Named(current, previous, id) \subseteq StoreKey
         /\ \A k \in Named(current, previous, id) : k.id = id
BY DEF Named

\* The secret of a message whose keys are all found.
LEMMA SecretTyped ==
  ASSUME NEW st, SoundStore(st), NEW m, m.hs \in Handshakes \cup {Old}, Found(st, m)
  PROVE  responder_shared_secret(st, m) \in Fingerprint /\ responder_shared_secret(st, m).hs = m.hs
<1> DEFINE The(keys) == CHOOSE k \in keys : TRUE
           resort == Named(st.kem, st.previous_kem, m.kem_id)
           signed == The(Named(st.signed, st.previous_signed, m.signed_id))
           curve == IF m.one_time_id = ABSENT_ID THEN None ELSE The(Find(st.one_time, m.one_time_id))
           kem == The(IF resort # {} THEN resort ELSE Find(st.kem_one_time, m.kem_id))
<1>1. responder_shared_secret(st, m) = [hs |-> m.hs, signed |-> signed, one_time |-> curve, kem |-> kem]
  BY DEF responder_shared_secret, Secret
<1>2. signed \in StoreKey
  BY StoreTyped, NamedFinds DEF Found
<1>3. curve \in StoreKey \cup {None}
  BY StoreTyped, FindFinds DEF Found
<1>4. kem \in StoreKey
  <2>1. CASE resort # {}
    BY <2>1, StoreTyped, NamedFinds
  <2>2. CASE resort = {}
    <3>1. Find(st.kem_one_time, m.kem_id) # {}
      BY <2>2 DEF Found, IsLastResort
    <3> QED BY <2>2, <3>1, StoreTyped, FindFinds
  <2> QED BY <2>1, <2>2
<1> HIDE DEF signed, curve, kem
<1> QED BY <1>1, <1>2, <1>3, <1>4 DEF Fingerprint

LEMMA SpendIsSound ==
  ASSUME NEW st, SoundStore(st), NEW m, m.hs \in Handshakes \cup {Old}, Refusal(st, m) = "None"
  PROVE  LET t == establish_responder(st, m)
         IN  /\ SoundStore(t) /\ m.secret.hs = m.hs
             /\ \A e \in t.last_resort_seen : e \in st.last_resort_seen \/ e.fp.hs = m.hs
<1> DEFINE sk == responder_shared_secret(st, m)
           resort == IsLastResort(st, m.kem_id)
           entry == [id |-> m.kem_id, fp |-> sk]
           kems == IF resort THEN st.kem_one_time ELSE Take(st.kem_one_time, m.kem_id)
           curves == IF m.one_time_id = ABSENT_ID THEN st.one_time ELSE Take(st.one_time, m.one_time_id)
           seen == IF resort THEN st.last_resort_seen \cup {entry} ELSE st.last_resort_seen
           t == establish_responder(st, m)
<1>1. /\ Found(st, m) /\ m.secret = sk
      /\ resort => ~Replayed(st, sk) /\ ~(last_resort_seen_for(st, m.kem_id) >= MAX_LAST_RESORT_SEEN)
  BY DEF Refusal
<1>2. sk \in Fingerprint /\ sk.hs = m.hs
  BY <1>1, SecretTyped
<1>3. t = [st EXCEPT !.kem_one_time = kems, !.one_time = curves, !.last_resort_seen = seen]
  BY DEF establish_responder, Spend
<1>4. resort => m.kem_id \in LastResortIds(st) /\ m.kem_id \in Nat
  BY StoreTyped DEF IsLastResort, Named, LastResortIds
<1>5. resort => entry \in RecordEntry
  BY <1>2, <1>4 DEF RecordEntry
<1> HIDE DEF sk, resort, t
<1>6. /\ kems \in Seq(StoreKey) /\ Distinct(kems) /\ Ids(kems) \subseteq Ids(st.kem_one_time)
      /\ curves \in Seq(StoreKey) /\ Distinct(curves) /\ Ids(curves) \subseteq Ids(st.one_time)
  BY StoreTyped, TakeIsSound DEF SoundStore, OneTimeDistinct
<1>7. seen \in SUBSET RecordEntry
  BY <1>5, StoreTyped DEF StoreType
<1> HIDE DEF kems, curves, seen, entry
<1>8. /\ t.kem_one_time = kems /\ t.one_time = curves /\ t.last_resort_seen = seen
      /\ t.next_id = st.next_id /\ t.signed = st.signed /\ t.previous_signed = st.previous_signed
      /\ t.kem = st.kem /\ t.previous_kem = st.previous_kem /\ t.blocked = st.blocked
  BY <1>3, StoreTyped DEF StoreType
<1>9. t \in StoreType
  BY <1>3, <1>6, <1>7, StoreTyped DEF StoreType
<1>10. MultiUse(t) = MultiUse(st) /\ LastResortIds(t) = LastResortIds(st)
  BY <1>8 DEF MultiUse, LastResortIds
<1>11. IdsIssued(t) /\ MultiUseDistinct(t) /\ OneTimeDistinct(t)
  BY <1>6, <1>8, <1>10 DEF SoundStore, IdsIssued, MultiUseDistinct, OneTimeDistinct
<1>12. RecordSound(t)
  <2>1. CASE ~resort
    BY <1>8, <2>1, RecordKept DEF SoundStore, seen
  <2>2. CASE resort
    <3>1. seen = st.last_resort_seen \cup {entry} /\ entry.fp = sk /\ entry.id = m.kem_id
      BY <2>2 DEF seen, entry
    <3>2. \A e \in st.last_resort_seen : e.fp # sk
      BY <1>1, <2>2 DEF Replayed
    <3>3. RecordSound(st)
      BY DEF SoundStore
    <3>4. IsFiniteSet(seen)
      BY <3>1, <3>3, FS_AddElement DEF RecordSound
    <3>5. \A e, f \in seen : e.fp = f.fp => e = f
      BY <3>1, <3>2, <3>3 DEF RecordSound
    <3>6. \A e \in seen : e.id \in LastResortIds(st)
      BY <1>4, <2>2, <3>1, <3>3 DEF RecordSound
    <3>7. ASSUME NEW id \in LastResortIds(st)
          PROVE  last_resort_seen_for(t, id) <= MAX_LAST_RESORT_SEEN
      <4> DEFINE old == {e \in st.last_resort_seen : e.id = id}
                 new == {e \in t.last_resort_seen : e.id = id}
      <4>1. IsFiniteSet(old) /\ Cardinality(old) \in Nat /\ Cardinality(old) <= MAX_LAST_RESORT_SEEN
        BY <3>3, FS_Subset, FS_CardinalityType DEF RecordSound, last_resort_seen_for
      <4>2. CASE id # m.kem_id
        <5>1. new = old
          BY <1>8, <3>1, <4>2
        <5> QED BY <4>1, <5>1 DEF last_resort_seen_for
      <4>3. CASE id = m.kem_id
        <5>1. new = old \cup {entry}
          BY <1>8, <3>1, <4>3
        <5>2. ~(Cardinality(old) >= MAX_LAST_RESORT_SEEN)
          BY <1>1, <2>2, <4>3 DEF last_resort_seen_for
        <5> HIDE DEF old, new
        <5>3. Cardinality(new) <= Cardinality(old) + 1 /\ Cardinality(new) \in Nat
          <6>1. Cardinality(new) = IF entry \in old THEN Cardinality(old) ELSE Cardinality(old) + 1
            BY <4>1, <5>1, FS_AddElement
          <6> QED BY <4>1, <6>1
        <5>4. Cardinality(new) <= MAX_LAST_RESORT_SEEN
          BY <4>1, <5>2, <5>3, StoreAssumption
        <5> QED BY <5>4 DEF last_resort_seen_for, new
      <4> QED BY <4>2, <4>3
    <3> QED BY <1>8, <1>10, <3>3, <3>4, <3>5, <3>6, <3>7 DEF RecordSound
  <2> QED BY <2>1, <2>2
<1>13. \A e \in t.last_resort_seen : e \in st.last_resort_seen \/ e.fp.hs = m.hs
  BY <1>2, <1>8 DEF seen, entry
<1> QED BY <1>1, <1>2, <1>9, <1>11, <1>12, <1>13 DEF SoundStore, t

-----------------------------------------------------------------------------
(* Stores of the older format *)

\* Blocking the keys an old record may cover.
LEMMA UpgradedIsSound ==
  ASSUME NEW st, SoundStore(st)
  PROVE  SoundStore(Upgraded(st)) /\ Upgraded(st).last_resort_seen = st.last_resort_seen
<1> DEFINE t == Upgraded(st)
           shut == IF st.last_resort_seen = {} THEN {} ELSE LastResortIds(st)
<1>1. t = [st EXCEPT !.blocked = shut]
  BY DEF Upgraded
<1>2. shut \in SUBSET Nat /\ shut \subseteq LastResortIds(st)
  BY StoreTyped
<1> HIDE DEF t, shut
<1>3. /\ t.blocked = shut /\ t.last_resort_seen = st.last_resort_seen
      /\ t.kem_one_time = st.kem_one_time /\ t.one_time = st.one_time
      /\ t.next_id = st.next_id /\ t.signed = st.signed /\ t.previous_signed = st.previous_signed
      /\ t.kem = st.kem /\ t.previous_kem = st.previous_kem
  BY <1>1, StoreTyped DEF StoreType
<1>4. t \in StoreType
  BY <1>1, <1>2, StoreTyped DEF StoreType
<1>5. MultiUse(t) = MultiUse(st) /\ LastResortIds(t) = LastResortIds(st)
  BY <1>3 DEF MultiUse, LastResortIds
<1>6. IdsIssued(t) /\ MultiUseDistinct(t) /\ OneTimeDistinct(t)
  BY <1>3, <1>5 DEF SoundStore, IdsIssued, MultiUseDistinct, OneTimeDistinct
<1>7. \A id : last_resort_seen_for(t, id) = last_resort_seen_for(st, id)
  BY <1>3 DEF last_resort_seen_for
<1>8. RecordSound(t)
  BY <1>2, <1>3, <1>5, <1>7 DEF SoundStore, RecordSound
<1> QED BY <1>3, <1>4, <1>6, <1>8 DEF SoundStore, t

\* A record of at most one entry, about the current last-resort key.
LEMMA RecordedIsSound ==
  ASSUME NEW st, SoundStore(st), NEW fp \in Fingerprint,
         NEW S \in SUBSET {[id |-> st.kem.id, fp |-> fp]},
         NEW t, t = [st EXCEPT !.last_resort_seen = S]
  PROVE  SoundStore(t)
<1> DEFINE entry == [id |-> st.kem.id, fp |-> fp]
<1>1. entry \in RecordEntry /\ entry.id = st.kem.id
  BY StoreTyped DEF RecordEntry
<1> HIDE DEF entry
<1>2. S \in SUBSET {entry}
  BY DEF entry
<1>3. /\ t.blocked = st.blocked /\ t.last_resort_seen = S
      /\ t.kem_one_time = st.kem_one_time /\ t.one_time = st.one_time
      /\ t.next_id = st.next_id /\ t.signed = st.signed /\ t.previous_signed = st.previous_signed
      /\ t.kem = st.kem /\ t.previous_kem = st.previous_kem
  BY StoreTyped DEF StoreType
<1>4. t \in StoreType
  BY <1>1, <1>2, StoreTyped DEF StoreType
<1>5. MultiUse(t) = MultiUse(st) /\ LastResortIds(t) = LastResortIds(st)
  BY <1>3 DEF MultiUse, LastResortIds
<1>6. IdsIssued(t) /\ MultiUseDistinct(t) /\ OneTimeDistinct(t)
  BY <1>3, <1>5 DEF SoundStore, IdsIssued, MultiUseDistinct, OneTimeDistinct
<1>7. \A id : last_resort_seen_for(t, id) <= MAX_LAST_RESORT_SEEN
  <2> TAKE id
  <2> DEFINE some == {e \in S : e.id = id}
  <2>1. IsFiniteSet({entry}) /\ Cardinality({entry}) = 1 /\ some \in SUBSET {entry}
    BY <1>2, FS_Singleton
  <2> HIDE DEF some
  <2>2. Cardinality(some) <= 1 /\ Cardinality(some) \in Nat
    BY <2>1, FS_Subset, FS_CardinalityType
  <2>3. last_resort_seen_for(t, id) = Cardinality(some)
    BY <1>3 DEF last_resort_seen_for, some
  <2> QED BY <2>2, <2>3, StoreAssumption
<1>8. RecordSound(t)
  <2>1. IsFiniteSet(S)
    BY <1>2, FS_Singleton, FS_Subset
  <2>2. entry.id \in LastResortIds(st)
    BY <1>1, StoreTyped
  <2>3. st.blocked \subseteq LastResortIds(st)
    BY DEF SoundStore, RecordSound
  <2> QED BY <1>2, <1>3, <1>5, <1>7, <2>1, <2>2, <2>3 DEF RecordSound
<1> QED BY <1>4, <1>6, <1>8 DEF SoundStore

\* Taking the one entry of an old record for one of the current key.
LEMMA UntaggedIsSound ==
  ASSUME NEW st, SoundStore(st), NEW fp \in Fingerprint, \A e \in st.last_resort_seen : e.fp = fp
  PROVE  SoundStore(Untagged(st)) /\ \A e \in Untagged(st).last_resort_seen : e.fp = fp
<1> DEFINE S == {[id |-> st.kem.id, fp |-> e.fp] : e \in st.last_resort_seen}
<1>1. Untagged(st) = [st EXCEPT !.last_resort_seen = S]
  BY DEF Untagged
<1>2. S \in SUBSET {[id |-> st.kem.id, fp |-> fp]}
  OBVIOUS
<1> HIDE DEF S
<1>3. Untagged(st).last_resort_seen = S
  BY <1>1, StoreTyped DEF StoreType
<1>4. \A e \in S : e.fp = fp
  BY <1>2
<1> QED BY <1>1, <1>2, <1>3, <1>4, RecordedIsSound

-----------------------------------------------------------------------------
(* The remaining budget *)

\* A handshake that is not recorded is accepted under the multi-use bundle exactly
\* when its last-resort key has budget left.
LEMMA BudgetIsTrue ==
  ASSUME NEW st, SoundStore(st), NEW h, \A e \in st.last_resort_seen : e.fp.hs # h
  PROVE  (last_resort_record_remaining_for(st, st.kem.id) > 0)
           <=> Refusal(st, Initial(h, publish_multi_use(st), 1)) = "None"
<1> DEFINE b == publish_multi_use(st)
           m == Initial(h, b, 1)
           sk == responder_shared_secret(st, m)
           seen == last_resort_seen_for(st, st.kem.id)
<1>1. /\ m.hs = h /\ m.signed_id = st.signed.id /\ m.one_time_id = ABSENT_ID /\ m.kem_id = st.kem.id
      /\ m.secret = Secret(h, st.signed, None, st.kem)
  BY DEF Initial, publish_multi_use, Bundle
<1> HIDE DEF m
<1>2. Named(st.signed, st.previous_signed, st.signed.id) = {st.signed}
  BY StoreTyped DEF Named, SoundStore, MultiUseDistinct
<1>3. Named(st.kem, st.previous_kem, st.kem.id) = {st.kem}
  BY StoreTyped DEF Named, SoundStore, MultiUseDistinct
<1>4. IsLastResort(st, m.kem_id) /\ (Found(st, m) <=> st.kem.id \notin st.blocked)
  BY <1>1, <1>2, <1>3 DEF IsLastResort, Found
<1>5. sk = Secret(h, st.signed, None, st.kem)
  BY <1>1, <1>2, <1>3 DEF responder_shared_secret
<1>6. sk.hs = h
  BY <1>5 DEF Secret
<1>7. ~Replayed(st, sk)
  BY <1>6 DEF Replayed
<1>8. seen \in Nat
  <2>1. IsFiniteSet({e \in st.last_resort_seen : e.id = st.kem.id})
    BY FS_Subset DEF SoundStore, RecordSound
  <2> QED BY <2>1, FS_CardinalityType DEF last_resort_seen_for
<1> HIDE DEF sk
<1>9. Refusal(st, m) = "None" <=> st.kem.id \notin st.blocked /\ ~(seen >= MAX_LAST_RESORT_SEEN)
  BY <1>1, <1>4, <1>5, <1>7 DEF Refusal, sk
<1>10. last_resort_record_remaining_for(st, st.kem.id)
         = IF st.kem.id \in st.blocked THEN 0 ELSE MAX_LAST_RESORT_SEEN - seen
  BY DEF last_resort_record_remaining_for
<1> HIDE DEF seen
<1>11. (last_resort_record_remaining_for(st, st.kem.id) > 0)
         <=> st.kem.id \notin st.blocked /\ ~(seen >= MAX_LAST_RESORT_SEEN)
  BY <1>8, <1>10, StoreAssumption
<1> QED BY <1>9, <1>11 DEF m

-----------------------------------------------------------------------------
(* The system *)

\* Only handshakes that were started are recorded, and those of the older release.
Recorded(st) == \A e \in st.last_resort_seen : e.fp.hs \in Started \cup {Old}

\* The store in memory and the one on disk are sound.
StoresSound ==
  /\ life \in Nat /\ DOMAIN taken = Handshakes \cup {Old}
  /\ disk = [store |-> disk.store, sessions |-> disk.sessions, turns |-> disk.turns]
  /\ \A st \in {store, disk.store} : SoundStore(st) /\ Recorded(st)

\* Every message comes from a handshake that was started.
LEMMA MessagesStarted ==
  ASSUME StoresSound, NEW m \in Genuine \cup Altered
  PROVE  m.secret.hs \in Started /\ m.hs \in Handshakes \cup {Old}
<1>1. \A g \in Genuine : /\ g.secret.hs \in Started /\ g.hs \in Handshakes \cup {Old}
                         /\ g = [hs |-> g.hs, signed_id |-> g.signed_id, one_time_id |-> g.one_time_id,
                                 kem_id |-> g.kem_id, n |-> g.n, secret |-> g.secret]
  BY DEF Genuine, Initial, Secret, Started, StoresSound
<1>2. CASE m \in Genuine
  BY <1>1, <1>2
<1>3. CASE m \in Altered
  <2> DEFINE first == {g \in Genuine : g.n = 1}
             issued == 0..(store.next_id - 1)
             Said(x) == x.secret.hs \in Started /\ x.hs \in Handshakes \cup {Old}
  <2> HIDE DEF issued
  <2>1. \A g \in first : \A id \in issued : Said([g EXCEPT !.signed_id = id])
    BY <1>1
  <2>2. \A g \in first : \A id \in issued : Said([g EXCEPT !.one_time_id = id])
    BY <1>1
  <2>3. \A g \in first : \A id \in issued : Said([g EXCEPT !.kem_id = id])
    BY <1>1
  <2>4. \A g \in first : \A h \in DOMAIN taken : Said([g EXCEPT !.hs = h])
    BY <1>1 DEF StoresSound
  <2>5. Altered = {[g EXCEPT !.signed_id = id] : g \in first, id \in issued}
                    \cup {[g EXCEPT !.one_time_id = id] : g \in first, id \in issued}
                    \cup {[g EXCEPT !.kem_id = id] : g \in first, id \in issued}
                    \cup {[g EXCEPT !.hs = h] : g \in first, h \in DOMAIN taken}
    BY DEF Altered, issued
  <2> HIDE DEF first, Said
  <2>6. Said(m)
    BY <1>3, <2>1, <2>2, <2>3, <2>4, <2>5
  <2> QED BY <2>6 DEF Said
<1> QED BY <1>2, <1>3

\* The store of an older release, whose record is of the one handshake it accepted.
LEMMA OldStoresSound ==
  ASSUME NEW current \in BOOLEAN
  PROVE  LET old == OldStore(create_prekeys(OneTimeCount, 0), current)
         IN  /\ SoundStore(old) /\ \A e \in old.last_resort_seen : e.fp.hs = Old
             /\ \E fp \in Fingerprint : \A e \in old.last_resort_seen : e.fp = fp
<1> DEFINE created == create_prekeys(OneTimeCount, 0)
           fp == Secret(Old, None, None, None)
           entry == [id |-> created.kem.id, fp |-> fp]
           recorded == [created EXCEPT !.last_resort_seen = {entry}]
<1>1. SoundStore(created)
  BY CreateIsSound, EstablishmentAssumption
<1>2. fp \in Fingerprint /\ fp.hs = Old
  BY DEF Secret, Fingerprint
<1> HIDE DEF fp, created
<1>3. SoundStore(recorded) /\ recorded.last_resort_seen = {entry} /\ entry.fp = fp
  <2>1. {entry} \in SUBSET {[id |-> created.kem.id, fp |-> fp]}
    OBVIOUS
  <2>2. recorded.last_resort_seen = {entry}
    BY <1>1, StoreTyped DEF StoreType
  <2> HIDE DEF recorded
  <2>3. recorded = [created EXCEPT !.last_resort_seen = {entry}]
    BY DEF recorded
  <2> QED BY <1>1, <1>2, <2>1, <2>2, <2>3, RecordedIsSound
<1> HIDE DEF entry, recorded
<1>4. OldStore(created, current) = IF current THEN recorded ELSE rotate_kem(recorded, Owner, 0)
  BY DEF OldStore, recorded, entry, fp
<1>5. SoundStore(rotate_kem(recorded, Owner, 0))
      /\ rotate_kem(recorded, Owner, 0).last_resort_seen \subseteq {entry}
  BY <1>3, RotateKemIsSound
<1>6. SoundStore(OldStore(created, current)) /\ OldStore(created, current).last_resort_seen \subseteq {entry}
  BY <1>3, <1>4, <1>5
<1> QED BY <1>2, <1>3, <1>6 DEF created

LEMMA InitStoresSound == Init => StoresSound
<1> SUFFICES ASSUME Init PROVE StoresSound
  OBVIOUS
<1> DEFINE created == create_prekeys(OneTimeCount, 0)
           Good(st) == SoundStore(st) /\ \A e \in st.last_resort_seen : e.fp.hs = Old
<1>1. Good(created)
  BY CreateIsSound, EstablishmentAssumption
<1>2. \A current \in BOOLEAN : Good(Upgraded(OldStore(created, current)))
  BY OldStoresSound, UpgradedIsSound
<1>3. Good(Upgraded(Untagged(OldStore(created, FALSE))))
  <2> DEFINE old == OldStore(created, FALSE)
  <2>1. /\ SoundStore(old) /\ \A e \in old.last_resort_seen : e.fp.hs = Old
        /\ \E fp \in Fingerprint : \A e \in old.last_resort_seen : e.fp = fp
    BY OldStoresSound
  <2> HIDE DEF old
  <2>2. PICK fp \in Fingerprint : \A e \in old.last_resort_seen : e.fp = fp
    BY <2>1
  <2>3. CASE old.last_resort_seen = {}
    <3>1. Untagged(old).last_resort_seen = {}
      BY <2>1, <2>3, StoreTyped DEF Untagged, StoreType
    <3>2. SoundStore(Untagged(old))
      BY <2>1, <2>2, UntaggedIsSound
    <3> QED BY <3>1, <3>2, UpgradedIsSound DEF old
  <2>4. CASE old.last_resort_seen # {}
    <3>1. fp.hs = Old
      BY <2>1, <2>2, <2>4
    <3>2. SoundStore(Untagged(old)) /\ \A e \in Untagged(old).last_resort_seen : e.fp.hs = Old
      BY <2>1, <2>2, <3>1, UntaggedIsSound
    <3> QED BY <3>2, UpgradedIsSound DEF old
  <2> QED BY <2>3, <2>4
<1>4. \E st, opened, turned : InitWith(st, opened, turned) /\ Good(st)
  BY <1>1, <1>2, <1>3 DEF Init
<1>5. PICK st, opened, turned : InitWith(st, opened, turned) /\ Good(st)
  BY <1>4
<1> HIDE DEF Good
<1>6. /\ store = st /\ disk.store = st /\ life = 0 /\ DOMAIN taken = Handshakes \cup {Old}
      /\ disk = [store |-> disk.store, sessions |-> disk.sessions, turns |-> disk.turns]
  BY <1>5 DEF InitWith
<1>7. SoundStore(st) /\ Recorded(st)
  BY <1>5 DEF Good, Recorded
<1> QED BY <1>6, <1>7 DEF StoresSound

\* A step that leaves the handshakes alone and puts a sound store in memory.
LEMMA StoreReplaced ==
  ASSUME StoresSound, NEW t, SoundStore(t), Recorded(t), store' = t,
         UNCHANGED <<disk, taken, life>>
  PROVE  StoresSound'
<1>1. Started' = Started
  BY DEF Started
<1> QED BY <1>1 DEF StoresSound, Recorded

LEMMA NextStoresSound == StoresSound /\ [Next]_vars => StoresSound'
<1> SUFFICES ASSUME StoresSound, [Next]_vars PROVE StoresSound'
  OBVIOUS
<1>0. /\ life \in Nat /\ DOMAIN taken = Handshakes \cup {Old} /\ SoundStore(store) /\ Recorded(store)
      /\ SoundStore(disk.store) /\ Recorded(disk.store)
      /\ disk = [store |-> disk.store, sessions |-> disk.sessions, turns |-> disk.turns]
  BY DEF StoresSound
<1>1. ASSUME NEW h \in Handshakes, Initiate(h) PROVE StoresSound'
  <2>1. /\ taken[h] = None /\ UNCHANGED <<store, disk, life>>
        /\ DOMAIN taken' = DOMAIN taken /\ \A g \in DOMAIN taken : g # h => taken'[g] = taken[g]
    BY <1>1 DEF Initiate
  <2>2. Started \subseteq Started'
    BY <2>1 DEF Started
  <2> QED BY <1>0, <2>1, <2>2 DEF StoresSound, Recorded
<1>2. ASSUME NEW m \in Genuine \cup Altered, Establish(m) PROVE StoresSound'
  <2>1. SoundStore(establish_responder(store, m)) /\ m.secret.hs = m.hs
        /\ \A e \in establish_responder(store, m).last_resort_seen :
              e \in store.last_resort_seen \/ e.fp.hs = m.hs
    BY <1>0, <1>2, MessagesStarted, SpendIsSound DEF Establish
  <2>2. m.secret.hs \in Started
    BY MessagesStarted
  <2>3. Recorded(establish_responder(store, m))
    BY <1>0, <2>1, <2>2 DEF Recorded
  <2> QED BY <1>2, <2>1, <2>3, StoreReplaced DEF Establish
<1>3. ASSUME NEW m, Refuse(m) PROVE StoresSound'
  <2>1. store' = store /\ UNCHANGED <<disk, taken, life>>
    BY <1>3 DEF Refuse, establish_responder
  <2> QED BY <1>0, <2>1, StoreReplaced
<1>4. ASSUME NEW s, NEW m, DecryptRepeated(s, m) PROVE StoresSound'
  BY <1>0, <1>4, StoreReplaced DEF DecryptRepeated
<1>5. ASSUME NEW identity, Replenish(identity) PROVE StoresSound'
  <2>1. ReplenishCount \in Nat
    BY EstablishmentAssumption
  <2>2. /\ SoundStore(replenish(store, identity, ReplenishCount, life))
        /\ replenish(store, identity, ReplenishCount, life).last_resort_seen = store.last_resort_seen
    BY <1>0, <2>1, ReplenishIsSound
  <2> QED BY <1>0, <1>5, <2>2, StoreReplaced DEF Replenish, Recorded
<1>6. ASSUME NEW identity, RotateSignedPrekey(identity) PROVE StoresSound'
  <2>1. /\ SoundStore(rotate_signed_prekey(store, identity, life))
        /\ rotate_signed_prekey(store, identity, life).last_resort_seen = store.last_resort_seen
    BY <1>0, RotateSignedIsSound
  <2> QED BY <1>0, <1>6, <2>1, StoreReplaced DEF RotateSignedPrekey, Recorded
<1>7. ASSUME NEW identity, RotateKem(identity) PROVE StoresSound'
  <2>1. /\ SoundStore(rotate_kem(store, identity, life))
        /\ rotate_kem(store, identity, life).last_resort_seen \subseteq store.last_resort_seen
    BY <1>0, RotateKemIsSound
  <2> QED BY <1>0, <1>7, <2>1, StoreReplaced DEF RotateKem, Recorded
<1>8. ASSUME Save PROVE StoresSound'
  <2>1. /\ disk' = [store |-> disk'.store, sessions |-> disk'.sessions, turns |-> disk'.turns]
        /\ disk'.store \in {store, disk.store} /\ UNCHANGED <<store, taken, life>>
    BY <1>0, <1>8 DEF Save, SessionExported, StoreWritten
  <2>2. Started' = Started
    BY <2>1 DEF Started
  <2> QED BY <1>0, <2>1, <2>2 DEF StoresSound, Recorded
<1>9. ASSUME Crash PROVE StoresSound'
  <2>1. store' = disk.store /\ life' = life + 1 /\ UNCHANGED <<disk, taken>>
    BY <1>9 DEF Crash
  <2>2. Started' = Started
    BY <2>1 DEF Started
  <2> QED BY <1>0, <2>1, <2>2 DEF StoresSound, Recorded
<1>10. ASSUME UNCHANGED vars PROVE StoresSound'
  BY <1>0, <1>10, StoreReplaced DEF vars
<1> QED BY <1>1, <1>2, <1>3, <1>4, <1>5, <1>6, <1>7, <1>8, <1>9, <1>10 DEF Next

\* Whatever is issued, rotated, replenished, spent or lost in a crash, both stores can
\* be read back and the budget the store reports is the one the next peer meets, for
\* every bound on identifiers, keys, messages and crashes.
THEOREM StoresAreSound == Spec => []StoreIsSound
<1>1. StoresSound => StoreIsSound
  <2> SUFFICES ASSUME StoresSound PROVE StoreIsSound
    OBVIOUS
  <2>1. SoundStore(store) /\ SoundStore(disk.store) /\ Recorded(store)
    BY DEF StoresSound
  <2>2. Restorable
    BY <2>1, SoundIsAccepted DEF Restorable
  <2>3. RemainingIsTrue
    <3> SUFFICES ASSUME NEW h \in Handshakes \ Started
                 PROVE  (last_resort_record_remaining_for(store, store.kem.id) > 0)
                          <=> Refusal(store, Initial(h, publish_multi_use(store), 1)) = "None"
      BY DEF RemainingIsTrue
    <3>1. \A e \in store.last_resort_seen : e.fp.hs # h
      BY <2>1, EstablishmentAssumption DEF Recorded
    <3> QED BY <2>1, <3>1, BudgetIsTrue
  <2> QED BY <2>2, <2>3 DEF StoreIsSound
<1> QED BY <1>1, InitStoresSound, NextStoresSound, PTL DEF Spec

-----------------------------------------------------------------------------
(* What an operation adds is new *)

Elements(keys) == {keys[i] : i \in DOMAIN keys}

Multi(st) == {st.signed, st.kem, st.previous_signed, st.previous_kem} \ {None}

Keys(st) == Multi(st) \cup Elements(st.one_time) \cup Elements(st.kem_one_time)

\* The keys t has and st does not have identifiers that st has not issued.
Grows(st, t) ==
  /\ st.next_id <= t.next_id
  /\ \A k \in Elements(t.one_time) : k \in Elements(st.one_time) \/ st.next_id <= k.id
  /\ \A k \in Elements(t.kem_one_time) : k \in Elements(st.kem_one_time) \/ st.next_id <= k.id
  /\ \A k \in Multi(t) : k \in Multi(st) \/ st.next_id <= k.id

-----------------------------------------------------------------------------
(* The invariant of restarts *)

BundleKeys(b) == {b.signed, b.one_time, b.kem} \ {None}

\* The one-time keys of handshake h are not in the store.
Gone(h, st) ==
  /\ taken[h].bundle.one_time \notin Elements(st.one_time)
  /\ taken[h].bundle.kem \notin Elements(st.kem_one_time)

\* The identifiers in the bundle were issued and name its keys or nothing.
Names(b, st) == \A k \in BundleKeys(b) : k.id < st.next_id /\ \A x \in Keys(st) : x.id = k.id => x = k

RestartTypes ==
  /\ taken \in [Handshakes \cup {Old} -> Taken \cup {None}]
  /\ torn \in [Handshakes \cup {Old} -> Nat]
  /\ {turns, disk.turns} \subseteq [signed : Nat, kem : Nat]
  /\ IsFiniteSet(sessions) /\ IsFiniteSet(disk.sessions)
  /\ \A s \in sessions \cup disk.sessions :
       /\ s.hs \in Started /\ s.no \in Nat
       /\ s = [hs |-> s.hs, no |-> s.no, secret |-> s.secret, received |-> s.received]

\* A bundle is published when what it names is saved.
Published == \A h \in Started : \A st \in {store, disk.store} : Names(taken[h].bundle, st)

\* What is still to be saved is what memory and the disk may differ in.
SavedInOrder ==
  /\ todo \in {<< >>, <<"session", "store">>, <<"session">>, <<"store">>}
  /\ todo = << >> => store = disk.store /\ sessions = disk.sessions /\ held = None
  /\ todo = <<"session">> => store = disk.store /\ held # None
  /\ todo = <<"store">> => sessions = disk.sessions
  /\ todo = <<"session", "store">> =>
       held # None /\ \A s \in sessions : s.hs = held[1] \/ s \in disk.sessions

\* The message to acknowledge is received in memory, and nothing saved is lost there.
HeldIsReceived ==
  held # None =>
    /\ held \in Started \X Nat \X Nat
    /\ \E s \in sessions : s.hs = held[1] /\ s.no = held[2] /\ held[3] \in s.received

NothingLost ==
  \A s \in disk.sessions : \E t \in sessions :
    t.hs = s.hs /\ t.no = s.no /\ s.received \subseteq t.received

\* A session's one-time keys are gone where the session is, but for a torn save and
\* the one that is being saved.
SessionsSpent == \A s \in sessions : torn[s.hs] > 0 \/ Gone(s.hs, store)

SavedSpent ==
  \A s \in disk.sessions :
    \/ torn[s.hs] > 0 \/ Gone(s.hs, disk.store)
    \/ todo = <<"store">> /\ held # None /\ held[1] = s.hs

AckedSpent ==
  \A a \in acked : torn[a[1]] > 0 \/ (Gone(a[1], store) /\ Gone(a[1], disk.store))

RInv ==
  /\ StoresSound /\ RestartTypes /\ Published /\ SavedInOrder /\ HeldIsReceived /\ NothingLost
  /\ SessionsSpent /\ SavedSpent /\ AckedIsSaved /\ AckedSpent

-----------------------------------------------------------------------------
(* The operations add only new keys *)

LEMMA ElementsAreKeys ==
  ASSUME NEW keys \in Seq(StoreKey)
  PROVE  Elements(keys) \subseteq StoreKey /\ \A k \in Elements(keys) : k.id \in Ids(keys)
<1>1. \A i \in DOMAIN keys : keys[i] \in StoreKey
  OBVIOUS
<1> QED BY <1>1 DEF Elements, Ids

LEMMA ConcatElements ==
  ASSUME NEW a \in Seq(StoreKey), NEW b \in Seq(StoreKey)
  PROVE  Elements(a \o b) \subseteq Elements(a) \cup Elements(b)
<1> DEFINE c == a \o b
<1>1. /\ Len(a) \in Nat /\ Len(b) \in Nat
      /\ DOMAIN a = 1..Len(a) /\ DOMAIN b = 1..Len(b) /\ DOMAIN c = 1..(Len(a) + Len(b))
      /\ \A i \in 1..(Len(a) + Len(b)) : c[i] = IF i <= Len(a) THEN a[i] ELSE b[i - Len(a)]
  OBVIOUS
<1> HIDE DEF c
<1>2. ASSUME NEW i \in DOMAIN c
      PROVE  IF i <= Len(a) THEN i \in DOMAIN a /\ c[i] = a[i]
                            ELSE i - Len(a) \in DOMAIN b /\ c[i] = b[i - Len(a)]
  BY <1>1
<1>3. Elements(c) \subseteq Elements(a) \cup Elements(b)
  BY <1>2 DEF Elements
<1> QED BY <1>3 DEF c

\* swap_remove takes out the key of that name, and adds none.
LEMMA TakeElements ==
  ASSUME NEW keys \in Seq(StoreKey), Distinct(keys), NEW id
  PROVE  /\ Elements(Take(keys, id)) \subseteq Elements(keys)
         /\ \A k \in Elements(Take(keys, id)) : k.id # id
<1> DEFINE hits == {i \in DOMAIN keys : keys[i].id = id}
           least == CHOOSE k \in hits : \A j \in hits : k <= j
           new == [j \in 1..(Len(keys) - 1) |-> IF j = least THEN keys[Len(keys)] ELSE keys[j]]
<1>1. CASE hits = {}
  BY <1>1 DEF Take, Elements
<1>2. CASE hits # {}
  <2>1. Take(keys, id) = new
    BY <1>2 DEF Take
  <2>2. Len(keys) \in Nat /\ DOMAIN keys = 1..Len(keys) /\ Len(keys) >= 1
    BY <1>2
  <2>3. least \in hits
    <3>1. hits \in SUBSET Nat
      OBVIOUS
    <3>2. PICK k \in hits : \A j \in hits : k <= j
      BY <1>2, <3>1, LeastExists
    <3> QED BY <3>2
  <2>4. least \in DOMAIN keys /\ \A j \in DOMAIN keys : keys[j].id = id => j = least
    BY <2>3 DEF Distinct
  <2> HIDE DEF least, hits
  <2> DEFINE from(j) == IF j = least THEN Len(keys) ELSE j
  <2>5. \A j \in 1..(Len(keys) - 1) :
          from(j) \in DOMAIN keys /\ new[j] = keys[from(j)] /\ from(j) # least
    BY <2>2, <2>4
  <2>6. DOMAIN new = 1..(Len(keys) - 1)
    OBVIOUS
  <2> HIDE DEF new, from
  <2> QED BY <2>1, <2>4, <2>5, <2>6 DEF Elements
<1> QED BY <1>1, <1>2

LEMMA GrowsItself == ASSUME NEW st, SoundStore(st) PROVE Grows(st, st)
BY StoreTyped DEF Grows

LEMMA ReplenishGrows ==
  ASSUME NEW st, SoundStore(st), NEW identity, NEW count \in Nat, NEW now \in Nat
  PROVE  Grows(st, replenish(st, identity, count, now))
<1> DEFINE t == replenish(st, identity, count, now)
           curve == Smaller(count, U32_MAX - st.next_id)
           kems == Smaller(count, U32_MAX - st.next_id - curve)
           A == Batch(st.next_id, curve, now, Owner)
           B == Batch(st.next_id + curve, kems, now, Owner)
<1>1. CASE identity # Owner
  BY <1>1, GrowsItself DEF replenish
<1>2. CASE identity = Owner
  <2>0. st.next_id <= U32_MAX /\ st \in StoreType /\ st.next_id \in Nat /\ U32_MAX \in Nat
    BY StoreTyped DEF SoundStore, IdsIssued
  <2>1. curve \in Nat /\ kems \in Nat /\ st.next_id + curve \in Nat
    BY <2>0 DEF Smaller
  <2> HIDE DEF curve, kems
  <2>2. A \in Seq(StoreKey) /\ \A k \in Elements(A) : st.next_id <= k.id
    BY <2>0, <2>1, BatchIsSound, ElementsAreKeys
  <2>3. B \in Seq(StoreKey) /\ \A k \in Elements(B) : st.next_id <= k.id
    <3>1. B \in Seq(StoreKey) /\ \A id \in Ids(B) : st.next_id + curve <= id
      BY <2>1, BatchIsSound
    <3>2. \A k \in Elements(B) : k.id \in Ids(B) /\ k.id \in Nat
      BY <3>1, ElementsAreKeys, IdsAreNumbers
    <3> HIDE DEF B
    <3> QED BY <2>0, <2>1, <3>1, <3>2
  <2>4. t = [st EXCEPT !.next_id = @ + curve + kems, !.one_time = @ \o A, !.kem_one_time = @ \o B]
    BY <1>2 DEF replenish, curve, kems
  <2> HIDE DEF A, B, t
  <2>5. /\ t.next_id = st.next_id + curve + kems
        /\ t.one_time = st.one_time \o A /\ t.kem_one_time = st.kem_one_time \o B
        /\ t.signed = st.signed /\ t.kem = st.kem /\ t.previous_signed = st.previous_signed
        /\ t.previous_kem = st.previous_kem
    BY <2>0, <2>4 DEF StoreType
  <2>6. /\ Elements(t.one_time) \subseteq Elements(st.one_time) \cup Elements(A)
        /\ Elements(t.kem_one_time) \subseteq Elements(st.kem_one_time) \cup Elements(B)
    BY <2>2, <2>3, <2>5, StoreTyped, ConcatElements
  <2>7. Multi(t) = Multi(st) /\ st.next_id <= t.next_id
    BY <2>0, <2>1, <2>5 DEF Multi
  <2> QED BY <2>2, <2>3, <2>6, <2>7 DEF Grows, t
<1> QED BY <1>1, <1>2

LEMMA RotateSignedGrows ==
  ASSUME NEW st, SoundStore(st), NEW identity, NEW now \in Nat
  PROVE  Grows(st, rotate_signed_prekey(st, identity, now))
<1> DEFINE t == rotate_signed_prekey(st, identity, now)
<1>1. CASE ~MayRotate(st, identity)
  BY <1>1, GrowsItself DEF rotate_signed_prekey
<1>2. CASE MayRotate(st, identity)
  <2>1. t = [st EXCEPT !.next_id = @ + 1, !.signed = Key(st.next_id, now, identity),
                       !.previous_signed = st.signed]
    BY <1>2 DEF rotate_signed_prekey
  <2> HIDE DEF t
  <2>2. /\ t.next_id = st.next_id + 1 /\ t.signed = Key(st.next_id, now, identity)
        /\ t.previous_signed = st.signed /\ t.kem = st.kem /\ t.previous_kem = st.previous_kem
        /\ t.one_time = st.one_time /\ t.kem_one_time = st.kem_one_time
    BY <2>1, StoreTyped DEF StoreType
  <2>3. t.signed.id = st.next_id
    BY <2>2 DEF Key
  <2> QED BY <2>2, <2>3, StoreTyped DEF Grows, Multi, t
<1> QED BY <1>1, <1>2

LEMMA RotateKemGrows ==
  ASSUME NEW st, SoundStore(st), NEW identity, NEW now \in Nat
  PROVE  /\ Grows(st, rotate_kem(st, identity, now))
         /\ rotate_kem(st, identity, now).kem_one_time = st.kem_one_time
         /\ rotate_kem(st, identity, now).one_time = st.one_time
<1> DEFINE t == rotate_kem(st, identity, now)
           wiped == IF st.previous_kem = None THEN ABSENT_ID ELSE st.previous_kem.id
           seen == {e \in st.last_resort_seen : e.id # wiped}
           shut == st.blocked \ {wiped}
<1>1. CASE ~MayRotate(st, identity)
  BY <1>1, GrowsItself DEF rotate_kem
<1>2. CASE MayRotate(st, identity)
  <2>1. t = [st EXCEPT !.next_id = @ + 1, !.kem = Key(st.next_id, now, identity), !.previous_kem = st.kem,
                       !.last_resort_seen = seen, !.blocked = shut]
    BY <1>2 DEF rotate_kem
  <2> HIDE DEF t, seen, shut
  <2>2. /\ t.next_id = st.next_id + 1 /\ t.kem = Key(st.next_id, now, identity)
        /\ t.previous_kem = st.kem /\ t.signed = st.signed /\ t.previous_signed = st.previous_signed
        /\ t.one_time = st.one_time /\ t.kem_one_time = st.kem_one_time
    BY <2>1, StoreTyped DEF StoreType
  <2>3. t.kem.id = st.next_id
    BY <2>2 DEF Key
  <2> QED BY <2>2, <2>3, StoreTyped DEF Grows, Multi, t
<1> QED BY <1>1, <1>2

\* A key that is found is one of the store's.
LEMMA FindIsElement ==
  ASSUME NEW keys \in Seq(StoreKey), NEW id
  PROVE  \A k \in Find(keys, id) : k \in Elements(keys) /\ k.id = id
<1> DEFINE hits == {i \in DOMAIN keys : keys[i].id = id}
<1>1. CASE hits = {}
  BY <1>1 DEF Find
<1>2. CASE hits # {}
  <2>1. PICK k \in hits : \A j \in hits : k <= j
    <3>1. hits \in SUBSET Nat
      OBVIOUS
    <3> QED BY <1>2, <3>1, LeastExists
  <2> DEFINE least == CHOOSE i \in hits : \A j \in hits : i <= j
  <2>2. least \in hits
    BY <2>1
  <2>3. Find(keys, id) = {keys[least]}
    BY <1>2 DEF Find
  <2> HIDE DEF least
  <2> QED BY <2>2, <2>3 DEF Elements
<1> QED BY <1>1, <1>2

\* An accepted message takes its one-time keys out of the store.
LEMMA SpendGrows ==
  ASSUME NEW st, SoundStore(st), NEW m, Refusal(st, m) = "None"
  PROVE  LET t == establish_responder(st, m)
         IN  /\ Grows(st, t)
             /\ m.secret.one_time \notin Elements(t.one_time)
             /\ m.secret.kem \notin Elements(t.kem_one_time)
<1> DEFINE sk == responder_shared_secret(st, m)
           resort == IsLastResort(st, m.kem_id)
           entry == [id |-> m.kem_id, fp |-> sk]
           kems == IF resort THEN st.kem_one_time ELSE Take(st.kem_one_time, m.kem_id)
           curves == IF m.one_time_id = ABSENT_ID THEN st.one_time ELSE Take(st.one_time, m.one_time_id)
           seen == IF resort THEN st.last_resort_seen \cup {entry} ELSE st.last_resort_seen
           t == establish_responder(st, m)
<1>1. Found(st, m) /\ m.secret = sk
  BY DEF Refusal
<1>2. t = [st EXCEPT !.kem_one_time = kems, !.one_time = curves, !.last_resort_seen = seen]
  BY DEF establish_responder, Spend
<1> HIDE DEF t, seen
<1>3. /\ t.kem_one_time = kems /\ t.one_time = curves /\ t.next_id = st.next_id
      /\ t.signed = st.signed /\ t.previous_signed = st.previous_signed
      /\ t.kem = st.kem /\ t.previous_kem = st.previous_kem
  BY <1>2, StoreTyped DEF StoreType
<1>4. /\ st.one_time \in Seq(StoreKey) /\ Distinct(st.one_time)
      /\ st.kem_one_time \in Seq(StoreKey) /\ Distinct(st.kem_one_time)
      /\ MultiUse(st) \cap (Ids(st.one_time) \cup Ids(st.kem_one_time)) = {}
  BY StoreTyped DEF SoundStore, OneTimeDistinct
<1>5. Elements(kems) \subseteq Elements(st.kem_one_time) /\ Elements(curves) \subseteq Elements(st.one_time)
  BY <1>4, TakeElements
<1>6. Grows(st, t)
  BY <1>3, <1>5, StoreTyped DEF Grows, Multi
<1>7. sk.one_time \notin Elements(curves)
  <2>1. CASE m.one_time_id = ABSENT_ID
    <3>1. sk.one_time = None
      BY <2>1 DEF responder_shared_secret, Secret
    <3>2. Elements(curves) \subseteq StoreKey
      BY <1>4, <1>5, ElementsAreKeys
    <3> QED BY <3>1, <3>2, NoneAssumption
  <2>2. CASE m.one_time_id # ABSENT_ID
    <3>1. sk.one_time = CHOOSE k \in Find(st.one_time, m.one_time_id) : TRUE
      BY <2>2 DEF responder_shared_secret, Secret
    <3>2. Find(st.one_time, m.one_time_id) # {}
      BY <1>1, <2>2 DEF Found
    <3>3. sk.one_time \in Find(st.one_time, m.one_time_id)
      BY <3>1, <3>2
    <3>4. sk.one_time.id = m.one_time_id
      BY <1>4, <3>3, FindIsElement
    <3>5. \A k \in Elements(curves) : k.id # m.one_time_id
      BY <1>4, <2>2, TakeElements
    <3> QED BY <3>4, <3>5
  <2> QED BY <2>1, <2>2
<1>8. sk.kem \notin Elements(kems)
  <2>1. CASE resort
    <3>1. sk.kem = CHOOSE k \in Named(st.kem, st.previous_kem, m.kem_id) : TRUE
      BY <2>1 DEF responder_shared_secret, Secret, IsLastResort
    <3>2. sk.kem \in Named(st.kem, st.previous_kem, m.kem_id)
      BY <2>1, <3>1 DEF IsLastResort
    <3>3. sk.kem.id \in MultiUse(st)
      BY <3>2 DEF Named, MultiUse
    <3>4. \A k \in Elements(kems) : k.id \in Ids(st.kem_one_time)
      BY <1>4, <2>1, ElementsAreKeys
    <3> QED BY <1>4, <3>3, <3>4
  <2>2. CASE ~resort
    <3>1. sk.kem = CHOOSE k \in Find(st.kem_one_time, m.kem_id) : TRUE
      BY <2>2 DEF responder_shared_secret, Secret, IsLastResort
    <3>2. Find(st.kem_one_time, m.kem_id) # {}
      BY <1>1, <2>2 DEF Found
    <3>3. sk.kem.id = m.kem_id
      BY <1>4, <3>1, <3>2, FindIsElement
    <3>4. \A k \in Elements(kems) : k.id # m.kem_id
      BY <1>4, <2>2, TakeElements
    <3> QED BY <3>3, <3>4
  <2> QED BY <2>1, <2>2
<1> HIDE DEF sk, kems, curves
<1> QED BY <1>1, <1>3, <1>6, <1>7, <1>8 DEF t

-----------------------------------------------------------------------------
(* Names and spent keys stay as they are *)

LEMMA KeysTyped ==
  ASSUME NEW st, SoundStore(st)
  PROVE  /\ Keys(st) \subseteq StoreKey /\ \A k \in Keys(st) : k.id \in Nat /\ k.id < st.next_id
         /\ \A k, x \in Keys(st) : k.id = x.id => k = x
         /\ Elements(st.one_time) \subseteq StoreKey /\ Elements(st.kem_one_time) \subseteq StoreKey
<1>1. /\ Multi(st) \subseteq StoreKey /\ \A k \in Multi(st) : k.id \in MultiUse(st)
  BY StoreTyped DEF Multi, MultiUse
<1>2. /\ Elements(st.one_time) \subseteq StoreKey /\ \A k \in Elements(st.one_time) : k.id \in Ids(st.one_time)
      /\ Elements(st.kem_one_time) \subseteq StoreKey
      /\ \A k \in Elements(st.kem_one_time) : k.id \in Ids(st.kem_one_time)
  BY StoreTyped, ElementsAreKeys
<1>3. Keys(st) \subseteq StoreKey
  BY <1>1, <1>2 DEF Keys
<1>4. \A k \in Keys(st) : k.id \in Nat /\ k.id < st.next_id
  BY <1>1, <1>2, <1>3 DEF Keys, SoundStore, IdsIssued, StoreKey
<1>5. \A k, x \in Multi(st) : k.id = x.id => k = x
  BY DEF Multi, SoundStore, MultiUseDistinct
<1>6. \A k, x \in Elements(st.one_time) : k.id = x.id => k = x
  BY DEF Elements, SoundStore, OneTimeDistinct, Distinct
<1>7. \A k, x \in Elements(st.kem_one_time) : k.id = x.id => k = x
  BY DEF Elements, SoundStore, OneTimeDistinct, Distinct
<1>8. /\ Ids(st.one_time) \cap Ids(st.kem_one_time) = {}
      /\ MultiUse(st) \cap (Ids(st.one_time) \cup Ids(st.kem_one_time)) = {}
  BY DEF SoundStore, OneTimeDistinct
<1>9. \A k, x \in Keys(st) : k.id = x.id => k = x
  BY <1>1, <1>2, <1>5, <1>6, <1>7, <1>8 DEF Keys
<1> QED BY <1>2, <1>3, <1>4, <1>9

LEMMA NamesKept ==
  ASSUME NEW st, SoundStore(st), NEW t, SoundStore(t), Grows(st, t),
         NEW b, BundleKeys(b) \subseteq StoreKey, Names(b, st)
  PROVE  Names(b, t)
<1> SUFFICES ASSUME NEW k \in BundleKeys(b)
             PROVE  k.id < t.next_id /\ \A x \in Keys(t) : x.id = k.id => x = k
  BY DEF Names
<1>1. /\ st.next_id \in Nat /\ t.next_id \in Nat /\ k.id \in Nat /\ k.id < st.next_id
      /\ \A x \in Keys(st) : x.id = k.id => x = k
  BY StoreTyped DEF Names, StoreKey
<1>2. \A x \in Keys(t) : x \in Keys(st) \/ st.next_id <= x.id
  BY DEF Grows, Keys
<1>3. \A x \in Keys(t) : x.id \in Nat
  BY KeysTyped
<1> QED BY <1>1, <1>2, <1>3 DEF Grows

LEMMA GoneKept ==
  ASSUME NEW st, SoundStore(st), NEW t, SoundStore(t), Grows(st, t),
         NEW h, BundleKeys(taken[h].bundle) \subseteq StoreKey, Names(taken[h].bundle, st), Gone(h, st)
  PROVE  Gone(h, t)
<1> DEFINE b == taken[h].bundle
<1>1. \A k \in BundleKeys(b) : k.id \in Nat /\ k.id < st.next_id /\ st.next_id \in Nat
  BY StoreTyped DEF Names, StoreKey
<1>2. Elements(t.one_time) \subseteq StoreKey /\ Elements(t.kem_one_time) \subseteq StoreKey
  BY KeysTyped
<1>3. ASSUME b.one_time \in Elements(t.one_time) PROVE FALSE
  <2>1. b.one_time \in BundleKeys(b)
    BY <1>2, <1>3, NoneAssumption DEF BundleKeys
  <2> QED BY <1>1, <1>3, <2>1 DEF Grows, Gone
<1>4. ASSUME b.kem \in Elements(t.kem_one_time) PROVE FALSE
  <2>1. b.kem \in BundleKeys(b)
    BY <1>2, <1>4, NoneAssumption DEF BundleKeys
  <2> QED BY <1>1, <1>4, <2>1 DEF Grows, Gone
<1> QED BY <1>3, <1>4 DEF Gone

\* A batch takes as many keys of each kind as there are of both.
LEMMA BatchPositions ==
  ASSUME NEW a \in Nat, NEW b \in Nat, NEW i \in 0..(Smaller(a, b) - 1)
  PROVE  a - i \in 1..a /\ b - i \in 1..b
<1>1. CASE a < b
  BY <1>1, SMTT(60) DEF Smaller
<1>2. CASE ~(a < b)
  BY <1>2, SMTT(60) DEF Smaller
<1> QED BY <1>1, <1>2

\* What a store publishes names its own keys.
LEMMA PublicationsNamed ==
  ASSUME NEW st, SoundStore(st), NEW b \in Publications(st)
  PROVE  /\ b \in [signed : StoreKey, one_time : StoreKey \cup {None}, kem : StoreKey]
         /\ BundleKeys(b) \subseteq StoreKey /\ Names(b, st)
<1>1. /\ st.signed \in Keys(st) /\ st.kem \in Keys(st)
      /\ \A i \in DOMAIN st.one_time : st.one_time[i] \in Keys(st)
      /\ \A i \in DOMAIN st.kem_one_time : st.kem_one_time[i] \in Keys(st)
  BY StoreTyped DEF Keys, Multi, Elements
<1>2. /\ DOMAIN st.one_time = 1..Len(st.one_time) /\ Len(st.one_time) \in Nat
      /\ DOMAIN st.kem_one_time = 1..Len(st.kem_one_time) /\ Len(st.kem_one_time) \in Nat
      /\ st.one_time # << >> => Len(st.one_time) >= 1
      /\ st.kem_one_time # << >> => Len(st.kem_one_time) >= 1
  BY StoreTyped
<1>3. \E one \in Keys(st) \cup {None}, kem \in Keys(st) : b = Bundle(st, one, kem)
  <2>1. CASE b = publish(st)
    <3> DEFINE one == IF st.one_time = << >> THEN None ELSE st.one_time[Len(st.one_time)]
               kem == IF st.kem_one_time = << >> THEN st.kem ELSE st.kem_one_time[Len(st.kem_one_time)]
    <3>1. one \in Keys(st) \cup {None}
      BY <1>1, <1>2
    <3>2. kem \in Keys(st)
      BY <1>1, <1>2
    <3> QED BY <2>1, <3>1, <3>2 DEF publish
  <2>2. CASE b = publish_multi_use(st)
    BY <1>1, <2>2 DEF publish_multi_use
  <2>3. CASE b \in publish_one_time_batch(st)
    <3>1. PICK i \in 0..(Smaller(Len(st.one_time), Len(st.kem_one_time)) - 1) :
            b = Bundle(st, st.one_time[Len(st.one_time) - i], st.kem_one_time[Len(st.kem_one_time) - i])
      BY <2>3 DEF publish_one_time_batch
    <3>2. /\ Len(st.one_time) - i \in DOMAIN st.one_time
          /\ Len(st.kem_one_time) - i \in DOMAIN st.kem_one_time
      BY <1>2, <3>1, BatchPositions
    <3> QED BY <1>1, <3>1, <3>2
  <2> QED BY <2>1, <2>2, <2>3 DEF Publications
<1>4. PICK one \in Keys(st) \cup {None}, kem \in Keys(st) : b = Bundle(st, one, kem)
  BY <1>3
<1>5. /\ b = [signed |-> st.signed, one_time |-> one, kem |-> kem]
      /\ b.signed = st.signed /\ b.one_time = one /\ b.kem = kem
  BY <1>4 DEF Bundle
<1>6. BundleKeys(b) \subseteq Keys(st)
  BY <1>1, <1>5 DEF BundleKeys
<1>7. Names(b, st)
  BY <1>6, KeysTyped DEF Names
<1> QED BY <1>1, <1>5, <1>6, <1>7, KeysTyped

-----------------------------------------------------------------------------
(* The steps of the system *)

LEMMA StartedTyped ==
  ASSUME RestartTypes, NEW h \in Started
  PROVE  /\ taken[h] \in Taken /\ h \in Handshakes \cup {Old}
         /\ taken[h].bundle \in [signed : StoreKey, one_time : StoreKey \cup {None}, kem : StoreKey]
         /\ BundleKeys(taken[h].bundle) \subseteq StoreKey
<1>1. taken[h] \in Taken /\ h \in Handshakes \cup {Old}
  BY DEF RestartTypes, Started
<1>2. taken[h].bundle \in [signed : StoreKey, one_time : StoreKey \cup {None}, kem : StoreKey]
  BY <1>1 DEF Taken
<1> QED BY <1>1, <1>2 DEF BundleKeys

\* The handshakes with an acknowledged message were started.
LEMMA AckedStarted ==
  ASSUME RestartTypes, AckedIsSaved, NEW a \in acked
  PROVE  a[1] \in Started
BY DEF RestartTypes, AckedIsSaved

\* What a message was made with.
LEMMA MessagesTyped ==
  ASSUME NEW m \in Genuine \cup Altered
  PROVE  /\ m.n \in Nat
         /\ m.secret.one_time = taken[m.secret.hs].bundle.one_time
         /\ m.secret.kem = taken[m.secret.hs].bundle.kem
<1> DEFINE Made(x) == /\ x.n \in Nat
                      /\ x.secret.one_time = taken[x.secret.hs].bundle.one_time
                      /\ x.secret.kem = taken[x.secret.hs].bundle.kem
<1>1. \A g \in Genuine : /\ Made(g)
                         /\ g = [hs |-> g.hs, signed_id |-> g.signed_id, one_time_id |-> g.one_time_id,
                                 kem_id |-> g.kem_id, n |-> g.n, secret |-> g.secret]
  BY EstablishmentAssumption DEF Genuine, Initial, Secret
<1>2. CASE m \in Genuine
  BY <1>1, <1>2
<1>3. CASE m \in Altered
  <2> DEFINE first == {g \in Genuine : g.n = 1}
             issued == 0..(store.next_id - 1)
  <2> HIDE DEF issued
  <2>1. \A g \in first : \A id \in issued : Made([g EXCEPT !.signed_id = id])
    BY <1>1
  <2>2. \A g \in first : \A id \in issued : Made([g EXCEPT !.one_time_id = id])
    BY <1>1
  <2>3. \A g \in first : \A id \in issued : Made([g EXCEPT !.kem_id = id])
    BY <1>1
  <2>4. \A g \in first : \A h \in DOMAIN taken : Made([g EXCEPT !.hs = h])
    BY <1>1
  <2>5. Altered = {[g EXCEPT !.signed_id = id] : g \in first, id \in issued}
                    \cup {[g EXCEPT !.one_time_id = id] : g \in first, id \in issued}
                    \cup {[g EXCEPT !.kem_id = id] : g \in first, id \in issued}
                    \cup {[g EXCEPT !.hs = h] : g \in first, h \in DOMAIN taken}
    BY DEF Altered, issued
  <2> HIDE DEF first, Made
  <2>6. Made(m)
    BY <1>3, <2>1, <2>2, <2>3, <2>4, <2>5
  <2> QED BY <2>6 DEF Made
<1> QED BY <1>2, <1>3

\* A step that only adds new keys to the store in memory.
LEMMA MemoryGrows ==
  ASSUME RInv, StoresSound', Grows(store, store'), UNCHANGED <<disk, taken, torn>>
  PROVE  /\ Published' /\ Started' = Started
         /\ \A h \in Started : Gone(h, store) => Gone(h, store)'
<1>1. Started' = Started
  BY DEF Started
<1>2. SoundStore(store) /\ SoundStore(store') /\ RestartTypes /\ Published
  BY DEF RInv, StoresSound
<1>3. ASSUME NEW h \in Started
      PROVE  /\ Names(taken[h].bundle, store') /\ Names(taken[h].bundle, disk.store)
             /\ Gone(h, store) => Gone(h, store')
  <2>1. BundleKeys(taken[h].bundle) \subseteq StoreKey
    BY <1>2, StartedTyped
  <2>2. Names(taken[h].bundle, store) /\ Names(taken[h].bundle, disk.store)
    BY <1>2 DEF Published
  <2> QED BY <1>2, <2>1, <2>2, NamesKept, GoneKept
<1>4. Published'
  BY <1>1, <1>3 DEF Published
<1> QED BY <1>1, <1>3, <1>4 DEF Gone

LEMMA InitiateRestarts ==
  ASSUME RInv, StoresSound', NEW h \in Handshakes, Initiate(h)
  PROVE  RInv'
<1>0. /\ todo = << >> /\ taken[h] = None /\ store = disk.store
      /\ UNCHANGED <<store, sessions, disk, todo, held, life, acked, turns, torn>>
  BY DEF Initiate, RInv, SavedInOrder
<1>1. PICK b \in Publications(store) : taken' = [taken EXCEPT ![h] = [bundle |-> b, turns |-> turns]]
  BY DEF Initiate
<1>2. SoundStore(store) /\ RestartTypes
  BY DEF RInv, StoresSound
<1>3. /\ b \in [signed : StoreKey, one_time : StoreKey \cup {None}, kem : StoreKey]
      /\ Names(b, store)
  BY <1>2, PublicationsNamed
<1>4. [bundle |-> b, turns |-> turns] \in Taken
  BY <1>2, <1>3 DEF Taken, RestartTypes
<1>5. /\ taken' \in [Handshakes \cup {Old} -> Taken \cup {None}]
      /\ taken'[h].bundle = b /\ \A g \in Handshakes \cup {Old} : g # h => taken'[g] = taken[g]
  BY <1>1, <1>2, <1>4 DEF RestartTypes
<1>6. /\ Started \subseteq Started' /\ Started' \subseteq Started \cup {h} /\ h \notin Started
      /\ Started \subseteq Handshakes \cup {Old}
  BY <1>0, <1>2, <1>5 DEF Started, RestartTypes
<1>7. \A g \in Started : taken'[g] = taken[g]
  BY <1>5, <1>6
<1>8. RestartTypes'
  BY <1>0, <1>2, <1>5, <1>6 DEF RestartTypes
<1>9. Published'
  <2> SUFFICES ASSUME NEW g \in Started' PROVE Names(taken'[g].bundle, store) /\ Names(taken'[g].bundle, disk.store)
    BY <1>0 DEF Published
  <2>1. CASE g = h
    BY <1>0, <1>3, <1>5, <2>1
  <2>2. CASE g \in Started
    BY <1>7, <2>2 DEF RInv, Published
  <2> QED BY <1>6, <2>1, <2>2
<1>10. \A g \in Started : \A st : Gone(g, st) <=> (taken'[g].bundle.one_time \notin Elements(st.one_time)
                                              /\ taken'[g].bundle.kem \notin Elements(st.kem_one_time))
  BY <1>7 DEF Gone
<1>11. SavedInOrder' /\ HeldIsReceived' /\ NothingLost' /\ AckedIsSaved'
  BY <1>0, <1>6 DEF RInv, SavedInOrder, HeldIsReceived, NothingLost, AckedIsSaved
<1>12. SessionsSpent' /\ SavedSpent'
  BY <1>0, <1>2, <1>10 DEF RInv, SessionsSpent, SavedSpent, RestartTypes, Gone
<1>13. AckedSpent'
  BY <1>0, <1>2, <1>10, AckedStarted DEF RInv, AckedSpent, Gone
<1> QED BY <1>8, <1>9, <1>11, <1>12, <1>13 DEF RInv

LEMMA EstablishRestarts ==
  ASSUME RInv, StoresSound', NEW m \in Genuine \cup Altered, Establish(m)
  PROVE  RInv'
<1> DEFINE no == Cardinality(SessionsOf(m.hs, sessions)) + 1
           x == [hs |-> m.hs, no |-> no, secret |-> responder_shared_secret(store, m), received |-> {m.n}]
<1>0. /\ todo = << >> /\ store = disk.store /\ sessions = disk.sessions /\ held = None
      /\ Refusal(store, m) = "None" /\ store' = establish_responder(store, m)
      /\ sessions' = sessions \cup {x} /\ held' = <<m.hs, no, m.n>> /\ todo' = <<"session", "store">>
      /\ UNCHANGED <<disk, taken, life, acked, turns, torn>>
  BY DEF Establish, RInv, SavedInOrder, AfterEstablishing
<1>1. SoundStore(store) /\ RestartTypes /\ StoresSound
  BY DEF RInv, StoresSound
<1>2. m.hs \in Handshakes \cup {Old} /\ m.secret.hs \in Started /\ m.secret.hs = m.hs /\ m.hs \in Started
  BY <1>0, <1>1, MessagesStarted, SpendIsSound
<1>3. no \in Nat
  <2>1. IsFiniteSet(SessionsOf(m.hs, sessions))
    BY <1>1, FS_Subset DEF RestartTypes, SessionsOf
  <2> QED BY <2>1, FS_CardinalityType
<1> HIDE DEF no
<1>4. /\ Grows(store, store')
      /\ taken[m.hs].bundle.one_time \notin Elements(store'.one_time)
      /\ taken[m.hs].bundle.kem \notin Elements(store'.kem_one_time)
  BY <1>0, <1>1, <1>2, SpendGrows, MessagesTyped
<1>5. /\ Published' /\ Started' = Started
      /\ \A h \in Started : Gone(h, store) => Gone(h, store)'
  BY <1>0, <1>4, MemoryGrows
<1>6. /\ x.hs = m.hs /\ x.no = no /\ x.received = {m.n}
      /\ x = [hs |-> x.hs, no |-> x.no, secret |-> x.secret, received |-> x.received]
  OBVIOUS
<1> HIDE DEF x
<1>7. RestartTypes'
  <2>1. IsFiniteSet(sessions')
    BY <1>0, <1>1, FS_AddElement DEF RestartTypes
  <2> QED BY <1>0, <1>1, <1>2, <1>3, <1>5, <1>6, <2>1 DEF RestartTypes
<1>8. held' # None /\ held' \in Started \X Nat \X Nat /\ held'[1] = m.hs /\ held'[2] = no /\ held'[3] = m.n
  <2>1. held' \in (Handshakes \cup {Old}) \X Nat \X Nat
    BY <1>0, <1>2, <1>3, MessagesTyped
  <2> QED BY <1>0, <1>2, <1>3, <2>1, NoneAssumption, MessagesTyped
<1>9. SavedInOrder'
  BY <1>0, <1>6, <1>8 DEF SavedInOrder
<1>10. HeldIsReceived' /\ NothingLost' /\ AckedIsSaved'
  BY <1>0, <1>5, <1>6, <1>8 DEF RInv, HeldIsReceived, NothingLost, AckedIsSaved
<1>11. SessionsSpent'
  <2>1. Gone(m.hs, store)'
    BY <1>0, <1>4 DEF Gone
  <2> QED BY <1>0, <1>1, <1>5, <1>6, <2>1 DEF RInv, SessionsSpent, RestartTypes
<1>12. SavedSpent'
  BY <1>0 DEF RInv, SavedSpent, Gone
<1>13. AckedSpent'
  <2>1. \A a \in acked : a[1] \in Started
    BY <1>1, AckedStarted DEF RInv
  <2> QED BY <1>0, <1>5, <2>1 DEF RInv, AckedSpent, Gone
<1> QED BY <1>5, <1>7, <1>9, <1>10, <1>11, <1>12, <1>13 DEF RInv

LEMMA RepeatedRestarts ==
  ASSUME RInv, StoresSound', NEW s \in sessions, NEW m \in Genuine, DecryptRepeated(s, m)
  PROVE  RInv'
<1> DEFINE x == [s EXCEPT !.received = @ \cup {m.n}]
<1>0. /\ todo = << >> /\ m.hs = s.hs
      /\ sessions' = (sessions \ {s}) \cup {x} /\ held' = <<s.hs, s.no, m.n>> /\ todo' = <<"session">>
      /\ UNCHANGED <<store, disk, taken, life, acked, turns, torn>>
  BY DEF DecryptRepeated, AfterReceiving
<1>1. store = disk.store /\ sessions = disk.sessions /\ RestartTypes /\ SessionsSpent
  BY <1>0 DEF RInv, SavedInOrder
<1>2. s = [hs |-> s.hs, no |-> s.no, secret |-> s.secret, received |-> s.received] /\ s.hs \in Started
  BY <1>1 DEF RestartTypes
<1>3. /\ x.hs = s.hs /\ x.no = s.no /\ x.received = s.received \cup {m.n}
      /\ x = [hs |-> x.hs, no |-> x.no, secret |-> x.secret, received |-> x.received]
  BY <1>2
<1> HIDE DEF x
<1>4. Started' = Started
  BY <1>0 DEF Started
<1>5. RestartTypes'
  <2>1. IsFiniteSet(sessions')
    BY <1>0, <1>1, FS_AddElement, FS_Subset DEF RestartTypes
  <2> QED BY <1>0, <1>1, <1>2, <1>3, <1>4, <2>1 DEF RestartTypes
<1>6. Published'
  BY <1>0, <1>4 DEF RInv, Published, Names
<1>7. s.no \in Nat /\ m.n \in Nat
  BY <1>1, MessagesTyped DEF RestartTypes
<1>8. held' # None /\ held' \in Started \X Nat \X Nat /\ held'[1] = s.hs /\ held'[2] = s.no /\ held'[3] = m.n
  <2>1. held' \in (Handshakes \cup {Old}) \X Nat \X Nat
    BY <1>0, <1>1, <1>2, <1>7, StartedTyped
  <2> QED BY <1>0, <1>2, <1>7, <2>1, NoneAssumption
<1>9. SavedInOrder'
  BY <1>0, <1>1, <1>8 DEF SavedInOrder
<1>10. HeldIsReceived'
  BY <1>0, <1>3, <1>4, <1>8 DEF HeldIsReceived
<1>11. NothingLost'
  BY <1>0, <1>1, <1>3 DEF NothingLost
<1>12. AckedIsSaved' /\ SavedSpent' /\ SessionsSpent'
  BY <1>0, <1>1, <1>3 DEF RInv, AckedIsSaved, SavedSpent, SessionsSpent, Gone
<1>13. AckedSpent'
  BY <1>0 DEF RInv, AckedSpent, Gone
<1> QED BY <1>5, <1>6, <1>9, <1>10, <1>11, <1>12, <1>13 DEF RInv

\* An operation on the store that adds only new keys.
LEMMA StoreChangeRestarts ==
  ASSUME RInv, StoresSound', todo = << >>, Grows(store, store'),
         todo' = IF store' = store THEN << >> ELSE <<"store">>, turns' \in [signed : Nat, kem : Nat],
         UNCHANGED <<sessions, disk, held, taken, acked, torn>>
  PROVE  RInv'
<1>1. store = disk.store /\ sessions = disk.sessions /\ held = None /\ RestartTypes
  BY DEF RInv, SavedInOrder
<1>2. /\ Published' /\ Started' = Started
      /\ \A h \in Started : Gone(h, store) => Gone(h, store)'
  BY MemoryGrows
<1>3. RestartTypes'
  BY <1>1, <1>2 DEF RestartTypes
<1>4. SavedInOrder' /\ HeldIsReceived' /\ NothingLost' /\ AckedIsSaved'
  BY <1>1 DEF RInv, SavedInOrder, HeldIsReceived, NothingLost, AckedIsSaved
<1>5. SessionsSpent' /\ SavedSpent'
  BY <1>1, <1>2 DEF RInv, SessionsSpent, SavedSpent, RestartTypes, Gone
<1>6. AckedSpent'
  <2>1. \A a \in acked : a[1] \in Started
    BY <1>1, AckedStarted DEF RInv
  <2> QED BY <1>2, <2>1 DEF RInv, AckedSpent, Gone
<1> QED BY <1>2, <1>3, <1>4, <1>5, <1>6 DEF RInv

LEMMA RotationsRestart ==
  ASSUME RInv, StoresSound', NEW identity,
         Replenish(identity) \/ RotateSignedPrekey(identity) \/ RotateKem(identity)
  PROVE  RInv'
<1>1. /\ SoundStore(store) /\ life \in Nat /\ ReplenishCount \in Nat
      /\ turns \in [signed : Nat, kem : Nat]
  BY EstablishmentAssumption DEF RInv, StoresSound, RestartTypes
<1>2. CASE Replenish(identity)
  BY <1>1, <1>2, ReplenishGrows, StoreChangeRestarts DEF Replenish, Change, AfterStoreChange
<1>3. CASE RotateSignedPrekey(identity)
  <2>1. turns' \in [signed : Nat, kem : Nat]
    BY <1>1, <1>3 DEF RotateSignedPrekey
  <2> QED BY <1>1, <1>3, <2>1, RotateSignedGrows, StoreChangeRestarts
          DEF RotateSignedPrekey, Change, AfterStoreChange
<1>4. CASE RotateKem(identity)
  <2>1. turns' \in [signed : Nat, kem : Nat]
    BY <1>1, <1>4, SMTT(60) DEF RotateKem
  <2> QED BY <1>1, <1>4, <2>1, RotateKemGrows, StoreChangeRestarts DEF RotateKem, Change, AfterStoreChange
<1> QED BY <1>2, <1>3, <1>4

LEMMA UnchangedRestarts == ASSUME RInv, StoresSound', UNCHANGED vars PROVE RInv'
<1>1. Started' = Started
  BY DEF Started, vars
<1>2. RestartTypes'
  BY <1>1 DEF RInv, RestartTypes, vars
<1>3. Published'
  BY <1>1 DEF RInv, Published, Names, Keys, Multi, Elements, BundleKeys, vars
<1>4. SavedInOrder' /\ HeldIsReceived' /\ NothingLost'
  BY <1>1 DEF RInv, SavedInOrder, HeldIsReceived, NothingLost, vars
<1>5. \A h : (Gone(h, store) <=> Gone(h, store)') /\ (Gone(h, disk.store) <=> Gone(h, disk.store)')
  BY DEF Gone, Keys, Multi, Elements, BundleKeys, vars
<1>6. SessionsSpent' /\ SavedSpent'
  BY <1>5 DEF RInv, SessionsSpent, SavedSpent, vars
<1>7. AckedIsSaved' /\ AckedSpent'
  BY <1>5 DEF RInv, AckedIsSaved, AckedSpent, vars
<1> QED BY <1>2, <1>3, <1>4, <1>6, <1>7 DEF RInv

LEMMA RefuseRestarts == ASSUME RInv, StoresSound', NEW m, Refuse(m) PROVE RInv'
<1>1. store' = store /\ todo' = << >> /\ todo = << >> /\ UNCHANGED <<sessions, disk, held, taken, acked, turns, torn>>
  BY DEF Refuse, establish_responder, Change
<1>2. SoundStore(store) /\ turns \in [signed : Nat, kem : Nat]
  BY DEF RInv, StoresSound, RestartTypes
<1> QED BY <1>1, <1>2, GrowsItself, StoreChangeRestarts

LEMMA SaveRestarts == ASSUME RInv, StoresSound', Save PROVE RInv'
<1>0. /\ RestartTypes /\ SavedInOrder /\ HeldIsReceived /\ NothingLost /\ SessionsSpent /\ SavedSpent
      /\ AckedIsSaved /\ AckedSpent /\ Published /\ todo # << >>
      /\ UNCHANGED <<store, sessions, taken, life, turns, torn>>
  BY DEF RInv, Save
<1>1. disk = [store |-> disk.store, sessions |-> disk.sessions, turns |-> disk.turns]
  BY DEF RInv, StoresSound
<1>2. Started' = Started
  BY <1>0 DEF Started
<1>3. CASE todo = <<"session", "store">>
  <2>1. /\ disk'.sessions = sessions /\ disk'.store = disk.store /\ disk'.turns = disk.turns
        /\ todo' = <<"store">> /\ UNCHANGED <<held, acked>> /\ held # None
    BY <1>0, <1>1, <1>3 DEF Save, SessionExported, SavedInOrder
  <2>2. RestartTypes' /\ Published' /\ SavedInOrder'
    BY <1>0, <1>2, <2>1 DEF RestartTypes, Published, SavedInOrder, Names
  <2>3. HeldIsReceived' /\ NothingLost' /\ SessionsSpent' /\ AckedSpent'
    BY <1>0, <1>2, <2>1 DEF HeldIsReceived, NothingLost, SessionsSpent, AckedSpent, Gone
  <2>4. AckedIsSaved'
    BY <1>0, <2>1 DEF AckedIsSaved, NothingLost
  <2>5. SavedSpent'
    BY <1>0, <1>3, <2>1 DEF SavedSpent, SavedInOrder, Gone
  <2> QED BY <2>2, <2>3, <2>4, <2>5 DEF RInv
<1>4. CASE todo = <<"session">>
  <2>1. /\ disk'.sessions = sessions /\ disk'.store = disk.store /\ disk'.turns = disk.turns
        /\ todo' = << >> /\ held' = None /\ acked' = acked \cup {held} /\ held # None /\ store = disk.store
    BY <1>0, <1>1, <1>4 DEF Save, SessionExported, SavedInOrder
  <2>2. RestartTypes' /\ Published' /\ SavedInOrder'
    BY <1>0, <1>2, <2>1 DEF RestartTypes, Published, SavedInOrder, Names
  <2>3. HeldIsReceived' /\ NothingLost' /\ SessionsSpent' /\ SavedSpent'
    BY <1>0, <2>1 DEF HeldIsReceived, NothingLost, SessionsSpent, SavedSpent, Gone
  <2>4. AckedIsSaved'
    BY <1>0, <2>1 DEF AckedIsSaved, NothingLost, HeldIsReceived
  <2>5. AckedSpent'
    BY <1>0, <2>1 DEF AckedSpent, HeldIsReceived, SessionsSpent, Gone
  <2> QED BY <2>2, <2>3, <2>4, <2>5 DEF RInv
<1>5. CASE todo = <<"store">>
  <2>1. /\ disk'.sessions = sessions /\ disk'.store = store /\ disk'.turns = turns
        /\ todo' = << >> /\ held' = None /\ acked' = acked \cup ({held} \ {None}) /\ sessions = disk.sessions
    BY <1>0, <1>1, <1>5 DEF Save, StoreWritten, SavedInOrder
  <2>2. RestartTypes' /\ Published' /\ SavedInOrder'
    BY <1>0, <1>2, <2>1 DEF RestartTypes, Published, SavedInOrder, Names
  <2>3. HeldIsReceived' /\ NothingLost' /\ SessionsSpent' /\ SavedSpent'
    BY <1>0, <2>1 DEF HeldIsReceived, NothingLost, SessionsSpent, SavedSpent, Gone
  <2>4. AckedIsSaved'
    BY <1>0, <2>1 DEF AckedIsSaved, HeldIsReceived
  <2>5. AckedSpent'
    BY <1>0, <2>1 DEF AckedSpent, HeldIsReceived, SessionsSpent, Gone
  <2> QED BY <2>2, <2>3, <2>4, <2>5 DEF RInv
<1> QED BY <1>0, <1>3, <1>4, <1>5 DEF SavedInOrder

LEMMA CrashRestarts == ASSUME RInv, StoresSound', Crash PROVE RInv'
<1>0. /\ RestartTypes /\ HeldIsReceived /\ SavedSpent /\ AckedIsSaved /\ AckedSpent /\ Published
      /\ store' = disk.store /\ sessions' = disk.sessions /\ turns' = disk.turns
      /\ todo' = << >> /\ held' = None /\ UNCHANGED <<disk, taken, acked>>
  BY DEF RInv, Crash
<1>1. Started' = Started
  BY <1>0 DEF Started
<1>2. /\ torn' \in [Handshakes \cup {Old} -> Nat]
      /\ \A h \in Handshakes \cup {Old} : torn[h] > 0 => torn'[h] > 0
      /\ held # None /\ todo = <<"store">> => torn'[held[1]] > 0
  <2>1. CASE held # None /\ todo = <<"store">>
    <3>1. held[1] \in Handshakes \cup {Old} /\ torn' = [torn EXCEPT ![held[1]] = @ + 1]
      BY <1>0, <2>1, StartedTyped DEF HeldIsReceived, Crash
    <3> QED BY <1>0, <3>1 DEF RestartTypes
  <2>2. CASE ~(held # None /\ todo = <<"store">>)
    BY <1>0, <2>2 DEF RestartTypes, Crash
  <2> QED BY <2>1, <2>2
<1>3. RestartTypes' /\ Published' /\ SavedInOrder'
  BY <1>0, <1>1, <1>2 DEF RestartTypes, Published, SavedInOrder, Names
<1>4. HeldIsReceived' /\ NothingLost' /\ AckedIsSaved'
  BY <1>0 DEF HeldIsReceived, NothingLost, AckedIsSaved
<1>5. \A s \in disk.sessions : s.hs \in Handshakes \cup {Old} /\ (torn'[s.hs] > 0 \/ Gone(s.hs, disk.store))
  BY <1>0, <1>2, StartedTyped DEF SavedSpent, RestartTypes
<1>6. SessionsSpent' /\ SavedSpent'
  BY <1>0, <1>5 DEF SessionsSpent, SavedSpent, Gone
<1>7. \A a \in acked : a[1] \in Handshakes \cup {Old}
  BY <1>0, AckedStarted, StartedTyped
<1>8. AckedSpent'
  BY <1>0, <1>2, <1>7 DEF AckedSpent, Gone
<1> QED BY <1>3, <1>4, <1>6, <1>8 DEF RInv

-----------------------------------------------------------------------------
(* Restarts: the initial states and the theorem *)

\* A store with the keys of another.
LEMMA SameKeysGrow ==
  ASSUME NEW u, NEW st, NEW t, Grows(u, st),
         t.next_id = st.next_id, t.one_time = st.one_time, t.kem_one_time = st.kem_one_time,
         t.signed = st.signed, t.previous_signed = st.previous_signed,
         t.kem = st.kem, t.previous_kem = st.previous_kem
  PROVE  Grows(u, t)
<1>1. Multi(t) = Multi(st)
  BY DEF Multi
<1> QED BY <1>1 DEF Grows

\* Reading a store of an older format changes none of its keys.
LEMMA ReadingKeepsKeys ==
  ASSUME NEW u, NEW st, SoundStore(st), Grows(u, st), st.one_time = u.one_time,
         st.kem_one_time = u.kem_one_time, NEW t \in {Upgraded(st), Untagged(st)}
  PROVE  Grows(u, t) /\ t.one_time = u.one_time /\ t.kem_one_time = u.kem_one_time
<1>1. /\ t.next_id = st.next_id /\ t.one_time = st.one_time /\ t.kem_one_time = st.kem_one_time
      /\ t.signed = st.signed /\ t.previous_signed = st.previous_signed
      /\ t.kem = st.kem /\ t.previous_kem = st.previous_kem
  BY StoreTyped DEF Upgraded, Untagged, StoreType
<1> QED BY <1>1, SameKeysGrow

\* The older release had created the store, and rotated its last-resort key or not.
LEMMA OldStoresGrow ==
  ASSUME NEW current \in BOOLEAN
  PROVE  LET created == create_prekeys(OneTimeCount, 0)
             old == OldStore(created, current)
         IN  Grows(created, old) /\ old.one_time = created.one_time /\ old.kem_one_time = created.kem_one_time
<1> DEFINE created == create_prekeys(OneTimeCount, 0)
           fp == Secret(Old, None, None, None)
           entry == [id |-> created.kem.id, fp |-> fp]
           recorded == [created EXCEPT !.last_resort_seen = {entry}]
<1>1. SoundStore(created)
  BY CreateIsSound, EstablishmentAssumption
<1>2. recorded = OldStore(created, TRUE)
  BY DEF OldStore
<1>3. SoundStore(recorded)
  BY <1>2, OldStoresSound
<1> HIDE DEF created, fp
<1>4. /\ recorded.next_id = created.next_id /\ recorded.one_time = created.one_time
      /\ recorded.kem_one_time = created.kem_one_time /\ recorded.signed = created.signed
      /\ recorded.previous_signed = created.previous_signed
      /\ recorded.kem = created.kem /\ recorded.previous_kem = created.previous_kem
  BY <1>1, StoreTyped DEF StoreType
<1>5. OldStore(created, current) = IF current THEN recorded ELSE rotate_kem(recorded, Owner, 0)
  BY DEF OldStore, fp
<1> HIDE DEF entry, recorded
<1>6. Multi(recorded) = Multi(created)
  BY <1>4 DEF Multi
<1>7. Grows(created, recorded)
  BY <1>1, <1>4, GrowsItself, SameKeysGrow
<1>8. /\ Grows(recorded, rotate_kem(recorded, Owner, 0))
      /\ rotate_kem(recorded, Owner, 0).one_time = recorded.one_time
      /\ rotate_kem(recorded, Owner, 0).kem_one_time = recorded.kem_one_time
  BY <1>3, RotateKemGrows
<1>9. Grows(created, rotate_kem(recorded, Owner, 0))
  BY <1>4, <1>6, <1>8 DEF Grows
<1> QED BY <1>4, <1>5, <1>7, <1>8, <1>9 DEF created

LEMMA InitRestarts == Init => RInv
<1> SUFFICES ASSUME Init PROVE RInv
  OBVIOUS
<1> DEFINE created == create_prekeys(OneTimeCount, 0)
           b == publish_multi_use(created)
           Good(st) == /\ SoundStore(st) /\ Grows(created, st)
                       /\ st.one_time = created.one_time /\ st.kem_one_time = created.kem_one_time
<1>1. StoresSound
  BY InitStoresSound
<1>2. SoundStore(created)
  BY CreateIsSound, EstablishmentAssumption
<1>3. Good(created)
  BY <1>2, GrowsItself
<1>4. ASSUME NEW current \in BOOLEAN PROVE Good(OldStore(created, current))
  BY OldStoresSound, OldStoresGrow
<1>5. \A current \in BOOLEAN : Good(Upgraded(OldStore(created, current)))
  BY <1>4, UpgradedIsSound, ReadingKeepsKeys
<1>6. Good(Upgraded(Untagged(OldStore(created, FALSE))))
  <2> DEFINE old == OldStore(created, FALSE)
  <2>1. Good(old) /\ \E fp \in Fingerprint : \A e \in old.last_resort_seen : e.fp = fp
    BY <1>4, OldStoresSound
  <2> HIDE DEF old
  <2>2. SoundStore(Untagged(old))
    BY <2>1, UntaggedIsSound
  <2>3. Good(Untagged(old))
    BY <2>1, <2>2, ReadingKeepsKeys
  <2>4. Good(Upgraded(Untagged(old)))
    BY <2>3, UpgradedIsSound, ReadingKeepsKeys
  <2> QED BY <2>4 DEF old
<1>7. NoTurns \in [signed : Nat, kem : Nat] /\ [NoTurns EXCEPT !.kem = 1] \in [signed : Nat, kem : Nat]
  BY DEF NoTurns
<1> DEFINE Possible(st, opened, turned) ==
             /\ opened \in {{}, {Old}} /\ turned \in [signed : Nat, kem : Nat]
             /\ InitWith(st, opened, turned) /\ Good(st)
<1>8. \E st, opened, turned : Possible(st, opened, turned)
  <2> HIDE DEF Good
  <2> QED BY <1>3, <1>5, <1>6, <1>7 DEF Init
<1>9. PICK st, opened, turned : Possible(st, opened, turned)
  BY <1>8
<1> DEFINE x == [hs |-> Old, no |-> 1, secret |-> Secret(Old, b.signed, b.one_time, b.kem), received |-> {1}]
<1>10. /\ b \in [signed : StoreKey, one_time : StoreKey \cup {None}, kem : StoreKey]
       /\ BundleKeys(b) \subseteq StoreKey /\ Names(b, created)
  BY <1>2, PublicationsNamed DEF Publications
<1>11. b.one_time = None /\ b.kem = created.kem
  BY DEF publish_multi_use, Bundle
<1>12. /\ store = st /\ disk.store = st /\ sessions \in {{}, {x}} /\ disk.sessions = sessions
       /\ sessions # {} => opened = {Old}
       /\ turns = turned /\ disk.turns = turned
       /\ taken = [h \in Handshakes \cup {Old} |->
                     IF h \in opened THEN [bundle |-> b, turns |-> NoTurns] ELSE None]
       /\ todo = << >> /\ held = None /\ acked = {}
       /\ torn = [h \in Handshakes \cup {Old} |-> 0]
  BY <1>9 DEF InitWith
<1>13. Names(b, st)
  BY <1>2, <1>9, <1>10, NamesKept
<1>14. /\ None \notin Elements(st.one_time) /\ created.kem \notin Elements(st.kem_one_time)
  <2>1. /\ Elements(st.one_time) \subseteq StoreKey
        /\ \A k \in Elements(st.kem_one_time) : k.id \in Ids(st.kem_one_time)
    BY <1>9, StoreTyped, KeysTyped, ElementsAreKeys
  <2>2. created.kem.id \in MultiUse(created) /\ MultiUse(created) \cap Ids(created.kem_one_time) = {}
    BY <1>2, StoreTyped DEF MultiUse, SoundStore, OneTimeDistinct
  <2> QED BY <1>9, <2>1, <2>2, NoneAssumption
<1>15. x.hs = Old /\ x.no = 1
       /\ x = [hs |-> x.hs, no |-> x.no, secret |-> x.secret, received |-> x.received]
  OBVIOUS
<1> HIDE DEF x, b, created, Good
<1>16. [bundle |-> b, turns |-> NoTurns] \in Taken
  BY <1>7, <1>10 DEF Taken
<1>17. /\ taken \in [Handshakes \cup {Old} -> Taken \cup {None}]
       /\ \A h \in Started : taken[h].bundle = b
       /\ sessions # {} => Old \in Started
  BY <1>9, <1>12, <1>16, NoneAssumption DEF Started
<1>18. RestartTypes
  <2>1. IsFiniteSet(sessions)
    <3>1. IsFiniteSet({}) /\ IsFiniteSet({x})
      BY FS_EmptySet, FS_Singleton
    <3> QED BY <1>12, <3>1
  <2> QED BY <1>9, <1>12, <1>15, <1>17, <2>1 DEF RestartTypes
<1>19. Published /\ SavedInOrder /\ HeldIsReceived /\ NothingLost /\ AckedIsSaved /\ AckedSpent
  BY <1>12, <1>13, <1>17 DEF Published, SavedInOrder, HeldIsReceived, NothingLost, AckedIsSaved, AckedSpent
<1>20. SessionsSpent /\ SavedSpent
  BY <1>11, <1>12, <1>14, <1>15, <1>17 DEF SessionsSpent, SavedSpent, Gone
<1> QED BY <1>1, <1>18, <1>19, <1>20 DEF RInv

LEMMA NextRestarts == RInv /\ [Next]_vars => RInv'
<1> SUFFICES ASSUME RInv, [Next]_vars PROVE RInv'
  OBVIOUS
<1>0. StoresSound'
  BY NextStoresSound DEF RInv
<1>1. ASSUME NEW h \in Handshakes, Initiate(h) PROVE RInv'
  BY <1>0, <1>1, InitiateRestarts
<1>2. ASSUME NEW m \in Genuine \cup Altered, Establish(m) \/ Refuse(m) PROVE RInv'
  BY <1>0, <1>2, EstablishRestarts, RefuseRestarts
<1>3. ASSUME NEW s \in sessions, NEW m \in Genuine, DecryptRepeated(s, m) PROVE RInv'
  BY <1>0, <1>3, RepeatedRestarts
<1>4. ASSUME NEW identity, Replenish(identity) \/ RotateSignedPrekey(identity) \/ RotateKem(identity)
      PROVE  RInv'
  BY <1>0, <1>4, RotationsRestart
<1>5. ASSUME Save \/ Crash \/ UNCHANGED vars PROVE RInv'
  BY <1>0, <1>5, SaveRestarts, CrashRestarts, UnchangedRestarts
<1> QED BY <1>1, <1>2, <1>3, <1>4, <1>5 DEF Next

\* What a sound state of the restarts says of names and of spent keys.
LEMMA RestartsSurvived == RInv => SurvivesRestart
<1> SUFFICES ASSUME RInv PROVE SurvivesRestart
  OBVIOUS
<1>1. SoundStore(store) /\ RestartTypes
  BY DEF RInv, StoresSound
<1>2. AckedIsSaved
  BY DEF RInv
<1>3. SpentKeysGone
  BY DEF RInv, AckedSpent, SpentKeysGone, Gone, Elements
<1>4. ASSUME NEW h \in Started
      PROVE  LET b == taken[h].bundle
             IN  /\ Named(store.signed, store.previous_signed, b.signed.id) \subseteq {b.signed}
                 /\ Named(store.kem, store.previous_kem, b.kem.id) \subseteq {b.kem}
                 /\ Find(store.kem_one_time, b.kem.id) \subseteq {b.kem}
                 /\ b.one_time # None => Find(store.one_time, b.one_time.id) \subseteq {b.one_time}
  <2> DEFINE b == taken[h].bundle
  <2>1. /\ b.signed \in BundleKeys(b) /\ b.kem \in BundleKeys(b)
        /\ b.one_time # None => b.one_time \in BundleKeys(b)
    BY <1>1, StartedTyped, NoneAssumption DEF BundleKeys
  <2>2. \A k \in BundleKeys(b) : \A y \in Keys(store) : y.id = k.id => y = k
    BY DEF RInv, Published, Names
  <2> HIDE DEF b
  <2>3. /\ \A id : Named(store.signed, store.previous_signed, id) \subseteq {y \in Keys(store) : y.id = id}
        /\ \A id : Named(store.kem, store.previous_kem, id) \subseteq {y \in Keys(store) : y.id = id}
    BY DEF Named, Keys, Multi
  <2>4. /\ \A id : Find(store.kem_one_time, id) \subseteq {y \in Keys(store) : y.id = id}
        /\ \A id : Find(store.one_time, id) \subseteq {y \in Keys(store) : y.id = id}
    BY <1>1, StoreTyped, FindIsElement DEF Keys
  <2> QED BY <2>1, <2>2, <2>3, <2>4 DEF b
<1>5. NamesAreStable
  BY <1>4 DEF NamesAreStable
<1> QED BY <1>2, <1>3, <1>5 DEF SurvivesRestart

\* However crashes fall between the saves, a message that was acknowledged stays
\* received, the one-time keys of its handshake stay gone unless a crash tore that
\* handshake's own save, and no identifier a peer was given comes to name another
\* key although a crash may wind next_id back.
THEOREM RestartsAreSurvived == Spec => []SurvivesRestart
BY InitRestarts, NextRestarts, RestartsSurvived, PTL DEF Spec

-----------------------------------------------------------------------------
(* Sessions of a handshake, and what became of its keys *)

\* The secret an initiator of h derived.
SecretOf(h) ==
  LET b == taken[h].bundle IN Secret(h, b.signed, b.one_time, b.kem)

\* What makes the store refuse h: a one-time key is gone, the last-resort key is wiped
\* or blocked, or the record has its secret.
Spent(h, st) ==
  LET b == taken[h].bundle
  IN  \/ b.one_time # None /\ b.one_time \notin Elements(st.one_time)
      \/ b.kem \notin Elements(st.kem_one_time) /\ b.kem \notin {st.kem, st.previous_kem}
      \/ b.kem.id \in st.blocked
      \/ \E e \in st.last_resort_seen : e.fp = SecretOf(h)

\* The save of a session of h that is half done.
BeingSaved(h) == todo = <<"store">> /\ held # None /\ held[1] = h

\* One session for each torn save, and one more if the store refuses another.
Few(h, set, tears, spent) ==
  LET count == Cardinality(SessionsOf(h, set))
  IN  count <= tears + 1 /\ (spent \/ count <= tears)

FewSessions ==
  \A h \in Started :
    /\ Few(h, sessions, torn[h], Spent(h, store))
    /\ Few(h, disk.sessions, torn[h], Spent(h, disk.store) \/ BeingSaved(h))

\* The key a rotation replaced last, and the one before it.
InTurn(key, at, current, previous, now) ==
  \/ key = current /\ now = at
  \/ key = previous /\ now = at + 1
  \/ now >= at + 2

\* The keys of a bundle are in the store, were rotated out of it, or went with a
\* session of another handshake.
KeysKept(h, st, set, now) ==
  LET b == taken[h].bundle
      at == taken[h].turns
  IN  /\ InTurn(b.signed, at.signed, st.signed, st.previous_signed, now.signed)
      /\ \/ b.one_time = None \/ b.one_time \in Elements(st.one_time)
         \/ \E s \in set : taken[s.hs].bundle.one_time = b.one_time
      /\ \/ b.kem \in Elements(st.kem_one_time)
         \/ InTurn(b.kem, at.kem, st.kem, st.previous_kem, now.kem)
         \/ /\ b.kem \notin {st.kem, st.previous_kem}
            /\ \E s \in set : taken[s.hs].bundle.kem = b.kem

Kept(st, set, now) ==
  \A h \in Started : KeysKept(h, st, set, now) \/ \E s \in set : s.hs = h

\* A record entry is of a session, under the key that names it, or of a blocked key.
Backed(st, set) ==
  \A e \in st.last_resort_seen :
    \/ e.id \in st.blocked
    \/ e.fp.kem.id = e.id /\ \E s \in set : s.secret = e.fp

\* The record names each secret's own last-resort key.
RecordNamed(st) ==
  \A h \in Started, e \in st.last_resort_seen :
    e.fp = SecretOf(h) => e.id = taken[h].bundle.kem.id

\* Every session has its initiator's secret.
SecretsKnown == \A s \in sessions \cup disk.sessions : s.secret = SecretOf(s.hs)

\* The turns are saved with the store.
TurnsSaved == todo # <<"store">> => turns = disk.turns

AllKept ==
  /\ \A st \in {store, disk.store} : RecordNamed(st)
  /\ Kept(store, sessions, turns) /\ Kept(disk.store, disk.sessions, disk.turns)
  /\ Backed(store, sessions) /\ Backed(disk.store, disk.sessions)

SInv == RInv /\ FewSessions /\ SecretsKnown /\ TurnsSaved /\ AllKept

-----------------------------------------------------------------------------
(* What an operation of the owner does to keys and to the record *)

\* A kind of key is as it was, or was rotated once.
Turned(current, previous, now, new, replaced, later) ==
  \/ new = current /\ replaced = previous /\ later = now
  \/ replaced = current /\ later = now + 1

\* No one-time key goes, and the record loses only what is about keys that are gone.
Changes(st, now, t, later) ==
  /\ Grows(st, t)
  /\ Elements(st.one_time) \subseteq Elements(t.one_time)
  /\ Elements(st.kem_one_time) \subseteq Elements(t.kem_one_time)
  /\ Turned(st.signed, st.previous_signed, now.signed, t.signed, t.previous_signed, later.signed)
  /\ Turned(st.kem, st.previous_kem, now.kem, t.kem, t.previous_kem, later.kem)
  /\ \A k \in {t.kem, t.previous_kem} : k \in {st.kem, st.previous_kem, None} \/ st.next_id <= k.id
  /\ t.last_resort_seen \subseteq st.last_resort_seen
  /\ \A e \in t.last_resort_seen : e.id \in st.blocked => e.id \in t.blocked
  /\ \A e \in st.last_resort_seen \ t.last_resort_seen : \A k \in Keys(t) : k.id # e.id
  /\ \A id \in st.blocked \ t.blocked : \A k \in Keys(t) : k.id # id

LEMMA NoChange ==
  ASSUME NEW st, SoundStore(st), NEW now
  PROVE  Changes(st, now, st, now)
BY GrowsItself DEF Changes, Turned

LEMMA ConcatKeeps ==
  ASSUME NEW a \in Seq(StoreKey), NEW b \in Seq(StoreKey)
  PROVE  Elements(a) \subseteq Elements(a \o b)
<1> DEFINE c == a \o b
<1>1. /\ Len(a) \in Nat /\ Len(b) \in Nat /\ DOMAIN a = 1..Len(a) /\ DOMAIN c = 1..(Len(a) + Len(b))
      /\ \A i \in 1..(Len(a) + Len(b)) : c[i] = IF i <= Len(a) THEN a[i] ELSE b[i - Len(a)]
  OBVIOUS
<1> HIDE DEF c
<1>2. \A i \in DOMAIN a : i \in DOMAIN c /\ c[i] = a[i]
  BY <1>1
<1>3. Elements(a) \subseteq Elements(c)
  BY <1>2 DEF Elements
<1> QED BY <1>3 DEF c

LEMMA ReplenishChanges ==
  ASSUME NEW st, SoundStore(st), NEW identity, NEW count \in Nat, NEW drawn \in Nat, NEW now
  PROVE  Changes(st, now, replenish(st, identity, count, drawn), now)
<1> DEFINE t == replenish(st, identity, count, drawn)
           curve == Smaller(count, U32_MAX - st.next_id)
           kems == Smaller(count, U32_MAX - st.next_id - curve)
           A == Batch(st.next_id, curve, drawn, Owner)
           B == Batch(st.next_id + curve, kems, drawn, Owner)
<1>1. CASE identity # Owner
  BY <1>1, NoChange DEF replenish
<1>2. CASE identity = Owner
  <2>0. st.next_id <= U32_MAX /\ st \in StoreType /\ st.next_id \in Nat /\ U32_MAX \in Nat
    BY StoreTyped DEF SoundStore, IdsIssued
  <2>1. curve \in Nat /\ kems \in Nat /\ st.next_id + curve \in Nat
    BY <2>0 DEF Smaller
  <2> HIDE DEF curve, kems
  <2>2. A \in Seq(StoreKey) /\ B \in Seq(StoreKey)
    BY <2>0, <2>1, BatchIsSound
  <2>3. t = [st EXCEPT !.next_id = @ + curve + kems, !.one_time = @ \o A, !.kem_one_time = @ \o B]
    BY <1>2 DEF replenish, curve, kems
  <2>4. Grows(st, t)
    BY ReplenishGrows
  <2> HIDE DEF A, B, t
  <2>5. /\ t.one_time = st.one_time \o A /\ t.kem_one_time = st.kem_one_time \o B
        /\ t.signed = st.signed /\ t.kem = st.kem /\ t.previous_signed = st.previous_signed
        /\ t.previous_kem = st.previous_kem /\ t.last_resort_seen = st.last_resort_seen
        /\ t.blocked = st.blocked
    BY <2>0, <2>3 DEF StoreType
  <2>6. /\ Elements(st.one_time) \subseteq Elements(t.one_time)
        /\ Elements(st.kem_one_time) \subseteq Elements(t.kem_one_time)
    BY <2>2, <2>5, StoreTyped, ConcatKeeps
  <2> QED BY <2>4, <2>5, <2>6 DEF Changes, Turned, t
<1> QED BY <1>1, <1>2

LEMMA RotateSignedChanges ==
  ASSUME NEW st, SoundStore(st), NEW identity, NEW drawn \in Nat,
         NEW now \in [signed : Nat, kem : Nat]
  PROVE  LET t == rotate_signed_prekey(st, identity, drawn)
         IN  Changes(st, now, t, IF t = st THEN now ELSE [now EXCEPT !.signed = @ + 1])
<1> DEFINE t == rotate_signed_prekey(st, identity, drawn)
<1>1. CASE ~MayRotate(st, identity)
  BY <1>1, NoChange DEF rotate_signed_prekey
<1>2. CASE MayRotate(st, identity)
  <2>1. t = [st EXCEPT !.next_id = @ + 1, !.signed = Key(st.next_id, drawn, identity),
                       !.previous_signed = st.signed]
    BY <1>2 DEF rotate_signed_prekey
  <2>2. Grows(st, t)
    BY RotateSignedGrows
  <2> HIDE DEF t
  <2>3. /\ t.next_id = st.next_id + 1 /\ t.previous_signed = st.signed
        /\ t.kem = st.kem /\ t.previous_kem = st.previous_kem
        /\ t.one_time = st.one_time /\ t.kem_one_time = st.kem_one_time
        /\ t.last_resort_seen = st.last_resort_seen /\ t.blocked = st.blocked
    BY <2>1, StoreTyped DEF StoreType
  <2>4. t # st
    BY <2>3, StoreTyped
  <2> QED BY <2>2, <2>3, <2>4 DEF Changes, Turned, t
<1> QED BY <1>1, <1>2

\* No key has the identifier that stands for none.
LEMMA KeysIssued ==
  ASSUME NEW st, SoundStore(st)
  PROVE  \A k \in Keys(st) : k.id \in Nat /\ 0 < k.id
<1>1. \A k \in Multi(st) : k.id \in MultiUse(st)
  BY DEF Multi, MultiUse
<1>2. /\ \A k \in Elements(st.one_time) : k.id \in Ids(st.one_time)
      /\ \A k \in Elements(st.kem_one_time) : k.id \in Ids(st.kem_one_time)
  BY StoreTyped, ElementsAreKeys
<1> QED BY <1>1, <1>2, KeysTyped DEF Keys, SoundStore, IdsIssued

LEMMA RotateKemChanges ==
  ASSUME NEW st, SoundStore(st), NEW identity, NEW drawn \in Nat,
         NEW now \in [signed : Nat, kem : Nat]
  PROVE  LET t == rotate_kem(st, identity, drawn)
         IN  Changes(st, now, t, IF t = st THEN now ELSE [now EXCEPT !.kem = @ + 1])
<1> DEFINE t == rotate_kem(st, identity, drawn)
           wiped == IF st.previous_kem = None THEN ABSENT_ID ELSE st.previous_kem.id
           seen == {e \in st.last_resort_seen : e.id # wiped}
           shut == st.blocked \ {wiped}
<1>1. CASE ~MayRotate(st, identity)
  BY <1>1, NoChange DEF rotate_kem
<1>2. CASE MayRotate(st, identity)
  <2>1. t = [st EXCEPT !.next_id = @ + 1, !.kem = Key(st.next_id, drawn, identity), !.previous_kem = st.kem,
                       !.last_resort_seen = seen, !.blocked = shut]
    BY <1>2 DEF rotate_kem
  <2>2. Grows(st, t) /\ SoundStore(t)
    BY RotateKemGrows, RotateKemIsSound
  <2> HIDE DEF t, seen, shut
  <2>3. /\ t.next_id = st.next_id + 1 /\ t.kem = Key(st.next_id, drawn, identity)
        /\ t.previous_kem = st.kem /\ t.signed = st.signed /\ t.previous_signed = st.previous_signed
        /\ t.one_time = st.one_time /\ t.kem_one_time = st.kem_one_time
        /\ t.last_resort_seen = seen /\ t.blocked = shut
    BY <2>1, StoreTyped DEF StoreType
  <2>4. t.kem.id = st.next_id
    BY <2>3 DEF Key
  <2>5. t # st
    BY <2>3, StoreTyped
  <2>6. \A k \in Keys(t) : k.id # wiped
    <3>1. \A k \in Keys(t) : k.id # ABSENT_ID
      BY <2>2, KeysIssued DEF ABSENT_ID
    <3>2. ASSUME st.previous_kem # None, NEW k \in Keys(t) PROVE k.id # st.previous_kem.id
      <4>1. st.previous_kem \in Keys(st) /\ st.previous_kem.id < st.next_id
        BY <3>2, KeysTyped DEF Keys, Multi
      <4>2. CASE k = t.kem
        BY <2>4, <4>1, <4>2, KeysTyped, StoreTyped
      <4>3. CASE k # t.kem
        <5>1. k \in Keys(st) \ {st.previous_kem} \/ k = st.previous_kem
          BY <2>3, <4>3, StoreTyped DEF Keys, Multi
        <5>2. st.previous_kem \notin {st.signed, st.kem, st.previous_signed}
          BY <3>2, StoreTyped DEF SoundStore, MultiUseDistinct
        <5>3. /\ st.previous_kem.id \in MultiUse(st)
              /\ MultiUse(st) \cap (Ids(st.one_time) \cup Ids(st.kem_one_time)) = {}
          BY <3>2 DEF MultiUse, SoundStore, OneTimeDistinct
        <5>4. st.previous_kem \notin Elements(st.one_time) \cup Elements(st.kem_one_time)
          BY <5>3, StoreTyped, ElementsAreKeys
        <5>5. k # st.previous_kem
          BY <2>3, <3>2, <4>3, <5>2, <5>4 DEF Keys, Multi
        <5> QED BY <4>1, <5>1, <5>5, KeysTyped
      <4> QED BY <4>2, <4>3
    <3> QED BY <3>1, <3>2
  <2>7. /\ seen \subseteq st.last_resort_seen /\ \A e \in st.last_resort_seen \ seen : e.id = wiped
        /\ \A e \in seen : e.id \in st.blocked => e.id \in shut
        /\ \A id \in st.blocked \ shut : id = wiped
    BY DEF seen, shut
  <2> HIDE DEF wiped
  <2> QED BY <2>2, <2>3, <2>4, <2>5, <2>6, <2>7, StoreTyped DEF Changes, Turned, t
<1> QED BY <1>1, <1>2

-----------------------------------------------------------------------------
(* What an accepted message does to keys and to the record *)

\* swap_remove takes out no other key.
LEMMA TakeKeeps ==
  ASSUME NEW keys \in Seq(StoreKey), Distinct(keys), NEW id
  PROVE  \A k \in Elements(keys) : k.id = id \/ k \in Elements(Take(keys, id))
<1> DEFINE hits == {i \in DOMAIN keys : keys[i].id = id}
           least == CHOOSE k \in hits : \A j \in hits : k <= j
           new == [j \in 1..(Len(keys) - 1) |-> IF j = least THEN keys[Len(keys)] ELSE keys[j]]
<1>1. CASE hits = {}
  BY <1>1 DEF Take, Elements
<1>2. CASE hits # {}
  <2>1. Take(keys, id) = new
    BY <1>2 DEF Take
  <2>2. Len(keys) \in Nat /\ DOMAIN keys = 1..Len(keys) /\ Len(keys) >= 1
    BY <1>2
  <2>3. least \in hits
    <3>1. hits \in SUBSET Nat
      OBVIOUS
    <3>2. PICK k \in hits : \A j \in hits : k <= j
      BY <1>2, <3>1, LeastExists
    <3> QED BY <3>2
  <2>4. least \in 1..Len(keys) /\ keys[least].id = id
    BY <2>2, <2>3
  <2> HIDE DEF least, hits
  <2>5. /\ DOMAIN new = 1..(Len(keys) - 1)
        /\ \A j \in 1..(Len(keys) - 1) : new[j] = IF j = least THEN keys[Len(keys)] ELSE keys[j]
    OBVIOUS
  <2> HIDE DEF new
  <2>6. ASSUME NEW i \in 1..Len(keys), keys[i].id # id PROVE keys[i] \in Elements(new)
    <3>1. i # least
      BY <2>4, <2>6
    <3>2. CASE i = Len(keys)
      <4>1. least \in Nat /\ 1 <= least /\ least <= Len(keys) /\ Len(keys) \in Nat
        BY <2>2, <2>4
      <4>2. least # Len(keys)
        BY <3>1, <3>2
      <4>3. least \in 1..(Len(keys) - 1)
        BY <4>1, <4>2
      <4>4. least \in DOMAIN new /\ new[least] = keys[i]
        BY <2>5, <3>2, <4>3
      <4> QED BY <4>4 DEF Elements
    <3>3. CASE i # Len(keys)
      <4>1. i \in Nat /\ 1 <= i /\ i <= Len(keys) /\ Len(keys) \in Nat
        BY <2>2
      <4>2. i \in 1..(Len(keys) - 1)
        BY <3>3, <4>1
      <4>3. i \in DOMAIN new /\ new[i] = keys[i]
        BY <2>5, <3>1, <4>2
      <4> QED BY <4>3 DEF Elements
    <3> QED BY <3>2, <3>3
  <2> QED BY <2>1, <2>2, <2>6 DEF Elements
<1> QED BY <1>1, <1>2

\* The keys of an accepted message were in the store and only they leave it, or it is
\* recorded.
Accepts(st, sk, t) ==
  /\ t.signed = st.signed /\ t.previous_signed = st.previous_signed
  /\ t.kem = st.kem /\ t.previous_kem = st.previous_kem /\ t.blocked = st.blocked
  /\ sk.one_time # None => sk.one_time \in Elements(st.one_time)
  /\ \A k \in Elements(st.one_time) : k = sk.one_time \/ k \in Elements(t.one_time)
  /\ \A k \in Elements(st.kem_one_time) : k = sk.kem \/ k \in Elements(t.kem_one_time)
  /\ \/ /\ sk.kem \in Elements(st.kem_one_time) /\ t.last_resort_seen = st.last_resort_seen
     \/ /\ sk.kem \in {st.kem, st.previous_kem} /\ sk.kem.id \notin st.blocked
        /\ \A e \in st.last_resort_seen : e.fp # sk
        /\ t.last_resort_seen = st.last_resort_seen \cup {[id |-> sk.kem.id, fp |-> sk]}

LEMMA SpendAccepts ==
  ASSUME NEW st, SoundStore(st), NEW m, Refusal(st, m) = "None"
  PROVE  Accepts(st, m.secret, establish_responder(st, m))
<1> DEFINE sk == responder_shared_secret(st, m)
           resort == IsLastResort(st, m.kem_id)
           entry == [id |-> m.kem_id, fp |-> sk]
           kems == IF resort THEN st.kem_one_time ELSE Take(st.kem_one_time, m.kem_id)
           curves == IF m.one_time_id = ABSENT_ID THEN st.one_time ELSE Take(st.one_time, m.one_time_id)
           seen == IF resort THEN st.last_resort_seen \cup {entry} ELSE st.last_resort_seen
           t == establish_responder(st, m)
<1>1. /\ Found(st, m) /\ m.secret = sk
      /\ resort => \A e \in st.last_resort_seen : e.fp # sk
  BY DEF Refusal, Replayed
<1>2. t = [st EXCEPT !.kem_one_time = kems, !.one_time = curves, !.last_resort_seen = seen]
  BY DEF establish_responder, Spend
<1> HIDE DEF t, seen
<1>3. /\ t.kem_one_time = kems /\ t.one_time = curves /\ t.last_resort_seen = seen
      /\ t.signed = st.signed /\ t.previous_signed = st.previous_signed
      /\ t.kem = st.kem /\ t.previous_kem = st.previous_kem /\ t.blocked = st.blocked
  BY <1>2, StoreTyped DEF StoreType
<1>4. /\ st.one_time \in Seq(StoreKey) /\ Distinct(st.one_time)
      /\ st.kem_one_time \in Seq(StoreKey) /\ Distinct(st.kem_one_time)
      /\ \A x, y \in Keys(st) : x.id = y.id => x = y
  BY StoreTyped, KeysTyped DEF SoundStore, OneTimeDistinct
<1>5. /\ sk.one_time # None => sk.one_time \in Elements(st.one_time)
      /\ \A k \in Elements(st.one_time) : k = sk.one_time \/ k \in Elements(curves)
  <2>1. CASE m.one_time_id = ABSENT_ID
    BY <2>1 DEF responder_shared_secret, Secret
  <2>2. CASE m.one_time_id # ABSENT_ID
    <3>1. sk.one_time = CHOOSE k \in Find(st.one_time, m.one_time_id) : TRUE
      BY <2>2 DEF responder_shared_secret, Secret
    <3>2. Find(st.one_time, m.one_time_id) # {}
      BY <1>1, <2>2 DEF Found
    <3>3. sk.one_time \in Elements(st.one_time) /\ sk.one_time.id = m.one_time_id
      BY <1>4, <3>1, <3>2, FindIsElement
    <3>4. \A k \in Elements(st.one_time) : k.id = m.one_time_id \/ k \in Elements(curves)
      BY <1>4, <2>2, TakeKeeps
    <3> HIDE DEF sk
    <3> QED BY <1>4, <3>3, <3>4 DEF Keys
  <2> QED BY <2>1, <2>2
<1>6. CASE resort
  <2>1. sk.kem = CHOOSE k \in Named(st.kem, st.previous_kem, m.kem_id) : TRUE
    BY <1>6 DEF responder_shared_secret, Secret, IsLastResort
  <2>2. sk.kem \in Named(st.kem, st.previous_kem, m.kem_id)
    BY <1>6, <2>1 DEF IsLastResort
  <2>3. sk.kem \in {st.kem, st.previous_kem} /\ sk.kem.id = m.kem_id
    BY <2>2 DEF Named
  <2>4. m.kem_id \notin st.blocked
    BY <1>1, <1>6 DEF Found
  <2>5. kems = st.kem_one_time /\ seen = st.last_resort_seen \cup {[id |-> sk.kem.id, fp |-> sk]}
    BY <1>6, <2>3 DEF seen
  <2> HIDE DEF sk, kems, curves
  <2> QED BY <1>1, <1>3, <1>5, <1>6, <2>3, <2>4, <2>5 DEF Accepts, t
<1>7. CASE ~resort
  <2>1. sk.kem = CHOOSE k \in Find(st.kem_one_time, m.kem_id) : TRUE
    BY <1>7 DEF responder_shared_secret, Secret, IsLastResort
  <2>2. Find(st.kem_one_time, m.kem_id) # {}
    BY <1>1, <1>7 DEF Found
  <2>3. sk.kem \in Elements(st.kem_one_time) /\ sk.kem.id = m.kem_id
    BY <1>4, <2>1, <2>2, FindIsElement
  <2>4. \A k \in Elements(st.kem_one_time) : k.id = m.kem_id \/ k \in Elements(kems)
    BY <1>4, <1>7, TakeKeeps
  <2>5. seen = st.last_resort_seen
    BY <1>7 DEF seen
  <2> HIDE DEF sk, kems, curves
  <2>6. \A k \in Elements(st.kem_one_time) : k = sk.kem \/ k \in Elements(kems)
    BY <1>4, <2>3, <2>4 DEF Keys
  <2> QED BY <1>1, <1>3, <1>5, <2>3, <2>5, <2>6 DEF Accepts, t
<1> QED BY <1>6, <1>7

-----------------------------------------------------------------------------
(* What is spent stays spent, and what is kept is kept *)

\* A key of a bundle is not one that an operation issues.
LEMMA IssuedBefore ==
  ASSUME NEW st, SoundStore(st), NEW b, BundleKeys(b) \subseteq StoreKey, Names(b, st)
  PROVE  \A k \in BundleKeys(b) : k.id \in Nat /\ ~(st.next_id <= k.id)
BY StoreTyped DEF Names, StoreKey

\* The keys of a started handshake.
LEMMA BundleTyped ==
  ASSUME RestartTypes, NEW h \in Started
  PROVE  LET b == taken[h].bundle
         IN  /\ BundleKeys(b) \subseteq StoreKey
             /\ b.signed # None /\ b.kem # None
             /\ b.signed \in BundleKeys(b) /\ b.kem \in BundleKeys(b)
             /\ b.one_time # None => b.one_time \in BundleKeys(b)
             /\ taken[h].turns \in [signed : Nat, kem : Nat]
<1> DEFINE b == taken[h].bundle
<1>1. /\ taken[h] \in Taken /\ BundleKeys(b) \subseteq StoreKey
      /\ b \in [signed : StoreKey, one_time : StoreKey \cup {None}, kem : StoreKey]
  BY StartedTyped
<1>2. taken[h].turns \in [signed : Nat, kem : Nat]
  BY <1>1 DEF Taken
<1> HIDE DEF b
<1> QED BY <1>1, <1>2, NoneAssumption DEF BundleKeys, b

LEMMA SpentStays ==
  ASSUME RestartTypes, NEW h \in Started, NEW st, SoundStore(st), NEW t, SoundStore(t),
         NEW now, NEW later, Changes(st, now, t, later), Names(taken[h].bundle, st),
         \A e \in st.last_resort_seen : e.fp = SecretOf(h) => e.id = taken[h].bundle.kem.id,
         Spent(h, st)
  PROVE  Spent(h, t)
<1> DEFINE b == taken[h].bundle
<1>1. /\ b.kem # None /\ b.kem \in BundleKeys(b)
      /\ b.one_time # None => b.one_time \in BundleKeys(b)
      /\ \A k \in BundleKeys(b) : ~(st.next_id <= k.id)
  BY BundleTyped, IssuedBefore
<1>3. /\ Elements(t.kem_one_time) \subseteq Keys(t)
      /\ t.kem \in Keys(t)
      /\ t.previous_kem # None => t.previous_kem \in Keys(t)
  BY StoreTyped DEF Keys, Multi
<1>4. ASSUME \A k \in Keys(t) : k.id # b.kem.id PROVE Spent(h, t)
  BY <1>1, <1>3, <1>4 DEF Spent
<1>5. CASE b.one_time # None /\ b.one_time \notin Elements(st.one_time)
  BY <1>1, <1>5 DEF Spent, Changes, Grows
<1>6. CASE b.kem \notin Elements(st.kem_one_time) /\ b.kem \notin {st.kem, st.previous_kem}
  BY <1>1, <1>6 DEF Spent, Changes, Grows
<1>7. CASE b.kem.id \in st.blocked
  BY <1>4, <1>7 DEF Spent, Changes
<1>8. CASE \E e \in st.last_resort_seen : e.fp = SecretOf(h)
  BY <1>4, <1>8 DEF Spent, Changes
<1> QED BY <1>5, <1>6, <1>7, <1>8 DEF Spent

LEMMA KeptStays ==
  ASSUME RestartTypes, NEW st, SoundStore(st), NEW t, SoundStore(t), NEW set,
         NEW now \in [signed : Nat, kem : Nat], NEW later, Changes(st, now, t, later),
         \A h \in Started : Names(taken[h].bundle, st), Kept(st, set, now)
  PROVE  Kept(t, set, later)
<1> SUFFICES ASSUME NEW h \in Started, KeysKept(h, st, set, now) PROVE KeysKept(h, t, set, later)
  BY DEF Kept
<1> DEFINE b == taken[h].bundle
           at == taken[h].turns
<1>1. /\ b.kem # None /\ b.kem \in BundleKeys(b) /\ \A k \in BundleKeys(b) : ~(st.next_id <= k.id)
      /\ at \in [signed : Nat, kem : Nat]
  BY BundleTyped, IssuedBefore
<1>2. ASSUME NEW key, NEW x \in Nat, NEW current, NEW previous, NEW y \in Nat, NEW new, NEW replaced,
             NEW z, Turned(current, previous, y, new, replaced, z), InTurn(key, x, current, previous, y)
      PROVE  InTurn(key, x, new, replaced, z)
  BY <1>2 DEF Turned, InTurn
<1>3. /\ InTurn(b.signed, at.signed, st.signed, st.previous_signed, now.signed)
      /\ Turned(st.signed, st.previous_signed, now.signed, t.signed, t.previous_signed, later.signed)
      /\ at.signed \in Nat /\ now.signed \in Nat /\ at.kem \in Nat /\ now.kem \in Nat
      /\ Turned(st.kem, st.previous_kem, now.kem, t.kem, t.previous_kem, later.kem)
  BY <1>1 DEF KeysKept, Changes
<1>4. InTurn(b.signed, at.signed, t.signed, t.previous_signed, later.signed)
  BY <1>2, <1>3
<1>5. \/ b.one_time = None \/ b.one_time \in Elements(t.one_time)
      \/ \E s \in set : taken[s.hs].bundle.one_time = b.one_time
  BY DEF KeysKept, Changes
<1>6. \/ b.kem \in Elements(t.kem_one_time)
      \/ InTurn(b.kem, at.kem, t.kem, t.previous_kem, later.kem)
      \/ /\ b.kem \notin {t.kem, t.previous_kem}
         /\ \E s \in set : taken[s.hs].bundle.kem = b.kem
  <2>1. CASE b.kem \in Elements(st.kem_one_time)
    BY <2>1 DEF Changes
  <2>2. CASE InTurn(b.kem, at.kem, st.kem, st.previous_kem, now.kem)
    BY <1>2, <1>3, <2>2
  <2>3. CASE /\ b.kem \notin {st.kem, st.previous_kem}
             /\ \E s \in set : taken[s.hs].bundle.kem = b.kem
    BY <1>1, <2>3 DEF Changes
  <2> QED BY <2>1, <2>2, <2>3 DEF KeysKept
<1> QED BY <1>4, <1>5, <1>6 DEF KeysKept

LEMMA RecordStays ==
  ASSUME NEW st, NEW t, NEW now, NEW later, Changes(st, now, t, later), NEW set
  PROVE  /\ Backed(st, set) => Backed(t, set)
         /\ RecordNamed(st) => RecordNamed(t)
BY DEF Changes, Backed, RecordNamed

\* More sessions keep and back as much.
LEMMA KeptByMore ==
  ASSUME NEW st, NEW set, NEW now, NEW more, \A s \in set : \E x \in more : x.hs = s.hs,
         Kept(st, set, now)
  PROVE  Kept(st, more, now)
<1>1. ASSUME NEW h \in Started, \E s \in set : s.hs = h PROVE \E s \in more : s.hs = h
  BY <1>1
<1>2. ASSUME NEW h \in Started, KeysKept(h, st, set, now) PROVE KeysKept(h, st, more, now)
  BY <1>2 DEF KeysKept
<1> QED BY <1>1, <1>2 DEF Kept

LEMMA BackedByMore ==
  ASSUME NEW st, NEW set, NEW more, \A s \in set : \E x \in more : x.secret = s.secret,
         Backed(st, set)
  PROVE  Backed(st, more)
BY DEF Backed

-----------------------------------------------------------------------------
(* An accepted message was not spent, and is afterwards *)

\* Every message carries the secret its initiator derived.
LEMMA SecretsDerived ==
  ASSUME NEW m \in Genuine \cup Altered
  PROVE  m.secret = SecretOf(m.secret.hs)
<1> DEFINE Made(x) == x.secret = SecretOf(x.secret.hs)
<1>1. \A g \in Genuine : /\ Made(g)
                         /\ g = [hs |-> g.hs, signed_id |-> g.signed_id, one_time_id |-> g.one_time_id,
                                 kem_id |-> g.kem_id, n |-> g.n, secret |-> g.secret]
  BY DEF Genuine, Initial, Secret, SecretOf
<1>2. CASE m \in Genuine
  BY <1>1, <1>2
<1>3. CASE m \in Altered
  <2> DEFINE first == {g \in Genuine : g.n = 1}
             issued == 0..(store.next_id - 1)
  <2> HIDE DEF issued
  <2>1. \A g \in first : \A id \in issued : Made([g EXCEPT !.signed_id = id])
    BY <1>1
  <2>2. \A g \in first : \A id \in issued : Made([g EXCEPT !.one_time_id = id])
    BY <1>1
  <2>3. \A g \in first : \A id \in issued : Made([g EXCEPT !.kem_id = id])
    BY <1>1
  <2>4. \A g \in first : \A h \in DOMAIN taken : Made([g EXCEPT !.hs = h])
    BY <1>1
  <2>5. Altered = {[g EXCEPT !.signed_id = id] : g \in first, id \in issued}
                    \cup {[g EXCEPT !.one_time_id = id] : g \in first, id \in issued}
                    \cup {[g EXCEPT !.kem_id = id] : g \in first, id \in issued}
                    \cup {[g EXCEPT !.hs = h] : g \in first, h \in DOMAIN taken}
    BY DEF Altered, issued
  <2> HIDE DEF first, Made
  <2>6. Made(m)
    BY <1>3, <2>1, <2>2, <2>3, <2>4, <2>5
  <2> QED BY <2>6 DEF Made
<1> QED BY <1>2, <1>3

LEMMA SecretFields ==
  ASSUME NEW h
  PROVE  /\ SecretOf(h).hs = h /\ SecretOf(h).signed = taken[h].bundle.signed
         /\ SecretOf(h).one_time = taken[h].bundle.one_time
         /\ SecretOf(h).kem = taken[h].bundle.kem
BY DEF SecretOf, Secret

\* A store that has one-time keys of a kind has no last-resort key of their names.
LEMMA KemsApart ==
  ASSUME NEW st, SoundStore(st), NEW k \in Elements(st.kem_one_time)
  PROVE  /\ k \notin {st.kem, st.previous_kem}
         /\ k.id \notin LastResortIds(st) /\ k.id \notin st.blocked
         /\ \A e \in st.last_resort_seen : e.id # k.id
<1>1. k.id \in Ids(st.kem_one_time) /\ k \in StoreKey
  BY StoreTyped, ElementsAreKeys
<1>2. k.id \notin LastResortIds(st)
  BY <1>1, StoreTyped DEF SoundStore, OneTimeDistinct
<1>3. k \notin {st.kem, st.previous_kem}
  BY <1>1, <1>2, NoneAssumption DEF LastResortIds
<1> QED BY <1>2, <1>3 DEF SoundStore, RecordSound

LEMMA AcceptedSpends ==
  ASSUME RestartTypes, NEW h \in Started, NEW st, SoundStore(st), NEW t, Grows(st, t),
         Accepts(st, SecretOf(h), t), RecordNamed(st), \A g \in Started : Names(taken[g].bundle, st),
         SecretOf(h).kem \notin Elements(t.kem_one_time)
  PROVE  /\ ~Spent(h, st) /\ Spent(h, t)
         /\ \A g \in Started : Spent(g, st) => Spent(g, t)
         /\ RecordNamed(t)
<1> DEFINE b == taken[h].bundle
           sk == SecretOf(h)
<1>1. sk.hs = h /\ sk.one_time = b.one_time /\ sk.kem = b.kem
  BY SecretFields
<1> HIDE DEF sk
<1>2. /\ t.kem = st.kem /\ t.previous_kem = st.previous_kem /\ t.blocked = st.blocked
      /\ b.one_time # None => b.one_time \in Elements(st.one_time)
      /\ \/ b.kem \in Elements(st.kem_one_time) /\ t.last_resort_seen = st.last_resort_seen
         \/ /\ b.kem \in {st.kem, st.previous_kem} /\ b.kem.id \notin st.blocked
            /\ \A e \in st.last_resort_seen : e.fp # sk
            /\ t.last_resort_seen = st.last_resort_seen \cup {[id |-> b.kem.id, fp |-> sk]}
  BY <1>1 DEF Accepts, sk
<1>3. ASSUME NEW g \in Started, Spent(g, st) PROVE Spent(g, t)
  <2> DEFINE c == taken[g].bundle
  <2>1. /\ c.kem # None /\ c.kem \in BundleKeys(c)
        /\ c.one_time # None => c.one_time \in BundleKeys(c)
        /\ \A k \in BundleKeys(c) : ~(st.next_id <= k.id)
    BY BundleTyped, IssuedBefore
  <2>2. st.last_resort_seen \subseteq t.last_resort_seen
    BY <1>2
  <2> QED BY <1>2, <1>3, <2>1, <2>2 DEF Spent, Grows
<1>4. CASE b.kem \in Elements(st.kem_one_time) /\ t.last_resort_seen = st.last_resort_seen
  <2>1. b.kem \notin {st.kem, st.previous_kem} /\ b.kem.id \notin st.blocked
        /\ \A e \in st.last_resort_seen : e.fp # sk
    BY <1>4, KemsApart DEF RecordNamed, sk
  <2>2. ~Spent(h, st)
    BY <1>2, <1>4, <2>1 DEF Spent, sk
  <2>3. Spent(h, t)
    BY <1>1, <1>2, <2>1 DEF Spent, sk
  <2>4. RecordNamed(t)
    BY <1>4 DEF RecordNamed
  <2> QED BY <1>3, <2>2, <2>3, <2>4
<1>5. CASE /\ b.kem \in {st.kem, st.previous_kem} /\ b.kem.id \notin st.blocked
           /\ \A e \in st.last_resort_seen : e.fp # sk
           /\ t.last_resort_seen = st.last_resort_seen \cup {[id |-> b.kem.id, fp |-> sk]}
  <2>1. ~Spent(h, st)
    BY <1>2, <1>5 DEF Spent, sk
  <2>2. Spent(h, t)
    <3>1. [id |-> b.kem.id, fp |-> sk] \in t.last_resort_seen
      BY <1>5
    <3> QED BY <3>1 DEF Spent, sk
  <2>3. RecordNamed(t)
    <3> SUFFICES ASSUME NEW g \in Started, NEW e \in t.last_resort_seen, e.fp = SecretOf(g)
                 PROVE  e.id = taken[g].bundle.kem.id
      BY DEF RecordNamed
    <3>1. CASE e \in st.last_resort_seen
      BY <3>1 DEF RecordNamed
    <3>2. CASE e = [id |-> b.kem.id, fp |-> sk]
      <4>1. e.id = b.kem.id /\ e.fp = sk
        BY <3>2
      <4>2. g = h
        BY <1>1, <4>1, SecretFields
      <4> QED BY <4>1, <4>2
    <3> QED BY <1>5, <3>1, <3>2
  <2> QED BY <1>3, <2>1, <2>2, <2>3
<1> QED BY <1>2, <1>4, <1>5

LEMMA AcceptedKeeps ==
  ASSUME RestartTypes, NEW h \in Started, NEW st, SoundStore(st), NEW t, Accepts(st, SecretOf(h), t),
         NEW set, NEW now, NEW x, x.hs = h, Kept(st, set, now)
  PROVE  Kept(t, set \cup {x}, now)
<1> DEFINE more == set \cup {x}
           c == taken[h].bundle
<1>1. SecretOf(h).one_time = c.one_time /\ SecretOf(h).kem = c.kem
  BY SecretFields
<1>2. Kept(st, more, now)
  BY KeptByMore
<1>3. x \in more /\ taken[x.hs].bundle = c
  OBVIOUS
<1> HIDE DEF more, c
<1>4. /\ t.signed = st.signed /\ t.previous_signed = st.previous_signed
      /\ t.kem = st.kem /\ t.previous_kem = st.previous_kem
      /\ \A k \in Elements(st.one_time) : k = c.one_time \/ k \in Elements(t.one_time)
      /\ \A k \in Elements(st.kem_one_time) : k = c.kem \/ k \in Elements(t.kem_one_time)
  BY <1>1 DEF Accepts
<1>5. ASSUME NEW g \in Started, KeysKept(g, st, more, now) PROVE KeysKept(g, t, more, now)
  <2> DEFINE b == taken[g].bundle
             at == taken[g].turns
  <2>1. InTurn(b.signed, at.signed, t.signed, t.previous_signed, now.signed)
    BY <1>4, <1>5 DEF KeysKept
  <2>2. \/ b.one_time = None \/ b.one_time \in Elements(t.one_time)
        \/ \E s \in more : taken[s.hs].bundle.one_time = b.one_time
    BY <1>3, <1>4, <1>5 DEF KeysKept
  <2>3. \/ b.kem \in Elements(t.kem_one_time)
        \/ InTurn(b.kem, at.kem, t.kem, t.previous_kem, now.kem)
        \/ /\ b.kem \notin {t.kem, t.previous_kem}
           /\ \E s \in more : taken[s.hs].bundle.kem = b.kem
    <3>1. CASE b.kem \in Elements(st.kem_one_time)
      <4>1. b.kem \notin {t.kem, t.previous_kem}
        BY <1>4, <3>1, KemsApart
      <4> QED BY <1>3, <1>4, <3>1, <4>1
    <3>2. CASE b.kem \notin Elements(st.kem_one_time)
      BY <1>4, <1>5, <3>2 DEF KeysKept
    <3> QED BY <3>1, <3>2
  <2> QED BY <2>1, <2>2, <2>3 DEF KeysKept
<1> QED BY <1>2, <1>5 DEF Kept, more

LEMMA AcceptedIsBacked ==
  ASSUME NEW h, NEW st, NEW t, Accepts(st, SecretOf(h), t),
         NEW set, NEW x, x.secret = SecretOf(h), Backed(st, set)
  PROVE  Backed(t, set \cup {x})
<1> DEFINE sk == SecretOf(h)
           more == set \cup {x}
<1>1. x \in more /\ set \subseteq more
  OBVIOUS
<1> HIDE DEF sk, more
<1>2. /\ t.blocked = st.blocked
      /\ \A e \in t.last_resort_seen : e \in st.last_resort_seen \/ e = [id |-> sk.kem.id, fp |-> sk]
  BY DEF Accepts, sk
<1>3. ASSUME NEW e \in t.last_resort_seen
      PROVE  \/ e.id \in t.blocked
             \/ e.fp.kem.id = e.id /\ \E s \in more : s.secret = e.fp
  <2>1. CASE e \in st.last_resort_seen
    BY <1>1, <1>2, <2>1 DEF Backed
  <2>2. CASE e = [id |-> sk.kem.id, fp |-> sk]
    BY <1>1, <2>2 DEF sk
  <2> QED BY <1>2, <2>1, <2>2
<1> QED BY <1>3 DEF Backed, more

-----------------------------------------------------------------------------
(* One session: the steps of the system *)

\* What is to be shown of the state after a step that starts no handshake.
LEMMA ContactNext ==
  ASSUME UNCHANGED taken,
         \A h \in Started :
           /\ Few(h, sessions', torn'[h], Spent(h, store'))
           /\ Few(h, disk'.sessions, torn'[h],
                  Spent(h, disk'.store) \/ (todo' = <<"store">> /\ held' # None /\ held'[1] = h)),
         \A s \in sessions' \cup disk'.sessions : s.secret = SecretOf(s.hs),
         RecordNamed(store'), Kept(store', sessions', turns'), Backed(store', sessions'),
         RecordNamed(disk'.store), Kept(disk'.store, disk'.sessions, disk'.turns),
         Backed(disk'.store, disk'.sessions)
  PROVE  FewSessions' /\ SecretsKnown' /\ AllKept'
<1>1. Started' = Started
  BY DEF Started
<1>2. \A h : (Spent(h, store)' <=> Spent(h, store')) /\ (Spent(h, disk.store)' <=> Spent(h, disk'.store))
  BY DEF Spent, SecretOf, Elements
<1>3. FewSessions'
  BY <1>1, <1>2 DEF FewSessions, Few, BeingSaved, SessionsOf
<1>4. SecretsKnown'
  BY DEF SecretsKnown, SecretOf
<1>5. \A st \in {store', disk'.store} : RecordNamed(st)
  OBVIOUS
<1>6. (\A st \in {store, disk.store} : RecordNamed(st))'
  BY <1>1 DEF RecordNamed, SecretOf
<1>7. Kept(store, sessions, turns)' /\ Kept(disk.store, disk.sessions, disk.turns)'
  BY <1>1 DEF Kept, KeysKept, InTurn, Elements
<1>8. Backed(store, sessions)' /\ Backed(disk.store, disk.sessions)'
  BY DEF Backed
<1> QED BY <1>3, <1>4, <1>6, <1>7, <1>8 DEF AllKept

\* What the invariant says of the state before the step.
LEMMA ContactNow ==
  ASSUME SInv
  PROVE  /\ RestartTypes /\ SavedInOrder /\ HeldIsReceived /\ NothingLost
         /\ SoundStore(store) /\ SoundStore(disk.store)
         /\ \A h \in Started : Names(taken[h].bundle, store) /\ Names(taken[h].bundle, disk.store)
         /\ \A h \in Started : /\ torn[h] \in Nat
                               /\ Few(h, sessions, torn[h], Spent(h, store))
                               /\ Few(h, disk.sessions, torn[h], Spent(h, disk.store) \/ BeingSaved(h))
         /\ \A s \in sessions \cup disk.sessions : s.hs \in Started /\ s.secret = SecretOf(s.hs)
         /\ RecordNamed(store) /\ RecordNamed(disk.store)
         /\ Kept(store, sessions, turns) /\ Kept(disk.store, disk.sessions, disk.turns)
         /\ Backed(store, sessions) /\ Backed(disk.store, disk.sessions)
         /\ {turns, disk.turns} \subseteq [signed : Nat, kem : Nat]
<1>1. RestartTypes /\ StoresSound /\ Published /\ FewSessions /\ SecretsKnown /\ AllKept
  BY DEF SInv, RInv
<1>2. \A h \in Started : h \in Handshakes \cup {Old}
  BY <1>1, StartedTyped
<1>3. \A h \in Started : torn[h] \in Nat
  BY <1>1, <1>2 DEF RestartTypes
<1>4. \A s \in sessions \cup disk.sessions : s.hs \in Started
  BY <1>1 DEF RestartTypes
<1>5. {turns, disk.turns} \subseteq [signed : Nat, kem : Nat]
  BY <1>1 DEF RestartTypes
<1> QED BY <1>1, <1>3, <1>4, <1>5 DEF SInv, RInv, StoresSound, Published, FewSessions, SecretsKnown, AllKept

\* Of fewer sessions the same holds.
LEMMA FewCounted ==
  ASSUME NEW h, NEW set, NEW more, IsFiniteSet(more), NEW tears \in Nat, NEW spent \in BOOLEAN,
         Few(h, more, tears, spent), SessionsOf(h, set) \subseteq SessionsOf(h, more)
  PROVE  Few(h, set, tears, spent)
<1>1. IsFiniteSet(SessionsOf(h, more))
  BY FS_Subset DEF SessionsOf
<1>2. /\ IsFiniteSet(SessionsOf(h, set)) /\ Cardinality(SessionsOf(h, set)) <= Cardinality(SessionsOf(h, more))
  BY <1>1, FS_Subset
<1>3. Cardinality(SessionsOf(h, more)) \in Nat /\ Cardinality(SessionsOf(h, set)) \in Nat
  BY <1>1, <1>2, FS_CardinalityType
<1> QED BY <1>2, <1>3 DEF Few

\* A set with one element added.
LEMMA OneMore ==
  ASSUME NEW S, IsFiniteSet(S), NEW x
  PROVE  /\ IsFiniteSet(S \cup {x}) /\ Cardinality(S) \in Nat /\ Cardinality(S \cup {x}) \in Nat
         /\ Cardinality(S \cup {x}) <= Cardinality(S) + 1
<1>1. /\ IsFiniteSet(S \cup {x})
      /\ Cardinality(S \cup {x}) = Cardinality(S) \/ Cardinality(S \cup {x}) = Cardinality(S) + 1
  BY FS_AddElement
<1>2. Cardinality(S) \in Nat
  BY FS_CardinalityType
<1> QED BY <1>1, <1>2

\* What a store publishes it has.
LEMMA PublicationsKept ==
  ASSUME NEW st, SoundStore(st), NEW b \in Publications(st)
  PROVE  /\ b.signed = st.signed
         /\ b.one_time = None \/ b.one_time \in Elements(st.one_time)
         /\ b.kem = st.kem \/ b.kem \in Elements(st.kem_one_time)
<1>1. /\ DOMAIN st.one_time = 1..Len(st.one_time) /\ Len(st.one_time) \in Nat
      /\ DOMAIN st.kem_one_time = 1..Len(st.kem_one_time) /\ Len(st.kem_one_time) \in Nat
      /\ st.one_time # << >> => Len(st.one_time) \in DOMAIN st.one_time
      /\ st.kem_one_time # << >> => Len(st.kem_one_time) \in DOMAIN st.kem_one_time
  BY StoreTyped
<1>2. CASE b = publish(st)
  BY <1>1, <1>2 DEF publish, Bundle, Elements
<1>3. CASE b = publish_multi_use(st)
  BY <1>3 DEF publish_multi_use, Bundle
<1>4. CASE b \in publish_one_time_batch(st)
  <2>1. PICK i \in 0..(Smaller(Len(st.one_time), Len(st.kem_one_time)) - 1) :
          b = Bundle(st, st.one_time[Len(st.one_time) - i], st.kem_one_time[Len(st.kem_one_time) - i])
    BY <1>4 DEF publish_one_time_batch
  <2>2. /\ Len(st.one_time) - i \in DOMAIN st.one_time
        /\ Len(st.kem_one_time) - i \in DOMAIN st.kem_one_time
    BY <1>1, <2>1, BatchPositions
  <2> QED BY <2>1, <2>2 DEF Bundle, Elements
<1> QED BY <1>2, <1>3, <1>4 DEF Publications

LEMMA InitiateContacts ==
  ASSUME SInv, RInv', NEW h \in Handshakes, Initiate(h)
  PROVE  FewSessions' /\ SecretsKnown' /\ TurnsSaved' /\ AllKept'
<1>0. /\ todo = << >> /\ taken[h] = None /\ store = disk.store /\ sessions = disk.sessions
      /\ turns = disk.turns /\ h \notin Started
      /\ UNCHANGED <<store, sessions, disk, todo, held, life, acked, turns, torn>>
  BY DEF Initiate, SInv, RInv, SavedInOrder, TurnsSaved, Started
<1>1. PICK b \in Publications(store) : taken' = [taken EXCEPT ![h] = [bundle |-> b, turns |-> turns]]
  BY DEF Initiate
<1>2. /\ RestartTypes /\ SoundStore(store) /\ StoresSound /\ RestartTypes'
      /\ \A g \in Started : /\ torn[g] \in Nat /\ Few(g, sessions, torn[g], Spent(g, store))
      /\ \A s \in sessions : s.hs \in Started /\ s.secret = SecretOf(s.hs)
      /\ RecordNamed(store) /\ Kept(store, sessions, turns) /\ Backed(store, sessions)
  BY <1>0, ContactNow DEF SInv, RInv
<1>3. /\ taken'[h] = [bundle |-> b, turns |-> turns] /\ taken'[h].bundle = b /\ taken'[h].turns = turns
      /\ \A g \in Handshakes \cup {Old} : g # h => taken'[g] = taken[g]
  BY <1>1, <1>2 DEF RestartTypes
<1>4. /\ Started' \subseteq Started \cup {h} /\ \A g \in Started : taken'[g] = taken[g] /\ g # h
  BY <1>0, <1>1, <1>2, <1>3, StartedTyped DEF Started, RestartTypes
<1>5. \A g \in Started : /\ (Spent(g, store)' <=> Spent(g, store)) /\ SecretOf(g)' = SecretOf(g)
  BY <1>0, <1>4 DEF Spent, SecretOf, Elements
<1>6. SessionsOf(h, sessions) = {} /\ torn[h] \in Nat
  BY <1>0, <1>2 DEF SessionsOf, RestartTypes
<1>7. FewSessions'
  <2>1. ASSUME NEW g \in Started' PROVE Few(g, sessions, torn[g], Spent(g, store)')
    <3>1. CASE g = h
      <4>1. Cardinality(SessionsOf(h, sessions)) = 0
        BY <1>6, FS_EmptySet
      <4> QED BY <1>6, <3>1, <4>1 DEF Few
    <3>2. CASE g \in Started
      BY <1>2, <1>5, <3>2 DEF Few
    <3> QED BY <1>4, <3>1, <3>2
  <2>2. \A g : Spent(g, disk.store)' <=> Spent(g, store)'
    BY <1>0 DEF Spent, SecretOf, Elements
  <2> QED BY <1>0, <2>1, <2>2 DEF FewSessions, Few, SessionsOf
<1>8. SecretsKnown'
  BY <1>0, <1>2, <1>5 DEF SecretsKnown
<1>9. TurnsSaved'
  BY <1>0 DEF TurnsSaved
<1>10. \A e \in store.last_resort_seen : e.fp.hs # h
  BY <1>0, <1>2, EstablishmentAssumption DEF StoresSound, Recorded
<1>11. \A g \in Started', e \in store.last_resort_seen :
         e.fp = SecretOf(g)' => e.id = taken'[g].bundle.kem.id
  <2> SUFFICES ASSUME NEW g \in Started', NEW e \in store.last_resort_seen, e.fp = SecretOf(g)'
               PROVE  e.id = taken'[g].bundle.kem.id
    OBVIOUS
  <2>1. e.fp.hs = g
    BY DEF SecretOf, Secret
  <2>2. g \in Started
    BY <1>4, <1>10, <2>1
  <2> QED BY <1>2, <1>4, <1>5, <2>2 DEF RecordNamed
<1>12. KeysKept(h, store, sessions, turns)'
  <2>1. /\ b.signed = store.signed
        /\ b.one_time = None \/ b.one_time \in Elements(store.one_time)
        /\ b.kem = store.kem \/ b.kem \in Elements(store.kem_one_time)
    BY <1>2, PublicationsKept
  <2> QED BY <1>0, <1>3, <2>1 DEF KeysKept, InTurn, Elements
<1>13. ASSUME NEW g \in Started, KeysKept(g, store, sessions, turns) PROVE KeysKept(g, store, sessions, turns)'
  <2>1. store' = store /\ sessions' = sessions /\ turns' = turns
    BY <1>0
  <2>2. taken'[g] = taken[g]
    BY <1>4
  <2>3. \A s \in sessions : taken'[s.hs] = taken[s.hs]
    BY <1>2, <1>4
  <2> QED BY <1>13, <2>1, <2>2, <2>3 DEF KeysKept, InTurn, Elements
<1>14. Kept(store, sessions, turns)'
  BY <1>0, <1>2, <1>4, <1>12, <1>13 DEF Kept
<1>15. AllKept'
  <2>1. Kept(disk.store, disk.sessions, disk.turns)'
    BY <1>0, <1>14 DEF Kept, KeysKept, InTurn, Elements
  <2>2. Backed(store, sessions)' /\ Backed(disk.store, disk.sessions)'
    BY <1>0, <1>2 DEF Backed
  <2>3. (\A st \in {store, disk.store} : RecordNamed(st))'
    BY <1>0, <1>11 DEF RecordNamed
  <2> QED BY <1>14, <2>1, <2>2, <2>3 DEF AllKept
<1> QED BY <1>7, <1>8, <1>9, <1>15

LEMMA EstablishContacts ==
  ASSUME SInv, RInv', NEW m \in Genuine \cup Altered, Establish(m)
  PROVE  FewSessions' /\ SecretsKnown' /\ TurnsSaved' /\ AllKept'
<1> DEFINE h == m.hs
           no == Cardinality(SessionsOf(m.hs, sessions)) + 1
           x == [hs |-> m.hs, no |-> no, secret |-> responder_shared_secret(store, m), received |-> {m.n}]
           t == establish_responder(store, m)
<1>0. /\ todo = << >> /\ store = disk.store /\ sessions = disk.sessions /\ turns = disk.turns
      /\ Refusal(store, m) = "None" /\ store' = t /\ sessions' = sessions \cup {x}
      /\ todo' = <<"session", "store">>
      /\ UNCHANGED <<disk, taken, life, acked, turns, torn>>
  BY DEF Establish, SInv, RInv, SavedInOrder, TurnsSaved, AfterEstablishing
<1>1. /\ RestartTypes /\ SoundStore(store)
      /\ \A g \in Started : Names(taken[g].bundle, store)
      /\ \A g \in Started : /\ torn[g] \in Nat /\ Few(g, sessions, torn[g], Spent(g, store))
                            /\ Few(g, disk.sessions, torn[g], Spent(g, disk.store))
      /\ \A s \in sessions \cup disk.sessions : s.hs \in Started /\ s.secret = SecretOf(s.hs)
      /\ RecordNamed(store) /\ RecordNamed(disk.store)
      /\ Kept(store, sessions, turns) /\ Kept(disk.store, disk.sessions, disk.turns)
      /\ Backed(store, sessions) /\ Backed(disk.store, disk.sessions)
  <2>1. \A g : ~BeingSaved(g)
    BY <1>0 DEF BeingSaved
  <2> QED BY <2>1, ContactNow DEF Few
<1>2. h \in Started /\ m.secret = SecretOf(h) /\ responder_shared_secret(store, m) = m.secret
  <2>1. StoresSound
    BY DEF SInv, RInv
  <2>2. m.hs \in Handshakes \cup {Old} /\ m.secret.hs \in Started /\ m.secret.hs = m.hs
    BY <1>0, <1>1, <2>1, MessagesStarted, SpendIsSound
  <2>3. responder_shared_secret(store, m) = m.secret
    BY <1>0 DEF Refusal
  <2> QED BY <2>2, <2>3, SecretsDerived
<1>3. Accepts(store, SecretOf(h), t) /\ Grows(store, t) /\ SecretOf(h).kem \notin Elements(t.kem_one_time)
  BY <1>0, <1>1, <1>2, SpendAccepts, SpendGrows
<1>4. x.hs = h /\ x.secret = SecretOf(h)
  BY <1>2
<1> HIDE DEF h, no, x, t
<1>5. /\ ~Spent(h, store) /\ Spent(h, t) /\ RecordNamed(t)
      /\ \A g \in Started : Spent(g, store) => Spent(g, t)
  BY <1>1, <1>2, <1>3, AcceptedSpends
<1>6. Kept(t, sessions \cup {x}, turns)
  BY <1>1, <1>2, <1>3, <1>4, AcceptedKeeps
<1>7. Backed(t, sessions \cup {x})
  BY <1>1, <1>3, <1>4, AcceptedIsBacked
<1>8. Few(h, sessions \cup {x}, torn[h], Spent(h, t))
  <2>1. SessionsOf(h, sessions \cup {x}) = SessionsOf(h, sessions) \cup {x}
    BY <1>4 DEF SessionsOf
  <2>2. IsFiniteSet(SessionsOf(h, sessions))
    BY <1>1, FS_Subset DEF RestartTypes, SessionsOf
  <2>3. /\ Cardinality(SessionsOf(h, sessions)) \in Nat
        /\ Cardinality(SessionsOf(h, sessions \cup {x})) \in Nat
        /\ Cardinality(SessionsOf(h, sessions \cup {x})) <= Cardinality(SessionsOf(h, sessions)) + 1
    BY <2>1, <2>2, OneMore
  <2> QED BY <1>1, <1>2, <1>5, <2>3 DEF Few
<1>9. ASSUME NEW g \in Started PROVE Few(g, sessions \cup {x}, torn[g], Spent(g, t))
  <2>1. CASE g # h
    <3>1. SessionsOf(g, sessions \cup {x}) = SessionsOf(g, sessions)
      BY <1>4, <2>1 DEF SessionsOf
    <3> QED BY <1>1, <1>5, <3>1 DEF Few
  <2> QED BY <1>8, <2>1
<1>10. \A s \in (sessions \cup {x}) \cup disk.sessions : s.secret = SecretOf(s.hs)
  BY <1>1, <1>4
<1>11. FewSessions' /\ SecretsKnown' /\ AllKept'
  <2>1. \A g \in Started : Few(g, disk.sessions, torn[g],
           Spent(g, disk.store) \/ (todo' = <<"store">> /\ held' # None /\ held'[1] = g))
    BY <1>1 DEF Few
  <2> QED BY <1>0, <1>1, <1>5, <1>6, <1>7, <1>9, <1>10, <2>1, ContactNext
<1>12. TurnsSaved'
  BY <1>0 DEF TurnsSaved
<1> QED BY <1>11, <1>12

LEMMA RepeatedContacts ==
  ASSUME SInv, RInv', NEW s \in sessions, NEW m \in Genuine, DecryptRepeated(s, m)
  PROVE  FewSessions' /\ SecretsKnown' /\ TurnsSaved' /\ AllKept'
<1> DEFINE x == [s EXCEPT !.received = @ \cup {m.n}]
           set == (sessions \ {s}) \cup {x}
<1>0. /\ todo = << >> /\ turns = disk.turns
      /\ sessions' = set /\ todo' = <<"session">>
      /\ UNCHANGED <<store, disk, taken, life, acked, turns, torn>>
  BY DEF DecryptRepeated, SInv, TurnsSaved, AfterReceiving
<1>1. s = [hs |-> s.hs, no |-> s.no, secret |-> s.secret, received |-> s.received]
  BY DEF SInv, RInv, RestartTypes
<1>2. x.hs = s.hs /\ x.secret = s.secret
  BY <1>1
<1> HIDE DEF x
<1>3. /\ \A y \in sessions : \E z \in set : z.hs = y.hs /\ z.secret = y.secret
      /\ \A z \in set : \E y \in sessions : z.hs = y.hs /\ z.secret = y.secret
  BY <1>2
<1>4. /\ RestartTypes
      /\ \A g \in Started : /\ torn[g] \in Nat /\ Few(g, sessions, torn[g], Spent(g, store))
                            /\ Few(g, disk.sessions, torn[g], Spent(g, disk.store) \/ BeingSaved(g))
      /\ \A y \in sessions \cup disk.sessions : y.secret = SecretOf(y.hs)
      /\ RecordNamed(store) /\ RecordNamed(disk.store)
      /\ Kept(store, sessions, turns) /\ Kept(disk.store, disk.sessions, disk.turns)
      /\ Backed(store, sessions) /\ Backed(disk.store, disk.sessions)
  BY ContactNow
<1>5. ASSUME NEW g \in Started PROVE Few(g, set, torn[g], Spent(g, store))
  <2>1. IsFiniteSet(SessionsOf(g, sessions)) /\ IsFiniteSet(SessionsOf(g, sessions) \ {s})
    BY <1>4, FS_Subset, FS_RemoveElement DEF RestartTypes, SessionsOf
  <2>2. CASE g = s.hs
    <3>1. s \in SessionsOf(g, sessions) /\ SessionsOf(g, set) = (SessionsOf(g, sessions) \ {s}) \cup {x}
      BY <1>2, <2>2 DEF SessionsOf
    <3> HIDE DEF set
    <3>2. /\ Cardinality(SessionsOf(g, sessions) \ {s}) = Cardinality(SessionsOf(g, sessions)) - 1
          /\ Cardinality(SessionsOf(g, sessions)) \in Nat
      BY <2>1, <3>1, FS_RemoveElement, FS_CardinalityType
    <3>3. IsFiniteSet(SessionsOf(g, set))
          /\ Cardinality(SessionsOf(g, set)) <= Cardinality(SessionsOf(g, sessions) \ {s}) + 1
      BY <2>1, <3>1, OneMore
    <3>4. Cardinality(SessionsOf(g, set)) \in Nat
      BY <3>3, FS_CardinalityType
    <3> QED BY <1>4, <3>2, <3>3, <3>4 DEF Few
  <2>3. CASE g # s.hs
    <3>1. SessionsOf(g, set) = SessionsOf(g, sessions)
      BY <1>2, <2>3 DEF SessionsOf
    <3> HIDE DEF set
    <3> QED BY <1>4, <3>1 DEF Few
  <2> QED BY <2>2, <2>3
<1> HIDE DEF set
<1>6. Kept(store, set, turns) /\ Backed(store, set)
  BY <1>3, <1>4, KeptByMore, BackedByMore
<1>7. \A z \in set \cup disk.sessions : z.secret = SecretOf(z.hs)
  BY <1>3, <1>4
<1>8. FewSessions' /\ SecretsKnown' /\ AllKept'
  <2>1. \A g \in Started : Few(g, disk.sessions, torn[g],
           Spent(g, disk.store) \/ (todo' = <<"store">> /\ held' # None /\ held'[1] = g))
    BY <1>0, <1>4 DEF Few, BeingSaved
  <2> QED BY <1>0, <1>4, <1>5, <1>6, <1>7, <2>1, ContactNext
<1>9. TurnsSaved'
  BY <1>0 DEF TurnsSaved
<1> QED BY <1>8, <1>9

\* An operation of the owner on the store.
LEMMA StoreChangeContacts ==
  ASSUME SInv, RInv', todo = << >>, Changes(store, turns, store', turns'),
         todo' = IF store' = store THEN << >> ELSE <<"store">>, store' = store => turns' = turns,
         UNCHANGED <<sessions, disk, held, taken, acked, torn>>
  PROVE  FewSessions' /\ SecretsKnown' /\ TurnsSaved' /\ AllKept'
<1>1. /\ RestartTypes /\ SoundStore(store) /\ SoundStore(store') /\ turns \in [signed : Nat, kem : Nat]
      /\ \A h \in Started : Names(taken[h].bundle, store)
      /\ \A g \in Started : /\ torn[g] \in Nat /\ Few(g, sessions, torn[g], Spent(g, store))
                            /\ Few(g, disk.sessions, torn[g], Spent(g, disk.store))
      /\ \A s \in sessions \cup disk.sessions : s.secret = SecretOf(s.hs)
      /\ RecordNamed(store) /\ RecordNamed(disk.store)
      /\ Kept(store, sessions, turns) /\ Kept(disk.store, disk.sessions, disk.turns)
      /\ Backed(store, sessions) /\ Backed(disk.store, disk.sessions)
  <2>1. \A g : ~BeingSaved(g)
    BY DEF BeingSaved
  <2>2. SoundStore(store')
    BY DEF RInv, StoresSound
  <2> QED BY <2>1, <2>2, ContactNow DEF Few
<1>2. \A h \in Started : Spent(h, store) => Spent(h, store')
  BY <1>1, SpentStays DEF RecordNamed
<1>3. Kept(store', sessions, turns') /\ Backed(store', sessions) /\ RecordNamed(store')
  BY <1>1, KeptStays, RecordStays
<1>4. FewSessions' /\ SecretsKnown' /\ AllKept'
  <2>1. \A h \in Started :
          /\ Few(h, sessions, torn[h], Spent(h, store'))
          /\ Few(h, disk.sessions, torn[h],
                 Spent(h, disk.store) \/ (todo' = <<"store">> /\ held' # None /\ held'[1] = h))
    BY <1>1, <1>2 DEF Few
  <2> QED BY <1>1, <1>3, <2>1, ContactNext
<1>5. TurnsSaved'
  BY DEF SInv, TurnsSaved
<1> QED BY <1>4, <1>5

LEMMA RotationsContact ==
  ASSUME SInv, RInv', NEW identity,
         Replenish(identity) \/ RotateSignedPrekey(identity) \/ RotateKem(identity)
  PROVE  FewSessions' /\ SecretsKnown' /\ TurnsSaved' /\ AllKept'
<1>1. /\ SoundStore(store) /\ life \in Nat /\ ReplenishCount \in Nat
      /\ turns \in [signed : Nat, kem : Nat]
  BY EstablishmentAssumption DEF SInv, RInv, StoresSound, RestartTypes
<1>2. CASE Replenish(identity)
  BY <1>1, <1>2, ReplenishChanges, StoreChangeContacts DEF Replenish, Change, AfterStoreChange
<1>3. CASE RotateSignedPrekey(identity)
  BY <1>1, <1>3, RotateSignedChanges, StoreChangeContacts DEF RotateSignedPrekey, Change, AfterStoreChange
<1>4. CASE RotateKem(identity)
  BY <1>1, <1>4, RotateKemChanges, StoreChangeContacts DEF RotateKem, Change, AfterStoreChange
<1> QED BY <1>2, <1>3, <1>4

LEMMA RefuseContacts ==
  ASSUME SInv, RInv', NEW m, Refuse(m)
  PROVE  FewSessions' /\ SecretsKnown' /\ TurnsSaved' /\ AllKept'
<1>1. store' = store /\ todo' = << >> /\ todo = << >> /\ UNCHANGED <<sessions, disk, held, taken, acked, turns, torn>>
  BY DEF Refuse, establish_responder, Change
<1>2. SoundStore(store)
  BY DEF SInv, RInv, StoresSound
<1> QED BY <1>1, <1>2, NoChange, StoreChangeContacts

LEMMA SaveContacts ==
  ASSUME SInv, RInv', Save
  PROVE  FewSessions' /\ SecretsKnown' /\ TurnsSaved' /\ AllKept'
<1>0. /\ RestartTypes /\ SavedInOrder /\ HeldIsReceived /\ NothingLost /\ TurnsSaved /\ todo # << >>
      /\ \A g \in Started : /\ torn[g] \in Nat /\ Few(g, sessions, torn[g], Spent(g, store))
                            /\ Few(g, disk.sessions, torn[g], Spent(g, disk.store) \/ BeingSaved(g))
      /\ \A s \in sessions \cup disk.sessions : s.hs \in Started /\ s.secret = SecretOf(s.hs)
      /\ RecordNamed(store) /\ RecordNamed(disk.store)
      /\ Kept(store, sessions, turns) /\ Kept(disk.store, disk.sessions, disk.turns)
      /\ Backed(store, sessions) /\ Backed(disk.store, disk.sessions)
      /\ UNCHANGED <<store, sessions, taken, life, turns, torn>>
  BY ContactNow DEF Save, SInv
<1>1. disk = [store |-> disk.store, sessions |-> disk.sessions, turns |-> disk.turns]
  BY DEF SInv, RInv, StoresSound
<1>2. Kept(disk.store, sessions, disk.turns) /\ Backed(disk.store, sessions)
  <2>1. \A s \in disk.sessions : \E x \in sessions : x.hs = s.hs /\ x.secret = s.secret
    BY <1>0 DEF NothingLost
  <2> QED BY <1>0, <2>1, KeptByMore, BackedByMore
<1>3. CASE todo = <<"session", "store">>
  <2>1. /\ disk'.sessions = sessions /\ disk'.store = disk.store /\ disk'.turns = disk.turns
        /\ todo' = <<"store">> /\ UNCHANGED held /\ held # None
    BY <1>0, <1>1, <1>3 DEF Save, SessionExported, SavedInOrder
  <2>2. ASSUME NEW g \in Started, g # held[1] PROVE Few(g, sessions, torn[g], Spent(g, disk.store))
    <3>1. SessionsOf(g, sessions) \subseteq SessionsOf(g, disk.sessions)
      BY <1>0, <1>3, <2>2 DEF SavedInOrder, SessionsOf
    <3>2. Few(g, disk.sessions, torn[g], Spent(g, disk.store))
      BY <1>0, <1>3 DEF BeingSaved, Few
    <3>3. Spent(g, disk.store) \in BOOLEAN
      BY DEF Spent
    <3> QED BY <1>0, <3>1, <3>2, <3>3, FewCounted DEF RestartTypes
  <2>3. \A g \in Started : Few(g, sessions, torn[g],
          Spent(g, disk.store) \/ (todo' = <<"store">> /\ held' # None /\ held'[1] = g))
    BY <1>0, <2>1, <2>2 DEF Few
  <2>4. FewSessions' /\ SecretsKnown' /\ AllKept'
    BY <1>0, <1>2, <2>1, <2>3, ContactNext
  <2>5. TurnsSaved'
    BY <2>1 DEF TurnsSaved
  <2> QED BY <2>4, <2>5
<1>4. CASE todo = <<"session">>
  <2>1. /\ disk'.sessions = sessions /\ disk'.store = disk.store /\ disk'.turns = disk.turns
        /\ todo' = << >> /\ store = disk.store /\ turns = disk.turns
    BY <1>0, <1>1, <1>4 DEF Save, SessionExported, SavedInOrder, TurnsSaved
  <2>2. \A g \in Started : Few(g, sessions, torn[g],
          Spent(g, disk.store) \/ (todo' = <<"store">> /\ held' # None /\ held'[1] = g))
    BY <1>0, <2>1 DEF Few
  <2>3. FewSessions' /\ SecretsKnown' /\ AllKept'
    BY <1>0, <1>2, <2>1, <2>2, ContactNext
  <2>4. TurnsSaved'
    BY <1>0, <2>1 DEF TurnsSaved
  <2> QED BY <2>3, <2>4
<1>5. CASE todo = <<"store">>
  <2>1. /\ disk'.sessions = sessions /\ disk'.store = store /\ disk'.turns = turns /\ todo' = << >>
    BY <1>0, <1>1, <1>5 DEF Save, StoreWritten, SavedInOrder
  <2>2. \A g \in Started : Few(g, sessions, torn[g],
          Spent(g, store) \/ (todo' = <<"store">> /\ held' # None /\ held'[1] = g))
    BY <1>0, <2>1 DEF Few
  <2>3. FewSessions' /\ SecretsKnown' /\ AllKept'
    BY <1>0, <2>1, <2>2, ContactNext
  <2>4. TurnsSaved'
    BY <1>0, <2>1 DEF TurnsSaved
  <2> QED BY <2>3, <2>4
<1> QED BY <1>0, <1>3, <1>4, <1>5 DEF SavedInOrder

LEMMA CrashContacts ==
  ASSUME SInv, RInv', Crash
  PROVE  FewSessions' /\ SecretsKnown' /\ TurnsSaved' /\ AllKept'
<1>0. /\ RestartTypes /\ HeldIsReceived
      /\ \A g \in Started : /\ torn[g] \in Nat
                            /\ Few(g, disk.sessions, torn[g], Spent(g, disk.store) \/ BeingSaved(g))
      /\ \A s \in disk.sessions : s.secret = SecretOf(s.hs)
      /\ RecordNamed(disk.store) /\ Kept(disk.store, disk.sessions, disk.turns)
      /\ Backed(disk.store, disk.sessions)
      /\ store' = disk.store /\ sessions' = disk.sessions /\ turns' = disk.turns
      /\ todo' = << >> /\ held' = None /\ UNCHANGED <<disk, taken, acked>>
  BY ContactNow DEF Crash
<1>1. ASSUME NEW g \in Started PROVE Few(g, disk.sessions, torn'[g], Spent(g, disk.store))
  <2>0. g \in Handshakes \cup {Old}
    BY <1>0, StartedTyped
  <2>1. CASE held # None /\ todo = <<"store">>
    <3>1. torn' = [torn EXCEPT ![held[1]] = @ + 1] /\ held[1] \in Handshakes \cup {Old}
      BY <1>0, <2>1, StartedTyped DEF HeldIsReceived, Crash
    <3>2. torn'[g] = IF g = held[1] THEN torn[g] + 1 ELSE torn[g]
      BY <1>0, <2>0, <3>1 DEF RestartTypes
    <3>3. g # held[1] => ~BeingSaved(g)
      BY DEF BeingSaved
    <3>4. IsFiniteSet(SessionsOf(g, disk.sessions))
      BY <1>0, FS_Subset DEF RestartTypes, SessionsOf
    <3>5. Cardinality(SessionsOf(g, disk.sessions)) \in Nat
      BY <3>4, FS_CardinalityType
    <3> QED BY <1>0, <3>2, <3>3, <3>5 DEF Few
  <2>2. CASE ~(held # None /\ todo = <<"store">>)
    <3>1. torn' = torn /\ ~BeingSaved(g)
      BY <2>2 DEF Crash, BeingSaved
    <3> QED BY <1>0, <3>1 DEF Few
  <2> QED BY <2>1, <2>2
<1>2. \A g \in Started : Few(g, disk.sessions, torn'[g],
        Spent(g, disk.store) \/ (todo' = <<"store">> /\ held' # None /\ held'[1] = g))
  BY <1>1 DEF Few
<1>3. FewSessions' /\ SecretsKnown' /\ AllKept'
  BY <1>0, <1>1, <1>2, ContactNext
<1>4. TurnsSaved'
  BY <1>0 DEF TurnsSaved
<1> QED BY <1>3, <1>4

LEMMA UnchangedContacts ==
  ASSUME SInv, RInv', UNCHANGED vars
  PROVE  FewSessions' /\ SecretsKnown' /\ TurnsSaved' /\ AllKept'
<1>1. UNCHANGED <<store, sessions, disk, todo, held, taken, turns, torn>>
  BY DEF vars
<1>2. \A g \in Started :
        /\ Few(g, sessions, torn[g], Spent(g, store))
        /\ Few(g, disk.sessions, torn[g],
               Spent(g, disk.store) \/ (todo' = <<"store">> /\ held' # None /\ held'[1] = g))
  BY <1>1, ContactNow DEF BeingSaved
<1>3. FewSessions' /\ SecretsKnown' /\ AllKept'
  BY <1>1, <1>2, ContactNow, ContactNext
<1>4. TurnsSaved'
  BY <1>1 DEF SInv, TurnsSaved
<1> QED BY <1>3, <1>4

LEMMA NextContacts == SInv /\ [Next]_vars => SInv'
<1> SUFFICES ASSUME SInv, [Next]_vars PROVE SInv'
  OBVIOUS
<1>0. RInv'
  BY NextRestarts DEF SInv
<1> DEFINE Held == FewSessions' /\ SecretsKnown' /\ TurnsSaved' /\ AllKept'
<1>1. ASSUME NEW h \in Handshakes, Initiate(h) PROVE Held
  BY <1>0, <1>1, InitiateContacts
<1>2. ASSUME NEW m \in Genuine \cup Altered, Establish(m) \/ Refuse(m) PROVE Held
  BY <1>0, <1>2, EstablishContacts, RefuseContacts
<1>3. ASSUME NEW s \in sessions, NEW m \in Genuine, DecryptRepeated(s, m) PROVE Held
  BY <1>0, <1>3, RepeatedContacts
<1>4. ASSUME NEW identity, Replenish(identity) \/ RotateSignedPrekey(identity) \/ RotateKem(identity)
      PROVE  Held
  BY <1>0, <1>4, RotationsContact
<1>5. ASSUME Save \/ Crash \/ UNCHANGED vars PROVE Held
  BY <1>0, <1>5, SaveContacts, CrashContacts, UnchangedContacts
<1>6. Held
  BY <1>1, <1>2, <1>3, <1>4, <1>5 DEF Next
<1> QED BY <1>0, <1>6 DEF SInv

-----------------------------------------------------------------------------
(* One session: the initial states and the theorem *)

\* A record of an older release is of keys that are in the store, and of no secret
\* that is derived now.
OldRecord(st, k) ==
  /\ SoundStore(st) /\ st.last_resort_seen # {} /\ k.id \in LastResortIds(st)
  /\ \A e \in st.last_resort_seen : e.fp.signed = None

LEMMA OldStoresRecord ==
  ASSUME NEW current \in BOOLEAN
  PROVE  LET created == create_prekeys(OneTimeCount, 0)
         IN  OldRecord(OldStore(created, current), created.kem)
<1> DEFINE created == create_prekeys(OneTimeCount, 0)
           fp == Secret(Old, None, None, None)
           entry == [id |-> created.kem.id, fp |-> fp]
           recorded == [created EXCEPT !.last_resort_seen = {entry}]
           rotated == rotate_kem(recorded, Owner, 0)
<1>1. SoundStore(created) /\ created.previous_kem = None
  BY CreateIsSound, EstablishmentAssumption DEF create_prekeys
<1>2. recorded = OldStore(created, TRUE) /\ rotated = OldStore(created, FALSE)
  BY DEF OldStore
<1>3. SoundStore(recorded) /\ SoundStore(rotated)
  BY <1>2, OldStoresSound
<1>4. entry.id = created.kem.id /\ entry.fp.signed = None
  BY DEF Secret
<1>5. created.kem.id # 0
  BY <1>1, StoreTyped, KeysIssued DEF Keys, Multi
<1> HIDE DEF created, entry
<1>6. created \in StoreType
  BY <1>1, StoreTyped
<1>7. /\ recorded.last_resort_seen = {entry} /\ recorded.kem = created.kem
      /\ recorded.previous_kem = None
  BY <1>1, <1>6 DEF StoreType
<1> HIDE DEF recorded
<1>8. recorded \in StoreType
  BY <1>3, StoreTyped
<1>9. OldRecord(recorded, created.kem)
  BY <1>3, <1>4, <1>7, StoreTyped DEF OldRecord
<1>10. OldRecord(rotated, created.kem)
  <2>1. CASE ~MayRotate(recorded, Owner)
    BY <1>9, <2>1 DEF rotate_kem
  <2>2. CASE MayRotate(recorded, Owner)
    <3>1. /\ rotated.previous_kem = created.kem
          /\ rotated.last_resort_seen = {e \in recorded.last_resort_seen : e.id # ABSENT_ID}
      BY <1>7, <1>8, <2>2 DEF rotate_kem, StoreType
    <3>2. rotated.last_resort_seen = {entry}
      BY <1>4, <1>5, <1>7, <3>1 DEF ABSENT_ID
    <3>3. created.kem # None
      BY <1>1, StoreTyped
    <3> HIDE DEF rotated
    <3>4. created.kem.id \in LastResortIds(rotated)
      BY <3>1, <3>3 DEF LastResortIds
    <3> QED BY <1>3, <1>4, <3>2, <3>4 DEF OldRecord
  <2> QED BY <2>1, <2>2
<1> QED BY <1>2, <1>9, <1>10 DEF created

LEMMA UntaggedRecord ==
  ASSUME NEW st, NEW k, OldRecord(st, k), SoundStore(Untagged(st))
  PROVE  OldRecord(Untagged(st), k)
<1> DEFINE t == Untagged(st)
<1>1. /\ t.kem = st.kem /\ t.previous_kem = st.previous_kem
      /\ t.last_resort_seen = {[id |-> st.kem.id, fp |-> e.fp] : e \in st.last_resort_seen}
  BY StoreTyped DEF Untagged, StoreType, OldRecord
<1> HIDE DEF t
<1>2. PICK e \in st.last_resort_seen : TRUE
  BY DEF OldRecord
<1>3. [id |-> st.kem.id, fp |-> e.fp] \in t.last_resort_seen
  BY <1>1
<1>4. t.last_resort_seen # {} /\ \A f \in t.last_resort_seen : f.fp.signed = None
  BY <1>1, <1>3 DEF OldRecord
<1>5. k.id \in LastResortIds(t)
  BY <1>1 DEF OldRecord, LastResortIds
<1> QED BY <1>4, <1>5 DEF OldRecord, t

\* When it is read back, the keys it may cover are blocked.
LEMMA UpgradeBlocks ==
  ASSUME NEW st, NEW k, OldRecord(st, k), NEW set
  PROVE  LET t == Upgraded(st)
         IN  k.id \in t.blocked /\ Backed(t, set) /\ \A e \in t.last_resort_seen : e.fp.signed = None
<1> DEFINE t == Upgraded(st)
<1>1. t.last_resort_seen = st.last_resort_seen /\ t.blocked = LastResortIds(st)
  BY StoreTyped DEF Upgraded, StoreType, OldRecord
<1> HIDE DEF t
<1> QED BY <1>1 DEF OldRecord, Backed, SoundStore, RecordSound, t

LEMMA InitContacts == Init => SInv
<1> SUFFICES ASSUME Init PROVE SInv
  OBVIOUS
<1> DEFINE created == create_prekeys(OneTimeCount, 0)
           b == publish_multi_use(created)
           Opened(st) == /\ created.kem.id \in st.blocked /\ Backed(st, sessions)
                         /\ \A e \in st.last_resort_seen : e.fp.signed = None
           Possible(st, opened, turned) ==
             /\ InitWith(st, opened, turned)
             /\ \/ opened = {} /\ st.last_resort_seen = {}
                \/ opened = {Old} /\ Opened(st)
<1>1. RInv
  BY InitRestarts
<1>2. created.last_resort_seen = {}
  BY DEF create_prekeys
<1>3. \A current \in BOOLEAN : Opened(Upgraded(OldStore(created, current)))
  BY OldStoresRecord, UpgradeBlocks
<1>4. Opened(Upgraded(Untagged(OldStore(created, FALSE))))
  <2> DEFINE old == OldStore(created, FALSE)
  <2>1. OldRecord(old, created.kem) /\ \E fp \in Fingerprint : \A e \in old.last_resort_seen : e.fp = fp
    BY OldStoresRecord, OldStoresSound
  <2> HIDE DEF old, created
  <2>2. OldRecord(Untagged(old), created.kem)
    BY <2>1, UntaggedIsSound, UntaggedRecord DEF OldRecord
  <2> QED BY <2>2, UpgradeBlocks DEF old
<1>5. \E st, opened, turned : Possible(st, opened, turned)
  <2> HIDE DEF Opened
  <2>1. CASE InitWith(created, {}, NoTurns)
    BY <1>2, <2>1
  <2>2. ASSUME NEW st, NEW turned, InitWith(st, {Old}, turned), Opened(st)
        PROVE  \E s, opened, later : Possible(s, opened, later)
    BY <2>2
  <2> QED BY <1>3, <1>4, <2>1, <2>2 DEF Init
<1>6. PICK st, opened, turned : Possible(st, opened, turned)
  BY <1>5
<1> DEFINE x == [hs |-> Old, no |-> 1, secret |-> Secret(Old, b.signed, b.one_time, b.kem), received |-> {1}]
<1>7. /\ store = st /\ disk.store = st /\ disk.sessions = sessions
      /\ sessions = IF opened = {} THEN {} ELSE {x}
      /\ turns = turned /\ disk.turns = turned
      /\ taken = [h \in Handshakes \cup {Old} |->
                    IF h \in opened THEN [bundle |-> b, turns |-> NoTurns] ELSE None]
      /\ todo = << >> /\ held = None
      /\ torn = [h \in Handshakes \cup {Old} |-> 0]
  BY <1>6 DEF InitWith
<1>8. /\ x.hs = Old /\ x.secret = Secret(Old, b.signed, b.one_time, b.kem)
  OBVIOUS
<1>9. b.kem = created.kem
  BY DEF publish_multi_use, Bundle
<1> HIDE DEF x, b, created
<1>10. CASE opened = {}
  <2>1. Started = {} /\ sessions = {} /\ store.last_resort_seen = {} /\ disk.store = store
    BY <1>6, <1>7, <1>10 DEF Started
  <2>2. FewSessions /\ SecretsKnown /\ AllKept
    BY <1>7, <2>1 DEF FewSessions, SecretsKnown, AllKept, RecordNamed, Kept, Backed
  <2> QED BY <1>1, <1>7, <2>2 DEF SInv, TurnsSaved
<1>11. CASE opened = {Old} /\ Opened(st)
  <2>1. /\ Started \subseteq {Old} /\ sessions = {x} /\ taken[Old].bundle = b /\ torn[Old] = 0
    BY <1>7, <1>11 DEF Started
  <2>2. x.secret = SecretOf(Old)
    BY <1>8, <2>1 DEF SecretOf
  <2>3. FewSessions
    <3>1. SessionsOf(Old, sessions) = {x}
      BY <1>8, <2>1 DEF SessionsOf
    <3>2. Cardinality(SessionsOf(Old, sessions)) = 1
      BY <3>1, FS_Singleton
    <3>3. Spent(Old, st)
      BY <1>9, <1>11, <2>1 DEF Spent
    <3>4. Few(Old, sessions, torn[Old], Spent(Old, st))
      BY <2>1, <3>2, <3>3 DEF Few
    <3> QED BY <1>7, <2>1, <3>3, <3>4 DEF FewSessions, Few
  <2>4. SecretsKnown
    BY <1>7, <1>8, <2>1, <2>2 DEF SecretsKnown
  <2>5. RecordNamed(st)
    <3>1. Old \in Started => SecretOf(Old).signed # None
      BY <1>1, SecretFields, BundleTyped DEF RInv
    <3> QED BY <1>11, <2>1, <3>1 DEF RecordNamed
  <2>6. Kept(st, sessions, turned)
    BY <1>8, <2>1 DEF Kept
  <2>7. AllKept
    BY <1>7, <1>11, <2>5, <2>6 DEF AllKept
  <2> QED BY <1>1, <1>7, <2>3, <2>4, <2>7 DEF SInv, TurnsSaved
<1> QED BY <1>6, <1>10, <1>11

\* The handshakes with a session under a key are finitely many.
LEMMA KeyUsers ==
  ASSUME SInv, NEW k
  PROVE  LET users == {s.hs : s \in {x \in sessions : x.secret.kem = k}}
         IN  IsFiniteSet(users) /\ Cardinality(users) \in Nat
             /\ (~(Cardinality(users) >= MAX_LAST_RESORT_SEEN) => Cardinality(users) < MAX_LAST_RESORT_SEEN)
<1> DEFINE S == {x \in sessions : x.secret.kem = k}
           users == {s.hs : s \in S}
           f == [s \in S |-> s.hs]
<1>1. IsFiniteSet(S)
  BY FS_Subset DEF SInv, RInv, RestartTypes
<1> HIDE DEF S
<1>2. f \in Surjection(S, users)
  BY DEF Surjection
<1> HIDE DEF f, users
<1>3. IsFiniteSet(users)
  BY <1>1, <1>2, FS_Surjection
<1>4. Cardinality(users) \in Nat
  BY <1>3, FS_CardinalityType
<1>5. ~(Cardinality(users) >= MAX_LAST_RESORT_SEEN) => Cardinality(users) < MAX_LAST_RESORT_SEEN
  BY <1>4, StoreAssumption
<1> QED BY <1>3, <1>4, <1>5 DEF users, S

\* A key that is not blocked has one record entry for each of them at most.
LEMMA RecordedOnce ==
  ASSUME SInv, NEW h \in Started, taken[h].bundle.kem \in Keys(store),
         taken[h].bundle.kem.id \notin store.blocked,
         Cardinality({s.hs : s \in {x \in sessions : x.secret.kem = taken[h].bundle.kem}})
           < MAX_LAST_RESORT_SEEN
  PROVE  ~(last_resort_seen_for(store, taken[h].bundle.kem.id) >= MAX_LAST_RESORT_SEEN)
<1> DEFINE k == taken[h].bundle.kem
           users == {s.hs : s \in {x \in sessions : x.secret.kem = k}}
           entries == {e \in store.last_resort_seen : e.id = k.id}
           f == [e \in entries |-> e.fp.hs]
<1>1. /\ SoundStore(store) /\ RestartTypes /\ Backed(store, sessions)
      /\ \A s \in sessions : s.hs \in Started /\ s.secret = SecretOf(s.hs)
      /\ \A g \in Started : Names(taken[g].bundle, store)
  BY ContactNow
<1>2. k \in Keys(store) /\ k.id \notin store.blocked
  OBVIOUS
<1>3. IsFiniteSet(users) /\ Cardinality(users) \in Nat /\ Cardinality(users) < MAX_LAST_RESORT_SEEN
  BY KeyUsers
<1> HIDE DEF k
<1>4. ASSUME NEW e \in entries
      PROVE  e.fp.hs \in users /\ e.fp = SecretOf(e.fp.hs)
  <2>1. PICK s \in sessions : s.secret = e.fp /\ e.fp.kem.id = e.id
    BY <1>1, <1>2 DEF Backed
  <2>2. e.fp = SecretOf(s.hs) /\ e.fp.hs = s.hs /\ s.secret.kem = taken[s.hs].bundle.kem
    BY <1>1, <2>1, SecretFields
  <2>3. taken[s.hs].bundle.kem \in BundleKeys(taken[s.hs].bundle)
    BY <1>1, BundleTyped
  <2>4. taken[s.hs].bundle.kem.id = k.id
    BY <2>1, <2>2
  <2>5. taken[s.hs].bundle.kem = k
    BY <1>1, <1>2, <2>3, <2>4 DEF Names
  <2> QED BY <2>2, <2>5
<1>5. \A e, g \in entries : e.fp.hs = g.fp.hs => e = g
  BY <1>1, <1>4 DEF SoundStore, RecordSound
<1> HIDE DEF entries, users
<1>6. f \in Injection(entries, users)
  BY <1>4, <1>5 DEF Injection, IsInjective
<1> HIDE DEF f
<1>7. IsFiniteSet(entries) /\ Cardinality(entries) <= Cardinality(users)
  BY <1>3, <1>6, FS_Injection
<1>8. Cardinality(entries) \in Nat
  BY <1>7, FS_CardinalityType
<1>9. ~(Cardinality(entries) >= MAX_LAST_RESORT_SEEN)
  BY <1>3, <1>7, <1>8, StoreAssumption
<1> QED BY <1>9 DEF last_resort_seen_for, entries, k

\* Once its keys are found, a message of a handshake without a session is accepted.
LEMMA FoundIsAccepted ==
  ASSUME SInv, NEW h \in Started, NEW n, SessionsOf(h, sessions) = {},
         ~UsedUp(taken[h].bundle.kem),
         taken[h].bundle.signed \in {store.signed, store.previous_signed},
         \/ taken[h].bundle.one_time = None
         \/ taken[h].bundle.one_time \in Elements(store.one_time),
         \/ taken[h].bundle.kem \in {store.kem, store.previous_kem}
         \/ taken[h].bundle.kem \in Elements(store.kem_one_time)
  PROVE  Refusal(store, Initial(h, taken[h].bundle, n)) = "None"
<1> DEFINE b == taken[h].bundle
           m == Initial(h, b, n)
           sk == SecretOf(h)
<1>1. /\ SoundStore(store) /\ RestartTypes /\ RecordNamed(store) /\ Backed(store, sessions)
      /\ \A s \in sessions : s.hs \in Started /\ s.secret = SecretOf(s.hs)
      /\ \A g \in Started : Names(taken[g].bundle, store)
  BY ContactNow
<1>2. /\ b.signed # None /\ b.kem # None
      /\ b.signed \in BundleKeys(b) /\ b.kem \in BundleKeys(b)
      /\ b.one_time # None => b.one_time \in BundleKeys(b)
  BY <1>1, BundleTyped
<1>3. \A k \in BundleKeys(b) : \A x \in Keys(store) : x.id = k.id => x = k
  BY <1>1 DEF Names
<1>4. /\ m.hs = h /\ m.signed_id = b.signed.id /\ m.kem_id = b.kem.id
      /\ m.one_time_id = IF b.one_time = None THEN ABSENT_ID ELSE b.one_time.id
      /\ m.secret = sk
  BY DEF Initial, SecretOf
<1>5. sk.hs = h /\ sk = Secret(h, b.signed, b.one_time, b.kem)
  BY DEF SecretOf, Secret
<1>6. /\ b.signed \in {store.signed, store.previous_signed}
      /\ b.one_time # None => b.one_time \in Elements(store.one_time)
      /\ b.kem \in {store.kem, store.previous_kem} \/ b.kem \in Elements(store.kem_one_time)
  OBVIOUS
<1> HIDE DEF m, sk, b
<1>7. b.kem \in Keys(store) /\ (b.one_time # None => b.one_time \in Keys(store) /\ b.one_time.id # ABSENT_ID)
  <2>1. b.kem \in Keys(store) /\ (b.one_time # None => b.one_time \in Keys(store))
    BY <1>2, <1>6 DEF Keys, Multi
  <2> QED BY <1>1, <2>1, KeysIssued DEF ABSENT_ID
<1>8. Named(store.signed, store.previous_signed, m.signed_id) = {b.signed}
  BY <1>2, <1>3, <1>4, <1>6 DEF Named, Keys, Multi
<1>9. m.one_time_id # ABSENT_ID => Find(store.one_time, m.one_time_id) = {b.one_time}
  <2> SUFFICES ASSUME b.one_time # None PROVE Find(store.one_time, b.one_time.id) = {b.one_time}
    BY <1>4
  <2>1. Find(store.one_time, b.one_time.id) # {}
    BY <1>6 DEF Find, Elements
  <2>2. \A k \in Find(store.one_time, b.one_time.id) : k \in Keys(store) /\ k.id = b.one_time.id
    BY <1>1, StoreTyped, FindIsElement DEF Keys
  <2> QED BY <1>2, <1>3, <2>1, <2>2
<1>10. (m.one_time_id = ABSENT_ID <=> b.one_time = None)
  BY <1>4, <1>7
<1>11. CASE b.kem \in Elements(store.kem_one_time)
  <2>1. ~IsLastResort(store, m.kem_id)
    <3>1. b.kem.id \notin LastResortIds(store)
      BY <1>1, <1>11, KemsApart
    <3> QED BY <1>4, <3>1 DEF IsLastResort, Named, LastResortIds
  <2>2. Find(store.kem_one_time, m.kem_id) = {b.kem}
    <3>1. Find(store.kem_one_time, b.kem.id) # {}
      BY <1>11 DEF Find, Elements
    <3>2. \A k \in Find(store.kem_one_time, b.kem.id) : k \in Keys(store) /\ k.id = b.kem.id
      BY <1>1, StoreTyped, FindIsElement DEF Keys
    <3> QED BY <1>2, <1>3, <1>4, <3>1, <3>2
  <2>3. Found(store, m)
    BY <1>8, <1>9, <2>1, <2>2 DEF Found
  <2>4. responder_shared_secret(store, m) = sk
    BY <1>4, <1>5, <1>8, <1>9, <1>10, <2>1, <2>2 DEF responder_shared_secret, IsLastResort
  <2>5. Refusal(store, m) = "None"
    BY <1>4, <2>1, <2>3, <2>4 DEF Refusal
  <2> QED BY <2>5 DEF m, b
<1>12. CASE b.kem \in {store.kem, store.previous_kem}
  <2>1. Named(store.kem, store.previous_kem, m.kem_id) = {b.kem} /\ IsLastResort(store, m.kem_id)
    BY <1>2, <1>3, <1>4, <1>12 DEF Named, Keys, Multi, IsLastResort
  <2>2. /\ b.kem.id \notin store.blocked
        /\ Cardinality({s.hs : s \in {x \in sessions : x.secret.kem = b.kem}}) < MAX_LAST_RESORT_SEEN
    BY <1>4, <2>1, KeyUsers DEF UsedUp, b
  <2>3. Found(store, m)
    BY <1>4, <1>8, <1>9, <2>1, <2>2 DEF Found
  <2>4. responder_shared_secret(store, m) = sk
    BY <1>4, <1>5, <1>8, <1>9, <1>10, <2>1 DEF responder_shared_secret
  <2>5. ~Replayed(store, sk)
    <3> SUFFICES ASSUME NEW e \in store.last_resort_seen, e.fp = sk PROVE FALSE
      BY DEF Replayed
    <3>1. e.id = b.kem.id
      BY <1>1 DEF RecordNamed, sk, b
    <3>2. PICK s \in sessions : s.secret = sk
      BY <1>1, <2>2, <3>1 DEF Backed
    <3>3. s.hs = h
      BY <1>1, <1>5, <3>2, SecretFields
    <3> QED BY <3>3 DEF SessionsOf
  <2>6. ~(last_resort_seen_for(store, m.kem_id) >= MAX_LAST_RESORT_SEEN)
    BY <1>1, <1>4, <1>7, <2>2, RecordedOnce DEF b
  <2>7. Refusal(store, m) = "None"
    BY <1>4, <2>3, <2>4, <2>5, <2>6 DEF Refusal
  <2> QED BY <2>7 DEF m, b
<1> QED BY <1>6, <1>11, <1>12

LEMMA ContactsMade == SInv => ExactlyOneSession
<1> SUFFICES ASSUME SInv PROVE ExactlyOneSession
  OBVIOUS
<1>1. /\ RestartTypes /\ SoundStore(store)
      /\ \A h \in Started : Few(h, sessions, torn[h], Spent(h, store))
      /\ \A s \in sessions : s.hs \in Started
      /\ Kept(store, sessions, turns) /\ turns \in [signed : Nat, kem : Nat]
      /\ \A h \in Started : Names(taken[h].bundle, store)
  BY ContactNow
<1>2. OneSession
  <2> SUFFICES ASSUME NEW h \in DOMAIN taken PROVE Cardinality(SessionsOf(h, sessions)) <= 1 + torn[h]
    BY DEF OneSession
  <2>1. torn[h] \in Nat
    BY <1>1 DEF RestartTypes
  <2>2. IsFiniteSet(SessionsOf(h, sessions))
    BY <1>1, FS_Subset DEF RestartTypes, SessionsOf
  <2>3. Cardinality(SessionsOf(h, sessions)) \in Nat
    BY <2>2, FS_CardinalityType
  <2>4. CASE h \in Started
    BY <1>1, <2>1, <2>3, <2>4 DEF Few
  <2>5. CASE h \notin Started
    <3>1. SessionsOf(h, sessions) = {}
      BY <1>1, <2>5 DEF SessionsOf
    <3> QED BY <2>1, <3>1, FS_EmptySet
  <2> QED BY <2>4, <2>5
<1>3. FirstContact
  <2> SUFFICES ASSUME NEW h \in Started, InGrace(h), ~Contended(h), ~UsedUp(taken[h].bundle.kem),
                      SessionsOf(h, sessions) = {}, NEW n \in 1..MaxMessages
               PROVE  Refusal(store, Initial(h, taken[h].bundle, n)) = "None"
    BY DEF FirstContact
  <2> DEFINE b == taken[h].bundle
             at == taken[h].turns
  <2>1. /\ \A s \in sessions : s.hs \in Started \ {h}
        /\ KeysKept(h, store, sessions, turns)
    BY <1>1 DEF Kept, SessionsOf
  <2>2. /\ at.signed \in Nat /\ at.kem \in Nat /\ turns.signed \in Nat /\ turns.kem \in Nat
        /\ ~(turns.signed >= at.signed + 2) /\ ~(turns.kem >= at.kem + 2)
    BY <1>1, BundleTyped DEF InGrace
  <2>3. b.signed \in {store.signed, store.previous_signed}
    BY <2>1, <2>2 DEF KeysKept, InTurn
  <2>4. b.one_time = None \/ b.one_time \in Elements(store.one_time)
    BY <2>1 DEF KeysKept, Contended
  <2>5. b.kem \in {store.kem, store.previous_kem} \/ b.kem \in Elements(store.kem_one_time)
    <3>1. CASE /\ b.kem \notin {store.kem, store.previous_kem}
               /\ \E s \in sessions : taken[s.hs].bundle.kem = b.kem
      <4>1. IsLastResort(store, b.kem.id)
        BY <2>1, <3>1 DEF Contended
      <4>2. PICK k \in {store.kem, store.previous_kem} \ {None} : k.id = b.kem.id
        BY <4>1 DEF IsLastResort, Named
      <4>3. k \in Keys(store) /\ b.kem \in BundleKeys(b)
        BY <1>1, <4>2, BundleTyped DEF Keys, Multi
      <4>4. k = b.kem
        BY <1>1, <4>2, <4>3 DEF Names
      <4> QED BY <3>1, <4>2, <4>4
    <3>2. CASE \/ b.kem \in Elements(store.kem_one_time)
               \/ InTurn(b.kem, at.kem, store.kem, store.previous_kem, turns.kem)
      BY <2>2, <3>2 DEF InTurn
    <3> QED BY <2>1, <3>1, <3>2 DEF KeysKept
  <2> QED BY <2>3, <2>4, <2>5, FoundIsAccepted
<1> QED BY <1>2, <1>3 DEF ExactlyOneSession

\* A handshake opens one session and one more for each crash that tore its own save,
\* however its messages are repeated, altered and reordered; and while its bundle is
\* at most one rotation old, no other handshake has its one-time keys, and its
\* last-resort key has budget, it has a session or any of its messages opens one.
THEOREM OneSessionEach == Spec => []ExactlyOneSession
BY InitContacts, NextContacts, ContactsMade, PTL DEF Spec
=============================================================================
