------------------------ MODULE DoubleRatchetProofs ------------------------
(***************************************************************************)
(* Proofs about module DoubleRatchet, for every value of its constants:    *)
(* the type invariant, that both parties' states always satisfy the        *)
(* predicate a stored state is restored against, that no message key seals *)
(* twice or opens twice, that no state derives a key that was used, that a *)
(* genuine message decrypts, that eviction makes exactly the room that a   *)
(* message needs, and that the reader's ratchet does the same (module      *)
(* ReaderAgrees).                                                          *)
(*                                                                         *)
(* The operations of the ratchet are covered by one lemma each: on a state *)
(* that satisfies the predicate (SoundState) they return one that does.    *)
(* The theorems put the lemmas together over the actions.                  *)
(***************************************************************************)
EXTENDS ReaderAgrees, TLAPS, FiniteSetTheorems, WellFoundedInduction

\* A ratchet state of the right type that from_bytes accepts.
SoundState(s) ==
  /\ s \in RatchetState
  /\ IsFiniteSet(s.skipped)
  /\ invariant(s)

-----------------------------------------------------------------------------
(* The skipped-key store *)

\* Deleting any of the stored keys, as age_store, evict_oldest, try_skipped and
\* purge_chain_range do, leaves a sound state sound.
LEMMA FewerKeys ==
  ASSUME NEW s, SoundState(s), NEW T \in SUBSET s.skipped
  PROVE  /\ SoundState([s EXCEPT !.skipped = T])
         /\ Cardinality(T) \in Nat
         /\ Cardinality(T) <= Cardinality(s.skipped)
<1> DEFINE t == [s EXCEPT !.skipped = T]
<1>1. IsFiniteSet(T) /\ Cardinality(T) <= Cardinality(s.skipped)
  BY FS_Subset DEF SoundState
<1>2. Cardinality(T) \in Nat /\ Cardinality(s.skipped) \in Nat
  BY <1>1, FS_CardinalityType DEF SoundState
<1>3. t \in RatchetState
  BY DEF SoundState, RatchetState
<1>4. /\ t.skipped = T /\ t.events = s.events /\ t.ckr = s.ckr
      /\ t.cks = s.cks /\ t.dhr_pub = s.dhr_pub
  BY DEF SoundState, RatchetState
<1>5. invariant(t)
  BY <1>1, <1>2, <1>4, BoundsAssumption
  DEF SoundState, invariant, StoreBounded, StoreIsMap, StoreNotAhead, ClockBelowCeiling, ChainsOpenInOrder
<1> QED BY <1>1, <1>2, <1>3, <1>4, <1>5 DEF SoundState

\* The keys skip_message_keys derives are at most as many as the numbers they
\* are for, and each is a well-formed entry for one of those numbers.
LEMMA DerivedEntriesBound ==
  ASSUME NEW ck \in ChainKey, NEW dhr \in KeyPair, NEW from \in U32, NEW upto \in U32,
         NEW now \in U32, NEW first \in Nat, from < upto
  PROVE  LET D == DerivedEntries(ck, dhr, from, upto, now, first)
         IN  /\ D \subseteq Entry
             /\ IsFiniteSet(D)
             /\ Cardinality(D) \in Nat
             /\ Cardinality(D) <= upto - from
             /\ \A e \in D : e.dh = dhr /\ from <= e.n /\ e.n < upto /\ e.stored_at = now
             /\ \A e, f \in D : e.n = f.n => e = f
<1> DEFINE D == DerivedEntries(ck, dhr, from, upto, now, first)
           I == from..(upto - 1)
           rec(i) == [dh |-> dhr, n |-> i, stored_at |-> now,
                      key |-> ChainAfter(ck, i - from), pos |-> first + (i - from)]
           f == [i \in I |-> rec(i)]
<1>0. from \in Nat /\ upto \in Nat /\ U32_MAX \in Nat
  BY BoundsAssumption DEF U32
<1>1. D = {rec(i) : i \in I}
  BY DEF DerivedEntries
<1>2. IsFiniteSet(I) /\ Cardinality(I) = upto - from
  <2>1. from \in Int /\ upto - 1 \in Int /\ ~(from > upto - 1)
    BY <1>0
  <2>2. IsFiniteSet(I) /\ Cardinality(I) = (upto - 1) - from + 1
    BY <2>1, FS_Interval
  <2> QED BY <2>2, <1>0
<1>3. f \in Surjection(I, D)
  BY <1>1 DEF Surjection
<1>4. IsFiniteSet(D) /\ Cardinality(D) <= Cardinality(I)
  BY <1>2, <1>3, FS_Surjection
<1>5. Cardinality(D) \in Nat
  BY <1>4, FS_CardinalityType
<1>6. ASSUME NEW i \in I PROVE rec(i) \in Entry
  <2>1. i \in U32 /\ i - from \in Nat /\ first + (i - from) \in Nat
    BY <1>0 DEF U32
  <2>2. ChainAfter(ck, i - from) \in ChainKey
    BY <2>1 DEF ChainAfter, ChainKey
  <2> QED BY <2>1, <2>2 DEF Entry
<1>7. D \subseteq Entry
  BY <1>1, <1>6
<1>8. \A e \in D : e.dh = dhr /\ from <= e.n /\ e.n < upto /\ e.stored_at = now
  BY <1>0, <1>1
<1>9. \A e, g \in D : e.n = g.n => e = g
  BY <1>1
<1> QED BY <1>2, <1>4, <1>5, <1>7, <1>8, <1>9

\* skip_message_keys that does not refuse keeps a state sound, and moves only the
\* receiving chain and the store.
LEMMA SkipIsSound ==
  ASSUME NEW s, SoundState(s), NEW upto \in U32, skip_message_keys(s, upto).ok
  PROVE  LET t == skip_message_keys(s, upto).state
         IN  SoundState(t) /\ t.dhs_pub = s.dhs_pub
<1> DEFINE r == skip_message_keys(s, upto)
           t == r.state
           count == upto - s.nr
           kept == purge_chain_range(s.skipped, s.dhr_pub, s.nr, upto)
           D == DerivedEntries(s.ckr, s.dhr_pub, s.nr, upto, s.events, s.pushed)
<1>1. CASE s.ckr = None \/ s.dhr_pub = None \/ upto <= s.nr
  BY <1>1 DEF skip_message_keys, Ok
<1>2. CASE ~(s.ckr = None \/ s.dhr_pub = None \/ upto <= s.nr)
  <2>1. /\ s \in RatchetState /\ s.ckr \in ChainKey /\ s.cks \in ChainKey \cup {None}
        /\ s.dhr_pub \in KeyPair /\ s.nr \in U32 /\ s.events \in U32 /\ s.pushed \in Nat
        /\ s.skipped \subseteq Entry
    BY <1>2 DEF SoundState, RatchetState
  <2>2. s.nr \in Nat /\ upto \in Nat /\ s.nr < upto /\ count \in Nat /\ U32_MAX \in Nat
    BY <1>2, <2>1, BoundsAssumption DEF U32
  <2>3. ~(upto > SkipLimit(s.nr)) /\ HasRoom(kept, count)
    BY <1>2 DEF skip_message_keys, Err
  <2>4. t = [s EXCEPT !.ckr = ChainAfter(@, count), !.nr = upto,
                      !.pushed = @ + count, !.skipped = kept \cup D]
    BY <1>2, <2>3 DEF skip_message_keys, Ok
  <2>5. kept \in SUBSET s.skipped
    BY DEF purge_chain_range
  <2>6. /\ D \subseteq Entry /\ IsFiniteSet(D) /\ Cardinality(D) \in Nat
        /\ Cardinality(D) <= count
        /\ \A e \in D : e.dh = s.dhr_pub /\ s.nr <= e.n /\ e.n < upto /\ e.stored_at = s.events
        /\ \A e, f \in D : e.n = f.n => e = f
    BY <2>1, <2>2, DerivedEntriesBound, ZenonT(40)
  <2>7. IsFiniteSet(kept) /\ Cardinality(kept) \in Nat
    BY <2>5, FewerKeys, FS_Subset DEF SoundState
  <2>8. IsFiniteSet(kept \cup D) /\ Cardinality(kept \cup D) <= MAX_SKIPPED_STORE
    <3>1. /\ IsFiniteSet(kept \cup D)
          /\ Cardinality(kept \cup D) = Cardinality(kept) + Cardinality(D) - Cardinality(kept \cap D)
      BY <2>6, <2>7, FS_Union
    <3>2. Cardinality(kept \cap D) \in Nat
      BY <2>7, FS_Subset, FS_CardinalityType
    <3> QED BY <2>2, <2>3, <2>6, <2>7, <3>1, <3>2, BoundsAssumption DEF HasRoom
  <2>9. ChainAfter(s.ckr, count) \in ChainKey
    BY <2>1, <2>2 DEF ChainAfter, ChainKey
  <2>10. t \in RatchetState
    <3>1. kept \cup D \in SUBSET Entry /\ s.pushed + count \in Nat
      BY <2>1, <2>2, <2>5, <2>6
    <3> HIDE DEF kept, D, count, t
    <3> QED BY <2>1, <2>4, <2>9, <3>1 DEF RatchetState
  <2>11. /\ t.skipped = kept \cup D /\ t.events = s.events /\ t.dhr_pub = s.dhr_pub
         /\ t.cks = s.cks /\ t.dhs_pub = s.dhs_pub
    BY <2>1, <2>4 DEF RatchetState
  <2>12. \A e, f \in kept \cup D : e.dh = f.dh /\ e.n = f.n => e = f
    <3>1. \A e \in kept : ~(e.dh = s.dhr_pub /\ e.n >= s.nr /\ e.n < upto)
      BY DEF purge_chain_range
    <3>2. \A e, f \in kept : e.dh = f.dh /\ e.n = f.n => e = f
      BY <2>5 DEF SoundState, invariant, StoreIsMap
    <3>3. \A e \in D : e.n \in Nat
      BY <2>6, <2>2 DEF Entry, U32
    <3> QED BY <2>6, <2>2, <3>1, <3>2, <3>3
  <2>13. \A e \in kept \cup D : e.stored_at <= s.events
    BY <2>1, <2>5, <2>6 DEF SoundState, invariant, StoreNotAhead, U32
  <2>14. invariant(t)
    BY <2>8, <2>11, <2>12, <2>13, <1>2
    DEF SoundState, invariant, StoreBounded, StoreIsMap, StoreNotAhead, ClockBelowCeiling, ChainsOpenInOrder
  <2> QED BY <2>8, <2>10, <2>11, <2>14 DEF SoundState
<1> QED BY <1>1, <1>2

\* Counting an accepted receive keeps a state sound: the clock stays below its
\* ceiling and never runs backwards, so no stamp is ahead of it.
LEMMA AgeIsSound ==
  ASSUME NEW s, SoundState(s)
  PROVE  SoundState(age_store(s)) /\ age_store(s).dhs_pub = s.dhs_pub
<1> DEFINE stepped == saturating_add(s.events, 1)
           now == IF stepped = U32_MAX THEN MAX_EVENTS ELSE stepped
           T == {e \in s.skipped : now - e.stored_at < MAX_SKIPPED_AGE}
           t == [s EXCEPT !.skipped = T]
<1>1. SoundState(t)
  BY FewerKeys
<1>2. s.events \in Nat /\ s.events < U32_MAX /\ U32_MAX \in Nat
  BY BoundsAssumption DEF SoundState, RatchetState, U32, invariant, ClockBelowCeiling
<1>3. now \in Nat /\ s.events <= now /\ now < U32_MAX
  BY <1>2 DEF saturating_add, MAX_EVENTS
<1>4. age_store(s) = [t EXCEPT !.events = now]
  BY DEF age_store, SoundState, RatchetState
<1>5. [t EXCEPT !.events = now] \in RatchetState
  <2>1. now \in U32 /\ t \in RatchetState
    BY <1>1, <1>2, <1>3 DEF SoundState, U32
  <2> HIDE DEF t, now
  <2> QED BY <2>1 DEF RatchetState
<1>6. \A e \in t.skipped : e.stored_at \in Nat
  BY <1>1, BoundsAssumption DEF SoundState, RatchetState, Entry, U32
<1>7. t.events = s.events /\ t.dhs_pub = s.dhs_pub
  BY DEF SoundState, RatchetState
<1> HIDE DEF t, now, stepped, T
<1> DEFINE u == [t EXCEPT !.events = now]
<1>8. /\ u.skipped = t.skipped /\ u.events = now /\ u.ckr = t.ckr /\ u.cks = t.cks
      /\ u.dhr_pub = t.dhr_pub /\ u.dhs_pub = t.dhs_pub
  BY <1>1 DEF SoundState, RatchetState
<1> HIDE DEF u
<1>9. invariant(u)
  BY <1>1, <1>2, <1>3, <1>6, <1>7, <1>8
  DEF SoundState, invariant, StoreBounded, StoreIsMap, StoreNotAhead, ClockBelowCeiling, ChainsOpenInOrder
<1> QED BY <1>1, <1>4, <1>5, <1>7, <1>8, <1>9 DEF SoundState, u

-----------------------------------------------------------------------------
(* Receiving *)

\* A ratchet step opens both chains under keys that are present, and keeps the
\* store.
LEMMA DhRatchetIsSound ==
  ASSUME NEW s, SoundState(s), NEW h \in Header, NEW dr \in SUBSET KeyPair,
         NEW ds \in SUBSET KeyPair, NEW new \in KeyPair
  PROVE  /\ SoundState(dh_ratchet(s, h, dr, ds, new))
         /\ dh_ratchet(s, h, dr, ds, new).dhs_pub = new
<1> DEFINE recv == kdf_rk(s.rk, dr)
           sends == kdf_rk(recv[1], ds)
           t == dh_ratchet(s, h, dr, ds, new)
<1>0. s \in RatchetState /\ s.rk \in Root /\ s.ns \in U32 /\ h.dh \in KeyPair /\ 0 \in U32
  BY BoundsAssumption DEF SoundState, RatchetState, Header, U32
<1>1. recv[1] \in Root /\ recv[2] \in ChainKey
  BY <1>0 DEF kdf_rk, ChainStart, ChainKey, Root
<1>2. sends[1] \in Root /\ sends[2] \in ChainKey
  BY <1>1 DEF kdf_rk, ChainStart, ChainKey, Root
<1>3. t = [s EXCEPT !.pn = s.ns, !.ns = 0, !.nr = 0, !.dhr_pub = h.dh, !.rk = sends[1],
                    !.ckr = recv[2], !.cks = sends[2], !.dhs_pub = new]
  BY DEF dh_ratchet
<1> HIDE DEF recv, sends, t
<1>4. t \in RatchetState
  BY <1>0, <1>1, <1>2, <1>3 DEF RatchetState
<1>5. /\ t.skipped = s.skipped /\ t.events = s.events /\ t.ckr = recv[2] /\ t.cks = sends[2]
      /\ t.dhr_pub = h.dh /\ t.dhs_pub = new
  BY <1>0, <1>3 DEF RatchetState
<1>6. invariant(t)
  BY <1>0, <1>1, <1>2, <1>5, NoneAssumption
  DEF SoundState, invariant, StoreBounded, StoreIsMap, StoreNotAhead, ClockBelowCeiling, ChainsOpenInOrder
<1> QED BY <1>4, <1>5, <1>6 DEF SoundState, t

\* Taking a key from the current receiving chain keeps a state sound.
LEMMA ReceiveOnChainIsSound ==
  ASSUME NEW s, SoundState(s), NEW h \in Header, ReceiveOnChain(s, h).ok
  PROVE  LET t == ReceiveOnChain(s, h).state
         IN  SoundState(t) /\ t.dhs_pub = s.dhs_pub
<1> DEFINE skip == skip_message_keys(s, h.n)
           cur == skip.state
           next == [cur EXCEPT !.ckr = kdf_ck(@)[1], !.nr = @ + 1]
<1>1. h.n \in U32
  BY DEF Header
<1>2. skip.ok
  BY DEF ReceiveOnChain
<1>3. ~(h.n < cur.nr) /\ cur.ckr # None /\ cur.nr # U32_MAX
  BY <1>2 DEF ReceiveOnChain, Err
<1>4. ReceiveOnChain(s, h).state = age_store(next)
  BY <1>2, <1>3 DEF ReceiveOnChain, Ok
<1>5. SoundState(cur) /\ cur.dhs_pub = s.dhs_pub
  BY <1>1, <1>2, SkipIsSound
<1> HIDE DEF skip, cur
<1>6. SoundState(next) /\ next.dhs_pub = cur.dhs_pub
  <2>1. cur \in RatchetState /\ cur.ckr \in ChainKey /\ cur.nr \in U32 /\ cur.nr + 1 \in U32
    BY <1>3, <1>5, BoundsAssumption DEF SoundState, RatchetState, U32
  <2>2. kdf_ck(cur.ckr)[1] \in ChainKey
    BY <2>1 DEF kdf_ck, ChainKey
  <2>3. next \in RatchetState
    BY <2>1, <2>2 DEF RatchetState
  <2>4. /\ next.skipped = cur.skipped /\ next.events = cur.events
        /\ next.ckr = kdf_ck(cur.ckr)[1] /\ next.cks = cur.cks
        /\ next.dhr_pub = cur.dhr_pub /\ next.dhs_pub = cur.dhs_pub
    BY <2>1 DEF RatchetState
  <2> HIDE DEF next
  <2>5. invariant(next)
    BY <1>3, <1>5, <2>4
    DEF SoundState, invariant, StoreBounded, StoreIsMap, StoreNotAhead, ClockBelowCeiling, ChainsOpenInOrder
  <2> QED BY <1>5, <2>3, <2>4, <2>5 DEF SoundState
<1> HIDE DEF next
<1> QED BY <1>4, <1>5, <1>6, AgeIsSound

\* A receive that finds a key keeps a state sound, and the public key it leaves
\* is the old one or the new one it was given.
LEMMA ReceiveIsSound ==
  ASSUME NEW s, SoundState(s), NEW h \in Header, NEW dr \in SUBSET KeyPair,
         NEW ds \in SUBSET KeyPair, NEW new \in KeyPair, receive(s, h, dr, ds, new).ok
  PROVE  LET t == receive(s, h, dr, ds, new).state
         IN  SoundState(t) /\ t.dhs_pub \in {s.dhs_pub, new}
<1>1. CASE Matches(s, h) # {}
  <2> DEFINE T == s.skipped \ {FirstMatch(s, h)}
             u == [s EXCEPT !.skipped = T]
  <2>1. receive(s, h, dr, ds, new).state = age_store(u)
    BY <1>1 DEF receive, TakeSkipped, Ok
  <2>2. SoundState(u)
    BY FewerKeys
  <2>3. u.dhs_pub = s.dhs_pub
    BY DEF SoundState, RatchetState
  <2> QED BY <2>1, <2>2, <2>3, AgeIsSound
<1>2. CASE Matches(s, h) = {} /\ (s.dhr_pub = None \/ s.dhr_pub # h.dh)
  <2> DEFINE skip == skip_message_keys(s, h.pn)
             u == dh_ratchet(skip.state, h, dr, ds, new)
  <2>1. skip.ok
    BY <1>2 DEF receive
  <2>2. receive(s, h, dr, ds, new) = ReceiveOnChain(u, h)
    BY <1>2, <2>1 DEF receive
  <2>3. SoundState(skip.state)
    BY <2>1, SkipIsSound DEF Header
  <2>4. SoundState(u) /\ u.dhs_pub = new
    BY <2>3, DhRatchetIsSound
  <2> HIDE DEF u
  <2> QED BY <2>2, <2>4, ReceiveOnChainIsSound
<1>3. CASE Matches(s, h) = {} /\ ~(s.dhr_pub = None \/ s.dhr_pub # h.dh)
  <2>1. receive(s, h, dr, ds, new) = ReceiveOnChain(s, h)
    BY <1>3 DEF receive
  <2> QED BY <2>1, ReceiveOnChainIsSound
<1> QED BY <1>1, <1>2, <1>3

\* Evicting first changes nothing about that.
LEMMA ReceiveWithEvictionIsSound ==
  ASSUME NEW s, SoundState(s), NEW h \in Header, NEW dr \in SUBSET KeyPair,
         NEW ds \in SUBSET KeyPair, NEW new \in KeyPair,
         receive_with_eviction(s, h, dr, ds, new).ok
  PROVE  LET t == receive_with_eviction(s, h, dr, ds, new).state
         IN  SoundState(t) /\ t.dhs_pub \in {s.dhs_pub, new}
<1>1. PICK u : /\ SoundState(u) /\ u.dhs_pub = s.dhs_pub
               /\ receive_with_eviction(s, h, dr, ds, new) = receive(u, h, dr, ds, new)
  <2>1. \A k : LET u == evict_oldest(s, k) IN SoundState(u) /\ u.dhs_pub = s.dhs_pub
    <3> TAKE k
    <3> DEFINE T == {e \in s.skipped : Cardinality({f \in s.skipped : Older(f, e)}) >= k}
    <3>1. evict_oldest(s, k) = [s EXCEPT !.skipped = T]
      BY DEF evict_oldest
    <3>2. T \in SUBSET s.skipped
      OBVIOUS
    <3> HIDE DEF T
    <3>3. [s EXCEPT !.skipped = T].dhs_pub = s.dhs_pub
      BY DEF SoundState, RatchetState
    <3> QED BY <3>1, <3>2, <3>3, FewerKeys
  <2>2. \/ receive_with_eviction(s, h, dr, ds, new) = receive(s, h, dr, ds, new)
        \/ \E k : receive_with_eviction(s, h, dr, ds, new)
                   = receive(evict_oldest(s, EvictedAfter(s, h, k)), h, dr, ds, new)
    BY DEF receive_with_eviction
  <2> QED BY <2>1, <2>2
<1> QED BY <1>1, ReceiveIsSound

-----------------------------------------------------------------------------
(* The inductive invariant *)

\* Every message in the network is as its sender sealed it.
Sealed == \A p \in Party : \A m \in sent[p] : m.ad = m.hdr

\* TypeOK and Restorable are inductive once the stores are known to be finite
\* (Cardinality bounds nothing otherwise) and the messages sealed (an altered
\* header is told from a genuine one by its associated data).
IInv ==
  /\ TypeOK
  /\ Restorable
  /\ Sealed
  /\ \A p \in Party : IsFiniteSet(state[p].skipped)

\* What the invariant says of one party's state is what the lemmas above need.
LEMMA StatesAreSound ==
  ASSUME IInv, NEW p \in Party
  PROVE  SoundState(state[p]) /\ ratchet_private[p] = state[p].dhs_pub
BY DEF IInv, TypeOK, Restorable, SoundState

\* init_sender and init_receiver establish the invariant.
LEMMA InitIsInductive == Init => IInv
<1> SUFFICES ASSUME Init PROVE IInv
  OBVIOUS
<1> DEFINE a == <<Initiator, 0>>
           b == <<Responder, 0>>
           si == init_sender(SharedSecret, a, b, DH(a, b))
           sr == init_receiver(SharedSecret, b)
<1>1. a \in KeyPair /\ b \in KeyPair /\ DH(a, b) \in SUBSET KeyPair /\ 0 \in U32
  BY BoundsAssumption DEF KeyPair, Party, DH, U32
<1>2. SharedSecret \in Root /\ Append(SharedSecret, DH(a, b)) \in Root
  <2> DEFINE S == SUBSET KeyPair
             d == DH(a, b)
  <2>1. d \in S
    BY <1>1
  <2> HIDE DEF S, d
  <2>2. << >> \in Seq(S) /\ Append(<< >>, d) \in Seq(S)
    <3>1. << >> \in Seq(S)
      OBVIOUS
    <3> QED BY <2>1, <3>1
  <2> QED BY <2>2 DEF SharedSecret, Root, S, d
<1>3. ChainStart(Append(SharedSecret, DH(a, b))) \in ChainKey
  BY <1>2 DEF ChainStart, ChainKey
<1> HIDE DEF a, b
<1>4. IsFiniteSet({}) /\ Cardinality({}) = 0
  BY FS_EmptySet
<1>5. SoundState(si) /\ si.dhs_pub = a
  <2>1. si \in RatchetState
    BY <1>1, <1>2, <1>3 DEF init_sender, kdf_rk, RatchetState
  <2>2. invariant(si)
    BY <1>1, <1>4, BoundsAssumption
    DEF init_sender, invariant, StoreBounded, StoreIsMap, StoreNotAhead, ClockBelowCeiling, ChainsOpenInOrder
  <2> QED BY <1>4, <2>1, <2>2 DEF SoundState, init_sender
<1>6. SoundState(sr) /\ sr.dhs_pub = b
  <2>1. sr \in RatchetState
    BY <1>1, <1>2 DEF init_receiver, RatchetState
  <2>2. invariant(sr)
    BY <1>4, BoundsAssumption
    DEF init_receiver, invariant, StoreBounded, StoreIsMap, StoreNotAhead, ClockBelowCeiling, ChainsOpenInOrder
  <2> QED BY <1>4, <2>1, <2>2 DEF SoundState, init_receiver
<1> HIDE DEF si, sr
<1>7. /\ state = [p \in Party |-> IF p = Initiator THEN si ELSE sr]
      /\ ratchet_private = [p \in Party |-> <<p, 0>>]
      /\ sent = [p \in Party |-> {}]
      /\ accepted = [p \in Party |-> {}]
      /\ dropped = [p \in Party |-> {}]
  BY DEF Init, si, sr, a, b
<1>8. \A p \in Party : SoundState(state[p]) /\ ratchet_private[p] = state[p].dhs_pub
  BY <1>5, <1>6, <1>7, PartyAssumption DEF Party, a, b
<1>9. TypeOK
  BY <1>7, <1>8 DEF TypeOK, SoundState, KeyPair
<1> QED BY <1>7, <1>8, <1>9 DEF IInv, Restorable, Sealed, SoundState

\* Session::encrypt preserves the invariant.
LEMMA EncryptIsInductive ==
  ASSUME IInv, NEW p \in Party, Encrypt(p)
  PROVE  IInv'
<1> DEFINE s == state[p]
           r == send(s)
           t == [s EXCEPT !.cks = kdf_ck(@)[1], !.ns = @ + 1]
           m == Seal(SendHeader(s), r.key)
<1>1. SoundState(s) /\ ratchet_private[p] = s.dhs_pub
  BY StatesAreSound
<1>2. s.cks # None /\ s.ns # U32_MAX /\ r = Ok(t, kdf_ck(s.cks)[2])
  BY DEF Encrypt, send, Err
<1>3. /\ state' = [state EXCEPT ![p] = t]
      /\ sent' = [sent EXCEPT ![p] = @ \cup {m}]
      /\ UNCHANGED <<ratchet_private, accepted, dropped>>
  BY <1>2 DEF Encrypt, Ok
<1>4. s \in RatchetState /\ s.cks \in ChainKey /\ s.ns \in U32 /\ s.ns + 1 \in U32
  BY <1>1, <1>2, BoundsAssumption DEF SoundState, RatchetState, U32
<1>5. kdf_ck(s.cks)[1] \in ChainKey /\ kdf_ck(s.cks)[2] \in ChainKey
  BY <1>4 DEF kdf_ck, ChainKey
<1>6. t \in RatchetState
  BY <1>4, <1>5 DEF RatchetState
<1>7. /\ t.skipped = s.skipped /\ t.events = s.events /\ t.ckr = s.ckr
      /\ t.cks = kdf_ck(s.cks)[1] /\ t.dhr_pub = s.dhr_pub /\ t.dhs_pub = s.dhs_pub
  BY <1>4 DEF RatchetState
<1>8. m \in Message /\ m.ad = m.hdr
  BY <1>2, <1>4, <1>5 DEF Seal, SendHeader, Message, Header, RatchetState, Ok
<1> HIDE DEF t, m, r
<1>9. SoundState(t)
  BY <1>1, <1>5, <1>6, <1>7, NoneAssumption
  DEF SoundState, invariant, StoreBounded, StoreIsMap, StoreNotAhead, ClockBelowCeiling, ChainsOpenInOrder
<1>10. TypeOK'
  BY <1>3, <1>6, <1>8 DEF IInv, TypeOK
<1>11. Restorable'
  BY <1>1, <1>3, <1>7, <1>9 DEF IInv, TypeOK, Restorable, SoundState
<1>12. Sealed'
  BY <1>3, <1>8 DEF IInv, TypeOK, Sealed
<1>13. \A q \in Party : IsFiniteSet(state'[q].skipped)
  BY <1>3, <1>9 DEF IInv, TypeOK, SoundState
<1> QED BY <1>10, <1>11, <1>12, <1>13 DEF IInv

\* A message that decrypts is one the peer sent, whatever was done to it.
LEMMA DecryptsOnlyGenuine ==
  ASSUME IInv, NEW p \in Party, NEW m \in sent[Peer(p)], NEW x \in {m} \cup Altered(p, m),
         Decrypts(p, x)
  PROVE  x = m
<1>1. m \in Message /\ m.ad = m.hdr
  BY DEF IInv, TypeOK, Sealed, Peer, Party
<1>2. x.ad = x.hdr
  BY DEF Decrypts, Opens
<1>3. CASE x \in Altered(p, m)
  <2>1. PICK h : x = [m EXCEPT !.hdr = h]
    BY <1>3 DEF Altered
  <2> QED BY <1>1, <1>2, <2>1 DEF Message
<1> QED BY <1>3

\* Session::decrypt_ratchet on a message that authenticates preserves it.
LEMMA DecryptIsInductive ==
  ASSUME IInv, NEW p \in Party, NEW m \in sent[Peer(p)], Decrypt(p, m)
  PROVE  IInv'
<1> DEFINE s == state[p]
           c == Candidate(p, m)
           t == c.state
<1>1. SoundState(s) /\ ratchet_private[p] = s.dhs_pub
  BY StatesAreSound
<1>2. Peer(p) \in Party /\ m \in Message /\ m.hdr \in Header /\ m.hdr.dh \in KeyPair
  BY DEF IInv, TypeOK, Peer, Party, Message, Header
<1>3. ratchet_private[p] \in KeyPair /\ FreshKey(p) \in KeyPair
  BY DEF IInv, TypeOK, FreshKey, KeyPair
<1>4. /\ DH(ratchet_private[p], m.hdr.dh) \in SUBSET KeyPair
      /\ DH(FreshKey(p), m.hdr.dh) \in SUBSET KeyPair
  BY <1>2, <1>3 DEF DH
<1>5. c.ok
  BY DEF Decrypt, Decrypts
<1>6. SoundState(t) /\ t.dhs_pub \in {s.dhs_pub, FreshKey(p)}
  BY <1>1, <1>2, <1>3, <1>4, <1>5, ReceiveWithEvictionIsSound DEF Candidate
<1> HIDE DEF c, t
<1>7. /\ state' = [state EXCEPT ![p] = t]
      /\ ratchet_private' = [ratchet_private EXCEPT ![p] =
                               IF t.dhs_pub # s.dhs_pub THEN FreshKey(p) ELSE @]
      /\ accepted' = [accepted EXCEPT ![p] = @ \cup {m}]
      /\ UNCHANGED sent
  BY DEF Decrypt, c, t
<1>8. dropped' \in [Party -> SUBSET ChainKey]
  <2>1. {e.key : e \in s.skipped} \in SUBSET ChainKey
    BY <1>1 DEF SoundState, RatchetState, Entry
  <2>2. PICK K : K \in SUBSET {e.key : e \in s.skipped} /\ dropped' = [dropped EXCEPT ![p] = @ \cup K]
    BY DEF Decrypt
  <2> QED BY <2>1, <2>2 DEF IInv, TypeOK
<1>9. TypeOK'
  BY <1>2, <1>3, <1>6, <1>7, <1>8 DEF IInv, TypeOK, SoundState
<1>10. Restorable'
  BY <1>1, <1>6, <1>7 DEF IInv, TypeOK, Restorable, SoundState
<1>11. Sealed' /\ \A q \in Party : IsFiniteSet(state'[q].skipped)
  BY <1>6, <1>7 DEF IInv, TypeOK, Sealed, SoundState
<1> QED BY <1>9, <1>10, <1>11 DEF IInv

\* Every step preserves the invariant: an encryption, a delivery of a genuine or
\* altered message that decrypts, and one that is refused.
LEMMA NextIsInductive == IInv /\ [Next]_vars => IInv'
<1> SUFFICES ASSUME IInv, [Next]_vars PROVE IInv'
  OBVIOUS
<1>1. ASSUME NEW p \in Party, Encrypt(p) PROVE IInv'
  BY <1>1, EncryptIsInductive
<1>2. ASSUME UNCHANGED vars PROVE IInv'
  BY <1>2 DEF IInv, TypeOK, Restorable, Sealed, vars
<1>3. ASSUME NEW p \in Party, Receive(p) PROVE IInv'
  <2>0. PICK m \in sent[Peer(p)] :
          \E x \in {m} \cup Altered(p, m) : Decrypt(p, x) \/ Refuse(p, x)
    BY <1>3 DEF Receive
  <2>1. PICK x \in {m} \cup Altered(p, m) : Decrypt(p, x) \/ Refuse(p, x)
    BY <2>0
  <2>2. CASE Decrypt(p, x)
    <3>1. x = m
      BY <2>2, DecryptsOnlyGenuine DEF Decrypt
    <3> QED BY <2>2, <3>1, DecryptIsInductive
  <2>3. CASE Refuse(p, x)
    BY <2>3, <1>2 DEF Refuse
  <2> QED BY <2>1, <2>2, <2>3
<1> QED BY <1>1, <1>2, <1>3 DEF Next

-----------------------------------------------------------------------------
(* Theorems *)

\* Every behaviour keeps the types: no counter of either party leaves the range
\* of a u32, and a party accepts only messages its peer sent.
THEOREM TypesHold == Spec => []TypeOK
<1>1. IInv => TypeOK
  BY DEF IInv
<1> QED BY <1>1, InitIsInductive, NextIsInductive, PTL DEF Spec

\* Every state either party reaches is one State::from_bytes accepts, and its
\* private key is the one behind the public key it sends.
THEOREM AlwaysRestorable == Spec => []Restorable
<1>1. IInv => Restorable
  BY DEF IInv
<1> QED BY <1>1, InitIsInductive, NextIsInductive, PTL DEF Spec
-----------------------------------------------------------------------------
(* Keys.  The argument counts the secrets folded into a root key.  A        *)
(* ratchet step folds in two, one for the chain it receives on and one for  *)
(* the chain it sends on, and the initiator starts one ahead; so the roots  *)
(* of one party's sending chains have odd lengths and the other's even      *)
(* ones, and a longer root is a later chain.  Along one chain the step      *)
(* counts.                                                                  *)

\* A root of an earlier receiving chain than any to come under root key rk.
Earlier(root, rk) == \E j \in Nat : Len(rk) = Len(root) + 2 * j + 1

\* The key belongs to such a chain, and lies before the step that the current
\* receiving chain has reached.
Behind(s, key) ==
  /\ Earlier(key.root, s.rk)
  /\ s.ckr # None /\ key.root = s.ckr.root => key.step < s.ckr.step

\* No receive from state s on can find the key.
Spent(s, key) == Behind(s, key) /\ \A e \in s.skipped : e.key # key

\* How the keys of one party's state hang together: the sending chain is split
\* from the root key and is at the number it sends next, the receiving chain is
\* from the root before, and the stored keys lie behind it, each stored once.
Chained(s) ==
  /\ s.cks # None => s.cks.root = s.rk /\ s.cks.step = s.ns
  /\ s.ckr # None => Len(s.rk) = Len(s.ckr.root) + 1
  /\ \A e \in s.skipped : Behind(s, e.key)
  /\ \A e, f \in s.skipped : e.key = f.key => e = f

\* The operation that took s to t left the sending side alone, or replaced it
\* with a new chain under the new ratchet key.
SameSender(s, t) ==
  t.dhs_pub = s.dhs_pub /\ t.rk = s.rk /\ t.cks = s.cks /\ t.ns = s.ns /\ t.pn = s.pn

NewSender(s, t, new) ==
  t.dhs_pub = new /\ Len(t.rk) = Len(s.rk) + 2

\* What is spent stays spent.
Forgets(s, t) == \A key \in ChainKey : Spent(s, key) => Spent(t, key)

-----------------------------------------------------------------------------
(* Root keys by length *)

\* The root before the current one is earlier, whatever it is.
LEMMA OneEarlier ==
  ASSUME NEW root \in Root, NEW rk, Len(rk) = Len(root) + 1
  PROVE  Earlier(root, rk)
<1>1. Len(root) \in Nat
  BY DEF Root
<1>2. Len(rk) = Len(root) + 2 * 0 + 1
  BY <1>1
<1> QED BY <1>2 DEF Earlier

\* A ratchet step leaves what was earlier earlier, and opens a root that was not.
LEMMA TwoMore ==
  ASSUME NEW root \in Root, NEW rk \in Root, NEW more \in Root, Len(more) = Len(rk) + 2,
         Earlier(root, rk)
  PROVE  /\ Earlier(root, more)
         /\ \A x : Len(x) = Len(rk) + 1 => root # x
<1>1. Len(root) \in Nat /\ Len(rk) \in Nat /\ Len(more) \in Nat
  BY DEF Root
<1>2. PICK j \in Nat : Len(rk) = Len(root) + 2 * j + 1
  BY DEF Earlier
<1>3. Len(more) = Len(root) + 2 * (j + 1) + 1 /\ j + 1 \in Nat
  BY <1>1, <1>2
<1>4. Len(root) # Len(rk) + 1
  BY <1>1, <1>2
<1> QED BY <1>3, <1>4 DEF Earlier

\* An earlier receiving root is none of a sending chain's: its length is of the
\* other parity.
LEMMA OtherParity ==
  ASSUME NEW root \in Root, NEW rk \in Root, Earlier(root, rk)
  PROVE  /\ root # rk
         /\ \A a, b \in Nat : \A odd \in {0, 1} :
              ~(Len(root) = 2 * a + odd /\ Len(rk) = 2 * b + odd)
<1>1. Len(root) \in Nat /\ Len(rk) \in Nat
  BY DEF Root
<1>2. PICK j \in Nat : Len(rk) = Len(root) + 2 * j + 1
  BY DEF Earlier
<1>3. Len(root) # Len(rk)
  BY <1>1, <1>2
<1>4. ASSUME NEW a \in Nat, NEW b \in Nat, NEW odd \in {0, 1},
             Len(root) = 2 * a + odd, Len(rk) = 2 * b + odd
      PROVE  FALSE
  <2>1. 2 * b = 2 * a + 2 * j + 1
    BY <1>2, <1>4
  <2> QED BY <2>1
<1> QED BY <1>3, <1>4

-----------------------------------------------------------------------------
(* The operations of the ratchet *)

\* Deleting stored keys and counting receives keeps the keys as they are chained
\* (age_store, evict_oldest, try_skipped).
LEMMA FewerKeysChained ==
  ASSUME NEW s, NEW t, Chained(s), t.rk = s.rk, t.ckr = s.ckr, t.cks = s.cks, t.ns = s.ns,
         t.skipped \subseteq s.skipped
  PROVE  Chained(t) /\ Forgets(s, t)
BY DEF Chained, Forgets, Spent, Behind

\* Counting an accepted receive is such an operation.
LEMMA AgeChained ==
  ASSUME NEW s \in RatchetState, Chained(s)
  PROVE  /\ Chained(age_store(s)) /\ Forgets(s, age_store(s)) /\ SameSender(s, age_store(s))
         /\ age_store(s).skipped \subseteq s.skipped
<1> DEFINE t == age_store(s)
<1>1. /\ t.rk = s.rk /\ t.ckr = s.ckr /\ t.cks = s.cks /\ t.ns = s.ns /\ t.pn = s.pn
      /\ t.dhs_pub = s.dhs_pub /\ t.skipped \subseteq s.skipped
  BY DEF age_store, RatchetState
<1> HIDE DEF t
<1>2. Chained(t) /\ Forgets(s, t)
  BY <1>1, FewerKeysChained
<1> QED BY <1>1, <1>2 DEF t, SameSender

\* A skip stores keys from the step the chain had reached on, and moves the chain
\* past them: none of them was stored or spent before.
LEMMA SkipChained ==
  ASSUME NEW s, SoundState(s), Chained(s), NEW upto \in U32, skip_message_keys(s, upto).ok
  PROVE  LET t == skip_message_keys(s, upto).state
         IN  Chained(t) /\ Forgets(s, t) /\ SameSender(s, t)
<1> DEFINE r == skip_message_keys(s, upto)
           t == r.state
           count == upto - s.nr
           kept == purge_chain_range(s.skipped, s.dhr_pub, s.nr, upto)
           D == DerivedEntries(s.ckr, s.dhr_pub, s.nr, upto, s.events, s.pushed)
<1>1. CASE s.ckr = None \/ s.dhr_pub = None \/ upto <= s.nr
  BY <1>1 DEF skip_message_keys, Ok, SameSender, Forgets
<1>2. CASE ~(s.ckr = None \/ s.dhr_pub = None \/ upto <= s.nr)
  <2>1. s \in RatchetState /\ s.ckr \in ChainKey /\ s.nr \in Nat /\ upto \in Nat /\ s.nr < upto
    BY <1>2, BoundsAssumption DEF SoundState, RatchetState, U32
  <2>2. ~(upto > SkipLimit(s.nr)) /\ HasRoom(kept, count)
    BY <1>2 DEF skip_message_keys, Err
  <2>3. t = [s EXCEPT !.ckr = ChainAfter(@, count), !.nr = upto,
                      !.pushed = @ + count, !.skipped = kept \cup D]
    BY <1>2, <2>2 DEF skip_message_keys, Ok
  <2>4. /\ t.rk = s.rk /\ t.cks = s.cks /\ t.ns = s.ns /\ t.pn = s.pn /\ t.dhs_pub = s.dhs_pub
        /\ t.ckr = ChainAfter(s.ckr, count) /\ t.skipped = kept \cup D
    BY <2>1, <2>3 DEF RatchetState
  <2>5. t.ckr.root = s.ckr.root /\ t.ckr.step = s.ckr.step + count /\ s.ckr.step \in Nat
    BY <2>1, <2>4 DEF ChainAfter, ChainKey
  <2>6. \A e \in D : \E i \in Nat : i < count /\ e.n = s.nr + i /\ e.key = ChainAfter(s.ckr, i)
    BY <2>1 DEF DerivedEntries
  <2>7. \A e \in D : /\ e.key.root = s.ckr.root /\ e.key.step = s.ckr.step + (e.n - s.nr)
                     /\ e.n \in Nat /\ s.nr <= e.n /\ e.n < upto
    <3> SUFFICES ASSUME NEW e \in D
                 PROVE  /\ e.key.root = s.ckr.root /\ e.key.step = s.ckr.step + (e.n - s.nr)
                        /\ e.n \in Nat /\ s.nr <= e.n /\ e.n < upto
      OBVIOUS
    <3>1. PICK i \in Nat : i < count /\ e.n = s.nr + i /\ e.key = ChainAfter(s.ckr, i)
      BY <2>6
    <3>2. e.key.root = s.ckr.root /\ e.key.step = s.ckr.step + i
      BY <2>1, <3>1 DEF ChainAfter, ChainKey
    <3> QED BY <2>1, <2>5, <3>1, <3>2
  <2>8. \A e, f \in D : e.n = f.n => e = f
    BY <2>1 DEF DerivedEntries
  <2>9. kept \subseteq s.skipped
    BY DEF purge_chain_range
  <2> HIDE DEF t, r, kept, D, count
  <2>10. Len(s.rk) = Len(s.ckr.root) + 1
    BY <1>2 DEF Chained
  <2>10a. Earlier(s.ckr.root, s.rk)
    BY <2>1, <2>10, OneEarlier DEF ChainKey
  <2>11. \A key \in ChainKey : Behind(s, key) => Behind(t, key)
    <3> SUFFICES ASSUME NEW key \in ChainKey, Behind(s, key) PROVE Behind(t, key)
      OBVIOUS
    <3>1. key.step \in Nat /\ count \in Nat
      BY <2>1 DEF ChainKey, count
    <3>2. s.ckr # None /\ t.rk = s.rk /\ t.ckr.root = s.ckr.root /\ t.ckr.step = s.ckr.step + count
      BY <1>2, <2>4, <2>5
    <3>3. key.root = s.ckr.root => key.step < t.ckr.step
      BY <2>5, <3>1, <3>2 DEF Behind
    <3> QED BY <3>2, <3>3 DEF Behind
  <2>12. \A e \in D : Behind(t, e.key)
    <3> SUFFICES ASSUME NEW e \in D PROVE Behind(t, e.key)
      OBVIOUS
    <3>1. Earlier(e.key.root, t.rk)
      BY <2>4, <2>7, <2>10a
    <3>2. e.key.step < t.ckr.step
      BY <2>1, <2>5, <2>7 DEF count
    <3> QED BY <3>1, <3>2 DEF Behind
  <2>13. \A key \in ChainKey : Behind(s, key) => \A e \in D : e.key # key
    BY <1>2, <2>1, <2>5, <2>7 DEF Behind, ChainKey
  <2>14. \A e \in s.skipped : e.key \in ChainKey /\ Behind(s, e.key)
    BY DEF SoundState, RatchetState, Entry, Chained
  <2>15. \A e \in t.skipped : Behind(t, e.key)
    BY <2>4, <2>9, <2>11, <2>12, <2>14
  <2>16. \A e, f \in t.skipped : e.key = f.key => e = f
    <3>1. \A e, f \in D : e.key = f.key => e = f
      BY <2>1, <2>5, <2>7, <2>8
    <3> QED BY <2>4, <2>9, <2>13, <2>14, <3>1 DEF Chained
  <2>17. Chained(t)
    BY <2>4, <2>5, <2>10, <2>15, <2>16 DEF Chained
  <2>18. Forgets(s, t)
    BY <2>4, <2>9, <2>11, <2>13 DEF Forgets, Spent
  <2> QED BY <2>4, <2>17, <2>18 DEF SameSender, t, r
<1> QED BY <1>1, <1>2

\* A ratchet step opens a receiving chain with a root longer than any before it.
LEMMA DhRatchetChained ==
  ASSUME NEW s, SoundState(s), Chained(s), NEW h \in Header, NEW dr \in SUBSET KeyPair,
         NEW ds \in SUBSET KeyPair, NEW new \in KeyPair
  PROVE  LET t == dh_ratchet(s, h, dr, ds, new)
         IN  Chained(t) /\ Forgets(s, t) /\ NewSender(s, t, new)
<1> DEFINE recv == kdf_rk(s.rk, dr)
           sends == kdf_rk(recv[1], ds)
           t == dh_ratchet(s, h, dr, ds, new)
<1>1. s \in RatchetState /\ s.rk \in Root
  BY DEF SoundState, RatchetState
<1>2. recv[1] \in Root /\ Len(recv[1]) = Len(s.rk) + 1 /\ recv[2] = [root |-> recv[1], step |-> 0]
  BY <1>1 DEF kdf_rk, ChainStart, Root
<1>3. sends[1] \in Root /\ Len(sends[1]) = Len(recv[1]) + 1 /\ sends[2] = [root |-> sends[1], step |-> 0]
  BY <1>2 DEF kdf_rk, ChainStart, Root
<1> HIDE DEF recv, sends
<1>4. /\ t.rk = sends[1] /\ t.ckr = recv[2] /\ t.cks = sends[2] /\ t.ns = 0 /\ t.dhs_pub = new
      /\ t.skipped = s.skipped
  BY <1>1 DEF dh_ratchet, RatchetState, recv, sends
<1> HIDE DEF t
<1>5. t.ckr.root = recv[1] /\ t.cks.root = t.rk /\ t.cks.step = t.ns
  BY <1>2, <1>3, <1>4
<1>6. t.rk \in Root /\ Len(t.rk) = Len(s.rk) + 2 /\ Len(t.ckr.root) = Len(s.rk) + 1
  BY <1>1, <1>2, <1>3, <1>4, <1>5 DEF Root
<1>7. \A key \in ChainKey : Behind(s, key) => Behind(t, key)
  <2> SUFFICES ASSUME NEW key \in ChainKey, Behind(s, key) PROVE Behind(t, key)
    OBVIOUS
  <2>1. key.root \in Root
    BY DEF ChainKey
  <2>2. Earlier(key.root, s.rk)
    BY DEF Behind
  <2>3. Earlier(key.root, t.rk)
    BY <1>1, <1>6, <2>1, <2>2, TwoMore
  <2>4. key.root # t.ckr.root
    BY <1>1, <1>6, <2>1, <2>2, TwoMore
  <2> QED BY <2>3, <2>4 DEF Behind
<1>8. \A e \in s.skipped : e.key \in ChainKey
  BY DEF SoundState, RatchetState, Entry
<1>9. Chained(t)
  BY <1>4, <1>5, <1>6, <1>7, <1>8 DEF Chained
<1>10. Forgets(s, t)
  BY <1>4, <1>7 DEF Forgets, Spent
<1> QED BY <1>4, <1>6, <1>9, <1>10 DEF NewSender, t

\* What a receive that found key k does: k was not spent, it is now, and so is
\* all that was.
Spends(s, t, k) ==
  /\ Chained(t)
  /\ k \in ChainKey
  /\ Spent(t, k)
  /\ \A key \in ChainKey : Spent(s, key) => Spent(t, key) /\ key # k

\* Taking the next key of the receiving chain spends it.
LEMMA ReceiveOnChainSpends ==
  ASSUME NEW s, SoundState(s), Chained(s), NEW h \in Header, ReceiveOnChain(s, h).ok
  PROVE  LET r == ReceiveOnChain(s, h)
         IN  Spends(s, r.state, r.key) /\ SameSender(s, r.state)
<1> DEFINE skip == skip_message_keys(s, h.n)
           cur == skip.state
           next == [cur EXCEPT !.ckr = kdf_ck(@)[1], !.nr = @ + 1]
           r == ReceiveOnChain(s, h)
<1>1. h.n \in U32
  BY DEF Header
<1>2. skip.ok
  BY DEF ReceiveOnChain
<1>3. ~(h.n < cur.nr) /\ cur.ckr # None /\ cur.nr # U32_MAX
  BY <1>2 DEF ReceiveOnChain, Err
<1>4. r.state = age_store(next) /\ r.key = cur.ckr
  BY <1>2, <1>3 DEF ReceiveOnChain, Ok, kdf_ck
<1>5. SoundState(cur) /\ Chained(cur) /\ Forgets(s, cur) /\ SameSender(s, cur)
  BY <1>1, <1>2, SkipIsSound, SkipChained
<1> HIDE DEF skip, cur, r
<1>6. cur \in RatchetState /\ cur.ckr \in ChainKey /\ cur.nr \in U32 /\ cur.nr + 1 \in U32
  BY <1>3, <1>5, BoundsAssumption DEF SoundState, RatchetState, U32
<1>7. /\ next.ckr = kdf_ck(cur.ckr)[1] /\ next.rk = cur.rk /\ next.cks = cur.cks
      /\ next.ns = cur.ns /\ next.pn = cur.pn /\ next.dhs_pub = cur.dhs_pub
      /\ next.skipped = cur.skipped
  BY <1>6 DEF RatchetState
<1>8. next \in RatchetState
  <2>1. kdf_ck(cur.ckr)[1] \in ChainKey
    BY <1>6 DEF kdf_ck, ChainKey
  <2> QED BY <1>6, <2>1 DEF RatchetState
<1>9. /\ next.ckr.root = cur.ckr.root /\ next.ckr.step = cur.ckr.step + 1 /\ cur.ckr.step \in Nat
      /\ next.ckr # None
  BY <1>6, <1>7, NoneAssumption DEF kdf_ck, ChainKey
<1> HIDE DEF next
<1>10. \A key \in ChainKey : Behind(cur, key) => Behind(next, key) /\ key # cur.ckr
  <2> SUFFICES ASSUME NEW key \in ChainKey, Behind(cur, key)
               PROVE  Behind(next, key) /\ key # cur.ckr
    OBVIOUS
  <2>1. key.step \in Nat
    BY DEF ChainKey
  <2>2. key.root = cur.ckr.root => key.step < cur.ckr.step
    BY <1>3 DEF Behind
  <2>3. key # cur.ckr
    BY <1>9, <2>1, <2>2
  <2>4. key.root = cur.ckr.root => key.step < next.ckr.step
    BY <1>9, <2>1, <2>2
  <2> QED BY <1>7, <1>9, <2>3, <2>4 DEF Behind
<1>11. Behind(next, cur.ckr)
  <2>1. Earlier(cur.ckr.root, cur.rk)
    BY <1>3, <1>5, <1>6, OneEarlier DEF Chained, SoundState, RatchetState, ChainKey
  <2>2. cur.ckr.step < next.ckr.step
    BY <1>9
  <2> QED BY <1>7, <2>1, <2>2 DEF Behind
<1>12. \A e \in cur.skipped : e.key \in ChainKey /\ Behind(cur, e.key)
  BY <1>5 DEF SoundState, RatchetState, Entry, Chained
<1>13. Chained(next)
  BY <1>3, <1>5, <1>7, <1>9, <1>10, <1>12 DEF Chained
<1>14. Spent(next, cur.ckr)
  BY <1>7, <1>10, <1>11, <1>12 DEF Spent
<1>15. \A key \in ChainKey : Spent(cur, key) => Spent(next, key) /\ key # cur.ckr
  BY <1>7, <1>10 DEF Spent
<1>16. Chained(age_store(next)) /\ Forgets(next, age_store(next)) /\ SameSender(next, age_store(next))
  BY <1>8, <1>13, AgeChained
<1>17. Spends(s, r.state, r.key)
  BY <1>4, <1>5, <1>6, <1>14, <1>15, <1>16 DEF Spends, Forgets
<1> QED BY <1>4, <1>5, <1>7, <1>16, <1>17 DEF SameSender, r

\* The store holds one key a name, so the first match is the match.
LEMMA FirstMatchIsStored ==
  ASSUME NEW s, SoundState(s), NEW h, Matches(s, h) # {}
  PROVE  FirstMatch(s, h) \in s.skipped /\ FirstMatch(s, h) \in Matches(s, h)
<1>1. PICK e : e \in Matches(s, h)
  OBVIOUS
<1>2. \A f \in Matches(s, h) : f = e
  BY <1>1 DEF Matches, SoundState, invariant, StoreIsMap
<1>3. e.pos \in Nat
  BY <1>1 DEF Matches, SoundState, RatchetState, Entry
<1>4. \A f \in Matches(s, h) : e.pos <= f.pos
  BY <1>2, <1>3
<1>5. FirstMatch(s, h) \in Matches(s, h)
  BY <1>1, <1>4 DEF FirstMatch
<1> QED BY <1>5 DEF Matches

\* A receive that finds a key spends it, whether it was stored, is on the current
\* chain or on one that a ratchet step opens.
LEMMA ReceiveSpends ==
  ASSUME NEW s, SoundState(s), Chained(s), NEW h \in Header, NEW dr \in SUBSET KeyPair,
         NEW ds \in SUBSET KeyPair, NEW new \in KeyPair, receive(s, h, dr, ds, new).ok
  PROVE  LET r == receive(s, h, dr, ds, new)
         IN  /\ Spends(s, r.state, r.key)
             /\ SameSender(s, r.state) \/ NewSender(s, r.state, new)
<1> DEFINE r == receive(s, h, dr, ds, new)
<1>0. s \in RatchetState
  BY DEF SoundState
<1>1. CASE Matches(s, h) # {}
  <2> DEFINE e == FirstMatch(s, h)
             u == [s EXCEPT !.skipped = @ \ {e}]
  <2>1. r.state = age_store(u) /\ r.key = e.key
    BY <1>1 DEF receive, TakeSkipped, Ok
  <2>2. e \in s.skipped
    BY <1>1, FirstMatchIsStored
  <2>3. u \in RatchetState
    BY <1>0 DEF RatchetState
  <2>4. /\ u.rk = s.rk /\ u.ckr = s.ckr /\ u.cks = s.cks /\ u.ns = s.ns /\ u.pn = s.pn
        /\ u.dhs_pub = s.dhs_pub /\ u.skipped = s.skipped \ {e}
    BY <1>0 DEF RatchetState
  <2> HIDE DEF u, e, r
  <2>5. Chained(u) /\ Forgets(s, u)
    BY <2>4, FewerKeysChained
  <2>6. e.key \in ChainKey
    BY <1>0, <2>2 DEF RatchetState, Entry
  <2>7. Spent(u, e.key)
    BY <2>2, <2>4 DEF Chained, Spent, Behind
  <2>8. \A key \in ChainKey : Spent(s, key) => Spent(u, key) /\ key # e.key
    BY <2>2, <2>5 DEF Forgets, Spent
  <2>9. /\ Chained(age_store(u)) /\ Forgets(u, age_store(u)) /\ SameSender(u, age_store(u))
    BY <2>3, <2>5, AgeChained
  <2>10. Spends(s, r.state, r.key)
    BY <2>1, <2>6, <2>7, <2>8, <2>9 DEF Spends, Forgets
  <2> QED BY <2>1, <2>4, <2>9, <2>10 DEF SameSender, r
<1>2. CASE Matches(s, h) = {} /\ (s.dhr_pub = None \/ s.dhr_pub # h.dh)
  <2> DEFINE skip == skip_message_keys(s, h.pn)
             cur == skip.state
             u == dh_ratchet(cur, h, dr, ds, new)
  <2>1. skip.ok
    BY <1>2 DEF receive
  <2>2. r = ReceiveOnChain(u, h)
    BY <1>2, <2>1 DEF receive
  <2>3. SoundState(cur) /\ Chained(cur) /\ Forgets(s, cur) /\ SameSender(s, cur)
    BY <2>1, SkipIsSound, SkipChained DEF Header
  <2> HIDE DEF skip, cur
  <2>4. SoundState(u) /\ Chained(u) /\ Forgets(cur, u) /\ NewSender(cur, u, new)
    BY <2>3, DhRatchetIsSound, DhRatchetChained
  <2> HIDE DEF u, r
  <2>5. Spends(u, r.state, r.key) /\ SameSender(u, r.state)
    BY <2>2, <2>4, ReceiveOnChainSpends DEF r
  <2>6. Spends(s, r.state, r.key)
    BY <2>3, <2>4, <2>5 DEF Spends, Forgets
  <2> QED BY <2>3, <2>4, <2>5, <2>6 DEF SameSender, NewSender, r
<1>3. CASE Matches(s, h) = {} /\ ~(s.dhr_pub = None \/ s.dhr_pub # h.dh)
  <2>1. r = ReceiveOnChain(s, h)
    BY <1>3 DEF receive
  <2> QED BY <2>1, ReceiveOnChainSpends
<1> QED BY <1>1, <1>2, <1>3

\* Evicting first does not bring a spent key back.
LEMMA ReceiveWithEvictionSpends ==
  ASSUME NEW s, SoundState(s), Chained(s), NEW h \in Header, NEW dr \in SUBSET KeyPair,
         NEW ds \in SUBSET KeyPair, NEW new \in KeyPair,
         receive_with_eviction(s, h, dr, ds, new).ok
  PROVE  LET r == receive_with_eviction(s, h, dr, ds, new)
         IN  /\ Spends(s, r.state, r.key)
             /\ SameSender(s, r.state) \/ NewSender(s, r.state, new)
<1>1. PICK u : /\ SoundState(u) /\ Chained(u) /\ Forgets(s, u) /\ SameSender(s, u)
               /\ receive_with_eviction(s, h, dr, ds, new) = receive(u, h, dr, ds, new)
  <2>1. \A k : LET u == evict_oldest(s, k)
               IN  SoundState(u) /\ Chained(u) /\ Forgets(s, u) /\ SameSender(s, u)
    <3> TAKE k
    <3> DEFINE T == {e \in s.skipped : Cardinality({f \in s.skipped : Older(f, e)}) >= k}
               u == [s EXCEPT !.skipped = T]
    <3>1. evict_oldest(s, k) = u
      BY DEF evict_oldest
    <3>2. T \in SUBSET s.skipped
      OBVIOUS
    <3> HIDE DEF T
    <3>3. SoundState(u)
      BY <3>2, FewerKeys
    <3>4. /\ u.rk = s.rk /\ u.ckr = s.ckr /\ u.cks = s.cks /\ u.ns = s.ns /\ u.pn = s.pn
          /\ u.dhs_pub = s.dhs_pub /\ u.skipped = T
      BY DEF SoundState, RatchetState
    <3> HIDE DEF u
    <3>5. Chained(u) /\ Forgets(s, u)
      BY <3>2, <3>4, FewerKeysChained
    <3> QED BY <3>1, <3>3, <3>4, <3>5 DEF SameSender
  <2>2. \/ receive_with_eviction(s, h, dr, ds, new) = receive(s, h, dr, ds, new)
        \/ \E k : receive_with_eviction(s, h, dr, ds, new)
                   = receive(evict_oldest(s, EvictedAfter(s, h, k)), h, dr, ds, new)
    BY DEF receive_with_eviction
  <2>3. Forgets(s, s) /\ SameSender(s, s)
    BY DEF Forgets, SameSender
  <2> QED BY <2>1, <2>2, <2>3
<1> DEFINE r == receive(u, h, dr, ds, new)
<1>2. /\ Spends(u, r.state, r.key)
      /\ SameSender(u, r.state) \/ NewSender(u, r.state, new)
  BY <1>1, ReceiveSpends
<1> HIDE DEF r
<1>3. Spends(s, r.state, r.key)
  BY <1>1, <1>2 DEF Spends, Forgets
<1>4. SameSender(s, r.state) \/ NewSender(s, r.state, new)
  BY <1>1, <1>2 DEF SameSender, NewSender
<1> QED BY <1>1, <1>3, <1>4 DEF r

-----------------------------------------------------------------------------
(* The inductive invariant *)

\* One for the party whose sending chains have roots of odd length.
Odd(p) == IF p = Initiator THEN 1 ELSE 0

\* Every message of p is sealed under the key that its header names: the length
\* of its root tells the ratchet key, and its step the number.
SealedAlong(p) ==
  \A m \in sent[p] :
    /\ m.hdr.dh[1] = p /\ m.hdr.dh[2] <= state[p].dhs_pub[2]
    /\ Len(m.key.root) = 2 * m.hdr.dh[2] + Odd(p)
    /\ m.key.step = m.hdr.n

\* The messages of one sending chain agree with each other and, on the current
\* chain, with the state, and their numbers are below the next one.
OneChainAKey(p) ==
  /\ \A m \in sent[p] :
       m.hdr.dh = state[p].dhs_pub =>
         m.key.root = state[p].rk /\ m.hdr.pn = state[p].pn /\ m.hdr.n < state[p].ns
  /\ \A m, x \in sent[p] :
       m.hdr.dh = x.hdr.dh => m.key.root = x.key.root /\ m.hdr.pn = x.hdr.pn

\* The part of the invariant that is about one party.
KeysInOrder(p) ==
  /\ Chained(state[p])
  /\ state[p].dhs_pub[1] = p
  /\ Len(state[p].rk) = 2 * state[p].dhs_pub[2] + Odd(p)
  /\ SealedAlong(p)
  /\ OneChainAKey(p)
  /\ \A m \in accepted[p] : Spent(state[p], m.key)

KInv == IInv /\ \A p \in Party : KeysInOrder(p)

\* The constructors establish it: nothing is sent, and the initiator has folded in
\* one secret.
LEMMA InitInOrder == Init => KInv
<1> SUFFICES ASSUME Init PROVE KInv
  OBVIOUS
<1> DEFINE a == <<Initiator, 0>>
           b == <<Responder, 0>>
           d == DH(a, b)
<1>1. /\ state[Initiator] = init_sender(SharedSecret, a, b, d)
      /\ state[Responder] = init_receiver(SharedSecret, b)
      /\ \A p \in Party : sent[p] = {} /\ accepted[p] = {}
  BY PartyAssumption DEF Init, Party
<1>2. Len(SharedSecret) = 0 /\ Len(Append(SharedSecret, d)) = 1
  BY DEF SharedSecret
<1> HIDE DEF d
<1>3. Chained(state[Initiator]) /\ Chained(state[Responder])
  BY <1>1 DEF Chained, init_sender, init_receiver, kdf_rk, ChainStart
<1>4. /\ Len(state[Initiator].rk) = 1 /\ state[Initiator].dhs_pub = a
      /\ Len(state[Responder].rk) = 0 /\ state[Responder].dhs_pub = b
  BY <1>1, <1>2 DEF init_sender, init_receiver, kdf_rk
<1>5. \A p \in Party : SealedAlong(p) /\ OneChainAKey(p)
  BY <1>1 DEF SealedAlong, OneChainAKey
<1>6. /\ state[Initiator].dhs_pub[1] = Initiator /\ state[Responder].dhs_pub[1] = Responder
      /\ Len(state[Initiator].rk) = 2 * state[Initiator].dhs_pub[2] + Odd(Initiator)
      /\ Len(state[Responder].rk) = 2 * state[Responder].dhs_pub[2] + Odd(Responder)
  BY <1>4, PartyAssumption DEF Odd
<1>7. KeysInOrder(Initiator) /\ KeysInOrder(Responder)
  BY <1>1, <1>3, <1>5, <1>6 DEF KeysInOrder, Party
<1> QED BY <1>7, InitIsInductive DEF KInv, Party

\* A step of one party says nothing about the other.
LEMMA OthersInOrder ==
  ASSUME NEW q \in Party, KeysInOrder(q),
         state'[q] = state[q], sent'[q] = sent[q], accepted'[q] = accepted[q]
  PROVE  KeysInOrder(q)'
BY DEF KeysInOrder, SealedAlong, OneChainAKey

\* Session::encrypt seals under the next key of the current sending chain.
LEMMA EncryptInOrder ==
  ASSUME KInv, NEW p \in Party, Encrypt(p)
  PROVE  KInv'
<1> DEFINE s == state[p]
           t == [s EXCEPT !.cks = kdf_ck(@)[1], !.ns = @ + 1]
           m == Seal(SendHeader(s), s.cks)
<1>1. IInv /\ IInv' /\ KeysInOrder(p) /\ SoundState(s)
  BY EncryptIsInductive, StatesAreSound DEF KInv
<1>2. s.cks # None /\ s.ns # U32_MAX /\ send(s) = Ok(t, s.cks)
  BY DEF Encrypt, send, Err, kdf_ck
<1>3. /\ state' = [state EXCEPT ![p] = t]
      /\ sent' = [sent EXCEPT ![p] = @ \cup {m}]
      /\ accepted' = accepted
  BY <1>2 DEF Encrypt, Ok
<1>4. /\ s \in RatchetState /\ s.cks \in ChainKey /\ s.ns \in Nat /\ s.dhs_pub \in KeyPair
      /\ s.dhs_pub[2] \in Nat
  BY <1>1, <1>2, BoundsAssumption DEF SoundState, RatchetState, U32, KeyPair
<1>5. /\ t.rk = s.rk /\ t.ckr = s.ckr /\ t.dhs_pub = s.dhs_pub /\ t.skipped = s.skipped
      /\ t.pn = s.pn /\ t.ns = s.ns + 1 /\ t.cks = kdf_ck(s.cks)[1]
  BY <1>4 DEF RatchetState
<1>6. t.cks.root = s.cks.root /\ t.cks.step = s.cks.step + 1
  BY <1>4, <1>5 DEF kdf_ck, ChainKey
<1>7. s.cks.root = s.rk /\ s.cks.step = s.ns
  BY <1>1, <1>2 DEF KeysInOrder, Chained
<1>8. m.hdr.dh = s.dhs_pub /\ m.hdr.pn = s.pn /\ m.hdr.n = s.ns /\ m.key = s.cks
  BY DEF Seal, SendHeader
<1> HIDE DEF t, m
<1>9. state'[p] = t /\ sent'[p] = sent[p] \cup {m} /\ accepted'[p] = accepted[p]
  BY <1>1, <1>3 DEF IInv, TypeOK
<1>10. Chained(t) /\ \A key : Spent(s, key) => Spent(t, key)
  BY <1>1, <1>5, <1>6, <1>7 DEF KeysInOrder, Chained, Spent, Behind
<1>11. SealedAlong(p)'
  <2> SUFFICES ASSUME NEW x \in sent[p] \cup {m}
               PROVE  /\ x.hdr.dh[1] = p /\ x.hdr.dh[2] <= t.dhs_pub[2]
                      /\ Len(x.key.root) = 2 * x.hdr.dh[2] + Odd(p)
                      /\ x.key.step = x.hdr.n
    BY <1>9 DEF SealedAlong, Odd
  <2>1. CASE x \in sent[p]
    BY <1>1, <1>5, <2>1 DEF KeysInOrder, SealedAlong
  <2>2. CASE x = m
    <3>1. x.hdr.dh = s.dhs_pub /\ x.key.root = s.rk /\ x.key.step = x.hdr.n
      BY <1>7, <1>8, <2>2
    <3>2. s.dhs_pub[1] = p /\ Len(s.rk) = 2 * s.dhs_pub[2] + Odd(p)
      BY <1>1 DEF KeysInOrder
    <3> QED BY <1>4, <1>5, <3>1, <3>2
  <2> QED BY <2>1, <2>2
<1>12. OneChainAKey(p)'
  <2>1. \A x \in sent[p] :
          x.hdr.dh = s.dhs_pub => x.key.root = s.rk /\ x.hdr.pn = s.pn /\ x.hdr.n < s.ns
    BY <1>1 DEF KeysInOrder, OneChainAKey
  <2>2. \A x, y \in sent[p] :
          x.hdr.dh = y.hdr.dh => x.key.root = y.key.root /\ x.hdr.pn = y.hdr.pn
    BY <1>1 DEF KeysInOrder, OneChainAKey
  <2>3. \A x \in sent[p] : x.hdr.n \in Nat
    BY <1>1, BoundsAssumption DEF IInv, TypeOK, Message, Header, U32
  <2>4. \A x \in sent[p] \cup {m} :
          x.hdr.dh = t.dhs_pub => x.key.root = t.rk /\ x.hdr.pn = t.pn /\ x.hdr.n < t.ns
    BY <1>4, <1>5, <1>7, <1>8, <2>1, <2>3
  <2>5. \A x, y \in sent[p] \cup {m} :
          x.hdr.dh = y.hdr.dh => x.key.root = y.key.root /\ x.hdr.pn = y.hdr.pn
    BY <1>7, <1>8, <2>1, <2>2
  <2> QED BY <1>9, <2>4, <2>5 DEF OneChainAKey
<1>13. KeysInOrder(p)'
  BY <1>1, <1>5, <1>9, <1>10, <1>11, <1>12 DEF KeysInOrder, Odd
<1>14. \A q \in Party : q # p => KeysInOrder(q)'
  BY <1>1, <1>3, OthersInOrder DEF KInv, IInv, TypeOK
<1> QED BY <1>1, <1>13, <1>14 DEF KInv

\* Session::decrypt_ratchet on a message that authenticates spends its key, and
\* a ratchet step of it starts a sending chain that nothing was sent on.
LEMMA DecryptInOrder ==
  ASSUME KInv, NEW p \in Party, NEW m \in sent[Peer(p)], Decrypt(p, m)
  PROVE  KInv'
<1> DEFINE s == state[p]
           c == Candidate(p, m)
           t == c.state
<1>1. IInv /\ IInv' /\ KeysInOrder(p) /\ SoundState(s) /\ ratchet_private[p] = s.dhs_pub
  BY DecryptIsInductive, StatesAreSound DEF KInv
<1>2. Peer(p) \in Party /\ m \in Message /\ m.hdr \in Header /\ m.hdr.dh \in KeyPair
  BY <1>1 DEF IInv, TypeOK, Peer, Party, Message, Header
<1>3. ratchet_private[p] \in KeyPair /\ FreshKey(p) \in KeyPair
  BY <1>1 DEF IInv, TypeOK, FreshKey, KeyPair
<1>4. /\ DH(ratchet_private[p], m.hdr.dh) \in SUBSET KeyPair
      /\ DH(FreshKey(p), m.hdr.dh) \in SUBSET KeyPair
  BY <1>2, <1>3 DEF DH
<1>5. c.ok /\ c.key = m.key
  BY DEF Decrypt, Decrypts, Opens
<1>6. /\ Spends(s, t, m.key)
      /\ SameSender(s, t) \/ NewSender(s, t, FreshKey(p))
  BY <1>1, <1>2, <1>3, <1>4, <1>5, ReceiveWithEvictionSpends DEF Candidate, KeysInOrder
<1> HIDE DEF c, t
<1>7. /\ state' = [state EXCEPT ![p] = t]
      /\ accepted' = [accepted EXCEPT ![p] = @ \cup {m}]
      /\ sent' = sent
  BY DEF Decrypt, c, t
<1>8. state'[p] = t /\ sent'[p] = sent[p] /\ accepted'[p] = accepted[p] \cup {m}
  BY <1>1, <1>7 DEF IInv, TypeOK
<1>9. \A x \in accepted'[p] : Spent(t, x.key)
  <2>1. \A x \in accepted[p] : x.key \in ChainKey /\ Spent(s, x.key)
    BY <1>1 DEF KeysInOrder, IInv, TypeOK, Message
  <2> QED BY <1>6, <1>8, <2>1 DEF Spends
<1>10. Chained(t)
  BY <1>6 DEF Spends
<1>11. ASSUME SameSender(s, t) PROVE KeysInOrder(p)'
  <2>1. SealedAlong(p)' /\ OneChainAKey(p)'
    BY <1>1, <1>8, <1>11 DEF KeysInOrder, SealedAlong, OneChainAKey, SameSender, Odd
  <2> QED BY <1>1, <1>8, <1>9, <1>10, <1>11, <2>1 DEF KeysInOrder, SameSender, Odd
<1>12. ASSUME NewSender(s, t, FreshKey(p)) PROVE KeysInOrder(p)'
  <2>1. /\ t.dhs_pub[1] = p /\ t.dhs_pub[2] = s.dhs_pub[2] + 1 /\ s.dhs_pub[2] \in Nat
        /\ Len(t.rk) = Len(s.rk) + 2 /\ Len(s.rk) = 2 * s.dhs_pub[2] + Odd(p)
    BY <1>1, <1>3, <1>12 DEF NewSender, FreshKey, KeyPair, KeysInOrder
  <2>2. \A x \in sent[p] : x.hdr.dh[2] \in Nat /\ x.hdr.dh[2] <= s.dhs_pub[2]
    BY <1>1 DEF KeysInOrder, SealedAlong, IInv, TypeOK, Message, Header, KeyPair
  <2>3. SealedAlong(p)'
    BY <1>1, <1>8, <2>1, <2>2 DEF KeysInOrder, SealedAlong, Odd
  <2>4. \A x \in sent[p] : x.hdr.dh # t.dhs_pub
    BY <2>1, <2>2
  <2>5. OneChainAKey(p)'
    BY <1>1, <1>8, <2>4 DEF KeysInOrder, OneChainAKey
  <2>6. Len(t.rk) = 2 * t.dhs_pub[2] + Odd(p)
    BY <2>1 DEF Odd
  <2> QED BY <1>8, <1>9, <1>10, <2>1, <2>3, <2>5, <2>6 DEF KeysInOrder, Odd
<1>13. \A q \in Party : q # p => KeysInOrder(q)'
  BY <1>1, <1>7, OthersInOrder DEF KInv, IInv, TypeOK
<1> QED BY <1>1, <1>6, <1>11, <1>12, <1>13 DEF KInv

\* Every step preserves it; a refused message changes nothing.
LEMMA NextInOrder == KInv /\ [Next]_vars => KInv'
<1> SUFFICES ASSUME KInv, [Next]_vars PROVE KInv'
  OBVIOUS
<1>1. ASSUME NEW p \in Party, Encrypt(p) PROVE KInv'
  BY <1>1, EncryptInOrder
<1>2. ASSUME UNCHANGED vars PROVE KInv'
  <2>1. IInv'
    BY <1>2, NextIsInductive DEF KInv
  <2>2. \A q \in Party : KeysInOrder(q)'
    BY <1>2, OthersInOrder DEF KInv, vars
  <2> QED BY <2>1, <2>2 DEF KInv
<1>3. ASSUME NEW p \in Party, Receive(p) PROVE KInv'
  <2>0. PICK m \in sent[Peer(p)] :
          \E x \in {m} \cup Altered(p, m) : Decrypt(p, x) \/ Refuse(p, x)
    BY <1>3 DEF Receive
  <2>1. PICK x \in {m} \cup Altered(p, m) : Decrypt(p, x) \/ Refuse(p, x)
    BY <2>0
  <2>2. CASE Decrypt(p, x)
    <3>1. x = m
      BY <2>2, DecryptsOnlyGenuine DEF Decrypt, KInv
    <3> QED BY <2>2, <3>1, DecryptInOrder
  <2>3. CASE Refuse(p, x)
    BY <2>3, <1>2 DEF Refuse
  <2> QED BY <2>1, <2>2, <2>3
<1> QED BY <1>1, <1>2, <1>3 DEF Next

-----------------------------------------------------------------------------
(* Theorems *)

\* In a state that satisfies the invariant two messages under one key, or with one
\* name, are the same message: the lengths of their roots tell their senders and
\* ratchet keys apart.
LEMMA OrderGivesNoKeyReuse == KInv => NoKeyReuse
<1> SUFFICES ASSUME KInv, NEW p \in Party, NEW q \in Party, NEW m \in sent[p], NEW x \in sent[q],
                    m.key = x.key \/ (m.hdr.dh = x.hdr.dh /\ m.hdr.n = x.hdr.n)
             PROVE  p = q /\ m = x
  BY DEF NoKeyReuse
<1>1. /\ m \in Message /\ m.ad = m.hdr /\ m.hdr.dh \in KeyPair /\ m.hdr.dh[2] \in Nat
      /\ x \in Message /\ x.ad = x.hdr /\ x.hdr.dh \in KeyPair /\ x.hdr.dh[2] \in Nat
  BY DEF KInv, IInv, TypeOK, Sealed, Message, Header, KeyPair
<1>2. /\ m.hdr.dh[1] = p /\ Len(m.key.root) = 2 * m.hdr.dh[2] + Odd(p) /\ m.key.step = m.hdr.n
      /\ x.hdr.dh[1] = q /\ Len(x.key.root) = 2 * x.hdr.dh[2] + Odd(q) /\ x.key.step = x.hdr.n
  BY DEF KInv, KeysInOrder, SealedAlong
<1>3. m.hdr.dh = x.hdr.dh /\ m.hdr.n = x.hdr.n
  <2> SUFFICES ASSUME m.key = x.key PROVE m.hdr.dh = x.hdr.dh /\ m.hdr.n = x.hdr.n
    OBVIOUS
  <2>1. 2 * m.hdr.dh[2] + Odd(p) = 2 * x.hdr.dh[2] + Odd(q)
    BY <1>2
  <2>2. Odd(p) = Odd(q) /\ m.hdr.dh[2] = x.hdr.dh[2]
    BY <1>1, <2>1 DEF Odd
  <2>3. p = q
    BY <2>2 DEF Odd, Party
  <2> QED BY <1>1, <1>2, <2>2, <2>3 DEF KeyPair
<1>4. p = q
  BY <1>2, <1>3
<1>5. m.key.root = x.key.root /\ m.hdr.pn = x.hdr.pn
  BY <1>3, <1>4 DEF KInv, KeysInOrder, OneChainAKey
<1>6. m.hdr = x.hdr
  BY <1>1, <1>3, <1>5 DEF Message, Header
<1>7. m.key = x.key
  BY <1>1, <1>2, <1>3, <1>5 DEF Message, ChainKey
<1> QED BY <1>1, <1>4, <1>6, <1>7 DEF Message

\* The key a receive finds was not spent, so that no accepted message decrypts.
LEMMA OrderGivesNoReplay == KInv => NoReplay
<1> SUFFICES ASSUME KInv, NEW p \in Party, NEW m \in accepted[p], Decrypts(p, m) PROVE FALSE
  BY DEF NoReplay
<1> DEFINE s == state[p]
           c == Candidate(p, m)
<1>1. IInv /\ SoundState(s) /\ Chained(s) /\ Spent(s, m.key)
  BY StatesAreSound DEF KInv, KeysInOrder
<1>2. m \in Message /\ m.key \in ChainKey /\ m.hdr \in Header /\ m.hdr.dh \in KeyPair
  BY <1>1 DEF IInv, TypeOK, Message, Header
<1>3. ratchet_private[p] \in KeyPair /\ FreshKey(p) \in KeyPair
  BY <1>1 DEF IInv, TypeOK, FreshKey, KeyPair
<1>4. /\ DH(ratchet_private[p], m.hdr.dh) \in SUBSET KeyPair
      /\ DH(FreshKey(p), m.hdr.dh) \in SUBSET KeyPair
  BY <1>2, <1>3 DEF DH
<1>5. c.ok /\ c.key = m.key
  BY DEF Decrypts, Opens
<1>6. Spends(s, c.state, c.key)
  BY <1>1, <1>2, <1>3, <1>4, <1>5, ReceiveWithEvictionSpends DEF Candidate
<1> HIDE DEF c
<1> QED BY <1>1, <1>2, <1>5, <1>6 DEF Spends

\* Each message key seals one message and opens it once, whatever is lost, repeated,
\* reordered or altered and however the stores fill: for every bound and ceiling.
THEOREM EveryKeyUsedOnce == Spec => []UsedOnce
<1>1. KInv => UsedOnce
  BY OrderGivesNoKeyReuse, OrderGivesNoReplay DEF UsedOnce
<1> QED BY <1>1, InitInOrder, NextInOrder, PTL DEF Spec

\* A spent key is on no chain and in no store, and a sealed one is before its
\* sender's chain and never on the other.
LEMMA OrderGivesForwardSecrecy == KInv => ForwardSecrecy
<1> SUFFICES ASSUME KInv, NEW p \in Party
             PROVE  /\ \A m \in accepted[p] : ~Derivable(p, m.key)
                    /\ \A m \in sent[p] : ~Derivable(p, m.key)
  BY DEF ForwardSecrecy
<1> DEFINE s == state[p]
<1>1. SoundState(s) /\ Chained(s) /\ KeysInOrder(p)
  BY StatesAreSound DEF KInv, KeysInOrder
<1>2. s.rk \in Root /\ Len(s.rk) \in Nat /\ s.dhs_pub[2] \in Nat /\ s.ns \in Nat
  BY <1>1, BoundsAssumption DEF SoundState, RatchetState, Root, KeyPair, U32
<1>3. ASSUME NEW m \in accepted[p] PROVE ~Derivable(p, m.key)
  <2>1. m.key.root \in Root /\ m.key.step \in Nat /\ Spent(s, m.key)
    BY <1>1 DEF KInv, IInv, TypeOK, Message, ChainKey, KeysInOrder
  <2>2. ASSUME s.cks # None PROVE m.key.root # s.cks.root
    <3>1. m.key.root # s.rk
      BY <1>2, <2>1, OtherParity DEF Spent, Behind
    <3> QED BY <1>1, <2>2, <3>1 DEF Chained
  <2>3. ASSUME s.ckr # None, m.key.root = s.ckr.root PROVE ~(s.ckr.step <= m.key.step)
    <3>1. s.ckr.step \in Nat
      BY <1>1, <2>3 DEF SoundState, RatchetState, ChainKey
    <3> QED BY <2>1, <2>3, <3>1 DEF Spent, Behind
  <2> QED BY <2>1, <2>2, <2>3 DEF Derivable, Spent
<1>4. ASSUME NEW m \in sent[p] PROVE ~Derivable(p, m.key)
  <2>1. m.key.root \in Root /\ m.key.step \in Nat /\ m.hdr.dh \in KeyPair /\ m.hdr.dh[2] \in Nat
    BY <1>1 DEF KInv, IInv, TypeOK, Message, Header, ChainKey, KeyPair
  <2>2. /\ m.hdr.dh[1] = p /\ m.hdr.dh[2] <= s.dhs_pub[2] /\ m.key.step = m.hdr.n
        /\ Len(m.key.root) = 2 * m.hdr.dh[2] + Odd(p)
        /\ Len(s.rk) = 2 * s.dhs_pub[2] + Odd(p)
    BY <1>1 DEF KeysInOrder, SealedAlong
  <2>3. ~Earlier(m.key.root, s.rk)
    <3>1. Odd(p) \in {0, 1}
      BY DEF Odd
    <3> QED BY <1>2, <2>1, <2>2, <3>1, OtherParity, ZenonT(40)
  <2>4. \A e \in s.skipped : e.key # m.key
    BY <1>1, <2>3 DEF Chained, Behind
  <2>5. s.ckr # None => m.key.root # s.ckr.root
    BY <1>1, <2>1, <2>3, OneEarlier DEF Chained
  <2>6. ASSUME s.cks # None, s.cks.root = m.key.root PROVE m.key.step < s.cks.step
    <3>1. s.cks.root = s.rk /\ s.cks.step = s.ns
      BY <1>1, <2>6 DEF Chained
    <3>2. m.hdr.dh[2] = s.dhs_pub[2]
      BY <1>2, <2>1, <2>2, <2>6, <3>1, SMTT(60) DEF Odd
    <3>3. m.hdr.dh = s.dhs_pub
      BY <1>1, <2>1, <2>2, <3>2 DEF KeysInOrder, KeyPair, SoundState, RatchetState
    <3> QED BY <1>1, <2>2, <3>1, <3>3 DEF KeysInOrder, OneChainAKey
  <2>7. s.cks # None => s.cks.step \in Nat
    BY <1>1, <1>2 DEF Chained
  <2> QED BY <2>1, <2>4, <2>5, <2>6, <2>7 DEF Derivable
<1> QED BY <1>3, <1>4

\* Neither the receiver of an accepted message nor the sender of any message holds
\* what its key derives from, at any time after.
THEOREM UsedKeysAreGone == Spec => []ForwardSecrecy
BY InitInOrder, NextInOrder, OrderGivesForwardSecrecy, PTL DEF Spec

-----------------------------------------------------------------------------
(* Genuine messages decrypt.  The two parties take turns at ratchet steps,  *)
(* so that the length of a root key tells every secret folded into it; a    *)
(* root is at most one secret ahead of the peer's.                          *)

\* The secret at place j of every root, and the root of length l.
SecretAt(j) == DH(<<Initiator, (j - 1) \div 2>>, <<Responder, j \div 2>>)

RootTo(l) == [j \in 1..l |-> SecretAt(j)]

\* The length of the root under which q sends with its ratchet key i, and the key
\* of its message numbered n there.
Length(q, i) == 2 * i + Odd(q)

KeyAt(q, i, n) == [root |-> RootTo(Length(q, i)), step |-> n]

\* The party's peer has not sent on any chain yet that the state receives on.
NothingReceived(q, s) ==
  /\ s.skipped = {} /\ s.nr = 0 /\ Len(s.rk) <= 1
  /\ s.dhr_pub # None => s.dhr_pub = <<q, 0>> /\ Len(s.rk) = 1

\* The receiving chain is the one of the peer's ratchet key, at the next number.
OnChainOf(q, s) ==
  /\ s.dhr_pub # None /\ s.dhr_pub[1] = q
  /\ Length(q, s.dhr_pub[2]) + 1 = Len(s.rk)
  /\ s.ckr = KeyAt(q, s.dhr_pub[2], s.nr)

\* The roots of a state are those of their lengths, and each stored key is the one
\* its name says, which the receiving chain has passed.
Follows(q, s) ==
  /\ s.rk = RootTo(Len(s.rk))
  /\ IF s.ckr = None THEN NothingReceived(q, s) ELSE OnChainOf(q, s)
  /\ s.cks # None => Len(s.rk) > 0
  /\ \A e \in s.skipped :
       /\ e.dh[1] = q /\ e.key = KeyAt(q, e.dh[2], e.n)
       /\ Length(q, e.dh[2]) < Len(s.rk)
       /\ e.dh = s.dhr_pub => e.n < s.nr

Stored(s, key) == \E e \in s.skipped : e.key = key

\* The state can still read a message under the key: on a chain to come, on the
\* current one, or from the store.
Readable(s, key) ==
  \/ Len(key.root) > Len(s.rk)
  \/ Len(key.root) + 1 = Len(s.rk) /\ s.nr <= key.step
  \/ Stored(s, key)

\* The messages of q: each under the key its header names, none on the chain that
\* has no sender, none at the last number; and a header tells how many messages the
\* chain before it had.
Named(q) ==
  /\ \A m \in sent[q] :
       /\ m.key = KeyAt(q, m.hdr.dh[2], m.hdr.n) /\ Len(m.key.root) > 0
       /\ m.hdr.n < U32_MAX
       /\ m.hdr.dh[2] + 1 = state[q].dhs_pub[2] => m.hdr.n < state[q].pn
  /\ \A m, x \in sent[q] : m.hdr.dh[2] + 1 = x.hdr.dh[2] => m.hdr.n < x.hdr.pn

\* The roots of the two parties are one secret apart, and the one that receives on
\* the other's current chain is not ahead on it.
InTurn(p) ==
  LET s == state[p]
      t == state[Peer(p)]
  IN  /\ Len(s.rk) = Len(t.rk) + 1 \/ Len(t.rk) = Len(s.rk) + 1
      /\ Len(s.rk) = Len(t.rk) + 1 => s.nr <= t.ns

\* What p's peer sent and p has not accepted can be read, or its key was deleted.
Covered(p) ==
  \A m \in sent[Peer(p)] \ accepted[p] : Readable(state[p], m.key) \/ m.key \in dropped[p]

Delivers(p) == Follows(Peer(p), state[p]) /\ Named(p) /\ InTurn(p) /\ Covered(p)

DInv == KInv /\ \A p \in Party : Delivers(p)

-----------------------------------------------------------------------------
(* Least numbers and powers *)

\* A set of naturals that is not empty has a least element.
LEMMA LeastExists ==
  ASSUME NEW S \in SUBSET Nat, S # {}
  PROVE  \E x \in S : \A y \in S : x <= y
<1> DEFINE R == OpToRel(<, Nat)
<1>1. IsWellFoundedOn(R, Nat)
  BY NatLessThanWellFounded
<1>2. \A x, y \in Nat : <<y, x>> \in R <=> y < x
  BY DEF OpToRel
<1> HIDE DEF R
<1>3. \A Q, N, T : IsWellFoundedOn(Q, N) /\ T \subseteq N /\ T # {}
                     => \E x \in T : \A y \in T : ~(<<y, x>> \in Q)
  BY WFMin
<1>4. S \subseteq Nat /\ S # {}
  OBVIOUS
<1>5. \E x \in S : \A y \in S : ~(<<y, x>> \in R)
  BY <1>1, <1>3, <1>4, Zenon
<1>6. PICK x \in S : \A y \in S : ~(<<y, x>> \in R)
  BY <1>5
<1>7. \A y \in S : ~(y < x)
  BY <1>2, <1>4, <1>6, Zenon
<1> QED BY <1>4, <1>7

\* A set has more subsets than elements: as many rounds as there are keys in the
\* store evict them all.
LEMMA PowerExceeds ==
  ASSUME NEW S, IsFiniteSet(S)
  PROVE  2^Cardinality(S) \in Nat /\ 2^Cardinality(S) > Cardinality(S)
<1> DEFINE f == [x \in S |-> {x}]
           T == (SUBSET S) \ {{}}
<1>1. IsFiniteSet(SUBSET S) /\ Cardinality(SUBSET S) = 2^Cardinality(S)
  BY FS_SUBSET
<1>2. IsFiniteSet(T) /\ Cardinality(T) = Cardinality(SUBSET S) - 1
  <2>1. {} \in SUBSET S
    OBVIOUS
  <2> QED BY <1>1, <2>1, FS_RemoveElement
<1>3. f \in Injection(S, T)
  BY DEF Injection, IsInjective
<1>4. Cardinality(S) <= Cardinality(T)
  BY <1>2, <1>3, FS_Injection
<1>5. Cardinality(S) \in Nat /\ Cardinality(T) \in Nat /\ Cardinality(SUBSET S) \in Nat
  BY <1>1, <1>2, FS_CardinalityType
<1> QED BY <1>1, <1>2, <1>4, <1>5

-----------------------------------------------------------------------------
(* Roots by place *)

\* The secrets at an even and at the next odd place.
LEMMA SecretsInTurn ==
  ASSUME NEW i \in Nat
  PROVE  /\ SecretAt(2 * i + 1) = DH(<<Initiator, i>>, <<Responder, i>>)
         /\ SecretAt(2 * i + 2) = DH(<<Initiator, i>>, <<Responder, i + 1>>)
<1>1. (2 * i) \div 2 = i /\ (2 * i + 1) \div 2 = i /\ (2 * i + 2) \div 2 = i + 1
  OBVIOUS
<1>2. 2 * i + 1 - 1 = 2 * i /\ 2 * i + 2 - 1 = 2 * i + 1
  OBVIOUS
<1> QED BY <1>1, <1>2 DEF SecretAt

\* A secret is a set of key pairs, so that a root is a root.
LEMMA RootsAreRoots ==
  ASSUME NEW l \in Nat
  PROVE  /\ RootTo(l) \in Root /\ Len(RootTo(l)) = l
         /\ Append(RootTo(l), SecretAt(l + 1)) = RootTo(l + 1)
<1>1. ASSUME NEW j \in Nat \ {0} PROVE SecretAt(j) \in SUBSET KeyPair
  <2>1. (j - 1) \div 2 \in Nat /\ j \div 2 \in Nat
    OBVIOUS
  <2> QED BY <2>1 DEF SecretAt, DH, KeyPair, Party
<1>2. RootTo(l) \in [1..l -> SUBSET KeyPair]
  BY <1>1 DEF RootTo
<1>3. RootTo(l) \in Root /\ Len(RootTo(l)) = l
  BY <1>2 DEF Root
<1> DEFINE a == Append(RootTo(l), SecretAt(l + 1))
<1>4. Len(a) = l + 1 /\ a \in Seq(SUBSET KeyPair)
  BY <1>1, <1>3 DEF Root
<1>5. \A j \in 1..(l + 1) : a[j] = SecretAt(j)
  <2> SUFFICES ASSUME NEW j \in 1..(l + 1) PROVE a[j] = SecretAt(j)
    OBVIOUS
  <2>1. CASE j = l + 1
    BY <1>3, <2>1 DEF Root
  <2>2. CASE j \in 1..l
    <3>1. a[j] = RootTo(l)[j]
      BY <1>3, <2>2 DEF Root
    <3> QED BY <2>2, <3>1 DEF RootTo
  <2>3. j = l + 1 \/ j \in 1..l
    OBVIOUS
  <2> HIDE DEF a
  <2> QED BY <2>1, <2>2, <2>3
<1>6. a = RootTo(l + 1)
  <2>1. a = [j \in 1..(l + 1) |-> a[j]]
    BY <1>4
  <2> HIDE DEF a
  <2> QED BY <1>5, <2>1 DEF RootTo
<1> QED BY <1>3, <1>6

\* What the name of a message says of its key, and back.
LEMMA KeysHaveNames ==
  ASSUME NEW q \in Party, NEW i \in Nat, NEW n \in Nat
  PROVE  /\ Length(q, i) \in Nat /\ KeyAt(q, i, n) \in ChainKey
         /\ Len(KeyAt(q, i, n).root) = Length(q, i) /\ KeyAt(q, i, n).step = n
         /\ \A j \in Nat : Length(q, i) = Length(q, j) => i = j
         /\ \A j, x \in Nat : KeyAt(q, i, n) = KeyAt(q, j, x) => i = j /\ n = x
<1>1. \A j \in Nat : Length(q, j) \in Nat /\ Len(RootTo(Length(q, j))) = Length(q, j)
                     /\ RootTo(Length(q, j)) \in Root
  BY RootsAreRoots DEF Length, Odd
<1>2. \A j \in Nat : Length(q, i) = Length(q, j) => i = j
  BY DEF Length, Odd
<1>3. KeyAt(q, i, n) \in ChainKey /\ KeyAt(q, i, n).root = RootTo(Length(q, i)) /\ KeyAt(q, i, n).step = n
  BY <1>1 DEF KeyAt, ChainKey
<1>4. ASSUME NEW j \in Nat, NEW x \in Nat, KeyAt(q, i, n) = KeyAt(q, j, x) PROVE i = j /\ n = x
  <2>1. n = x /\ RootTo(Length(q, i)) = RootTo(Length(q, j))
    BY <1>4 DEF KeyAt
  <2> QED BY <1>1, <1>2, <2>1
<1> QED BY <1>1, <1>2, <1>3, <1>4

\* The names of one party, for all ratchet keys and numbers at once.
LEMMA NamesOfParty ==
  ASSUME NEW q \in Party
  PROVE  /\ \A a, b \in Nat : /\ Len(KeyAt(q, a, b).root) = Length(q, a)
                              /\ KeyAt(q, a, b).step = b /\ Length(q, a) \in Nat
         /\ \A a, b \in Nat : Length(q, a) = Length(q, b) => a = b
         /\ \A a, b, c, d \in Nat : KeyAt(q, a, b) = KeyAt(q, c, d) => a = c /\ b = d
<1>1. ASSUME NEW a \in Nat, NEW b \in Nat
      PROVE  /\ Len(KeyAt(q, a, b).root) = Length(q, a) /\ KeyAt(q, a, b).step = b
             /\ Length(q, a) \in Nat
             /\ Length(q, a) = Length(q, b) => a = b
             /\ \A c, d \in Nat : KeyAt(q, a, b) = KeyAt(q, c, d) => a = c /\ b = d
  BY KeysHaveNames
<1> QED BY <1>1

-----------------------------------------------------------------------------
(* What the operations keep readable *)

\* All but the store and the clock is the same.
SameChains(s, t) ==
  /\ t.rk = s.rk /\ t.ckr = s.ckr /\ t.cks = s.cks /\ t.dhr_pub = s.dhr_pub /\ t.dhs_pub = s.dhs_pub
  /\ t.nr = s.nr /\ t.ns = s.ns /\ t.pn = s.pn

\* Keys may go from the store.
LEMMA FewerFollow ==
  ASSUME NEW q, NEW s, NEW t, Follows(q, s), SameChains(s, t), t.skipped \subseteq s.skipped
  PROVE  Follows(q, t)
BY DEF Follows, SameChains, NothingReceived, OnChainOf

\* age_store deletes nothing that was stored since the last receive counted.
LEMMA AgeFollows ==
  ASSUME NEW q, NEW s, SoundState(s), Follows(q, s)
  PROVE  LET t == age_store(s)
         IN  /\ Follows(q, t) /\ SameChains(s, t) /\ t.skipped \subseteq s.skipped
             /\ \A e \in s.skipped : e.stored_at = s.events => e \in t.skipped
<1> DEFINE t == age_store(s)
           stepped == saturating_add(s.events, 1)
           now == IF stepped = U32_MAX THEN MAX_EVENTS ELSE stepped
<1>1. SameChains(s, t) /\ t.skipped = {e \in s.skipped : now - e.stored_at < MAX_SKIPPED_AGE}
  BY DEF age_store, SoundState, RatchetState, SameChains
<1>2. s.events \in Nat /\ s.events < U32_MAX /\ U32_MAX \in Nat
  BY BoundsAssumption DEF SoundState, RatchetState, U32, invariant, ClockBelowCeiling
<1>3. now \in Nat /\ now - s.events < MAX_SKIPPED_AGE
  BY <1>2, BoundsAssumption DEF saturating_add, MAX_EVENTS
<1> HIDE DEF t, now
<1>4. t.skipped \subseteq s.skipped
  BY <1>1
<1>5. \A e \in s.skipped : e.stored_at = s.events => e \in t.skipped
  BY <1>1, <1>3
<1> QED BY <1>1, <1>4, <1>5, FewerFollow DEF t

\* What a skip does: the keys it passes are stored, stamped with the clock, and none
\* is lost.
Skips(q, s, t, upto) ==
  /\ t.rk = s.rk /\ t.cks = s.cks /\ t.dhr_pub = s.dhr_pub /\ t.dhs_pub = s.dhs_pub
  /\ t.ns = s.ns /\ t.pn = s.pn /\ t.events = s.events
  /\ s.skipped \subseteq t.skipped
  /\ s.ckr = None => t = s
  /\ s.ckr # None =>
       /\ t.ckr # None
       /\ t.nr = IF s.nr < upto THEN upto ELSE s.nr
       /\ \A n \in Nat : s.nr <= n /\ n < upto =>
            \E e \in t.skipped : e.key = KeyAt(q, s.dhr_pub[2], n) /\ e.stored_at = t.events

\* skip_message_keys, when it does not refuse.
LEMMA SkipFollows ==
  ASSUME NEW q \in Party, NEW s, SoundState(s), Follows(q, s), NEW upto \in U32,
         skip_message_keys(s, upto).ok
  PROVE  LET t == skip_message_keys(s, upto).state
         IN  Follows(q, t) /\ Skips(q, s, t, upto)
<1> DEFINE r == skip_message_keys(s, upto)
           t == r.state
           count == upto - s.nr
           kept == purge_chain_range(s.skipped, s.dhr_pub, s.nr, upto)
           D == DerivedEntries(s.ckr, s.dhr_pub, s.nr, upto, s.events, s.pushed)
<1>0. s \in RatchetState /\ s.nr \in Nat /\ upto \in Nat /\ s.skipped \subseteq Entry
  BY BoundsAssumption DEF SoundState, RatchetState, U32
<1>1. s.ckr # None => s.dhr_pub # None
  BY DEF Follows, OnChainOf
<1>2. CASE s.ckr = None \/ upto <= s.nr
  <2>1. t = s
    BY <1>2 DEF skip_message_keys, Ok
  <2>2. ~(s.nr < upto) \/ s.ckr = None
    BY <1>0, <1>2
  <2>3. \A n \in Nat : s.ckr # None => ~(s.nr <= n /\ n < upto)
    BY <1>0, <1>2
  <2> HIDE DEF t, r
  <2> QED BY <2>1, <2>2, <2>3 DEF Skips, t, r
<1>3. CASE ~(s.ckr = None \/ upto <= s.nr)
  <2>1. /\ s.ckr \in ChainKey /\ s.dhr_pub \in KeyPair /\ s.nr < upto /\ count \in Nat
        /\ s.dhr_pub[2] \in Nat
    BY <1>0, <1>1, <1>3 DEF RatchetState, KeyPair
  <2>2. ~(upto > SkipLimit(s.nr)) /\ HasRoom(kept, count)
    BY <1>1, <1>3 DEF skip_message_keys, Err
  <2>3. t = [s EXCEPT !.ckr = ChainAfter(@, count), !.nr = upto,
                      !.pushed = @ + count, !.skipped = kept \cup D]
    BY <1>1, <1>3, <2>2 DEF skip_message_keys, Ok
  <2>4. /\ t.rk = s.rk /\ t.cks = s.cks /\ t.dhr_pub = s.dhr_pub /\ t.dhs_pub = s.dhs_pub
        /\ t.ns = s.ns /\ t.pn = s.pn /\ t.events = s.events /\ t.nr = upto
        /\ t.ckr = ChainAfter(s.ckr, count) /\ t.skipped = kept \cup D
    BY <1>0, <2>3 DEF RatchetState
  <2>5. s.ckr = KeyAt(q, s.dhr_pub[2], s.nr) /\ OnChainOf(q, s)
    BY <1>3 DEF Follows, OnChainOf
  <2>6. \A i \in Nat : ChainAfter(s.ckr, i) = KeyAt(q, s.dhr_pub[2], s.nr + i)
    BY <2>5 DEF ChainAfter, KeyAt
  <2>7. t.ckr = KeyAt(q, s.dhr_pub[2], upto)
    BY <1>0, <2>1, <2>4, <2>6
  <2>8. \A e \in D : e.dh = s.dhr_pub /\ e.n \in Nat /\ e.n < upto /\ e.key = KeyAt(q, s.dhr_pub[2], e.n)
    <3>1. \A i \in s.nr..(upto - 1) :
            i \in Nat /\ i - s.nr \in Nat /\ s.nr + (i - s.nr) = i /\ i < upto
      BY <1>0
    <3> HIDE DEF count, kept
    <3> QED BY <2>6, <3>1 DEF DerivedEntries
  <2>9. \A n \in Nat : s.nr <= n /\ n < upto =>
          \E e \in D : e.key = KeyAt(q, s.dhr_pub[2], n) /\ e.stored_at = s.events
    <3> SUFFICES ASSUME NEW n \in Nat, s.nr <= n, n < upto
                 PROVE  \E e \in D : e.key = KeyAt(q, s.dhr_pub[2], n) /\ e.stored_at = s.events
      OBVIOUS
    <3>1. n \in s.nr..(upto - 1) /\ n - s.nr \in Nat /\ s.nr + (n - s.nr) = n
      BY <1>0
    <3> DEFINE e == [dh |-> s.dhr_pub, n |-> n, stored_at |-> s.events,
                     key |-> ChainAfter(s.ckr, n - s.nr), pos |-> s.pushed + (n - s.nr)]
    <3>2. e \in D
      BY <3>1 DEF DerivedEntries
    <3>3. e.key = KeyAt(q, s.dhr_pub[2], n) /\ e.stored_at = s.events
      BY <2>6, <3>1
    <3> QED BY <3>2, <3>3
  <2>10. kept = s.skipped
    BY <1>0, <2>1 DEF purge_chain_range, Follows, Entry, U32
  <2> HIDE DEF t, r, kept, D, count
  <2>11. t.ckr # None
    <3>1. t.ckr \in ChainKey
      BY <1>0, <2>1, <2>7, KeysHaveNames
    <3> QED BY <3>1, NoneAssumption
  <2>12. OnChainOf(q, t)
    BY <2>4, <2>5, <2>7 DEF OnChainOf
  <2>13. \A e \in t.skipped :
           /\ e.dh[1] = q /\ e.key = KeyAt(q, e.dh[2], e.n)
           /\ Length(q, e.dh[2]) < Len(t.rk)
           /\ e.dh = t.dhr_pub => e.n < t.nr
    <3>1. ASSUME NEW e \in s.skipped
          PROVE  /\ e.dh[1] = q /\ e.key = KeyAt(q, e.dh[2], e.n)
                 /\ Length(q, e.dh[2]) < Len(t.rk)
                 /\ e.dh = t.dhr_pub => e.n < t.nr
      <4>1. e.n \in Nat
        BY <1>0, <3>1, BoundsAssumption DEF Entry, U32
      <4>2. e.dh = s.dhr_pub => e.n < s.nr
        BY <3>1 DEF Follows
      <4> QED BY <1>0, <2>1, <2>4, <3>1, <4>1, <4>2 DEF Follows
    <3>2. ASSUME NEW e \in D
          PROVE  /\ e.dh[1] = q /\ e.key = KeyAt(q, e.dh[2], e.n)
                 /\ Length(q, e.dh[2]) < Len(t.rk)
                 /\ e.dh = t.dhr_pub => e.n < t.nr
      <4>1. s.dhr_pub[1] = q /\ Length(q, s.dhr_pub[2]) + 1 = Len(s.rk) /\ Length(q, s.dhr_pub[2]) \in Nat
        BY <2>1, <2>5 DEF OnChainOf, Length, Odd
      <4> QED BY <2>4, <2>8, <3>2, <4>1
    <3> QED BY <2>4, <2>10, <3>1, <3>2
  <2>14. Follows(q, t)
    BY <2>4, <2>11, <2>12, <2>13 DEF Follows
  <2>15. Skips(q, s, t, upto)
    BY <1>3, <2>1, <2>4, <2>9, <2>10, <2>11 DEF Skips
  <2> QED BY <2>14, <2>15 DEF t, r
<1> QED BY <1>2, <1>3

\* The state of p from which a ratchet step starts: its keys are numbered, and its
\* root is as long as its number says.
Numbered(p, i, s) == s.dhs_pub = <<p, i>> /\ Len(s.rk) = Length(p, i)

\* What a ratchet step does that is its turn: both chains are the next ones.
Steps(q, s, t, h) ==
  /\ Len(t.rk) = Len(s.rk) + 2 /\ t.dhr_pub = h.dh /\ t.ckr # None /\ t.nr = 0
  /\ t.ns = 0 /\ t.pn = s.ns /\ t.skipped = s.skipped /\ t.events = s.events

\* The two secrets of the step are the next two of the root.
LEMMA NextSecrets ==
  ASSUME NEW p \in Party, NEW i \in Nat, NEW k \in Nat, Length(Peer(p), k) = Length(p, i) + 1
  PROVE  /\ DH(<<p, i>>, <<Peer(p), k>>) = SecretAt(Length(p, i) + 1)
         /\ DH(<<p, i + 1>>, <<Peer(p), k>>) = SecretAt(Length(p, i) + 2)
<1>1. CASE p = Initiator
  <2>1. Peer(p) = Responder /\ Odd(p) = 1 /\ Odd(Peer(p)) = 0
    BY <1>1, PartyAssumption DEF Peer, Odd
  <2>2. Length(p, i) = 2 * i + 1 /\ k = i + 1
    BY <2>1 DEF Length
  <2>3. Length(p, i) + 1 = 2 * i + 2 /\ Length(p, i) + 2 = 2 * (i + 1) + 1 /\ i + 1 \in Nat
    BY <2>2
  <2>4. /\ SecretAt(2 * i + 2) = DH(<<Initiator, i>>, <<Responder, i + 1>>)
        /\ SecretAt(2 * (i + 1) + 1) = DH(<<Initiator, i + 1>>, <<Responder, i + 1>>)
    BY <2>3, SecretsInTurn
  <2> QED BY <1>1, <2>1, <2>2, <2>3, <2>4
<1>2. CASE p = Responder
  <2>1. Peer(p) = Initiator /\ Odd(p) = 0 /\ Odd(Peer(p)) = 1
    BY <1>2, PartyAssumption DEF Peer, Odd
  <2>2. Length(p, i) = 2 * i /\ k = i
    BY <2>1 DEF Length
  <2>3. Length(p, i) + 1 = 2 * i + 1 /\ Length(p, i) + 2 = 2 * i + 2
    BY <2>2
  <2>4. /\ SecretAt(2 * i + 1) = DH(<<Initiator, i>>, <<Responder, i>>)
        /\ SecretAt(2 * i + 2) = DH(<<Initiator, i>>, <<Responder, i + 1>>)
    BY SecretsInTurn
  <2>5. \A a, b : DH(a, b) = DH(b, a)
    BY DEF DH
  <2> QED BY <1>2, <2>1, <2>2, <2>3, <2>4, <2>5
<1> QED BY <1>1, <1>2 DEF Party

\* dh_ratchet under the ratchet key whose turn it is.
LEMMA StepFollows ==
  ASSUME NEW p \in Party, NEW i \in Nat, NEW k \in Nat, NEW s, SoundState(s), Follows(Peer(p), s),
         Numbered(p, i, s), NEW h \in Header, h.dh = <<Peer(p), k>>,
         Length(Peer(p), k) = Len(s.rk) + 1
  PROVE  LET t == dh_ratchet(s, h, DH(<<p, i>>, h.dh), DH(<<p, i + 1>>, h.dh), <<p, i + 1>>)
         IN  Follows(Peer(p), t) /\ Steps(Peer(p), s, t, h) /\ Numbered(p, i + 1, t)
<1> DEFINE q == Peer(p)
           l == Length(p, i)
           dr == DH(<<p, i>>, h.dh)
           ds == DH(<<p, i + 1>>, h.dh)
           recv == kdf_rk(s.rk, dr)
           sends == kdf_rk(recv[1], ds)
           t == dh_ratchet(s, h, dr, ds, <<p, i + 1>>)
<1>1. q \in Party /\ l \in Nat /\ s \in RatchetState
  BY DEF Peer, Party, Length, Odd, SoundState
<1>2. dr = SecretAt(l + 1) /\ ds = SecretAt(l + 2)
  BY NextSecrets DEF Numbered
<1>3. s.rk = RootTo(l)
  BY DEF Follows, Numbered
<1>4. recv[1] = RootTo(l + 1) /\ recv[2] = [root |-> RootTo(l + 1), step |-> 0]
  BY <1>1, <1>2, <1>3, RootsAreRoots DEF kdf_rk, ChainStart
<1>5. sends[1] = RootTo(l + 2) /\ sends[2] = [root |-> RootTo(l + 2), step |-> 0]
  <2>1. l + 1 \in Nat /\ l + 1 + 1 = l + 2
    BY <1>1
  <2> QED BY <1>2, <1>4, <2>1, RootsAreRoots DEF kdf_rk, ChainStart
<1> HIDE DEF recv, sends, dr, ds
<1>6. /\ t.rk = sends[1] /\ t.ckr = recv[2] /\ t.cks = sends[2] /\ t.ns = 0 /\ t.nr = 0
      /\ t.pn = s.ns /\ t.dhr_pub = h.dh /\ t.dhs_pub = <<p, i + 1>> /\ t.skipped = s.skipped
      /\ t.events = s.events
  BY <1>1 DEF dh_ratchet, RatchetState, recv, sends
<1> HIDE DEF t
<1>7. t.rk = RootTo(l + 2) /\ Len(t.rk) = l + 2 /\ t.rk = RootTo(Len(t.rk))
  <2>1. l + 2 \in Nat
    BY <1>1
  <2> QED BY <1>5, <1>6, <2>1, RootsAreRoots
<1>8. t.ckr = KeyAt(q, k, 0)
  BY <1>4, <1>6 DEF KeyAt, Numbered
<1>9. t.ckr # None
  BY <1>1, <1>8, KeysHaveNames, NoneAssumption, SMTT(60)
<1>10. OnChainOf(q, t)
  <2>1. t.dhr_pub = <<q, k>> /\ h.dh \in KeyPair
    BY <1>6 DEF Header
  <2>2. t.dhr_pub # None
    BY <1>6, <2>1, NoneAssumption
  <2>3. Length(q, k) + 1 = Len(t.rk)
    BY <1>1, <1>7 DEF Numbered
  <2> QED BY <1>6, <1>8, <2>1, <2>2, <2>3 DEF OnChainOf
<1>11. \A e \in t.skipped :
         /\ e.dh[1] = q /\ e.key = KeyAt(q, e.dh[2], e.n)
         /\ Length(q, e.dh[2]) < Len(t.rk)
         /\ e.dh = t.dhr_pub => e.n < t.nr
  <2> SUFFICES ASSUME NEW e \in s.skipped
               PROVE  /\ e.dh[1] = q /\ e.key = KeyAt(q, e.dh[2], e.n)
                      /\ Length(q, e.dh[2]) < Len(t.rk)
                      /\ e.dh # t.dhr_pub
    BY <1>6
  <2>1. e.dh[1] = q /\ e.key = KeyAt(q, e.dh[2], e.n) /\ Length(q, e.dh[2]) < l
    BY DEF Follows, Numbered
  <2>2. e.dh[2] \in Nat
    BY <1>1 DEF RatchetState, Entry, KeyPair
  <2>3. Length(q, e.dh[2]) \in Nat
    BY <2>2 DEF Length, Odd
  <2>4. e.dh # h.dh
    BY <1>1, <2>1, <2>3 DEF Numbered
  <2> QED BY <1>1, <1>6, <1>7, <2>1, <2>3, <2>4
<1>12. Follows(q, t)
  BY <1>1, <1>7, <1>9, <1>10, <1>11 DEF Follows
<1>13. Steps(q, s, t, h)
  BY <1>6, <1>7, <1>9 DEF Steps, Numbered
<1>14. Numbered(p, i + 1, t)
  <2>1. Length(p, i + 1) = l + 2
    BY DEF Length, Odd
  <2> QED BY <1>6, <1>7, <2>1 DEF Numbered
<1> QED BY <1>12, <1>13, <1>14 DEF t, dr, ds

\* What taking the key numbered n from the current chain does: those before it are
\* stored, and nothing is lost that was stored since the last receive counted.
ReadsOnChain(q, s, t, n) ==
  /\ t.rk = s.rk /\ t.dhr_pub = s.dhr_pub /\ t.dhs_pub = s.dhs_pub /\ t.ns = s.ns /\ t.pn = s.pn
  /\ s.nr <= n /\ t.nr = n + 1
  /\ \A x \in Nat : s.nr <= x /\ x < n => Stored(t, KeyAt(q, s.dhr_pub[2], x))
  /\ \A e \in s.skipped : e.stored_at = s.events => e \in t.skipped

\* ReceiveOnChain, when it finds a key.
LEMMA OnChainFollows ==
  ASSUME NEW q \in Party, NEW s, SoundState(s), Follows(q, s), NEW h \in Header,
         ReceiveOnChain(s, h).ok
  PROVE  LET r == ReceiveOnChain(s, h)
         IN  /\ Follows(q, r.state) /\ ReadsOnChain(q, s, r.state, h.n)
             /\ r.key = KeyAt(q, s.dhr_pub[2], h.n) /\ s.ckr # None
<1> DEFINE skip == skip_message_keys(s, h.n)
           cur == skip.state
           next == [cur EXCEPT !.ckr = kdf_ck(@)[1], !.nr = @ + 1]
           r == ReceiveOnChain(s, h)
<1>1. h.n \in U32 /\ h.n \in Nat
  BY BoundsAssumption DEF Header, U32
<1>2. skip.ok
  BY DEF ReceiveOnChain
<1>3. ~(h.n < cur.nr) /\ cur.ckr # None /\ cur.nr # U32_MAX
  BY <1>2 DEF ReceiveOnChain, Err
<1>4. r.state = age_store(next) /\ r.key = cur.ckr
  BY <1>2, <1>3 DEF ReceiveOnChain, Ok, kdf_ck
<1>5. SoundState(cur) /\ Follows(q, cur) /\ Skips(q, s, cur, h.n)
  BY <1>1, <1>2, SkipIsSound, SkipFollows
<1> HIDE DEF skip, cur, r
<1>6. s.ckr # None /\ s.nr \in Nat /\ s.dhr_pub[2] \in Nat /\ s.dhr_pub \in KeyPair
  <2>1. s.ckr # None
    BY <1>3, <1>5 DEF Skips
  <2>2. s.dhr_pub # None
    BY <2>1 DEF Follows, OnChainOf
  <2> QED BY <2>1, <2>2, BoundsAssumption DEF SoundState, RatchetState, U32, KeyPair
<1>7. cur.nr = h.n /\ s.nr <= h.n
  BY <1>1, <1>3, <1>5, <1>6 DEF Skips
<1>8. cur.ckr = KeyAt(q, s.dhr_pub[2], h.n) /\ OnChainOf(q, cur)
  BY <1>3, <1>5, <1>7 DEF Follows, OnChainOf, Skips
<1>9. cur \in RatchetState /\ cur.nr + 1 \in U32
  BY <1>1, <1>3, <1>5, <1>7, BoundsAssumption DEF SoundState, U32
<1>10. /\ next.ckr = kdf_ck(cur.ckr)[1] /\ next.rk = cur.rk /\ next.cks = cur.cks
       /\ next.ns = cur.ns /\ next.pn = cur.pn /\ next.dhs_pub = cur.dhs_pub
       /\ next.dhr_pub = cur.dhr_pub /\ next.nr = cur.nr + 1 /\ next.events = cur.events
       /\ next.skipped = cur.skipped
  BY <1>9 DEF RatchetState
<1>11. next.ckr = KeyAt(q, s.dhr_pub[2], h.n + 1) /\ next.ckr \in ChainKey
  <2>1. next.ckr = KeyAt(q, s.dhr_pub[2], h.n + 1)
    BY <1>8, <1>10 DEF kdf_ck, KeyAt
  <2>2. h.n + 1 \in Nat
    BY <1>1
  <2>3. KeyAt(q, s.dhr_pub[2], h.n + 1) \in ChainKey
    BY <1>6, <2>2, KeysHaveNames, SMTT(60)
  <2> HIDE DEF next
  <2> QED BY <2>1, <2>3
<1>12. SoundState(next)
  <2>1. next \in RatchetState
    BY <1>9, <1>10, <1>11 DEF RatchetState
  <2> HIDE DEF next
  <2>2. invariant(next)
    BY <1>3, <1>5, <1>10
    DEF SoundState, invariant, StoreBounded, StoreIsMap, StoreNotAhead, ClockBelowCeiling, ChainsOpenInOrder
  <2> QED BY <1>5, <1>10, <2>1, <2>2 DEF SoundState
<1> HIDE DEF next
<1>13. Follows(q, next)
  <2>1. next.ckr # None
    BY <1>11, NoneAssumption
  <2>2. OnChainOf(q, next)
    BY <1>5, <1>7, <1>8, <1>10, <1>11 DEF OnChainOf, Skips
  <2>3. \A e \in cur.skipped : e.n \in Nat
    BY <1>9, BoundsAssumption DEF RatchetState, Entry, U32
  <2>4. \A e \in next.skipped : e.dh = next.dhr_pub => e.n < next.nr
    BY <1>1, <1>5, <1>7, <1>10, <2>3 DEF Follows
  <2> QED BY <1>5, <1>10, <2>1, <2>2, <2>4 DEF Follows
<1> DEFINE t == age_store(next)
<1>14. /\ Follows(q, t) /\ SameChains(next, t)
       /\ \A e \in next.skipped : e.stored_at = next.events => e \in t.skipped
  BY <1>12, <1>13, AgeFollows
<1> HIDE DEF t
<1>15. ReadsOnChain(q, s, t, h.n)
  <2>1. /\ t.rk = s.rk /\ t.dhr_pub = s.dhr_pub /\ t.dhs_pub = s.dhs_pub /\ t.ns = s.ns
        /\ t.pn = s.pn /\ t.nr = h.n + 1
    BY <1>5, <1>7, <1>10, <1>14 DEF Skips, SameChains
  <2>2. \A e \in cur.skipped : e.stored_at = cur.events => e \in t.skipped
    BY <1>10, <1>14
  <2>3. \A x \in Nat : s.nr <= x /\ x < h.n => Stored(t, KeyAt(q, s.dhr_pub[2], x))
    BY <1>5, <1>6, <2>2 DEF Skips, Stored
  <2>4. \A e \in s.skipped : e.stored_at = s.events => e \in t.skipped
    BY <1>5, <2>2 DEF Skips
  <2> QED BY <1>7, <2>1, <2>3, <2>4 DEF ReadsOnChain
<1> QED BY <1>4, <1>6, <1>8, <1>14, <1>15 DEF t, r

\* The sending side is the same, or a ratchet step in its turn replaced it.
Stayed(s, t) == t.rk = s.rk /\ t.dhs_pub = s.dhs_pub /\ t.ns = s.ns /\ t.pn = s.pn

Stepped(q, s, t, h) ==
  /\ Length(q, h.dh[2]) = Len(s.rk) + 1 /\ Len(t.rk) = Len(s.rk) + 2
  /\ t.dhs_pub[2] = s.dhs_pub[2] + 1 /\ t.ns = 0 /\ t.pn = s.ns

\* The receiving chain is where it was, or has just passed the message.
Passed(q, s, t, h) ==
  \/ t.rk = s.rk /\ t.nr = s.nr
  \/ t.nr = h.n + 1 /\ Length(q, h.dh[2]) + 1 = Len(t.rk)

\* What could be read and was not stored still can, if the header of a message that
\* starts a chain does not understate the chain before it.
StillReads(q, s, t, h) ==
  \A j, n \in Nat :
    /\ Length(q, j) > 0
    /\ Readable(s, KeyAt(q, j, n)) /\ ~Stored(s, KeyAt(q, j, n))
    /\ t.rk # s.rk /\ Length(q, j) + 1 = Len(s.rk) => n < h.pn
    => Readable(t, KeyAt(q, j, n)) \/ KeyAt(q, j, n) = KeyAt(q, h.dh[2], h.n)

Receives(q, s, t, h) ==
  /\ Follows(q, t)
  /\ Stayed(s, t) \/ Stepped(q, s, t, h)
  /\ Passed(q, s, t, h) /\ StillReads(q, s, t, h)

\* Taking a key from the current chain.
LEMMA ChainReceives ==
  ASSUME NEW q \in Party, NEW s, SoundState(s), Follows(q, s), NEW h \in Header,
         h.dh = s.dhr_pub, ReceiveOnChain(s, h).ok
  PROVE  LET r == ReceiveOnChain(s, h)
         IN  Receives(q, s, r.state, h) /\ r.key = KeyAt(q, h.dh[2], h.n)
<1> DEFINE r == ReceiveOnChain(s, h)
           t == r.state
<1>1. Follows(q, t) /\ ReadsOnChain(q, s, t, h.n) /\ r.key = KeyAt(q, h.dh[2], h.n) /\ s.ckr # None
  BY OnChainFollows
<1> HIDE DEF r, t
<1>2. h.n \in Nat /\ h.dh[2] \in Nat /\ s.nr \in Nat /\ h.dh \in KeyPair
  BY BoundsAssumption DEF Header, U32, KeyPair, SoundState, RatchetState
<1>3. Length(q, h.dh[2]) + 1 = Len(s.rk)
  BY <1>1 DEF Follows, OnChainOf
<1>4. /\ t.rk = s.rk /\ t.dhs_pub = s.dhs_pub /\ t.ns = s.ns /\ t.pn = s.pn /\ t.nr = h.n + 1
      /\ s.nr <= h.n
      /\ \A x \in Nat : s.nr <= x /\ x < h.n => Stored(t, KeyAt(q, h.dh[2], x))
  BY <1>1 DEF ReadsOnChain
<1>5. ASSUME NEW j \in Nat, NEW n \in Nat,
             Readable(s, KeyAt(q, j, n)), ~Stored(s, KeyAt(q, j, n))
      PROVE  Readable(t, KeyAt(q, j, n)) \/ KeyAt(q, j, n) = KeyAt(q, h.dh[2], h.n)
  <2> DEFINE key == KeyAt(q, j, n)
  <2>1. Len(key.root) = Length(q, j) /\ key.step = n /\ Length(q, j) \in Nat
    BY KeysHaveNames
  <2> HIDE DEF key
  <2>2. CASE Len(key.root) > Len(s.rk)
    BY <1>4, <2>2 DEF Readable, key
  <2>3. CASE Len(key.root) + 1 = Len(s.rk) /\ s.nr <= key.step
    <3>1. Length(q, j) = Length(q, h.dh[2])
      <4>1. Length(q, h.dh[2]) \in Nat
        BY <1>2 DEF Length, Odd
      <4> QED BY <1>3, <2>1, <2>3, <4>1
    <3>2. j = h.dh[2]
      BY <1>2, <3>1, KeysHaveNames
    <3>3. CASE n < h.n
      BY <1>4, <2>1, <2>3, <3>2, <3>3 DEF Readable, key
    <3>4. CASE n = h.n
      BY <3>2, <3>4
    <3>5. CASE n > h.n
      BY <1>2, <1>4, <2>1, <2>3, <3>5 DEF Readable, key
    <3> QED BY <1>2, <3>3, <3>4, <3>5
  <2> QED BY <1>5, <2>2, <2>3 DEF Readable, key
<1>6. StillReads(q, s, t, h)
  BY <1>5 DEF StillReads
<1>7. Receives(q, s, t, h)
  BY <1>1, <1>3, <1>4, <1>6 DEF Receives, Stayed, Passed
<1> QED BY <1>1, <1>7 DEF t, r

\* Taking a key from the store.
LEMMA StoreReceives ==
  ASSUME NEW q \in Party, NEW s, SoundState(s), Follows(q, s), NEW h \in Header,
         Matches(s, h) # {}
  PROVE  LET r == TakeSkipped(s, FirstMatch(s, h))
         IN  Receives(q, s, r.state, h) /\ r.key = KeyAt(q, h.dh[2], h.n)
<1> DEFINE e == FirstMatch(s, h)
           u == [s EXCEPT !.skipped = @ \ {e}]
           t == age_store(u)
<1>1. e \in s.skipped /\ e.dh = h.dh /\ e.n = h.n
  BY FirstMatchIsStored DEF Matches
<1> HIDE DEF e
<1>2. SoundState(u)
  BY FewerKeys
<1>3. SameChains(s, u) /\ u.skipped \subseteq s.skipped
  BY DEF SameChains, SoundState, RatchetState
<1> HIDE DEF u
<1>4. Follows(q, u)
  BY <1>3, FewerFollow
<1>5. Follows(q, t) /\ SameChains(u, t)
  BY <1>2, <1>4, AgeFollows
<1> HIDE DEF t
<1>6. t.rk = s.rk /\ t.dhs_pub = s.dhs_pub /\ t.ns = s.ns /\ t.pn = s.pn /\ t.nr = s.nr
  BY <1>3, <1>5 DEF SameChains
<1>7. StillReads(q, s, t, h)
  BY <1>6 DEF StillReads, Readable
<1>8. e.key = KeyAt(q, h.dh[2], h.n)
  BY <1>1 DEF Follows
<1>9. Receives(q, s, t, h)
  BY <1>5, <1>6, <1>7 DEF Receives, Stayed, Passed
<1> QED BY <1>8, <1>9 DEF TakeSkipped, Ok, t, u, e

\* Taking a key from a chain that a ratchet step opens in its turn.
LEMMA StepReceives ==
  ASSUME NEW p \in Party, NEW i \in Nat, NEW s, SoundState(s), Follows(Peer(p), s),
         Numbered(p, i, s), NEW h \in Header, h.dh[1] = Peer(p),
         Length(Peer(p), h.dh[2]) = Len(s.rk) + 1, skip_message_keys(s, h.pn).ok,
         ReceiveOnChain(dh_ratchet(skip_message_keys(s, h.pn).state, h, DH(<<p, i>>, h.dh),
                                   DH(<<p, i + 1>>, h.dh), <<p, i + 1>>), h).ok
  PROVE  LET r == ReceiveOnChain(dh_ratchet(skip_message_keys(s, h.pn).state, h,
                                   DH(<<p, i>>, h.dh), DH(<<p, i + 1>>, h.dh), <<p, i + 1>>), h)
         IN  Receives(Peer(p), s, r.state, h) /\ r.key = KeyAt(Peer(p), h.dh[2], h.n)
<1> DEFINE q == Peer(p)
           cur == skip_message_keys(s, h.pn).state
           dr == DH(<<p, i>>, h.dh)
           ds == DH(<<p, i + 1>>, h.dh)
           u == dh_ratchet(cur, h, dr, ds, <<p, i + 1>>)
           r == ReceiveOnChain(u, h)
           t == r.state
<1>1. /\ q \in Party /\ h.n \in Nat /\ h.pn \in U32 /\ h.pn \in Nat /\ h.dh \in KeyPair
      /\ h.dh[2] \in Nat /\ h.dh = <<q, h.dh[2]>> /\ s.nr \in Nat /\ i + 1 \in Nat
      /\ <<p, i>> \in KeyPair /\ <<p, i + 1>> \in KeyPair
  BY BoundsAssumption DEF Header, U32, KeyPair, SoundState, RatchetState, Peer, Party
<1>0. /\ \A a, b \in Nat : /\ Len(KeyAt(q, a, b).root) = Length(q, a)
                           /\ KeyAt(q, a, b).step = b /\ Length(q, a) \in Nat
      /\ \A a, b \in Nat : Length(q, a) = Length(q, b) => a = b
  BY <1>1, NamesOfParty
<1>2. dr \in SUBSET KeyPair /\ ds \in SUBSET KeyPair
  BY <1>1 DEF DH
<1>3. SoundState(cur) /\ Follows(q, cur) /\ Skips(q, s, cur, h.pn)
  BY <1>1, SkipIsSound, SkipFollows
<1> HIDE DEF cur
<1>4. cur.rk = s.rk /\ cur.dhs_pub = s.dhs_pub /\ cur.ns = s.ns /\ Numbered(p, i, cur)
  BY <1>3 DEF Skips, Numbered
<1>5. Follows(q, u) /\ Steps(q, cur, u, h) /\ Numbered(p, i + 1, u)
  BY <1>1, <1>3, <1>4, StepFollows
<1>6. SoundState(u)
  BY <1>1, <1>2, <1>3, DhRatchetIsSound
<1> HIDE DEF u
<1>7. r.ok
  BY DEF u, cur
<1>8. u.dhr_pub = h.dh
  BY <1>5 DEF Steps
<1>9. Receives(q, u, t, h) /\ r.key = KeyAt(q, h.dh[2], h.n)
  BY <1>1, <1>5, <1>6, <1>7, <1>8, ChainReceives
<1>10. ReadsOnChain(q, u, t, h.n)
  BY <1>1, <1>5, <1>6, <1>7, OnChainFollows
<1> HIDE DEF r, t
<1>11. /\ t.rk = u.rk /\ t.dhs_pub = <<p, i + 1>> /\ t.ns = 0 /\ t.pn = s.ns /\ t.nr = h.n + 1
       /\ Len(t.rk) = Len(s.rk) + 2 /\ Len(s.rk) \in Nat /\ s.dhs_pub = <<p, i>>
  BY <1>4, <1>5, <1>10 DEF ReadsOnChain, Steps, Numbered, Length, Odd
<1>12. Stepped(q, s, t, h) /\ Passed(q, s, t, h)
  BY <1>11 DEF Stepped, Passed
<1>13. ASSUME NEW j \in Nat, NEW n \in Nat, Length(q, j) > 0,
              Readable(s, KeyAt(q, j, n)), ~Stored(s, KeyAt(q, j, n)),
              Length(q, j) + 1 = Len(s.rk) => n < h.pn
       PROVE  Readable(t, KeyAt(q, j, n)) \/ KeyAt(q, j, n) = KeyAt(q, h.dh[2], h.n)
  <2> DEFINE key == KeyAt(q, j, n)
  <2>1. Len(key.root) = Length(q, j) /\ key.step = n /\ Length(q, j) \in Nat
    BY <1>0
  <2> HIDE DEF key
  <2>2. CASE Len(key.root) > Len(s.rk)
    <3>1. Length(q, j) # Len(s.rk) + 2
      <4>1. Len(s.rk) = 2 * i + Odd(p) /\ Length(q, j) = 2 * j + Odd(q)
        BY DEF Numbered, Length
      <4>2. Odd(p) + Odd(q) = 1 /\ Odd(p) \in {0, 1} /\ Odd(q) \in {0, 1}
        BY PartyAssumption DEF Odd, Peer, Party
      <4> HIDE DEF q
      <4> QED BY <4>1, <4>2
    <3>2. CASE Length(q, j) = Len(s.rk) + 1
      <4>1. j = h.dh[2]
        <5>1. Length(q, j) = Length(q, h.dh[2])
          BY <3>2
        <5> QED BY <1>0, <1>1, <5>1
      <4>2. ~(n < h.n) => n = h.n \/ h.n + 1 <= n
        BY <1>1
      <4>3. CASE n < h.n
        <5>1. u.nr <= n
          BY <1>5, <4>3 DEF Steps
        <5>2. Stored(t, KeyAt(q, u.dhr_pub[2], n))
          BY <1>10, <4>3, <5>1 DEF ReadsOnChain
        <5> QED BY <1>8, <4>1, <5>2 DEF Readable, key
      <4>4. CASE n = h.n
        BY <4>1, <4>4
      <4>5. CASE h.n + 1 <= n
        BY <1>11, <2>1, <3>2, <4>5 DEF Readable, key
      <4> QED BY <4>2, <4>3, <4>4, <4>5
    <3>3. CASE Length(q, j) > Len(s.rk) + 2
      BY <1>11, <2>1, <3>3 DEF Readable, key
    <3>4. Length(q, j) = Len(s.rk) + 1 \/ Length(q, j) > Len(s.rk) + 2
      <4> DEFINE a == Length(q, j)
                 b == Len(s.rk)
      <4>1. a \in Nat /\ b \in Nat /\ a > b /\ a # b + 2
        BY <1>11, <2>1, <2>2, <3>1
      <4> HIDE DEF a, b
      <4>2. a = b + 1 \/ a > b + 2
        BY <4>1
      <4> QED BY <4>2 DEF a, b
    <3> QED BY <3>2, <3>3, <3>4
  <2>3. CASE Len(key.root) + 1 = Len(s.rk) /\ s.nr <= key.step
    <3>1. n < h.pn /\ s.nr <= n
      BY <1>13, <2>1, <2>3
    <3>2. s.ckr # None
      BY <1>13, <1>11, <2>1, <2>3 DEF Follows, NothingReceived
    <3>3. Length(q, s.dhr_pub[2]) + 1 = Len(s.rk) /\ s.dhr_pub \in KeyPair /\ s.dhr_pub[2] \in Nat
      BY <3>2 DEF Follows, OnChainOf, SoundState, RatchetState, KeyPair
    <3>4. j = s.dhr_pub[2]
      <4>1. Length(q, j) = Length(q, s.dhr_pub[2])
        <5> DEFINE a == Length(q, j)
                   b == Length(q, s.dhr_pub[2])
        <5>1. a \in Nat /\ b \in Nat /\ a + 1 = Len(s.rk) /\ b + 1 = Len(s.rk)
          BY <1>0, <2>1, <2>3, <3>3
        <5> HIDE DEF a, b
        <5>2. a = b
          BY <5>1
        <5> QED BY <5>2 DEF a, b
      <4> QED BY <1>0, <3>3, <4>1
    <3>5. PICK e \in cur.skipped : e.key = key /\ e.stored_at = cur.events
      BY <1>3, <3>1, <3>2, <3>4 DEF Skips, key
    <3>6. e \in t.skipped
      BY <1>5, <1>10, <3>5 DEF Steps, ReadsOnChain
    <3> QED BY <3>5, <3>6 DEF Readable, Stored, key
  <2> QED BY <1>13, <2>2, <2>3 DEF Readable, key
<1>14. StillReads(q, s, t, h)
  <2>1. t.rk # s.rk
    BY <1>11
  <2> QED BY <1>13, <2>1 DEF StillReads
<1>15. Receives(q, s, t, h)
  BY <1>9, <1>12, <1>14 DEF Receives
<1> QED BY <1>9, <1>15 DEF t, r, u, cur

\* receive, when a ratchet step is taken only in its turn.
LEMMA ReceiveFollows ==
  ASSUME NEW p \in Party, NEW i \in Nat, NEW s, SoundState(s), Follows(Peer(p), s),
         Numbered(p, i, s), NEW h \in Header, h.dh[1] = Peer(p),
         receive(s, h, DH(<<p, i>>, h.dh), DH(<<p, i + 1>>, h.dh), <<p, i + 1>>).ok,
         Matches(s, h) = {} /\ s.dhr_pub # h.dh => Length(Peer(p), h.dh[2]) = Len(s.rk) + 1
  PROVE  LET r == receive(s, h, DH(<<p, i>>, h.dh), DH(<<p, i + 1>>, h.dh), <<p, i + 1>>)
         IN  Receives(Peer(p), s, r.state, h) /\ r.key = KeyAt(Peer(p), h.dh[2], h.n)
<1> DEFINE dr == DH(<<p, i>>, h.dh)
           ds == DH(<<p, i + 1>>, h.dh)
           r == receive(s, h, dr, ds, <<p, i + 1>>)
<1>0. Peer(p) \in Party
  BY DEF Peer, Party
<1>1. CASE Matches(s, h) # {}
  <2>1. r = TakeSkipped(s, FirstMatch(s, h))
    BY <1>1 DEF receive
  <2> QED BY <1>0, <1>1, <2>1, StoreReceives
<1>2. CASE Matches(s, h) = {} /\ s.dhr_pub # h.dh
  <2> DEFINE skip == skip_message_keys(s, h.pn)
  <2>1. skip.ok
    BY <1>2 DEF receive
  <2>2. r = ReceiveOnChain(dh_ratchet(skip.state, h, dr, ds, <<p, i + 1>>), h)
    BY <1>2, <2>1 DEF receive
  <2> HIDE DEF dr, ds
  <2>3. ReceiveOnChain(dh_ratchet(skip.state, h, dr, ds, <<p, i + 1>>), h).ok
    BY <2>2 DEF dr, ds
  <2> QED BY <1>2, <2>1, <2>2, <2>3, StepReceives DEF dr, ds
<1>3. CASE Matches(s, h) = {} /\ s.dhr_pub = h.dh
  <2>1. s.dhr_pub # None
    BY <1>3, NoneAssumption DEF Header
  <2>2. r = ReceiveOnChain(s, h)
    BY <1>3, <2>1 DEF receive
  <2> QED BY <1>0, <1>3, <2>2, ChainReceives
<1> QED BY <1>1, <1>2, <1>3

\* The key a ratchet step finds has a root one longer than the root key: a message
\* that opens under it was sent in its turn.
LEMMA StepLength ==
  ASSUME NEW s, SoundState(s), NEW h \in Header, NEW dr \in SUBSET KeyPair,
         NEW ds \in SUBSET KeyPair, NEW new \in KeyPair, receive(s, h, dr, ds, new).ok,
         Matches(s, h) = {}, s.dhr_pub # h.dh
  PROVE  Len(receive(s, h, dr, ds, new).key.root) = Len(s.rk) + 1
<1> DEFINE skip == skip_message_keys(s, h.pn)
           cur == skip.state
           u == dh_ratchet(cur, h, dr, ds, new)
           last == skip_message_keys(u, h.n)
           r == ReceiveOnChain(u, h)
<1>1. skip.ok
  BY DEF receive
<1>2. receive(s, h, dr, ds, new) = r
  BY <1>1 DEF receive
<1>3. SoundState(cur) /\ cur.rk = s.rk
  <2>1. SoundState(cur)
    BY <1>1, SkipIsSound DEF Header
  <2> QED BY <1>1, <2>1 DEF skip_message_keys, Ok, Err, SoundState, RatchetState
<1> HIDE DEF skip, cur
<1>4. SoundState(u)
  BY <1>3, DhRatchetIsSound
<1>5. u.ckr.root = Append(cur.rk, dr)
  BY <1>3 DEF dh_ratchet, kdf_rk, ChainStart, SoundState, RatchetState
<1> HIDE DEF u
<1>6. last.ok /\ last.state.ckr # None /\ r.key = last.state.ckr
  BY <1>2 DEF ReceiveOnChain, Ok, Err, kdf_ck
<1>7. u.ckr \in ChainKey \cup {None}
  BY <1>4 DEF SoundState, RatchetState
<1>8. last.state.ckr.root = u.ckr.root
  <2>1. CASE last.state = u
    BY <2>1
  <2>2. CASE last.state # u
    <3>1. u.ckr # None /\ last.state.ckr = ChainAfter(u.ckr, h.n - u.nr)
      BY <1>4, <1>6, <2>2 DEF skip_message_keys, Ok, Err, SoundState, RatchetState
    <3> QED BY <1>7, <3>1 DEF ChainAfter, ChainKey
  <2> QED BY <2>1, <2>2
<1>9. Len(Append(cur.rk, dr)) = Len(cur.rk) + 1
  BY <1>3 DEF SoundState, RatchetState, Root
<1> QED BY <1>2, <1>3, <1>5, <1>6, <1>8, <1>9

-----------------------------------------------------------------------------
(* Receiving with eviction *)

\* evict_oldest deletes keys and nothing else.
LEMMA EvictionFollows ==
  ASSUME NEW q, NEW s, SoundState(s), Follows(q, s), NEW k
  PROVE  LET u == evict_oldest(s, k)
         IN  /\ SoundState(u) /\ Follows(q, u) /\ SameChains(s, u) /\ u.skipped \subseteq s.skipped
             /\ u.skipped = {e \in s.skipped : Cardinality({f \in s.skipped : Older(f, e)}) >= k}
<1> DEFINE T == {e \in s.skipped : Cardinality({f \in s.skipped : Older(f, e)}) >= k}
           u == [s EXCEPT !.skipped = T]
<1>1. evict_oldest(s, k) = u
  BY DEF evict_oldest
<1>2. T \in SUBSET s.skipped
  OBVIOUS
<1> HIDE DEF T
<1>3. SoundState(u)
  BY <1>2, FewerKeys
<1>4. SameChains(s, u) /\ u.skipped = T
  BY DEF SoundState, RatchetState, SameChains
<1> HIDE DEF u
<1>5. Follows(q, u)
  BY <1>2, <1>4, FewerFollow
<1> QED BY <1>1, <1>2, <1>3, <1>4, <1>5 DEF T

\* A receive into a store from which keys were deleted first, seen from before.
LEMMA EvictionReceives ==
  ASSUME NEW q, NEW s, NEW u, NEW t, NEW h, SameChains(s, u), u.skipped \subseteq s.skipped,
         Receives(q, u, t, h)
  PROVE  Receives(q, s, t, h)
<1>1. u.rk = s.rk /\ u.nr = s.nr /\ u.ns = s.ns /\ u.pn = s.pn /\ u.dhs_pub = s.dhs_pub
  BY DEF SameChains
<1>2. \A key : ~Stored(s, key) => ~Stored(u, key)
  BY DEF Stored
<1>3. \A key : Readable(s, key) /\ ~Stored(s, key) => Readable(u, key)
  BY <1>1 DEF Readable
<1>4. StillReads(q, s, t, h)
  BY <1>1, <1>2, <1>3 DEF Receives, StillReads
<1> QED BY <1>1, <1>4 DEF Receives, Stayed, Stepped, Passed

\* receive_with_eviction, on a message that opens under the key it finds.
LEMMA ReceiveWithEvictionFollows ==
  ASSUME NEW p \in Party, NEW i \in Nat, NEW s, SoundState(s), Follows(Peer(p), s),
         Numbered(p, i, s), NEW h \in Header, h.dh[1] = Peer(p),
         LET r == receive_with_eviction(s, h, DH(<<p, i>>, h.dh), DH(<<p, i + 1>>, h.dh), <<p, i + 1>>)
         IN  r.ok /\ Len(r.key.root) = Length(Peer(p), h.dh[2])
  PROVE  LET r == receive_with_eviction(s, h, DH(<<p, i>>, h.dh), DH(<<p, i + 1>>, h.dh), <<p, i + 1>>)
         IN  Receives(Peer(p), s, r.state, h) /\ r.key = KeyAt(Peer(p), h.dh[2], h.n)
<1> DEFINE dr == DH(<<p, i>>, h.dh)
           ds == DH(<<p, i + 1>>, h.dh)
           new == <<p, i + 1>>
           q == Peer(p)
<1>0. dr \in SUBSET KeyPair /\ ds \in SUBSET KeyPair /\ new \in KeyPair
  BY DEF DH, KeyPair, Header
<1> HIDE DEF dr, ds, new
<1>1. PICK u : /\ SoundState(u) /\ Follows(q, u) /\ SameChains(s, u) /\ u.skipped \subseteq s.skipped
               /\ receive_with_eviction(s, h, dr, ds, new) = receive(u, h, dr, ds, new)
  <2>1. \A k : LET u == evict_oldest(s, k)
               IN  SoundState(u) /\ Follows(q, u) /\ SameChains(s, u) /\ u.skipped \subseteq s.skipped
    BY EvictionFollows
  <2>2. \/ receive_with_eviction(s, h, dr, ds, new) = receive(s, h, dr, ds, new)
        \/ \E k : receive_with_eviction(s, h, dr, ds, new)
                   = receive(evict_oldest(s, EvictedAfter(s, h, k)), h, dr, ds, new)
    BY DEF receive_with_eviction
  <2>3. SameChains(s, s)
    BY DEF SameChains
  <2> QED BY <2>1, <2>2, <2>3
<1> DEFINE r == receive(u, h, dr, ds, new)
<1>2. r.ok /\ Len(r.key.root) = Length(q, h.dh[2])
  BY <1>1 DEF dr, ds, new
<1>3. Matches(u, h) = {} /\ u.dhr_pub # h.dh => Length(q, h.dh[2]) = Len(u.rk) + 1
  BY <1>0, <1>1, <1>2, StepLength
<1>4. Numbered(p, i, u)
  BY <1>1 DEF Numbered, SameChains
<1>5. Receives(q, u, r.state, h) /\ r.key = KeyAt(q, h.dh[2], h.n)
  BY <1>1, <1>2, <1>3, <1>4, ReceiveFollows DEF dr, ds, new
<1> HIDE DEF r
<1>6. Receives(q, s, r.state, h)
  BY <1>1, <1>5, EvictionReceives
<1> QED BY <1>1, <1>5, <1>6 DEF r, dr, ds, new

-----------------------------------------------------------------------------
(* What a receive finds *)

\* A receive is refused, if at all, because the store is full.
OrFull(r) == (r.ok /\ r.err = "none") \/ (~r.ok /\ r.err = "SkippedStoreFull")

\* A skip of at most MAX_SKIP keys, and one into a store with room for as many.
LEMMA SkipFinds ==
  ASSUME NEW s, SoundState(s), NEW upto \in U32, s.ckr # None => upto - s.nr <= MAX_SKIP
  PROVE  LET r == skip_message_keys(s, upto)
         IN  /\ OrFull(r)
             /\ Cardinality(s.skipped) + MAX_SKIP <= MAX_SKIPPED_STORE =>
                  r.ok /\ Cardinality(r.state.skipped) <= Cardinality(s.skipped) + MAX_SKIP
<1> DEFINE r == skip_message_keys(s, upto)
           count == upto - s.nr
           kept == purge_chain_range(s.skipped, s.dhr_pub, s.nr, upto)
           D == DerivedEntries(s.ckr, s.dhr_pub, s.nr, upto, s.events, s.pushed)
<1>0. /\ s \in RatchetState /\ IsFiniteSet(s.skipped) /\ Cardinality(s.skipped) \in Nat
      /\ MAX_SKIP \in Nat /\ MAX_SKIPPED_STORE \in Nat /\ U32_MAX \in Nat
  BY FS_CardinalityType, BoundsAssumption DEF SoundState
<1>1. CASE s.ckr = None \/ s.dhr_pub = None \/ upto <= s.nr
  <2>1. r = Ok(s, None)
    BY <1>1 DEF skip_message_keys
  <2> QED BY <1>0, <2>1 DEF Ok, OrFull
<1>2. CASE ~(s.ckr = None \/ s.dhr_pub = None \/ upto <= s.nr)
  <2>1. /\ s.ckr \in ChainKey /\ s.dhr_pub \in KeyPair /\ s.nr \in U32 /\ s.events \in U32
        /\ s.pushed \in Nat
    BY <1>0, <1>2 DEF RatchetState
  <2>2. s.nr \in Nat /\ upto \in Nat /\ upto <= U32_MAX /\ s.nr < upto /\ count \in Nat
        /\ count <= MAX_SKIP
    BY <1>0, <1>2, <2>1 DEF U32
  <2>3. ~(upto > SkipLimit(s.nr))
    BY <1>0, <2>2 DEF SkipLimit, saturating_add
  <2>4. /\ kept \in SUBSET s.skipped /\ IsFiniteSet(kept) /\ Cardinality(kept) \in Nat
        /\ Cardinality(kept) <= Cardinality(s.skipped)
    <3>1. kept \in SUBSET s.skipped
      BY DEF purge_chain_range
    <3> QED BY <1>0, <3>1, FS_Subset, FS_CardinalityType
  <2>5. IsFiniteSet(D) /\ Cardinality(D) \in Nat /\ Cardinality(D) <= count
    BY <2>1, <2>2, DerivedEntriesBound
  <2>6. Cardinality(kept \cup D) <= Cardinality(kept) + Cardinality(D)
    <3>1. Cardinality(kept \cup D) = Cardinality(kept) + Cardinality(D) - Cardinality(kept \cap D)
      BY <2>4, <2>5, FS_Union
    <3>2. Cardinality(kept \cap D) \in Nat
      BY <2>4, FS_Subset, FS_CardinalityType
    <3> QED BY <2>4, <2>5, <3>1, <3>2
  <2>7. ASSUME ~HasRoom(kept, count)
        PROVE  r = Err("SkippedStoreFull", s)
    BY <1>2, <2>3, <2>7 DEF skip_message_keys
  <2>8. ASSUME HasRoom(kept, count)
        PROVE  r.ok /\ r.err = "none" /\ r.state.skipped = kept \cup D
    <3>1. r = Ok([s EXCEPT !.ckr = ChainAfter(@, count), !.nr = upto,
                           !.pushed = @ + count, !.skipped = kept \cup D], None)
      BY <1>2, <2>3, <2>8 DEF skip_message_keys
    <3> HIDE DEF r, D, kept
    <3> QED BY <1>0, <3>1 DEF Ok, RatchetState
  <2>9. OrFull(r)
    BY <2>7, <2>8 DEF OrFull, Err
  <2>10. ASSUME Cardinality(s.skipped) + MAX_SKIP <= MAX_SKIPPED_STORE
         PROVE  r.ok /\ Cardinality(r.state.skipped) <= Cardinality(s.skipped) + MAX_SKIP
    <3>1. HasRoom(kept, count)
      BY <1>0, <2>2, <2>4, <2>10 DEF HasRoom
    <3>2. IsFiniteSet(kept \cup D)
      BY <2>4, <2>5, FS_Union
    <3>3. Cardinality(kept \cup D) \in Nat
      BY <3>2, FS_CardinalityType
    <3>4. r.ok /\ r.state.skipped = kept \cup D
      BY <2>8, <3>1
    <3> HIDE DEF r, D, kept, count
    <3>5. Cardinality(kept \cup D) <= Cardinality(s.skipped) + MAX_SKIP
      BY <1>0, <2>2, <2>4, <2>5, <2>6, <3>3
    <3> QED BY <3>4, <3>5
  <2> QED BY <2>9, <2>10
<1> QED BY <1>1, <1>2

\* The key at a number that the current chain has not passed.
LEMMA OnChainFinds ==
  ASSUME NEW q \in Party, NEW s, SoundState(s), Follows(q, s), NEW h \in Header,
         s.ckr # None, s.nr <= h.n, h.n < U32_MAX, h.n - s.nr <= MAX_SKIP
  PROVE  LET r == ReceiveOnChain(s, h)
         IN  /\ OrFull(r)
             /\ Cardinality(s.skipped) + MAX_SKIP <= MAX_SKIPPED_STORE => r.ok
<1> DEFINE skip == skip_message_keys(s, h.n)
           cur == skip.state
           r == ReceiveOnChain(s, h)
<1>1. h.n \in U32 /\ h.n \in Nat /\ s.nr \in Nat
  BY BoundsAssumption DEF Header, U32, SoundState, RatchetState
<1>2. /\ OrFull(skip)
      /\ Cardinality(s.skipped) + MAX_SKIP <= MAX_SKIPPED_STORE => skip.ok
  BY <1>1, SkipFinds
<1>3. ASSUME ~skip.ok PROVE OrFull(r)
  <2>1. r = skip
    BY <1>3 DEF ReceiveOnChain
  <2> QED BY <1>2, <2>1
<1>4. ASSUME skip.ok PROVE r.ok /\ r.err = "none"
  <2>1. Skips(q, s, cur, h.n)
    BY <1>1, <1>4, SkipFollows
  <2> HIDE DEF cur
  <2>2. cur.ckr # None /\ cur.nr = h.n
    BY <1>1, <2>1 DEF Skips
  <2>3. ~(h.n < cur.nr) /\ cur.nr # U32_MAX
    BY <1>1, <2>2, BoundsAssumption
  <2> QED BY <1>4, <2>2, <2>3 DEF ReceiveOnChain, Ok, cur
<1> QED BY <1>2, <1>3, <1>4 DEF OrFull

\* What is to be read next of a message with the header: it is stored, or on the
\* current chain, or a ratchet step is due; and not too many are missing.
Due(q, s, h) ==
  \/ Matches(s, h) # {}
  \/ /\ s.dhr_pub = h.dh /\ s.ckr # None /\ s.nr <= h.n
     /\ h.n - s.nr <= MAX_SKIP
  \/ /\ s.dhr_pub # h.dh /\ Length(q, h.dh[2]) = Len(s.rk) + 1
     /\ s.ckr # None => h.pn - s.nr <= MAX_SKIP
     /\ h.n <= MAX_SKIP

\* receive finds it, or the store is full; it is not when nothing is stored.
LEMMA ReceiveFinds ==
  ASSUME NEW p \in Party, NEW i \in Nat, NEW s, SoundState(s), Follows(Peer(p), s),
         Numbered(p, i, s), NEW h \in Header, h.dh[1] = Peer(p), h.n < U32_MAX,
         Due(Peer(p), s, h)
  PROVE  LET r == receive(s, h, DH(<<p, i>>, h.dh), DH(<<p, i + 1>>, h.dh), <<p, i + 1>>)
         IN  OrFull(r) /\ (s.skipped = {} => r.ok)
<1> DEFINE dr == DH(<<p, i>>, h.dh)
           ds == DH(<<p, i + 1>>, h.dh)
           new == <<p, i + 1>>
           q == Peer(p)
           r == receive(s, h, dr, ds, new)
<1>0. dr \in SUBSET KeyPair /\ ds \in SUBSET KeyPair /\ new \in KeyPair
  BY DEF DH, KeyPair, Header
<1>1. q \in Party /\ h.dh \in KeyPair /\ h.dh[2] \in Nat /\ h.dh = <<q, h.dh[2]>>
      /\ h.pn \in U32 /\ h.n \in Nat /\ s.nr \in Nat /\ MAX_SKIP \in Nat /\ MAX_SKIPPED_STORE \in Nat
      /\ 2 * MAX_SKIP <= MAX_SKIPPED_STORE
  BY BoundsAssumption DEF Peer, Party, Header, KeyPair, U32, SoundState, RatchetState
<1>2. Cardinality({}) = 0
  BY FS_EmptySet
<1>3. s.skipped = {} => Cardinality(s.skipped) = 0
  BY <1>2
<1>4. CASE Matches(s, h) # {}
  BY <1>4 DEF receive, TakeSkipped, Ok, OrFull
<1>5. CASE Matches(s, h) = {} /\ s.dhr_pub = h.dh
  <2>1. s.ckr # None /\ s.nr <= h.n /\ h.n - s.nr <= MAX_SKIP
    BY <1>5 DEF Due
  <2>2. r = ReceiveOnChain(s, h)
    BY <1>1, <1>5, NoneAssumption DEF receive
  <2>3. /\ OrFull(r)
        /\ Cardinality(s.skipped) + MAX_SKIP <= MAX_SKIPPED_STORE => r.ok
    BY <1>1, <2>1, <2>2, OnChainFinds
  <2> HIDE DEF r
  <2> QED BY <1>1, <1>3, <2>3 DEF r
<1>6. CASE Matches(s, h) = {} /\ s.dhr_pub # h.dh
  <2> DEFINE skip == skip_message_keys(s, h.pn)
             cur == skip.state
             u == dh_ratchet(cur, h, dr, ds, new)
  <2>1. /\ Length(q, h.dh[2]) = Len(s.rk) + 1 /\ h.n <= MAX_SKIP
        /\ s.ckr # None => h.pn - s.nr <= MAX_SKIP
    BY <1>6 DEF Due
  <2>2. /\ OrFull(skip)
        /\ Cardinality(s.skipped) + MAX_SKIP <= MAX_SKIPPED_STORE =>
             skip.ok /\ Cardinality(cur.skipped) <= Cardinality(s.skipped) + MAX_SKIP
    BY <1>1, <2>1, SkipFinds
  <2>3. ASSUME ~skip.ok PROVE r = skip
    BY <1>6, <2>3 DEF receive
  <2>4. ASSUME skip.ok
        PROVE  /\ OrFull(r)
               /\ Cardinality(cur.skipped) + MAX_SKIP <= MAX_SKIPPED_STORE => r.ok
    <3>1. r = ReceiveOnChain(u, h)
      BY <1>6, <2>4 DEF receive
    <3>2. SoundState(cur) /\ Follows(q, cur) /\ Skips(q, s, cur, h.pn)
      BY <1>1, <2>4, SkipIsSound, SkipFollows
    <3> HIDE DEF cur, skip, r
    <3>3. Numbered(p, i, cur) /\ Length(q, h.dh[2]) = Len(cur.rk) + 1
      BY <2>1, <3>2 DEF Skips, Numbered
    <3>4. Follows(q, u) /\ Steps(q, cur, u, h)
      BY <1>1, <3>2, <3>3, StepFollows
    <3>5. SoundState(u)
      BY <1>0, <3>2, DhRatchetIsSound
    <3> HIDE DEF u
    <3>6. u.ckr # None /\ u.nr = 0 /\ u.skipped = cur.skipped
      BY <3>4 DEF Steps
    <3>7. u.nr <= h.n /\ h.n - u.nr <= MAX_SKIP
      BY <1>1, <2>1, <3>6
    <3> QED BY <1>1, <3>1, <3>4, <3>5, <3>6, <3>7, OnChainFinds
  <2>5. OrFull(r)
    BY <2>2, <2>3, <2>4
  <2>6. ASSUME s.skipped = {} PROVE r.ok
    <3>1. skip.ok /\ Cardinality(cur.skipped) <= MAX_SKIP
      BY <1>1, <1>3, <2>2, <2>6
    <3>2. Cardinality(cur.skipped) \in Nat
      BY <1>1, <3>1, SkipIsSound, FS_CardinalityType DEF SoundState
    <3> HIDE DEF r, skip, cur
    <3>3. Cardinality(cur.skipped) + MAX_SKIP <= MAX_SKIPPED_STORE
      BY <1>1, <3>1, <3>2
    <3> QED BY <2>4, <3>1, <3>3
  <2> QED BY <2>5, <2>6
<1> QED BY <1>4, <1>5, <1>6

\* Evicting as many keys as there are empties the store.
LEMMA EvictionEmpties ==
  ASSUME NEW s, SoundState(s), NEW k \in Nat, Cardinality(s.skipped) <= k
  PROVE  {e \in s.skipped : Cardinality({f \in s.skipped : Older(f, e)}) >= k} = {}
<1> SUFFICES ASSUME NEW e \in s.skipped, Cardinality({f \in s.skipped : Older(f, e)}) >= k
             PROVE  FALSE
  OBVIOUS
<1> DEFINE T == {f \in s.skipped : Older(f, e)}
<1>1. IsFiniteSet(s.skipped) /\ e.stored_at \in Nat /\ e.pos \in Nat
  BY BoundsAssumption DEF SoundState, RatchetState, Entry, U32
<1>2. ~Older(e, e)
  BY <1>1 DEF Older
<1>3. T \subseteq s.skipped \ {e}
  BY <1>2
<1>4. /\ IsFiniteSet(s.skipped \ {e})
      /\ Cardinality(s.skipped \ {e}) = Cardinality(s.skipped) - 1
  BY <1>1, FS_RemoveElement
<1>5. Cardinality(T) <= Cardinality(s.skipped \ {e}) /\ IsFiniteSet(T)
  BY <1>3, <1>4, FS_Subset
<1>6. Cardinality(T) \in Nat /\ Cardinality(s.skipped) \in Nat /\ Cardinality(s.skipped \ {e}) \in Nat
  BY <1>1, <1>4, <1>5, FS_CardinalityType
<1>7. Cardinality(T) >= k
  OBVIOUS
<1> HIDE DEF T
<1> QED BY <1>4, <1>5, <1>6, <1>7

\* As many rounds as there are keys evict them all: the batch doubles.
LEMMA RoundsEmpty ==
  ASSUME NEW s, SoundState(s), NEW h \in Header
  PROVE  evict_oldest(s, EvictedAfter(s, h, Cardinality(s.skipped))).skipped = {}
<1> DEFINE k == Cardinality(s.skipped)
           short == receive_shortfall(s, h)
<1>1. k \in Nat /\ s.nr \in Nat /\ h.n \in Nat /\ MAX_SKIPPED_STORE \in Nat
  BY FS_CardinalityType, BoundsAssumption DEF SoundState, RatchetState, Header, U32
<1>2. short \in Nat /\ short >= 1
  BY <1>1 DEF receive_shortfall
<1>3. 2^k \in Nat /\ 2^k > k
  BY PowerExceeds DEF SoundState
<1>4. EvictedAfter(s, h, k) = short * (2^k - 1)
  BY DEF EvictedAfter
<1> HIDE DEF short, k
<1>5. PICK x \in Nat : x = 2^k - 1 /\ k <= x
  BY <1>1, <1>3
<1>6. short * x \in Nat /\ x <= short * x
  BY <1>2, <1>5
<1>7. EvictedAfter(s, h, k) \in Nat /\ k <= EvictedAfter(s, h, k)
  BY <1>1, <1>4, <1>5, <1>6
<1>8. {e \in s.skipped : Cardinality({f \in s.skipped : Older(f, e)}) >= EvictedAfter(s, h, k)} = {}
  BY <1>7, EvictionEmpties DEF k
<1>9. evict_oldest(s, EvictedAfter(s, h, k)).skipped = {}
  BY <1>8 DEF evict_oldest, SoundState, RatchetState
<1> QED BY <1>9 DEF k

\* receive_with_eviction finds it, however full the store: some round empties enough.
LEMMA EvictionFinds ==
  ASSUME NEW p \in Party, NEW i \in Nat, NEW s, SoundState(s), Follows(Peer(p), s),
         Numbered(p, i, s), NEW h \in Header, h.dh[1] = Peer(p), h.n < U32_MAX,
         Due(Peer(p), s, h)
  PROVE  LET r == receive_with_eviction(s, h, DH(<<p, i>>, h.dh), DH(<<p, i + 1>>, h.dh), <<p, i + 1>>)
         IN  r.ok /\ r.key = KeyAt(Peer(p), h.dh[2], h.n)
<1> DEFINE dr == DH(<<p, i>>, h.dh)
           ds == DH(<<p, i + 1>>, h.dh)
           new == <<p, i + 1>>
           q == Peer(p)
           Attempt(x) == receive(x, h, dr, ds, new)
           Retry(k) == Attempt(evict_oldest(s, EvictedAfter(s, h, k)))
           first == Attempt(s)
           settled == {k \in 1..Cardinality(s.skipped) : Retry(k).err # "SkippedStoreFull"}
           least == CHOOSE k \in settled : \A j \in settled : k <= j
           r == receive_with_eviction(s, h, dr, ds, new)
<1>1. OrFull(first) /\ (s.skipped = {} => first.ok)
  BY ReceiveFinds
<1>2. r = IF first.err # "SkippedStoreFull" \/ settled = {} THEN first ELSE Retry(least)
  BY DEF receive_with_eviction
<1>3. Cardinality(s.skipped) \in Nat
  BY FS_CardinalityType DEF SoundState
\* A state with fewer keys is one in which the message is due too, unless it was
\* stored; and then nothing is evicted.
<1>4. ASSUME ~first.ok, NEW u, SoundState(u), Follows(q, u), SameChains(s, u),
             u.skipped \subseteq s.skipped
      PROVE  Numbered(p, i, u) /\ Due(q, u, h) /\ Matches(u, h) = {}
  <2>1. Matches(s, h) = {}
    BY <1>4 DEF receive, TakeSkipped, Ok
  <2>2. Matches(u, h) = {}
    BY <1>4, <2>1 DEF Matches
  <2> HIDE DEF first
  <2>3. Due(q, u, h)
    BY <1>4, <2>1 DEF Due, SameChains
  <2> QED BY <1>4, <2>2, <2>3 DEF SameChains, Numbered
<1>5. ASSUME NEW u, SoundState(u), Follows(q, u), Numbered(p, i, u), Due(q, u, h), Attempt(u).ok
      PROVE  Attempt(u).key = KeyAt(q, h.dh[2], h.n)
  <2>1. Matches(u, h) = {} /\ u.dhr_pub # h.dh => Length(q, h.dh[2]) = Len(u.rk) + 1
    BY <1>5 DEF Due
  <2> QED BY <1>5, <2>1, ReceiveFollows
<1>6. CASE first.ok
  <2>1. first.err # "SkippedStoreFull"
    BY <1>1, <1>6 DEF OrFull
  <2>2. first.key = KeyAt(q, h.dh[2], h.n)
    BY <1>5, <1>6
  <2> HIDE DEF first, settled, r, Retry, least
  <2>3. r = first
    BY <1>2, <2>1
  <2> QED BY <1>6, <2>2, <2>3 DEF r
<1>7. CASE ~first.ok
  <2> HIDE DEF first
  <2>1. ASSUME NEW k
        PROVE  /\ OrFull(Retry(k))
               /\ Retry(k).ok => Retry(k).key = KeyAt(q, h.dh[2], h.n)
               /\ evict_oldest(s, EvictedAfter(s, h, k)).skipped = {} => Retry(k).ok
    <3> DEFINE u == evict_oldest(s, EvictedAfter(s, h, k))
    <3>1. SoundState(u) /\ Follows(q, u) /\ SameChains(s, u) /\ u.skipped \subseteq s.skipped
      BY EvictionFollows
    <3> HIDE DEF u
    <3>2. Numbered(p, i, u) /\ Due(q, u, h) /\ Matches(u, h) = {}
      BY <1>4, <1>7, <3>1
    <3>3. OrFull(Attempt(u)) /\ (u.skipped = {} => Attempt(u).ok)
      BY <3>1, <3>2, ReceiveFinds
    <3>4. Attempt(u).ok => Attempt(u).key = KeyAt(q, h.dh[2], h.n)
      BY <1>5, <3>1, <3>2
    <3> HIDE DEF Attempt
    <3> QED BY <3>3, <3>4 DEF u
  <2>2. Retry(Cardinality(s.skipped)).ok
    BY <2>1, RoundsEmpty
  <2>3. Cardinality(s.skipped) # 0
    BY <1>1, <1>7, FS_EmptySet DEF SoundState
  <2> HIDE DEF Retry
  <2>4. Cardinality(s.skipped) \in settled
    BY <1>3, <2>1, <2>2, <2>3 DEF OrFull
  <2>5. settled \in SUBSET Nat /\ settled # {}
    BY <1>3, <2>4
  <2>6. least \in settled
    BY <2>5, LeastExists
  <2>7. Retry(least).err # "SkippedStoreFull"
    BY <2>6
  <2> HIDE DEF settled, least, r
  <2>8. Retry(least).ok
    BY <2>1, <2>7 DEF OrFull
  <2>9. first.err = "SkippedStoreFull"
    BY <1>1, <1>7 DEF OrFull
  <2>10. r = Retry(least)
    BY <1>2, <2>5, <2>9
  <2>11. r.ok /\ r.key = KeyAt(q, h.dh[2], h.n)
    BY <2>1, <2>8, <2>10
  <2> QED BY <2>11 DEF r
<1> QED BY <1>6, <1>7

-----------------------------------------------------------------------------
(* The inductive invariant *)

\* What the invariant says of a message that p has not accepted and the messages of
\* its sender: names, and a key for each name.
LEMMA MessagesNamed ==
  ASSUME DInv, NEW p \in Party, NEW m \in sent[p]
  PROVE  /\ m \in Message /\ m.hdr \in Header /\ m.hdr.dh = <<p, m.hdr.dh[2]>>
         /\ m.hdr.dh[2] \in Nat /\ m.hdr.n \in Nat /\ m.hdr.pn \in Nat /\ m.hdr.n < U32_MAX
         /\ m.key = KeyAt(p, m.hdr.dh[2], m.hdr.n) /\ m.key.step = m.hdr.n
         /\ Len(m.key.root) = Length(p, m.hdr.dh[2]) /\ Length(p, m.hdr.dh[2]) > 0
<1>1. m \in Message /\ m.hdr \in Header /\ m.hdr.dh \in KeyPair /\ m.hdr.dh[2] \in Nat
      /\ m.hdr.n \in Nat /\ m.hdr.pn \in Nat
  BY BoundsAssumption DEF DInv, KInv, IInv, TypeOK, Message, Header, KeyPair, U32
<1>2. m.hdr.dh[1] = p
  BY DEF DInv, KInv, KeysInOrder, SealedAlong
<1>3. m.key = KeyAt(p, m.hdr.dh[2], m.hdr.n) /\ Len(m.key.root) > 0 /\ m.hdr.n < U32_MAX
  BY DEF DInv, Delivers, Named
<1>4. m.key.step = m.hdr.n /\ Len(m.key.root) = Length(p, m.hdr.dh[2])
  <2> DEFINE i == m.hdr.dh[2]
             n == m.hdr.n
  <2>1. i \in Nat /\ n \in Nat /\ m.key = KeyAt(p, i, n)
    BY <1>1, <1>3
  <2> HIDE DEF i, n
  <2>2. Len(KeyAt(p, i, n).root) = Length(p, i) /\ KeyAt(p, i, n).step = n
    BY <2>1, NamesOfParty
  <2> QED BY <2>1, <2>2 DEF i, n
<1> QED BY <1>1, <1>2, <1>3, <1>4 DEF KeyPair

\* And of the state of a party.
LEMMA StatesNumbered ==
  ASSUME DInv, NEW p \in Party
  PROVE  /\ SoundState(state[p]) /\ ratchet_private[p] = state[p].dhs_pub
         /\ state[p].dhs_pub = <<p, state[p].dhs_pub[2]>> /\ state[p].dhs_pub[2] \in Nat
         /\ Numbered(p, state[p].dhs_pub[2], state[p]) /\ Follows(Peer(p), state[p])
         /\ FreshKey(p) = <<p, state[p].dhs_pub[2] + 1>>
         /\ Len(state[p].rk) \in Nat /\ state[p].nr \in Nat /\ state[p].ns \in Nat
<1>1. SoundState(state[p]) /\ ratchet_private[p] = state[p].dhs_pub
  BY StatesAreSound DEF DInv, KInv
<1>2. /\ state[p].dhs_pub \in KeyPair /\ state[p].dhs_pub[2] \in Nat /\ state[p].dhs_pub[1] = p
      /\ Len(state[p].rk) = Length(p, state[p].dhs_pub[2])
  BY <1>1 DEF DInv, KInv, KeysInOrder, SoundState, RatchetState, KeyPair, Length
<1>3. Len(state[p].rk) \in Nat /\ state[p].nr \in Nat /\ state[p].ns \in Nat
  BY <1>1, BoundsAssumption DEF SoundState, RatchetState, U32, Root
<1>4. Follows(Peer(p), state[p])
  BY DEF DInv, Delivers
<1> QED BY <1>1, <1>2, <1>3, <1>4 DEF KeyPair, Numbered, FreshKey

\* The two parties start in turn.
LEMMA InitDelivers == Init => DInv
<1> SUFFICES ASSUME Init PROVE DInv
  OBVIOUS
<1> DEFINE a == <<Initiator, 0>>
           b == <<Responder, 0>>
           d == DH(a, b)
<1>1. KInv
  BY InitInOrder
<1>2. /\ state[Initiator] = init_sender(SharedSecret, a, b, d)
      /\ state[Responder] = init_receiver(SharedSecret, b)
      /\ \A p \in Party : sent[p] = {} /\ accepted[p] = {}
  BY PartyAssumption DEF Init, Party
<1>3. /\ Peer(Initiator) = Responder /\ Peer(Responder) = Initiator
      /\ Initiator \in Party /\ Responder \in Party
  BY PartyAssumption DEF Peer, Party
<1>4. d = SecretAt(1)
  <2>1. SecretAt(2 * 0 + 1) = d
    BY SecretsInTurn
  <2>2. 2 * 0 + 1 = 1
    OBVIOUS
  <2> QED BY <2>1, <2>2
<1>5. RootTo(0) = << >> /\ Len(RootTo(0)) = 0
  BY RootsAreRoots
<1>6. Append(SharedSecret, d) = RootTo(1) /\ Len(RootTo(1)) = 1
  <2>1. Append(RootTo(0), SecretAt(0 + 1)) = RootTo(0 + 1)
    BY RootsAreRoots
  <2>2. 0 + 1 = 1
    OBVIOUS
  <2>3. Append(RootTo(0), SecretAt(1)) = RootTo(1)
    BY <2>1, <2>2
  <2>4. Len(RootTo(1)) = 1
    BY RootsAreRoots
  <2> HIDE DEF d
  <2> QED BY <1>4, <1>5, <2>3, <2>4 DEF SharedSecret
<1> HIDE DEF d
<1>7. /\ state[Initiator].rk = RootTo(1) /\ state[Initiator].ckr = None
      /\ state[Initiator].dhr_pub = b /\ state[Initiator].nr = 0 /\ state[Initiator].ns = 0
      /\ state[Initiator].skipped = {}
  BY <1>2, <1>6 DEF init_sender, kdf_rk
<1>8. /\ state[Responder].rk = RootTo(0) /\ state[Responder].ckr = None
      /\ state[Responder].cks = None
      /\ state[Responder].dhr_pub = None /\ state[Responder].nr = 0 /\ state[Responder].ns = 0
      /\ state[Responder].skipped = {}
  BY <1>2, <1>5 DEF init_receiver, SharedSecret
<1>9. Follows(Responder, state[Initiator]) /\ Follows(Initiator, state[Responder])
  BY <1>5, <1>6, <1>7, <1>8 DEF Follows, NothingReceived
<1>10. InTurn(Initiator) /\ InTurn(Responder)
  BY <1>3, <1>5, <1>6, <1>7, <1>8 DEF InTurn
<1>11. \A p \in Party : Named(p)
  BY <1>2 DEF Named
<1>12. Covered(Initiator) /\ Covered(Responder)
  BY <1>2, <1>3 DEF Covered
<1>13. Delivers(Initiator) /\ Delivers(Responder)
  BY <1>3, <1>9, <1>10, <1>11, <1>12 DEF Delivers
<1> QED BY <1>1, <1>13 DEF DInv, Party

\* What a step of p says of the parts that are about its peer.
LEMMA OthersDeliver ==
  ASSUME DInv, NEW p \in Party, LET q == Peer(p) IN
           /\ state'[q] = state[q] /\ sent'[q] = sent[q]
  PROVE  Follows(Peer(Peer(p)), state'[Peer(p)]) /\ Named(Peer(p))'
<1>1. Peer(p) \in Party
  BY DEF Peer, Party
<1>2. Follows(Peer(Peer(p)), state[Peer(p)]) /\ Named(Peer(p))
  BY <1>1 DEF DInv, Delivers
<1> QED BY <1>2 DEF Named

\* Session::encrypt: the peer can read what p sends, on the chain it receives on or
\* the one to come.
LEMMA EncryptDelivers ==
  ASSUME DInv, NEW p \in Party, Encrypt(p)
  PROVE  DInv'
<1> DEFINE s == state[p]
           i == s.dhs_pub[2]
           q == Peer(p)
           o == state[q]
           t == [s EXCEPT !.cks = kdf_ck(@)[1], !.ns = @ + 1]
           m == Seal(SendHeader(s), s.cks)
<1>0. /\ KInv' /\ q \in Party /\ q # p /\ Peer(q) = p /\ \A x \in Party : x = p \/ x = q
      /\ IInv
  BY EncryptInOrder, PartyAssumption DEF DInv, KInv, Peer, Party
<1>1. /\ SoundState(s) /\ Follows(q, s) /\ i \in Nat /\ s.dhs_pub = <<p, i>> /\ Len(s.rk) = Length(p, i)
      /\ s.ns \in Nat /\ Len(s.rk) \in Nat /\ s.nr \in Nat
  BY StatesNumbered DEF Numbered
<1>2. Follows(p, o) /\ Len(o.rk) \in Nat /\ o.nr \in Nat /\ o.ns \in Nat
  BY <1>0, StatesNumbered
<1>3. s.cks # None /\ s.ns # U32_MAX /\ send(s) = Ok(t, s.cks)
  BY DEF Encrypt, send, Err, kdf_ck
<1>4. /\ state' = [state EXCEPT ![p] = t] /\ sent' = [sent EXCEPT ![p] = @ \cup {m}]
      /\ accepted' = accepted /\ dropped' = dropped
  BY <1>3 DEF Encrypt, Ok
<1>5. /\ t.rk = s.rk /\ t.ckr = s.ckr /\ t.dhs_pub = s.dhs_pub /\ t.dhr_pub = s.dhr_pub
      /\ t.skipped = s.skipped /\ t.pn = s.pn /\ t.nr = s.nr /\ t.ns = s.ns + 1
  BY <1>1 DEF SoundState, RatchetState
<1>6. /\ m.hdr.dh = s.dhs_pub /\ m.hdr.pn = s.pn /\ m.hdr.n = s.ns /\ m.key = s.cks
  BY DEF Seal, SendHeader
<1> HIDE DEF t, m
<1>7. /\ state'[p] = t /\ sent'[p] = sent[p] \cup {m}
      /\ state'[q] = o /\ sent'[q] = sent[q]
  BY <1>0, <1>4 DEF IInv, TypeOK
<1>8. Follows(q, t)
  <2>1. Len(s.rk) > 0
    BY <1>1, <1>3 DEF Follows
  <2> QED BY <1>1, <1>5, <2>1 DEF Follows, NothingReceived, OnChainOf
<1>9. m.key = KeyAt(p, i, s.ns) /\ m.key.root = s.rk /\ m.key.step = s.ns /\ Len(s.rk) > 0
  <2>1. s.cks \in ChainKey /\ s.cks.root = s.rk /\ s.cks.step = s.ns
    BY <1>1, <1>3 DEF SoundState, RatchetState, DInv, KInv, KeysInOrder, Chained
  <2>2. s.rk = RootTo(Length(p, i)) /\ Len(s.rk) > 0
    BY <1>1, <1>3 DEF Follows
  <2>3. s.cks = [root |-> s.rk, step |-> s.ns]
    BY <2>1 DEF ChainKey
  <2> QED BY <1>6, <2>1, <2>2, <2>3 DEF KeyAt
<1>10. Named(p)'
  <2>1. ASSUME NEW x \in sent[p] \cup {m}
        PROVE  /\ x.key = KeyAt(p, x.hdr.dh[2], x.hdr.n) /\ Len(x.key.root) > 0
               /\ x.hdr.n < U32_MAX
               /\ x.hdr.dh[2] + 1 = t.dhs_pub[2] => x.hdr.n < t.pn
    <3>1. CASE x \in sent[p]
      BY <1>5, <3>1 DEF DInv, Delivers, Named
    <3>2. CASE x = m
      <4>1. s.ns < U32_MAX
        BY <1>1, <1>3, BoundsAssumption DEF SoundState, RatchetState, U32
      <4>2. x.hdr.dh[2] = i /\ t.dhs_pub[2] = i
        BY <1>5, <1>6, <3>2
      <4> QED BY <1>1, <1>6, <1>9, <3>2, <4>1, <4>2
    <3> QED BY <3>1, <3>2
  <2>2. ASSUME NEW x \in sent[p] \cup {m}, NEW y \in sent[p] \cup {m}, x.hdr.dh[2] + 1 = y.hdr.dh[2]
        PROVE  x.hdr.n < y.hdr.pn
    <3>1. CASE x \in sent[p] /\ y \in sent[p]
      BY <2>2, <3>1 DEF DInv, Delivers, Named
    <3>2. CASE x \in sent[p] /\ y = m
      BY <1>6, <2>2, <3>2 DEF DInv, Delivers, Named
    <3>3. CASE x = m
      <4>1. y.hdr.dh[2] \in Nat /\ y.hdr.dh[2] <= i
        <5>1. CASE y \in sent[p]
          BY <5>1, MessagesNamed DEF DInv, KInv, KeysInOrder, SealedAlong
        <5>2. CASE y = m
          BY <1>1, <1>6, <5>2
        <5> QED BY <5>1, <5>2
      <4>2. i + 1 = y.hdr.dh[2]
        BY <1>6, <2>2, <3>3
      <4> QED BY <1>1, <4>1, <4>2
    <3> QED BY <3>1, <3>2, <3>3
  <2> QED BY <1>7, <2>1, <2>2 DEF Named
<1>11. InTurn(p)' /\ InTurn(q)'
  <2>1. InTurn(p) /\ InTurn(q)
    BY <1>0 DEF DInv, Delivers
  <2> QED BY <1>0, <1>1, <1>2, <1>5, <1>7, <2>1, SMTT(60) DEF InTurn
<1>12. Covered(p)'
  <2>1. Covered(p)
    BY DEF DInv, Delivers
  <2>2. \A key : Readable(s, key) => Readable(t, key)
    BY <1>5 DEF Readable, Stored
  <2> QED BY <1>0, <1>4, <1>7, <2>1, <2>2 DEF Covered
<1>13. Covered(q)'
  <2>1. Covered(q)
    BY <1>0 DEF DInv, Delivers
  <2>2. Readable(o, m.key)
    <3>1. /\ Len(s.rk) = Len(o.rk) + 1 \/ Len(o.rk) = Len(s.rk) + 1
          /\ Len(o.rk) = Len(s.rk) + 1 => o.nr <= s.ns
      BY <1>0 DEF DInv, Delivers, InTurn
    <3>2. CASE Len(s.rk) = Len(o.rk) + 1
      BY <1>2, <1>9, <3>2 DEF Readable
    <3>3. CASE Len(o.rk) = Len(s.rk) + 1
      BY <1>9, <3>1, <3>3 DEF Readable
    <3> QED BY <3>1, <3>2, <3>3
  <2> QED BY <1>0, <1>4, <1>7, <2>1, <2>2 DEF Covered
<1>14. Delivers(p)'
  BY <1>7, <1>8, <1>10, <1>11, <1>12 DEF Delivers
<1>15. Delivers(q)'
  <2>1. Follows(p, state'[q]) /\ Named(q)'
    BY <1>0, <1>7, OthersDeliver
  <2> QED BY <1>0, <1>11, <1>13, <2>1 DEF Delivers
<1> QED BY <1>0, <1>14, <1>15 DEF DInv

\* Session::decrypt_ratchet on a message that authenticates: what it loses is counted
\* as dropped, and a ratchet step is the party's turn.
LEMMA DecryptDelivers ==
  ASSUME DInv, NEW p \in Party, NEW m \in sent[Peer(p)], Decrypt(p, m)
  PROVE  DInv'
<1> DEFINE s == state[p]
           i == s.dhs_pub[2]
           q == Peer(p)
           o == state[q]
           h == m.hdr
           c == Candidate(p, m)
           t == c.state
           lost == {e.key : e \in s.skipped} \ ({e.key : e \in t.skipped} \cup {m.key})
<1>0. /\ KInv' /\ q \in Party /\ q # p /\ Peer(q) = p /\ \A x \in Party : x = p \/ x = q
      /\ IInv
  BY DecryptInOrder, PartyAssumption DEF DInv, KInv, Peer, Party
<1>1. /\ SoundState(s) /\ Follows(q, s) /\ i \in Nat /\ s.dhs_pub = <<p, i>> /\ Numbered(p, i, s)
      /\ ratchet_private[p] = s.dhs_pub /\ FreshKey(p) = <<p, i + 1>>
      /\ s.ns \in Nat /\ Len(s.rk) \in Nat /\ s.nr \in Nat
  BY StatesNumbered
<1>2. Len(o.rk) \in Nat /\ o.nr \in Nat /\ o.ns \in Nat /\ Len(o.rk) = Length(q, o.dhs_pub[2])
      /\ o.dhs_pub = <<q, o.dhs_pub[2]>> /\ o.dhs_pub[2] \in Nat
  BY <1>0, StatesNumbered DEF Numbered
<1>3. /\ m \in Message /\ h \in Header /\ h.dh = <<q, h.dh[2]>> /\ h.dh[2] \in Nat
      /\ h.n \in Nat /\ h.pn \in Nat
      /\ m.key = KeyAt(q, h.dh[2], h.n) /\ Len(m.key.root) = Length(q, h.dh[2])
  BY <1>0, MessagesNamed
<1>4. c.ok /\ c.key = m.key
  BY DEF Decrypt, Decrypts, Opens
<1>5. Receives(q, s, t, h)
  <2>1. c = receive_with_eviction(s, h, DH(<<p, i>>, h.dh), DH(<<p, i + 1>>, h.dh), <<p, i + 1>>)
    BY <1>1 DEF Candidate
  <2>2. h.dh[1] = q
    BY <1>3
  <2>3. LET r == receive_with_eviction(s, h, DH(<<p, i>>, h.dh), DH(<<p, i + 1>>, h.dh), <<p, i + 1>>)
        IN  r.ok /\ Len(r.key.root) = Length(q, h.dh[2])
    BY <1>3, <1>4, <2>1
  <2> HIDE DEF c, h
  <2> QED BY <1>1, <1>3, <2>1, <2>2, <2>3, ReceiveWithEvictionFollows
<1>6. /\ state' = [state EXCEPT ![p] = t] /\ sent' = sent
      /\ accepted' = [accepted EXCEPT ![p] = @ \cup {m}]
      /\ dropped' = [dropped EXCEPT ![p] = @ \cup lost]
  BY DEF Decrypt
<1> HIDE DEF c, t, lost, h
<1>7. /\ state'[p] = t /\ state'[q] = o /\ sent'[p] = sent[p] /\ sent'[q] = sent[q]
      /\ accepted'[p] = accepted[p] \cup {m} /\ accepted'[q] = accepted[q]
      /\ dropped'[p] = dropped[p] \cup lost /\ dropped'[q] = dropped[q]
  BY <1>0, <1>6 DEF IInv, TypeOK
<1>8. /\ Follows(q, t) /\ Passed(q, s, t, h) /\ StillReads(q, s, t, h)
      /\ Stayed(s, t) \/ Stepped(q, s, t, h)
  BY <1>5 DEF Receives
<1>9. InTurn(p) /\ InTurn(q)
  BY <1>0 DEF DInv, Delivers
\* The chain of the message is not past the one its sender is on.
<1>10. Length(q, h.dh[2]) \in Nat /\ Length(q, h.dh[2]) <= Len(o.rk)
  <2>1. h.dh[2] <= o.dhs_pub[2]
    BY <1>0 DEF DInv, KInv, KeysInOrder, SealedAlong, h
  <2> QED BY <1>2, <1>3, <2>1, SMTT(60) DEF Length, Odd
<1>11. Length(q, h.dh[2]) = Len(o.rk) => h.n < o.ns
  <2> SUFFICES ASSUME Length(q, h.dh[2]) = Len(o.rk) PROVE h.n < o.ns
    OBVIOUS
  <2>1. h.dh[2] = o.dhs_pub[2]
    BY <1>2, <1>3 DEF Length, Odd
  <2>2. h.dh = o.dhs_pub
    BY <1>2, <1>3, <2>1
  <2> QED BY <1>0, <2>2 DEF DInv, KInv, KeysInOrder, OneChainAKey, h
<1>12. Named(p)'
  <2>1. CASE Stayed(s, t)
    BY <1>7, <2>1 DEF DInv, Delivers, Named, Stayed
  <2>2. CASE Stepped(q, s, t, h)
    <3>1. \A x \in sent[p] : x.hdr.dh[2] + 1 = t.dhs_pub[2] => x.hdr.n < t.pn
      <4> SUFFICES ASSUME NEW x \in sent[p], x.hdr.dh[2] + 1 = t.dhs_pub[2]
                   PROVE  x.hdr.n < s.ns
        BY <2>2 DEF Stepped
      <4>1. x.hdr.dh[2] \in Nat /\ x.hdr.dh = <<p, x.hdr.dh[2]>>
        BY MessagesNamed
      <4>2. x.hdr.dh[2] = i
        BY <1>1, <2>2, <4>1 DEF Stepped
      <4>3. x.hdr.dh = s.dhs_pub
        BY <1>1, <4>1, <4>2
      <4> QED BY <4>3 DEF DInv, KInv, KeysInOrder, OneChainAKey
    <3> QED BY <1>7, <3>1 DEF DInv, Delivers, Named
  <2> QED BY <1>8, <2>1, <2>2
<1>13. InTurn(p)' /\ InTurn(q)'
  <2>1. CASE Stayed(s, t)
    <3>1. t.rk = s.rk /\ t.ns = s.ns
      BY <2>1 DEF Stayed
    <3>2. Len(s.rk) = Len(o.rk) + 1 => t.nr <= o.ns
      <4>1. CASE t.nr = s.nr
        BY <1>9, <4>1 DEF InTurn
      <4>2. CASE t.nr = h.n + 1 /\ Length(q, h.dh[2]) + 1 = Len(t.rk)
        <5>1. Len(o.rk) \in Nat
          BY <1>2, <1>3
        <5>2. ASSUME Len(s.rk) = Len(o.rk) + 1 PROVE h.n < o.ns
          BY <1>10, <1>11, <3>1, <4>2, <5>1, <5>2
        <5>3. h.n \in Nat /\ o.ns \in Nat
          BY <1>2, <1>3
        <5> QED BY <4>2, <5>2, <5>3
      <4> QED BY <1>8, <4>1, <4>2 DEF Passed
    <3> QED BY <1>0, <1>7, <1>9, <3>1, <3>2 DEF InTurn
  <2>2. CASE Stepped(q, s, t, h)
    <3>1. Len(o.rk) = Len(s.rk) + 1 /\ Len(t.rk) = Len(o.rk) + 1 /\ Length(q, h.dh[2]) = Len(o.rk)
      BY <1>0, <1>1, <1>2, <1>9, <1>10, <2>2 DEF InTurn, Stepped
    <3>2. t.nr <= o.ns
      <4>1. t.rk # s.rk
        BY <1>1, <2>2 DEF Stepped
      <4>2. t.nr = h.n + 1
        BY <1>8, <4>1 DEF Passed
      <4> QED BY <1>2, <1>3, <1>11, <3>1, <4>2
    <3>3. Len(o.rk) # Len(t.rk) + 1
      BY <1>2, <3>1
    <3> QED BY <1>0, <1>7, <3>1, <3>2, <3>3 DEF InTurn
  <2> QED BY <1>8, <2>1, <2>2
<1>14. Covered(p)'
  <2> SUFFICES ASSUME NEW x \in sent[q], x \notin accepted[p], x # m
               PROVE  Readable(t, x.key) \/ x.key \in dropped[p] \cup lost
    BY <1>7 DEF Covered
  <2>1. /\ x.key = KeyAt(q, x.hdr.dh[2], x.hdr.n) /\ x.hdr.dh[2] \in Nat /\ x.hdr.n \in Nat
        /\ Length(q, x.hdr.dh[2]) > 0
    BY <1>0, MessagesNamed
  <2>2. x.key # m.key
    BY <1>0, OrderGivesNoKeyReuse DEF DInv, NoKeyReuse
  <2>3. Readable(s, x.key) \/ x.key \in dropped[p]
    BY DEF DInv, Delivers, Covered
  <2>4. CASE Readable(s, x.key) /\ Stored(s, x.key)
    BY <2>2, <2>4 DEF Stored, Readable, lost
  <2>5. CASE Readable(s, x.key) /\ ~Stored(s, x.key)
    <3>1. t.rk # s.rk /\ Length(q, x.hdr.dh[2]) + 1 = Len(s.rk) => x.hdr.n < h.pn
      <4> SUFFICES ASSUME t.rk # s.rk, Length(q, x.hdr.dh[2]) + 1 = Len(s.rk)
                   PROVE  x.hdr.n < h.pn
        OBVIOUS
      <4>1. Length(q, h.dh[2]) = Len(s.rk) + 1
        BY <1>8 DEF Stayed, Stepped
      <4>2. x.hdr.dh[2] + 1 = h.dh[2]
        <5> DEFINE a == x.hdr.dh[2]
                   b == h.dh[2]
                   l == Len(s.rk)
        <5>1. 2 * a + Odd(q) + 1 = l /\ 2 * b + Odd(q) = l + 1
          BY <4>1 DEF Length
        <5>2. a \in Nat /\ b \in Nat /\ l \in Nat /\ Odd(q) \in {0, 1}
          BY <1>1, <1>3, <2>1 DEF Odd
        <5> HIDE DEF a, b, l
        <5>3. a + 1 = b
          BY <5>1, <5>2
        <5> QED BY <5>3 DEF a, b
      <4> QED BY <1>0, <4>2 DEF DInv, Delivers, Named, h
    <3>2. Readable(t, x.key) \/ x.key = m.key
      BY <1>3, <1>8, <2>1, <2>5, <3>1 DEF StillReads
    <3> QED BY <2>2, <3>2
  <2> QED BY <2>3, <2>4, <2>5
<1>15. Covered(q)'
  BY <1>0, <1>7 DEF DInv, Delivers, Covered
<1>16. Delivers(p)'
  BY <1>7, <1>8, <1>12, <1>13, <1>14 DEF Delivers
<1>17. Delivers(q)'
  <2>1. Follows(p, state'[q]) /\ Named(q)'
    BY <1>0, <1>7, OthersDeliver
  <2> QED BY <1>0, <1>13, <1>15, <2>1 DEF Delivers
<1> QED BY <1>0, <1>16, <1>17 DEF DInv

\* Every step preserves it.
LEMMA NextDelivers == DInv /\ [Next]_vars => DInv'
<1> SUFFICES ASSUME DInv, [Next]_vars PROVE DInv'
  OBVIOUS
<1>1. ASSUME NEW p \in Party, Encrypt(p) PROVE DInv'
  BY <1>1, EncryptDelivers
<1>2. ASSUME UNCHANGED vars PROVE DInv'
  <2>1. KInv'
    BY <1>2, NextInOrder DEF DInv
  <2>2. \A p \in Party : Delivers(p)'
    BY <1>2 DEF DInv, Delivers, Named, InTurn, Covered, vars
  <2> QED BY <2>1, <2>2 DEF DInv
<1>3. ASSUME NEW p \in Party, Receive(p) PROVE DInv'
  <2>0. PICK m \in sent[Peer(p)] :
          \E x \in {m} \cup Altered(p, m) : Decrypt(p, x) \/ Refuse(p, x)
    BY <1>3 DEF Receive
  <2>1. PICK x \in {m} \cup Altered(p, m) : Decrypt(p, x) \/ Refuse(p, x)
    BY <2>0
  <2>2. CASE Decrypt(p, x)
    <3>1. x = m
      BY <2>2, DecryptsOnlyGenuine DEF Decrypt, DInv, KInv
    <3> QED BY <2>2, <3>1, DecryptDelivers
  <2>3. CASE Refuse(p, x)
    BY <2>3, <1>2 DEF Refuse
  <2> QED BY <2>1, <2>2, <2>3
<1> QED BY <1>1, <1>2, <1>3 DEF Next

-----------------------------------------------------------------------------
(* The theorem *)

\* A message that can be read and does not have too many missing before it is due.
LEMMA ReadableIsDue ==
  ASSUME DInv, NEW p \in Party, NEW m \in sent[Peer(p)],
         Readable(state[p], m.key), ~TooFarAhead(p, m)
  PROVE  Due(Peer(p), state[p], m.hdr)
<1> DEFINE s == state[p]
           q == Peer(p)
           o == state[q]
           h == m.hdr
<1>0. q \in Party /\ Peer(q) = p
  BY PartyAssumption DEF Peer, Party
<1>1. /\ SoundState(s) /\ Follows(q, s) /\ Len(s.rk) \in Nat /\ s.nr \in Nat
  BY StatesNumbered
<1>2. Len(o.rk) \in Nat /\ Len(o.rk) = Length(q, o.dhs_pub[2]) /\ o.dhs_pub[2] \in Nat
  BY <1>0, StatesNumbered DEF Numbered
<1>3. /\ h.dh = <<q, h.dh[2]>> /\ h.dh[2] \in Nat /\ h.n \in Nat /\ h.pn \in Nat
      /\ m.key = KeyAt(q, h.dh[2], h.n) /\ m.key.step = h.n
      /\ Len(m.key.root) = Length(q, h.dh[2]) /\ Length(q, h.dh[2]) > 0
      /\ Length(q, h.dh[2]) \in Nat
  <2>1. /\ h.dh = <<q, h.dh[2]>> /\ h.dh[2] \in Nat /\ h.n \in Nat /\ h.pn \in Nat
        /\ m.key = KeyAt(q, h.dh[2], h.n) /\ m.key.step = h.n
        /\ Len(m.key.root) = Length(q, h.dh[2]) /\ Length(q, h.dh[2]) > 0
    BY <1>0, MessagesNamed
  <2>2. Length(q, h.dh[2]) \in Nat
    BY <2>1 DEF Length, Odd
  <2> QED BY <2>1, <2>2
<1>4. MAX_SKIP \in Nat
  BY BoundsAssumption
<1> HIDE DEF h
<1>5. CASE Stored(s, m.key)
  <2>1. PICK e \in s.skipped : e.key = m.key
    BY <1>5 DEF Stored
  <2>2. /\ e.dh = <<q, e.dh[2]>> /\ e.dh[2] \in Nat /\ e.n \in Nat
        /\ e.key = KeyAt(q, e.dh[2], e.n)
    BY <1>1, BoundsAssumption, SMTT(60) DEF Follows, SoundState, RatchetState, Entry, KeyPair, U32
  <2>3. e.dh[2] = h.dh[2] /\ e.n = h.n
    <3>1. KeyAt(q, e.dh[2], e.n) = KeyAt(q, h.dh[2], h.n)
      BY <1>3, <2>1, <2>2
    <3>2. \A a, b, c, d \in Nat : KeyAt(q, a, b) = KeyAt(q, c, d) => a = c /\ b = d
      BY <1>0, NamesOfParty
    <3> QED BY <1>3, <2>2, <3>1, <3>2
  <2>4. e \in Matches(s, h)
    BY <1>3, <2>2, <2>3 DEF Matches
  <2> QED BY <2>4 DEF Due, h
<1>6. CASE Len(m.key.root) > Len(s.rk)
  <2>1. Length(q, h.dh[2]) <= Len(o.rk)
    <3>1. h.dh[2] <= o.dhs_pub[2]
      BY <1>0 DEF DInv, KInv, KeysInOrder, SealedAlong, h
    <3> QED BY <1>2, <1>3, <3>1, SMTT(60) DEF Length, Odd
  <2>2. Len(o.rk) = Len(s.rk) + 1 \/ Len(s.rk) = Len(o.rk) + 1
    BY DEF DInv, Delivers, InTurn
  <2>3. Length(q, h.dh[2]) = Len(s.rk) + 1
    BY <1>1, <1>2, <1>3, <1>6, <2>1, <2>2
  <2>4. s.dhr_pub # h.dh
    <3> SUFFICES ASSUME s.dhr_pub = h.dh PROVE FALSE
      OBVIOUS
    <3>1. CASE s.ckr = None
      <4>1. s.dhr_pub # None
        <5>1. <<q, h.dh[2]>> \in KeyPair
          BY <1>0, <1>3 DEF KeyPair
        <5> QED BY <1>3, <5>1, NoneAssumption
      <4>2. h.dh = <<q, 0>> /\ Len(s.rk) = 1
        BY <1>1, <3>1, <4>1 DEF Follows, NothingReceived
      <4>3. h.dh[2] = 0
        BY <4>2
      <4> QED BY <2>3, <4>2, <4>3 DEF Length, Odd
    <3>2. CASE s.ckr # None
      <4>1. Length(q, h.dh[2]) + 1 = Len(s.rk)
        BY <1>1, <3>2 DEF Follows, OnChainOf
      <4> QED BY <1>1, <1>3, <2>3, <4>1
    <3> QED BY <3>1, <3>2
  <2>5. h.n <= MAX_SKIP /\ (s.ckr # None => h.pn - s.nr <= MAX_SKIP)
    BY <1>1, <1>3, <1>4, <2>4 DEF TooFarAhead, h
  <2> QED BY <2>3, <2>4, <2>5 DEF Due, h
<1>7. CASE Len(m.key.root) + 1 = Len(s.rk) /\ s.nr <= m.key.step
  <2>1. s.ckr # None
    BY <1>1, <1>3, <1>7 DEF Follows, NothingReceived
  <2>2. /\ s.dhr_pub # None /\ s.dhr_pub[1] = q /\ s.dhr_pub \in KeyPair
        /\ Length(q, s.dhr_pub[2]) + 1 = Len(s.rk)
    BY <1>1, <2>1 DEF Follows, OnChainOf, SoundState, RatchetState
  <2>3. s.dhr_pub = <<q, s.dhr_pub[2]>> /\ s.dhr_pub[2] \in Nat
    BY <2>2 DEF KeyPair
  <2>4. h.dh[2] = s.dhr_pub[2]
    <3>1. Length(q, s.dhr_pub[2]) \in Nat
      BY <1>0, <2>3, NamesOfParty
    <3>2. Length(q, s.dhr_pub[2]) = Length(q, h.dh[2])
      BY <1>3, <1>7, <2>2, <3>1
    <3> QED BY <1>3, <2>3, <3>2 DEF Length, Odd
  <2>5. s.dhr_pub = h.dh
    BY <1>3, <2>3, <2>4
  <2>6. h.n - s.nr <= MAX_SKIP
    BY <1>1, <1>3, <1>4, <2>5 DEF TooFarAhead, h
  <2> QED BY <1>3, <1>7, <2>1, <2>5, <2>6 DEF Due, h
<1> QED BY <1>5, <1>6, <1>7 DEF Readable

\* In a state that satisfies the invariant a genuine message opens.
LEMMA DeliveryGivesDecryption == DInv => GenuineDecrypts
<1> SUFFICES ASSUME DInv, NEW p \in Party, NEW m \in sent[Peer(p)] \ accepted[p],
                    m.key \notin dropped[p], ~TooFarAhead(p, m)
             PROVE  Decrypts(p, m)
  BY DEF GenuineDecrypts
<1> DEFINE s == state[p]
           i == s.dhs_pub[2]
           h == m.hdr
<1>1. Peer(p) \in Party
  BY DEF Peer, Party
<1>2. /\ SoundState(s) /\ Follows(Peer(p), s) /\ Numbered(p, i, s) /\ i \in Nat
      /\ ratchet_private[p] = <<p, i>> /\ FreshKey(p) = <<p, i + 1>>
  BY StatesNumbered
<1>3. /\ h \in Header /\ h.dh[1] = Peer(p) /\ h.n < U32_MAX
      /\ m.key = KeyAt(Peer(p), h.dh[2], h.n)
  BY <1>1, MessagesNamed
<1>4. Readable(s, m.key)
  BY DEF DInv, Delivers, Covered
<1>5. Due(Peer(p), s, h)
  BY <1>4, ReadableIsDue
<1>6. m.ad = m.hdr
  BY <1>1 DEF DInv, KInv, IInv, Sealed
<1>7. Candidate(p, m).ok /\ Candidate(p, m).key = m.key
  BY <1>2, <1>3, <1>5, EvictionFinds DEF Candidate
<1> QED BY <1>6, <1>7 DEF Decrypts, Opens

\* A genuine message decrypts whenever it arrives, after any loss and reordering and
\* however full the store, unless its key was stored and deleted or too many messages
\* before it are missing: for every bound and ceiling.
THEOREM GenuineMessagesDecrypt == Spec => []GenuineDecrypts
BY InitDelivers, NextDelivers, DeliveryGivesDecryption, PTL DEF Spec

-----------------------------------------------------------------------------
(* Eviction is exact: places in the store *)

\* Each stored key has a place of its own, and the next one comes after them.
Placed(s) ==
  /\ \A e \in s.skipped : e.pos < s.pushed
  /\ \A e, f \in s.skipped : e.pos = f.pos => e = f

\* Deleting keys, and counting, keeps the places.
LEMMA FewerPlaced ==
  ASSUME NEW s, NEW t, Placed(s), t.skipped \subseteq s.skipped, t.pushed = s.pushed
  PROVE  Placed(t)
BY DEF Placed

LEMMA AgePlaced ==
  ASSUME NEW s, SoundState(s), Placed(s)
  PROVE  Placed(age_store(s))
<1>1. age_store(s).skipped \subseteq s.skipped /\ age_store(s).pushed = s.pushed
  BY DEF age_store, SoundState, RatchetState
<1> QED BY <1>1, FewerPlaced

\* skip_message_keys appends.
LEMMA SkipPlaced ==
  ASSUME NEW s, SoundState(s), Placed(s), NEW upto \in U32, skip_message_keys(s, upto).ok
  PROVE  Placed(skip_message_keys(s, upto).state)
<1> DEFINE r == skip_message_keys(s, upto)
           t == r.state
           count == upto - s.nr
           kept == purge_chain_range(s.skipped, s.dhr_pub, s.nr, upto)
           D == DerivedEntries(s.ckr, s.dhr_pub, s.nr, upto, s.events, s.pushed)
<1>0. s \in RatchetState /\ s.nr \in Nat /\ upto \in Nat /\ s.pushed \in Nat
  BY BoundsAssumption DEF SoundState, RatchetState, U32
<1>1. CASE s.ckr = None \/ s.dhr_pub = None \/ upto <= s.nr
  BY <1>1 DEF skip_message_keys, Ok
<1>2. CASE ~(s.ckr = None \/ s.dhr_pub = None \/ upto <= s.nr)
  <2>1. ~(upto > SkipLimit(s.nr)) /\ HasRoom(kept, count)
    BY <1>2 DEF skip_message_keys, Err
  <2>2. t = [s EXCEPT !.ckr = ChainAfter(@, count), !.nr = upto,
                      !.pushed = @ + count, !.skipped = kept \cup D]
    BY <1>2, <2>1 DEF skip_message_keys, Ok
  <2> HIDE DEF t
  <2>3. t.pushed = s.pushed + count /\ t.skipped = kept \cup D
    BY <1>0, <2>2 DEF RatchetState
  <2>4. kept \subseteq s.skipped
    BY DEF purge_chain_range
  <2>5. \A e \in D : /\ e.pos \in Nat /\ s.pushed <= e.pos /\ e.pos < s.pushed + count
                     /\ \A f \in D : e.pos = f.pos => e = f
    BY <1>0 DEF DerivedEntries
  <2>6. \A e \in kept : e.pos \in Nat /\ e.pos < s.pushed /\ \A f \in kept : e.pos = f.pos => e = f
    BY <1>0, <2>4 DEF Placed, RatchetState, Entry
  <2>7. count \in Nat
    BY <1>0, <1>2
  <2> HIDE DEF D, kept, count
  <2>8. \A e \in kept, f \in D : e.pos # f.pos
    BY <1>0, <2>5, <2>6
  <2>9. \A e \in kept \cup D : e.pos < s.pushed + count
    BY <1>0, <2>5, <2>6, <2>7
  <2> QED BY <2>3, <2>5, <2>6, <2>8, <2>9 DEF Placed, t
<1> QED BY <1>1, <1>2

LEMMA ReceiveOnChainPlaced ==
  ASSUME NEW s, SoundState(s), Placed(s), NEW h \in Header, ReceiveOnChain(s, h).ok
  PROVE  Placed(ReceiveOnChain(s, h).state)
<1> DEFINE skip == skip_message_keys(s, h.n)
           cur == skip.state
           next == [cur EXCEPT !.ckr = kdf_ck(@)[1], !.nr = @ + 1]
<1>1. h.n \in U32 /\ skip.ok
  BY DEF ReceiveOnChain, Header
<1>2. ~(h.n < cur.nr) /\ cur.ckr # None /\ cur.nr # U32_MAX
  BY <1>1 DEF ReceiveOnChain, Err
<1>3. ReceiveOnChain(s, h).state = age_store(next)
  BY <1>1, <1>2 DEF ReceiveOnChain, Ok
<1>4. SoundState(cur) /\ Placed(cur)
  BY <1>1, SkipIsSound, SkipPlaced
<1> HIDE DEF skip, cur
<1>5. next.skipped = cur.skipped /\ next.pushed = cur.pushed /\ next.events = cur.events
  BY <1>4 DEF SoundState, RatchetState
<1> HIDE DEF next
<1>6. age_store(next).skipped \subseteq next.skipped /\ age_store(next).pushed = next.pushed
  BY <1>2, <1>4 DEF age_store, SoundState, RatchetState, next
<1> QED BY <1>3, <1>4, <1>5, <1>6, FewerPlaced

LEMMA ReceivePlaced ==
  ASSUME NEW s, SoundState(s), Placed(s), NEW h \in Header, NEW dr \in SUBSET KeyPair,
         NEW ds \in SUBSET KeyPair, NEW new \in KeyPair, receive(s, h, dr, ds, new).ok
  PROVE  Placed(receive(s, h, dr, ds, new).state)
<1>1. CASE Matches(s, h) # {}
  <2> DEFINE T == s.skipped \ {FirstMatch(s, h)}
             u == [s EXCEPT !.skipped = T]
  <2>1. receive(s, h, dr, ds, new).state = age_store(u)
    BY <1>1 DEF receive, TakeSkipped, Ok
  <2>2. SoundState(u)
    BY FewerKeys
  <2>3. u.skipped \subseteq s.skipped /\ u.pushed = s.pushed
    BY DEF SoundState, RatchetState
  <2> QED BY <2>1, <2>2, <2>3, FewerPlaced, AgePlaced, ZenonT(40)
<1>2. CASE Matches(s, h) = {} /\ (s.dhr_pub = None \/ s.dhr_pub # h.dh)
  <2> DEFINE skip == skip_message_keys(s, h.pn)
             u == dh_ratchet(skip.state, h, dr, ds, new)
  <2>1. skip.ok
    BY <1>2 DEF receive
  <2>2. receive(s, h, dr, ds, new) = ReceiveOnChain(u, h)
    BY <1>2, <2>1 DEF receive
  <2>3. SoundState(skip.state) /\ Placed(skip.state)
    BY <2>1, SkipIsSound, SkipPlaced DEF Header
  <2>4. SoundState(u)
    BY <2>3, DhRatchetIsSound
  <2>5. u.skipped = skip.state.skipped /\ u.pushed = skip.state.pushed
    BY <2>3 DEF dh_ratchet, SoundState, RatchetState
  <2> HIDE DEF u, skip
  <2>6. Placed(u)
    BY <2>3, <2>5, FewerPlaced
  <2> QED BY <2>2, <2>4, <2>6, ReceiveOnChainPlaced, <1>2
<1>3. CASE Matches(s, h) = {} /\ ~(s.dhr_pub = None \/ s.dhr_pub # h.dh)
  <2>1. receive(s, h, dr, ds, new) = ReceiveOnChain(s, h)
    BY <1>3 DEF receive
  <2> QED BY <2>1, ReceiveOnChainPlaced
<1> QED BY <1>1, <1>2, <1>3

\* The invariant with the places.
PInv == DInv /\ \A p \in Party : Placed(state[p])

LEMMA InitPlaced == Init => PInv
<1> SUFFICES ASSUME Init PROVE PInv
  OBVIOUS
<1>1. DInv
  BY InitDelivers
<1>2. \A p \in Party : state[p].skipped = {}
  BY DEF Init, init_sender, init_receiver
<1> QED BY <1>1, <1>2 DEF PInv, Placed

LEMMA NextPlaced == PInv /\ [Next]_vars => PInv'
<1> SUFFICES ASSUME PInv, [Next]_vars PROVE PInv'
  OBVIOUS
<1>0. DInv /\ DInv' /\ IInv
  BY NextDelivers DEF PInv, DInv, KInv
<1>1. ASSUME NEW p \in Party, Encrypt(p) PROVE PInv'
  <2> DEFINE s == state[p]
             t == [s EXCEPT !.cks = kdf_ck(@)[1], !.ns = @ + 1]
  <2>1. state' = [state EXCEPT ![p] = t]
    <3>1. send(s) = Ok(t, s.cks)
      BY <1>1 DEF Encrypt, send, Err, kdf_ck
    <3> QED BY <1>1, <3>1 DEF Encrypt, Ok
  <2>2. t.skipped = s.skipped /\ t.pushed = s.pushed
    BY <1>0, StatesNumbered DEF SoundState, RatchetState
  <2> HIDE DEF t
  <2>3. Placed(t)
    BY <2>2, FewerPlaced DEF PInv
  <2> QED BY <1>0, <2>1, <2>3 DEF PInv, IInv, TypeOK
<1>2. ASSUME UNCHANGED vars PROVE PInv'
  BY <1>0, <1>2 DEF PInv, vars
<1>3. ASSUME NEW p \in Party, NEW x \in UNION {{m} \cup Altered(p, m) : m \in sent[Peer(p)]}, Decrypt(p, x)
      PROVE  PInv'
  <2> DEFINE s == state[p]
             c == Candidate(p, x)
  <2>1. PICK m \in sent[Peer(p)] : x \in {m} \cup Altered(p, m)
    BY <1>3
  <2>2. x = m /\ x \in sent[Peer(p)]
    BY <1>0, <1>3, <2>1, DecryptsOnlyGenuine DEF Decrypt
  <2>3. x.hdr \in Header /\ x.hdr.dh \in KeyPair
    <3>1. Peer(p) \in Party
      BY DEF Peer, Party
    <3>2. x.hdr \in Header
      BY <1>0, <2>2, <3>1, MessagesNamed
    <3> QED BY <3>2 DEF Header
  <2>4. /\ DH(ratchet_private[p], x.hdr.dh) \in SUBSET KeyPair
        /\ DH(FreshKey(p), x.hdr.dh) \in SUBSET KeyPair /\ FreshKey(p) \in KeyPair
    BY <1>0, <2>3 DEF IInv, TypeOK, FreshKey, KeyPair, DH
  <2>5. SoundState(s) /\ Follows(Peer(p), s) /\ Placed(s)
    BY <1>0, StatesNumbered DEF PInv
  <2>6. c.ok
    BY <1>3 DEF Decrypt, Decrypts
  <2>7. Placed(c.state)
    <3>1. PICK u : /\ SoundState(u) /\ Placed(u)
                   /\ c = receive(u, x.hdr, DH(ratchet_private[p], x.hdr.dh), DH(FreshKey(p), x.hdr.dh),
                                  FreshKey(p))
      <4>1. \A k : SoundState(evict_oldest(s, k)) /\ Placed(evict_oldest(s, k))
        <5> TAKE k
        <5>1. evict_oldest(s, k).pushed = s.pushed
          BY <2>5 DEF evict_oldest, SoundState, RatchetState
        <5> QED BY <2>5, <5>1, EvictionFollows, FewerPlaced
      <4> QED BY <2>5, <4>1 DEF Candidate, receive_with_eviction
    <3> QED BY <2>3, <2>4, <2>6, <3>1, ReceivePlaced
  <2> HIDE DEF c
  <2>8. state' = [state EXCEPT ![p] = c.state]
    BY <1>3 DEF Decrypt, c
  <2> QED BY <1>0, <2>7, <2>8 DEF PInv, IInv, TypeOK
<1>4. ASSUME NEW p \in Party, Receive(p) PROVE PInv'
  <2>0. PICK m \in sent[Peer(p)] :
          \E x \in {m} \cup Altered(p, m) : Decrypt(p, x) \/ Refuse(p, x)
    BY <1>4 DEF Receive
  <2>1. PICK x \in {m} \cup Altered(p, m) : Decrypt(p, x) \/ Refuse(p, x)
    BY <2>0
  <2> QED BY <1>2, <1>3, <2>1 DEF Refuse
<1> QED BY <1>1, <1>2, <1>4 DEF Next

-----------------------------------------------------------------------------
(* Eviction is exact: counting *)

\* Entries with places of their own are in one order.
LEMMA OlderOrders ==
  ASSUME NEW e \in Entry, NEW f \in Entry, NEW g \in Entry
  PROVE  /\ ~Older(e, e)
         /\ Older(e, f) /\ Older(f, g) => Older(e, g)
         /\ e.pos # f.pos => Older(e, f) \/ Older(f, e)
         /\ Older(e, f) => e.stored_at <= f.stored_at
<1>1. /\ e.stored_at \in Nat /\ f.stored_at \in Nat /\ g.stored_at \in Nat
      /\ e.pos \in Nat /\ f.pos \in Nat /\ g.pos \in Nat
  BY BoundsAssumption DEF Entry, U32
<1> QED BY <1>1 DEF Older

\* evict_oldest leaves exactly the rest: no two entries have equally many before them.
LEMMA EvictionLeaves ==
  ASSUME NEW S \in SUBSET Entry, IsFiniteSet(S), \A x, y \in S : x.pos = y.pos => x = y,
         NEW count \in Nat, count <= Cardinality(S)
  PROVE  LET left == {x \in S : Cardinality({y \in S : Older(y, x)}) >= count}
         IN  /\ IsFiniteSet(left) /\ Cardinality(left) = Cardinality(S) - count
             /\ \A x \in S \ left, y \in left : Older(x, y)
<1> DEFINE Before(x) == {y \in S : Older(y, x)}
           left == {x \in S : Cardinality(Before(x)) >= count}
           gone == S \ left
           upper == count..(Cardinality(S) - 1)
           lower == 0..(count - 1)
<1>1. Cardinality(S) \in Nat
  BY FS_CardinalityType
<1>2. ASSUME NEW x \in S
      PROVE  /\ IsFiniteSet(Before(x)) /\ Cardinality(Before(x)) \in Nat
             /\ Cardinality(Before(x)) < Cardinality(S)
  <2>1. Before(x) \in SUBSET S /\ x \notin Before(x)
    BY OlderOrders
  <2> HIDE DEF Before
  <2>2. /\ IsFiniteSet(Before(x)) /\ Cardinality(Before(x)) <= Cardinality(S)
        /\ Cardinality(S) = Cardinality(Before(x)) => S = Before(x)
    BY <2>1, FS_Subset
  <2>3. Cardinality(Before(x)) \in Nat
    BY <2>2, FS_CardinalityType
  <2> QED BY <1>1, <2>1, <2>2, <2>3
<1>3. ASSUME NEW x \in S, NEW y \in S, Older(x, y)
      PROVE  Cardinality(Before(x)) < Cardinality(Before(y))
  <2>1. Before(x) \in SUBSET Before(y) /\ x \in Before(y) /\ x \notin Before(x)
    BY <1>3, OlderOrders
  <2>2. IsFiniteSet(Before(y)) /\ Cardinality(Before(x)) \in Nat /\ Cardinality(Before(y)) \in Nat
    BY <1>2
  <2> HIDE DEF Before
  <2>3. /\ Cardinality(Before(x)) <= Cardinality(Before(y))
        /\ Cardinality(Before(y)) = Cardinality(Before(x)) => Before(y) = Before(x)
    BY <2>1, <2>2, FS_Subset
  <2> QED BY <2>1, <2>2, <2>3
<1>4. ASSUME NEW x \in S, NEW y \in S, Cardinality(Before(x)) = Cardinality(Before(y))
      PROVE  x = y
  <2> SUFFICES ASSUME x # y PROVE FALSE
    OBVIOUS
  <2>1. Older(x, y) \/ Older(y, x)
    BY OlderOrders
  <2>2. Cardinality(Before(x)) \in Nat /\ Cardinality(Before(y)) \in Nat
    BY <1>2
  <2> HIDE DEF Before
  <2> QED BY <1>3, <1>4, <2>1, <2>2
<1> HIDE DEF Before
<1>5. Cardinality(left) <= Cardinality(S) - count
  <2> DEFINE rank == [x \in left |-> Cardinality(Before(x))]
  <2>1. \A x \in left : Cardinality(Before(x)) \in upper
    BY <1>1, <1>2
  <2>2. rank \in Injection(left, upper)
    BY <1>4, <2>1 DEF Injection, IsInjective
  <2>3. IsFiniteSet(upper) /\ Cardinality(upper) = Cardinality(S) - count
    <3>1. count \in Int /\ Cardinality(S) - 1 \in Int
      BY <1>1
    <3>2. /\ IsFiniteSet(upper)
          /\ Cardinality(upper)
               = IF count > Cardinality(S) - 1 THEN 0 ELSE Cardinality(S) - 1 - count + 1
      BY <3>1, FS_Interval
    <3> QED BY <1>1, <3>2
  <2> HIDE DEF left, upper, rank
  <2> QED BY <2>2, <2>3, FS_Injection
<1>6. Cardinality(gone) <= count
  <2> DEFINE rank == [x \in gone |-> Cardinality(Before(x))]
  <2>1. \A x \in gone : Cardinality(Before(x)) \in lower
    BY <1>1, <1>2
  <2>2. rank \in Injection(gone, lower)
    BY <1>4, <2>1 DEF Injection, IsInjective
  <2>3. IsFiniteSet(lower) /\ Cardinality(lower) = count
    <3>1. 0 \in Int /\ count - 1 \in Int
      OBVIOUS
    <3>2. /\ IsFiniteSet(lower)
          /\ Cardinality(lower) = IF 0 > count - 1 THEN 0 ELSE count - 1 - 0 + 1
      BY <3>1, FS_Interval
    <3> QED BY <3>2
  <2> HIDE DEF gone, lower, rank
  <2> QED BY <2>2, <2>3, FS_Injection
<1>7. IsFiniteSet(left) /\ IsFiniteSet(gone) /\ Cardinality(left) \in Nat /\ Cardinality(gone) \in Nat
  <2>1. left \in SUBSET S /\ gone \in SUBSET S
    OBVIOUS
  <2> HIDE DEF left, gone
  <2> QED BY <2>1, FS_Subset, FS_CardinalityType
<1>8. Cardinality(S) = Cardinality(left) + Cardinality(gone)
  <2>1. S = left \cup gone /\ left \cap gone = {}
    OBVIOUS
  <2> HIDE DEF left, gone
  <2>2. Cardinality(left \cup gone) = Cardinality(left) + Cardinality(gone) - Cardinality(left \cap gone)
    BY <1>7, FS_Union
  <2>3. Cardinality(left \cap gone) = 0
    BY <2>1, FS_EmptySet
  <2> QED BY <1>7, <2>1, <2>2, <2>3
<1>9. ASSUME NEW x \in gone, NEW y \in left PROVE Older(x, y)
  <2>1. x \in S /\ y \in S /\ Cardinality(Before(x)) < count /\ Cardinality(Before(y)) >= count
    BY <1>2
  <2>2. x \in Entry /\ y \in Entry /\ x # y
    OBVIOUS
  <2>3. Older(x, y) \/ Older(y, x)
    BY <2>1, <2>2, OlderOrders
  <2>4. Cardinality(Before(x)) \in Nat /\ Cardinality(Before(y)) \in Nat
    BY <1>2, <2>1
  <2> HIDE DEF gone, left
  <2> QED BY <1>3, <2>1, <2>3, <2>4
<1>10. Cardinality(left) = Cardinality(S) - count
  <2> HIDE DEF gone, left
  <2> QED BY <1>1, <1>5, <1>6, <1>7, <1>8
<1> QED BY <1>7, <1>9, <1>10 DEF Before

\* A skip derives exactly as many keys as it passes numbers.
LEMMA DerivedEntriesCount ==
  ASSUME NEW ck \in ChainKey, NEW dhr \in KeyPair, NEW from \in U32, NEW upto \in U32,
         NEW now \in U32, NEW first \in Nat, from < upto
  PROVE  Cardinality(DerivedEntries(ck, dhr, from, upto, now, first)) = upto - from
<1> DEFINE D == DerivedEntries(ck, dhr, from, upto, now, first)
           I == from..(upto - 1)
           rec(i) == [dh |-> dhr, n |-> i, stored_at |-> now,
                      key |-> ChainAfter(ck, i - from), pos |-> first + (i - from)]
           f == [i \in I |-> rec(i)]
<1>0. from \in Nat /\ upto \in Nat
  BY BoundsAssumption DEF U32
<1>1. IsFiniteSet(D) /\ Cardinality(D) \in Nat /\ Cardinality(D) <= upto - from
  BY DerivedEntriesBound
<1>2. f \in Injection(I, D)
  BY DEF DerivedEntries, Injection, IsInjective
<1>3. Cardinality(I) = upto - from
  <2>1. from \in Int /\ upto - 1 \in Int /\ ~(from > upto - 1)
    BY <1>0
  <2>2. Cardinality(I) = (upto - 1) - from + 1
    BY <2>1, FS_Interval
  <2> QED BY <2>2, <1>0
<1> HIDE DEF D, I, f
<1>4. Cardinality(I) <= Cardinality(D)
  BY <1>1, <1>2, FS_Injection
<1> QED BY <1>0, <1>1, <1>3, <1>4 DEF D

\* The first batch is the shortfall itself.
LEMMA FirstBatch ==
  ASSUME NEW s, NEW h, receive_shortfall(s, h) \in Nat
  PROVE  EvictedAfter(s, h, 1) = receive_shortfall(s, h)
<1>1. 2^1 = 2
  <2> DEFINE S == {0}
  <2>1. IsFiniteSet(S) /\ Cardinality(S) = 1
    BY FS_Singleton
  <2>2. Cardinality(SUBSET S) = 2^Cardinality(S)
    BY <2>1, FS_SUBSET
  <2>3. SUBSET S = {{}} \cup {S}
    OBVIOUS
  <2>4. IsFiniteSet({{}}) /\ Cardinality({{}}) = 1
    BY FS_Singleton
  <2>5. S \notin {{}}
    OBVIOUS
  <2> HIDE DEF S
  <2>6. Cardinality({{}} \cup {S}) = 1 + 1
    BY <2>4, <2>5, FS_AddElement
  <2> QED BY <2>1, <2>2, <2>3, <2>6
<1> QED BY <1>1 DEF EvictedAfter

-----------------------------------------------------------------------------
(* Eviction is exact: what an operation loses *)

\* The keys of s that t has lost and that are not too old.
LostEarly(s, t) == {e \in s.skipped : e \notin t.skipped /\ t.events - e.stored_at < MAX_SKIPPED_AGE}

\* age_store deletes only what is too old, and counts at most one.
LEMMA AgeLosesNone ==
  ASSUME NEW s, SoundState(s)
  PROVE  LET t == age_store(s)
         IN  /\ LostEarly(s, t) = {} /\ t.skipped \subseteq s.skipped
             /\ t.events \in Nat /\ t.events <= s.events + 1
<1> DEFINE t == age_store(s)
           stepped == saturating_add(s.events, 1)
           now == IF stepped = U32_MAX THEN MAX_EVENTS ELSE stepped
<1>1. t.events = now /\ t.skipped = {e \in s.skipped : now - e.stored_at < MAX_SKIPPED_AGE}
  BY DEF age_store, SoundState, RatchetState
<1>2. s.events \in Nat /\ s.events < U32_MAX /\ U32_MAX \in Nat
  BY BoundsAssumption DEF SoundState, RatchetState, U32, invariant, ClockBelowCeiling
<1>3. now \in Nat /\ now <= s.events + 1
  BY <1>2, BoundsAssumption DEF saturating_add, MAX_EVENTS
<1> QED BY <1>1, <1>3 DEF LostEarly

\* The names of a receive that follows the current chain and of one that opens another.
LEMMA ChainKeepsKey ==
  ASSUME NEW s, SoundState(s), NEW h \in Header, ReceiveOnChain(s, h).ok
  PROVE  ReceiveOnChain(s, h).state.dhr_pub = s.dhr_pub
<1> DEFINE skip == skip_message_keys(s, h.n)
           cur == skip.state
           next == [cur EXCEPT !.ckr = kdf_ck(@)[1], !.nr = @ + 1]
<1>1. h.n \in U32 /\ skip.ok
  BY DEF ReceiveOnChain, Header
<1>2. ~(h.n < cur.nr) /\ cur.ckr # None /\ cur.nr # U32_MAX
  BY <1>1 DEF ReceiveOnChain, Err
<1>3. ReceiveOnChain(s, h).state = age_store(next)
  BY <1>1, <1>2 DEF ReceiveOnChain, Ok
<1>4. SoundState(cur)
  BY <1>1, SkipIsSound
<1>5. cur.dhr_pub = s.dhr_pub
  BY DEF skip_message_keys, Ok, Err, SoundState, RatchetState
<1> HIDE DEF skip, cur
<1>6. age_store(next).dhr_pub = cur.dhr_pub
  BY <1>4 DEF age_store, SoundState, RatchetState
<1> QED BY <1>3, <1>5, <1>6

LEMMA StepMovesKey ==
  ASSUME NEW s, SoundState(s), NEW h \in Header, NEW dr \in SUBSET KeyPair,
         NEW ds \in SUBSET KeyPair, NEW new \in KeyPair, receive(s, h, dr, ds, new).ok,
         Matches(s, h) = {}, s.dhr_pub # h.dh
  PROVE  receive(s, h, dr, ds, new).state.dhr_pub = h.dh
<1> DEFINE skip == skip_message_keys(s, h.pn)
           u == dh_ratchet(skip.state, h, dr, ds, new)
<1>1. skip.ok
  BY DEF receive
<1>2. receive(s, h, dr, ds, new) = ReceiveOnChain(u, h)
  BY <1>1 DEF receive
<1>3. SoundState(skip.state)
  BY <1>1, SkipIsSound DEF Header
<1>4. SoundState(u)
  BY <1>3, DhRatchetIsSound
<1>5. u.dhr_pub = h.dh
  BY <1>3 DEF dh_ratchet, SoundState, RatchetState
<1> HIDE DEF u
<1> QED BY <1>2, <1>4, <1>5, ChainKeepsKey

\* A receive on the current chain loses no key to anything but age.
LEMMA ChainLosesNone ==
  ASSUME NEW q \in Party, NEW s, SoundState(s), Follows(q, s), NEW h \in Header,
         ReceiveOnChain(s, h).ok
  PROVE  LET t == ReceiveOnChain(s, h).state
             cur == skip_message_keys(s, h.n).state
         IN  /\ LostEarly(s, t) = {} /\ LostEarly(cur, t) = {} /\ t.skipped \subseteq cur.skipped
             /\ t.events \in Nat /\ t.events <= s.events + 1
<1> DEFINE skip == skip_message_keys(s, h.n)
           cur == skip.state
           next == [cur EXCEPT !.ckr = kdf_ck(@)[1], !.nr = @ + 1]
           t == age_store(next)
<1>1. h.n \in U32 /\ skip.ok
  BY DEF ReceiveOnChain, Header
<1>2. ~(h.n < cur.nr) /\ cur.ckr # None /\ cur.nr # U32_MAX
  BY <1>1 DEF ReceiveOnChain, Err
<1>3. ReceiveOnChain(s, h).state = t
  BY <1>1, <1>2 DEF ReceiveOnChain, Ok
<1>4. SoundState(cur) /\ Skips(q, s, cur, h.n)
  BY <1>1, SkipIsSound, SkipFollows
<1> HIDE DEF skip, cur
<1>5. SoundState(next) /\ next.skipped = cur.skipped /\ next.events = cur.events
  <2>1. cur \in RatchetState /\ cur.ckr \in ChainKey /\ cur.nr \in U32 /\ cur.nr + 1 \in U32
    BY <1>2, <1>4, BoundsAssumption DEF SoundState, RatchetState, U32
  <2>2. kdf_ck(cur.ckr)[1] \in ChainKey
    BY <2>1 DEF kdf_ck, ChainKey
  <2>3. next \in RatchetState
    BY <2>1, <2>2 DEF RatchetState
  <2>4. /\ next.skipped = cur.skipped /\ next.events = cur.events
        /\ next.ckr = kdf_ck(cur.ckr)[1] /\ next.cks = cur.cks
        /\ next.dhr_pub = cur.dhr_pub /\ next.dhs_pub = cur.dhs_pub
    BY <2>1 DEF RatchetState
  <2> HIDE DEF next
  <2>5. invariant(next)
    BY <1>2, <1>4, <2>4
    DEF SoundState, invariant, StoreBounded, StoreIsMap, StoreNotAhead, ClockBelowCeiling, ChainsOpenInOrder
  <2> QED BY <1>4, <2>3, <2>4, <2>5 DEF SoundState
<1> HIDE DEF next
<1>6. /\ LostEarly(next, t) = {} /\ t.skipped \subseteq next.skipped
      /\ t.events \in Nat /\ t.events <= next.events + 1
  BY <1>5, AgeLosesNone
<1> HIDE DEF t
<1>7. s.skipped \subseteq cur.skipped /\ cur.events = s.events
  BY <1>4 DEF Skips
<1> QED BY <1>3, <1>5, <1>6, <1>7 DEF LostEarly, cur, skip

\* A receive without eviction, and without a ratchet step, loses early at most the key
\* it used.
LEMMA ReceiveLosesNone ==
  ASSUME NEW q \in Party, NEW s, SoundState(s), Follows(q, s), NEW h \in Header,
         NEW dr \in SUBSET KeyPair, NEW ds \in SUBSET KeyPair, NEW new \in KeyPair,
         receive(s, h, dr, ds, new).ok, receive(s, h, dr, ds, new).state.dhr_pub = s.dhr_pub
  PROVE  LET r == receive(s, h, dr, ds, new)
         IN  \A e \in LostEarly(s, r.state) : e.key = r.key
<1> DEFINE r == receive(s, h, dr, ds, new)
<1>1. CASE Matches(s, h) # {}
  <2> DEFINE x == FirstMatch(s, h)
             u == [s EXCEPT !.skipped = @ \ {x}]
  <2>1. r.state = age_store(u) /\ r.key = x.key
    BY <1>1 DEF receive, TakeSkipped, Ok
  <2>2. SoundState(u)
    BY FewerKeys
  <2>3. u.skipped = s.skipped \ {x}
    BY DEF SoundState, RatchetState
  <2> HIDE DEF u, x, r
  <2>4. LostEarly(u, r.state) = {}
    BY <2>1, <2>2, AgeLosesNone
  <2>5. \A e \in LostEarly(s, r.state) : e = x
    BY <2>3, <2>4 DEF LostEarly
  <2> QED BY <2>1, <2>5 DEF r
<1>2. CASE Matches(s, h) = {} /\ s.dhr_pub # h.dh
  BY <1>2, StepMovesKey
<1>3. CASE Matches(s, h) = {} /\ s.dhr_pub = h.dh
  <2>1. s.dhr_pub # None
    BY <1>3, NoneAssumption DEF Header
  <2>2. r = ReceiveOnChain(s, h)
    BY <1>3, <2>1 DEF receive
  <2> QED BY <2>2, ChainLosesNone
<1> QED BY <1>1, <1>2, <1>3

\* On the current chain the first batch is the room that the skip needs, and what it
\* leaves is not too old if anything that it took is not.
LEMMA EvictionFills ==
  ASSUME NEW q \in Party, NEW s, SoundState(s), Follows(q, s), Placed(s), NEW h \in Header,
         s.dhr_pub = h.dh, ReceiveOnChain(s, h).err = "SkippedStoreFull"
  PROVE  LET u == evict_oldest(s, EvictedAfter(s, h, 1))
             r == ReceiveOnChain(u, h)
         IN  /\ r.err # "SkippedStoreFull" /\ s.skipped # {}
             /\ r.ok /\ LostEarly(s, r.state) # {} => Cardinality(r.state.skipped) = MAX_SKIPPED_STORE
<1> DEFINE count == h.n - s.nr
           kept(x) == purge_chain_range(x.skipped, x.dhr_pub, x.nr, h.n)
           short == receive_shortfall(s, h)
           u == evict_oldest(s, short)
           D == DerivedEntries(u.ckr, u.dhr_pub, u.nr, h.n, u.events, u.pushed)
           skip == skip_message_keys(u, h.n)
           r == ReceiveOnChain(u, h)
           size == Cardinality(s.skipped)
<1>1. /\ s \in RatchetState /\ s.nr \in Nat /\ h.n \in Nat /\ h.n \in U32 /\ size \in Nat
      /\ MAX_SKIP \in Nat /\ MAX_SKIPPED_STORE \in Nat /\ MAX_SKIP <= MAX_SKIPPED_STORE
      /\ size <= MAX_SKIPPED_STORE /\ U32_MAX \in Nat
  BY FS_CardinalityType, BoundsAssumption
  DEF SoundState, RatchetState, U32, Header, invariant, StoreBounded
<1>2. skip_message_keys(s, h.n).err = "SkippedStoreFull"
  BY DEF ReceiveOnChain, Err, Ok
<1>3. /\ s.ckr # None /\ s.dhr_pub # None /\ s.nr < h.n /\ ~(h.n > SkipLimit(s.nr))
      /\ ~HasRoom(kept(s), count)
  BY <1>1, <1>2 DEF skip_message_keys, Err, Ok
<1>4. ASSUME NEW x, SoundState(x), Follows(q, x), x.nr = s.nr PROVE kept(x) = x.skipped
  <2>0. \A e \in x.skipped : e.n \in Nat
    BY <1>4, BoundsAssumption DEF SoundState, RatchetState, Entry, U32
  <2>1. \A e \in x.skipped : e.dh = x.dhr_pub => ~(e.n >= x.nr)
    BY <1>1, <1>4, <2>0 DEF Follows
  <2> QED BY <2>1 DEF purge_chain_range
<1>5. count \in Nat /\ count >= 1 /\ count <= MAX_SKIP /\ size + count > MAX_SKIPPED_STORE
  <2>1. size + count > MAX_SKIPPED_STORE
    BY <1>1, <1>3, <1>4 DEF HasRoom
  <2>2. count <= MAX_SKIP
    BY <1>1, <1>3 DEF SkipLimit, saturating_add
  <2> QED BY <1>1, <1>3, <2>1, <2>2
<1>6. short = size + count - MAX_SKIPPED_STORE /\ short \in Nat /\ short >= 1 /\ short <= size
  BY <1>1, <1>3, <1>5 DEF receive_shortfall
<1> HIDE DEF short
<1>7. EvictedAfter(s, h, 1) = short
  BY <1>6, FirstBatch DEF short
<1>8. /\ SoundState(u) /\ Follows(q, u) /\ SameChains(s, u) /\ u.skipped \subseteq s.skipped
      /\ u.skipped = {e \in s.skipped : Cardinality({f \in s.skipped : Older(f, e)}) >= short}
  BY EvictionFollows
<1>9. /\ IsFiniteSet(u.skipped) /\ Cardinality(u.skipped) = size - short
      /\ \A x \in s.skipped \ u.skipped, y \in u.skipped : Older(x, y)
  <2>1. s.skipped \in SUBSET Entry /\ IsFiniteSet(s.skipped)
    BY DEF SoundState, RatchetState
  <2>2. \A x, y \in s.skipped : x.pos = y.pos => x = y
    BY DEF Placed
  <2> HIDE DEF u
  <2> QED BY <1>6, <1>8, <2>1, <2>2, EvictionLeaves
<1> HIDE DEF u
<1>10. u.nr = s.nr /\ u.ckr = s.ckr /\ u.dhr_pub = s.dhr_pub /\ kept(u) = u.skipped
  BY <1>4, <1>8 DEF SameChains
<1>11. HasRoom(kept(u), count)
  BY <1>1, <1>5, <1>6, <1>9, <1>10 DEF HasRoom
<1>12. /\ skip.ok /\ skip.err = "none" /\ skip.state.skipped = u.skipped \cup D
       /\ skip.state.events = u.events
  <2>1. skip = Ok([u EXCEPT !.ckr = ChainAfter(@, count), !.nr = h.n,
                            !.pushed = @ + count, !.skipped = kept(u) \cup D], None)
    BY <1>1, <1>3, <1>10, <1>11 DEF skip_message_keys
  <2> HIDE DEF skip, D
  <2> QED BY <1>8, <1>10, <2>1 DEF Ok, SoundState, RatchetState
<1>13. r.err # "SkippedStoreFull"
  BY <1>12 DEF ReceiveOnChain, Err, Ok
<1>14. /\ IsFiniteSet(D) /\ Cardinality(D) = count
       /\ \A e \in D : e.dh = u.dhr_pub /\ u.nr <= e.n /\ e.stored_at = u.events
  <2>1. /\ u.ckr \in ChainKey /\ u.dhr_pub \in KeyPair /\ u.nr \in U32 /\ u.events \in U32
        /\ u.pushed \in Nat
    BY <1>3, <1>8, <1>10 DEF SoundState, RatchetState
  <2>2. u.nr < h.n
    BY <1>3, <1>10
  <2> QED BY <1>1, <1>10, <2>1, <2>2, DerivedEntriesBound, DerivedEntriesCount
<1> HIDE DEF D
<1>15. IsFiniteSet(u.skipped \cup D) /\ Cardinality(u.skipped \cup D) = MAX_SKIPPED_STORE
  <2>1. u.skipped \cap D = {}
    <3>1. \A e \in u.skipped : e.n \in Nat /\ (e.dh = u.dhr_pub => e.n < u.nr)
      BY <1>3, <1>8, <1>10, BoundsAssumption DEF Follows, SoundState, RatchetState, Entry, U32
    <3> QED BY <1>1, <1>10, <1>14, <3>1
  <2>2. /\ IsFiniteSet(u.skipped \cup D)
        /\ Cardinality(u.skipped \cup D)
             = Cardinality(u.skipped) + Cardinality(D) - Cardinality(u.skipped \cap D)
    BY <1>9, <1>14, FS_Union
  <2>3. Cardinality(u.skipped \cap D) = 0
    BY <2>1, FS_EmptySet
  <2> QED BY <1>1, <1>5, <1>6, <1>9, <1>14, <2>2, <2>3
<1>16. ASSUME r.ok, LostEarly(s, r.state) # {} PROVE Cardinality(r.state.skipped) = MAX_SKIPPED_STORE
  <2> DEFINE t == r.state
  <2>1. /\ LostEarly(u, t) = {} /\ LostEarly(skip.state, t) = {} /\ t.skipped \subseteq skip.state.skipped
        /\ t.events \in Nat /\ t.events <= u.events + 1
    BY <1>8, <1>16, ChainLosesNone
  <2> HIDE DEF r, skip
  <2>2. PICK x \in s.skipped : x \notin t.skipped /\ t.events - x.stored_at < MAX_SKIPPED_AGE
    BY <1>16 DEF LostEarly
  <2>3. x \notin u.skipped
    BY <2>1, <2>2 DEF LostEarly
  <2>4. x.stored_at \in Nat /\ x \in Entry /\ u.events \in Nat /\ MAX_SKIPPED_AGE \in Nat
        /\ MAX_SKIPPED_AGE >= 2
    BY <1>1, <1>8, BoundsAssumption DEF SoundState, RatchetState, Entry, U32
  <2>5. \A y \in u.skipped : t.events - y.stored_at < MAX_SKIPPED_AGE
    <3> TAKE y \in u.skipped
    <3>1. y \in Entry /\ y.stored_at \in Nat
      BY <1>8, BoundsAssumption DEF SoundState, RatchetState, Entry, U32
    <3>2. x.stored_at <= y.stored_at
      BY <1>9, <2>2, <2>3, <2>4, <3>1, OlderOrders
    <3> QED BY <2>1, <2>2, <2>4, <3>1, <3>2
  <2>6. \A y \in D : t.events - y.stored_at < MAX_SKIPPED_AGE
    BY <1>14, <2>1, <2>4
  <2>7. \A y \in skip.state.skipped : y \in t.skipped
    BY <1>12, <2>1, <2>5, <2>6 DEF LostEarly
  <2>8. t.skipped = u.skipped \cup D
    BY <1>12, <2>1, <2>7
  <2> QED BY <1>15, <2>8
<1>17. s.skipped # {}
  <2>1. Cardinality({}) = 0
    BY FS_EmptySet
  <2>2. size # 0
    BY <1>1, <1>6
  <2> QED BY <2>1, <2>2
<1> QED BY <1>7, <1>13, <1>16, <1>17 DEF u

\* What receive_with_eviction loses before its time, beside the key it used, fills the
\* store, unless a ratchet step was taken.
LEMMA EvictionKeepsFull ==
  ASSUME NEW q \in Party, NEW s, SoundState(s), Follows(q, s), Placed(s), NEW h \in Header,
         NEW dr \in SUBSET KeyPair, NEW ds \in SUBSET KeyPair, NEW new \in KeyPair,
         receive_with_eviction(s, h, dr, ds, new).ok,
         receive_with_eviction(s, h, dr, ds, new).state.dhr_pub = s.dhr_pub,
         NEW e \in LostEarly(s, receive_with_eviction(s, h, dr, ds, new).state),
         e.key # receive_with_eviction(s, h, dr, ds, new).key
  PROVE  Cardinality(receive_with_eviction(s, h, dr, ds, new).state.skipped) = MAX_SKIPPED_STORE
<1> DEFINE Attempt(u) == receive(u, h, dr, ds, new)
           Retry(k) == Attempt(evict_oldest(s, EvictedAfter(s, h, k)))
           settled == {k \in 1..Cardinality(s.skipped) : Retry(k).err # "SkippedStoreFull"}
           least == CHOOSE k \in settled : \A j \in settled : k <= j
           c == receive_with_eviction(s, h, dr, ds, new)
           first == Attempt(s)
<1>1. c = IF first.err # "SkippedStoreFull" \/ settled = {} THEN first ELSE Retry(least)
  BY DEF receive_with_eviction
<1>2. c # first
  BY ReceiveLosesNone
<1>3. first.err = "SkippedStoreFull" /\ settled # {} /\ c = Retry(least)
  BY <1>1, <1>2
<1>4. \A k : LET u == evict_oldest(s, k)
             IN  /\ SoundState(u) /\ Follows(q, u) /\ u.dhr_pub = s.dhr_pub
                 /\ u.skipped \subseteq s.skipped
  BY EvictionFollows, SMTT(60) DEF SameChains
<1>5. Matches(s, h) = {}
  BY <1>3, Zenon DEF receive, TakeSkipped, Ok
<1>6. \A k : Attempt(evict_oldest(s, k)).ok /\ s.dhr_pub # h.dh
             => Attempt(evict_oldest(s, k)).state.dhr_pub = h.dh
  <2> TAKE k
  <2>1. Matches(evict_oldest(s, k), h) = {}
    BY <1>4, <1>5 DEF Matches
  <2> QED BY <1>4, <2>1, StepMovesKey
<1>7. s.dhr_pub = h.dh
  BY <1>3, <1>6
<1>8. \A k : Attempt(evict_oldest(s, k)) = ReceiveOnChain(evict_oldest(s, k), h)
  <2> TAKE k
  <2>1. Matches(evict_oldest(s, k), h) = {}
    BY <1>4, <1>5 DEF Matches
  <2>2. evict_oldest(s, k).dhr_pub = h.dh /\ h.dh # None
    BY <1>4, <1>7, NoneAssumption DEF Header
  <2> QED BY <2>1, <2>2 DEF receive
<1>9. first = ReceiveOnChain(s, h)
  BY <1>5, <1>7, NoneAssumption DEF receive, Header
<1> DEFINE u == evict_oldest(s, EvictedAfter(s, h, 1))
<1>10. /\ ReceiveOnChain(u, h).err # "SkippedStoreFull" /\ s.skipped # {}
       /\ ReceiveOnChain(u, h).ok /\ LostEarly(s, ReceiveOnChain(u, h).state) # {}
            => Cardinality(ReceiveOnChain(u, h).state.skipped) = MAX_SKIPPED_STORE
  <2>1. ReceiveOnChain(s, h).err = "SkippedStoreFull"
    BY <1>3, <1>9
  <2> QED BY <1>7, <2>1, EvictionFills
<1>11. Cardinality(s.skipped) \in Nat /\ Cardinality(s.skipped) >= 1
  BY <1>10, FS_CardinalityType, FS_EmptySet DEF SoundState
<1>12. Retry(1) = ReceiveOnChain(u, h)
  BY <1>8
<1>13. 1 \in settled
  BY <1>10, <1>11, <1>12
<1>14. settled \subseteq 1..Cardinality(s.skipped)
  OBVIOUS
<1> HIDE DEF settled
<1>15. \A j \in settled : 1 <= j
  BY <1>11, <1>14
<1>16. least \in settled /\ \A j \in settled : least <= j
  BY <1>13, <1>15
<1>17. least = 1
  BY <1>11, <1>13, <1>14, <1>15, <1>16
<1> HIDE DEF u, Retry, least
<1>18. c = ReceiveOnChain(u, h)
  BY <1>3, <1>12, <1>17
<1> QED BY <1>10, <1>18

\* A step of the system.
LEMMA StepsEvictExactly ==
  ASSUME PInv, [Next]_vars, NEW p \in Party,
         Evicted(p) # {}, state'[p].dhr_pub = state[p].dhr_pub
  PROVE  Cardinality(state'[p].skipped) = MAX_SKIPPED_STORE
<1>0. DInv /\ KInv /\ IInv /\ state \in [Party -> RatchetState] /\ accepted \in [Party -> SUBSET Message]
  BY DEF PInv, DInv, KInv, IInv, TypeOK
<1>1. PICK e \in state[p].skipped :
        /\ e \notin state'[p].skipped
        /\ state'[p].events - e.stored_at < MAX_SKIPPED_AGE
        /\ \A m \in accepted'[p] \ accepted[p] : m.key # e.key
  BY DEF Evicted
<1>2. ~(UNCHANGED vars)
  BY <1>1 DEF vars
<1>3. ASSUME NEW q \in Party, Encrypt(q) PROVE FALSE
  <2> DEFINE t == [state[q] EXCEPT !.cks = kdf_ck(@)[1], !.ns = @ + 1]
  <2>1. state' = [state EXCEPT ![q] = t]
    <3>1. send(state[q]) = Ok(t, state[q].cks)
      BY <1>3 DEF Encrypt, send, Err, kdf_ck
    <3> QED BY <1>3, <3>1 DEF Encrypt, Ok
  <2>2. t.skipped = state[q].skipped
    BY <1>0 DEF RatchetState
  <2> HIDE DEF t
  <2> QED BY <1>0, <1>1, <2>1, <2>2
<1>4. PICK q \in Party : \E m \in sent[Peer(q)] : Decrypt(q, m)
  <2>1. PICK q \in Party : Receive(q)
    BY <1>2, <1>3 DEF Next
  <2>2. PICK m \in sent[Peer(q)] : \E x \in {m} \cup Altered(q, m) : Decrypt(q, x) \/ Refuse(q, x)
    BY <2>1 DEF Receive
  <2>3. PICK x \in {m} \cup Altered(q, m) : Decrypt(q, x)
    BY <1>2, <2>2 DEF Refuse
  <2>4. x = m
    BY <1>0, <2>3, DecryptsOnlyGenuine DEF Decrypt
  <2> QED BY <2>3, <2>4
<1>5. PICK m \in sent[Peer(q)] : Decrypt(q, m)
  BY <1>4
<1> DEFINE s == state[p]
           c == Candidate(p, m)
<1>6. q = p
  BY <1>0, <1>1, <1>5 DEF Decrypt
<1>7. /\ c.ok /\ c.key = m.key /\ state' = [state EXCEPT ![p] = c.state]
      /\ accepted' = [accepted EXCEPT ![p] = @ \cup {m}]
  BY <1>5, <1>6 DEF Decrypt, Decrypts, Opens
<1>8. m \notin accepted[p]
  BY <1>0, <1>5, <1>6, OrderGivesNoReplay DEF NoReplay, Decrypt
<1>9. state'[p] = c.state /\ accepted'[p] \ accepted[p] = {m}
  BY <1>0, <1>7, <1>8
<1>10. SoundState(s) /\ Follows(Peer(p), s) /\ Placed(s) /\ Peer(p) \in Party
  BY <1>0, StatesNumbered DEF PInv, Peer, Party
<1>11. m.hdr \in Header /\ m.hdr.dh \in KeyPair
  BY <1>0, <1>5, <1>6, <1>10, MessagesNamed DEF Header
<1>12. /\ DH(ratchet_private[p], m.hdr.dh) \in SUBSET KeyPair
       /\ DH(FreshKey(p), m.hdr.dh) \in SUBSET KeyPair /\ FreshKey(p) \in KeyPair
  BY <1>0, <1>11 DEF IInv, TypeOK, FreshKey, KeyPair, DH
<1>13. c = receive_with_eviction(s, m.hdr, DH(ratchet_private[p], m.hdr.dh),
                                 DH(FreshKey(p), m.hdr.dh), FreshKey(p))
  BY DEF Candidate
<1> HIDE DEF c
<1>14. e \in LostEarly(s, c.state) /\ e.key # c.key /\ c.state.dhr_pub = s.dhr_pub
  BY <1>1, <1>7, <1>9 DEF LostEarly
<1>15. Cardinality(c.state.skipped) = MAX_SKIPPED_STORE
  BY <1>7, <1>10, <1>11, <1>12, <1>13, <1>14, EvictionKeepsFull
<1> QED BY <1>9, <1>15

\* Eviction on the current chain makes exactly the room the message needs: a receive
\* that deletes a key before its time leaves the store full, whatever its bound.
THEOREM EvictionMakesOnlyRoom == Spec => EvictionIsExact
<1> DEFINE Exact == \A p \in Party :
             Evicted(p) # {} /\ state'[p].dhr_pub = state[p].dhr_pub =>
               Cardinality(state'[p].skipped) = MAX_SKIPPED_STORE
<1>1. PInv /\ [Next]_vars => [Exact]_vars
  BY StepsEvictExactly
<1> QED BY <1>1, InitPlaced, NextPlaced, PTL DEF Spec, EvictionIsExact

-----------------------------------------------------------------------------
(* The reader's ratchet does the same *)

\* The two results agree, and one is a success when the other is.
Agree(library, reader) == library.ok = reader.ok /\ Same(library, reader)

\* An instance has its own copy of the standard module.
LEMMA SizesAlike ==
  ASSUME NEW S
  PROVE  Reader!Cardinality(S) = Cardinality(S)
BY DEF Reader!Cardinality, Cardinality

\* What the reader has of a state.
LEMMA ReadFields ==
  ASSUME NEW s
  PROVE  /\ Read(s).dhs_pub = s.dhs_pub /\ Read(s).dhr = s.dhr_pub /\ Read(s).rk = s.rk
         /\ Read(s).cks = s.cks /\ Read(s).ckr = s.ckr /\ Read(s).ns = s.ns /\ Read(s).nr = s.nr
         /\ Read(s).pn = s.pn /\ Read(s).events = s.events /\ Read(s).skipped = s.skipped
         /\ Read(s).pushed = s.pushed
BY DEF Read

\* The keys of a skip: the same entries, whether each replaces its namesake or all
\* namesakes go first.
LEMMA StoredAlike ==
  ASSUME NEW s, SoundState(s), s.ckr # None, s.dhr_pub # None, NEW upto \in U32, s.nr < upto
  PROVE  Reader!_store(Read(s), upto) =
           purge_chain_range(s.skipped, s.dhr_pub, s.nr, upto)
             \cup DerivedEntries(s.ckr, s.dhr_pub, s.nr, upto, s.events, s.pushed)
<1>1. /\ s.skipped \subseteq Entry /\ s.nr \in Nat /\ upto \in Nat
      /\ \A e \in s.skipped : e.n \in Nat
  BY BoundsAssumption DEF SoundState, RatchetState, Entry, U32
<1>2. {e \in s.skipped : ~(e.dh = s.dhr_pub /\ e.n \in s.nr..(upto - 1))}
        = purge_chain_range(s.skipped, s.dhr_pub, s.nr, upto)
  BY <1>1 DEF purge_chain_range
<1> QED BY <1>2, ReadFields DEF Reader!_store, DerivedEntries, ChainAfter

\* _skip and skip_message_keys, on a chain that is open.
LEMMA SkipsAlike ==
  ASSUME NEW s, SoundState(s), s.ckr # None, NEW upto \in U32
  PROVE  Agree(skip_message_keys(s, upto), Reader!_skip(Read(s), upto))
<1> DEFINE count == upto - s.nr
           kept == purge_chain_range(s.skipped, s.dhr_pub, s.nr, upto)
           heldAt == {e \in s.skipped : e.dh = s.dhr_pub /\ e.n \in s.nr..(upto - 1)}
           over == Cardinality(s.skipped) + (count - Cardinality(heldAt)) - MAX_SKIPPED_STORE
<1>1. /\ s \in RatchetState /\ s.dhr_pub # None /\ s.nr \in Nat /\ upto \in Nat /\ count \in Int
      /\ U32_MAX \in Nat /\ MAX_SKIP \in Nat /\ MAX_SKIPPED_STORE \in Nat /\ upto <= U32_MAX
      /\ \A e \in s.skipped : e.n \in Nat
  BY BoundsAssumption DEF SoundState, RatchetState, Entry, U32, invariant, ChainsOpenInOrder
<1>2. upto > SkipLimit(s.nr) <=> count > MAX_SKIP
  BY <1>1 DEF SkipLimit, saturating_add
<1>3. HasRoom(kept, count) <=> ~(over > 0)
  <2>1. kept = s.skipped \ heldAt
    BY <1>1 DEF purge_chain_range
  <2>2. /\ IsFiniteSet(s.skipped) /\ heldAt \subseteq s.skipped
    BY DEF SoundState
  <2> HIDE DEF kept, heldAt
  <2>3. s.skipped \cap heldAt = heldAt
    BY <2>2
  <2>4. IsFiniteSet(heldAt) /\ Cardinality(heldAt) \in Nat /\ Cardinality(s.skipped) \in Nat
    BY <2>2, FS_Subset, FS_CardinalityType
  <2>5. Cardinality(kept) = Cardinality(s.skipped) - Cardinality(heldAt)
    <3>1. Cardinality(s.skipped \ heldAt) = Cardinality(s.skipped) - Cardinality(s.skipped \cap heldAt)
      BY <2>2, FS_Difference
    <3> QED BY <2>1, <2>3, <3>1
  <2> HIDE DEF count
  <2> QED BY <1>1, <2>4, <2>5 DEF HasRoom
<1> DEFINE x == Read(s)
           itsHeld == {e \in x.skipped : e.dh = x.dhr /\ e.n \in x.nr..(upto - 1)}
<1>0. itsHeld = heldAt
  BY ReadFields
<1>01. x.nr = s.nr /\ x.skipped = s.skipped
  BY ReadFields
<1>4. CASE upto <= s.nr
  BY <1>1, <1>4, ReadFields
  DEF skip_message_keys, Ok, Reader!_skip, Reader!Return, Agree, Same
<1>5. CASE ~(upto <= s.nr) /\ count > MAX_SKIP
  BY <1>1, <1>2, <1>5, ReadFields
  DEF skip_message_keys, Err, Reader!_skip, Reader!Raise, Agree, Same
<1>6. CASE ~(upto <= s.nr) /\ ~(count > MAX_SKIP) /\ over > 0
  <2>1. skip_message_keys(s, upto) = Err("SkippedStoreFull", s)
    BY <1>1, <1>2, <1>3, <1>6 DEF skip_message_keys
  <2>2. Reader!_skip(x, upto) =
          Reader!Raise("SkippedStoreFull", Cardinality(x.skipped) + (count - Cardinality(itsHeld)) - MAX_SKIPPED_STORE)
    <3> HIDE DEF x, heldAt
    <3> QED BY <1>0, <1>1, <1>01, <1>6, SizesAlike DEF Reader!_skip
  <2> HIDE DEF over
  <2> QED BY <2>1, <2>2 DEF Err, Reader!Raise, Agree, Same
<1>7. CASE ~(upto <= s.nr) /\ ~(count > MAX_SKIP) /\ ~(over > 0)
  <2> DEFINE D == DerivedEntries(s.ckr, s.dhr_pub, s.nr, upto, s.events, s.pushed)
             t == [s EXCEPT !.ckr = ChainAfter(@, count), !.nr = upto,
                            !.pushed = @ + count, !.skipped = kept \cup D]
             u == [x EXCEPT !.skipped = Reader!_store(x, upto), !.ckr.step = @ + count,
                                  !.nr = upto, !.pushed = @ + count]
  <2>1. skip_message_keys(s, upto) = Ok(t, None)
    BY <1>1, <1>2, <1>3, <1>7 DEF skip_message_keys
  <2>2. Reader!_skip(x, upto) = Reader!Return(u, None, FALSE)
    <3> HIDE DEF x, heldAt
    <3> QED BY <1>0, <1>1, <1>01, <1>7, SizesAlike DEF Reader!_skip
  <2>3. Reader!_store(Read(s), upto) = kept \cup D
    BY <1>1, <1>7, StoredAlike
  <2>4. u = Read(t)
    <3>1. ChainAfter(s.ckr, count) = [s.ckr EXCEPT !.step = @ + count]
      BY DEF ChainAfter
    <3> HIDE DEF D, kept, count
    <3>2. u = [Read(s) EXCEPT !.skipped = kept \cup D, !.ckr = ChainAfter(s.ckr, count),
                              !.nr = upto, !.pushed = s.pushed + count]
      BY <2>3, <3>1 DEF Read
    <3>3. /\ t.dhs_pub = s.dhs_pub /\ t.dhr_pub = s.dhr_pub /\ t.rk = s.rk /\ t.cks = s.cks
          /\ t.ckr = ChainAfter(s.ckr, count) /\ t.ns = s.ns /\ t.nr = upto /\ t.pn = s.pn
          /\ t.events = s.events /\ t.skipped = kept \cup D /\ t.pushed = s.pushed + count
      BY <1>1 DEF RatchetState
    <3> HIDE DEF t, u
    <3> QED BY <3>2, <3>3 DEF Read
  <2> HIDE DEF t, u
  <2> QED BY <2>1, <2>2, <2>4 DEF Ok, Reader!Return, Agree, Same
<1> QED BY <1>4, <1>5, <1>6, <1>7

\* The end of an accepted receive: the same clock and the same keys too old.
LEMMA AgeAlike ==
  ASSUME NEW s, SoundState(s)
  PROVE  Reader!_age(Read(s)) = Read(age_store(s))
<1> DEFINE stepped == saturating_add(s.events, 1)
           now == IF stepped = U32_MAX THEN MAX_EVENTS ELSE stepped
           its == IF s.events + 1 < Reader!MAX_EVENTS THEN s.events + 1 ELSE Reader!MAX_EVENTS
           t == age_store(s)
<1>1. s \in RatchetState /\ s.events \in Nat /\ s.events < U32_MAX /\ U32_MAX \in Nat
  BY BoundsAssumption DEF SoundState, RatchetState, U32, invariant, ClockBelowCeiling
<1>2. now = its
  BY <1>1 DEF saturating_add, MAX_EVENTS, Reader!MAX_EVENTS
<1>3. t = [s EXCEPT !.events = now, !.skipped = {e \in @ : now - e.stored_at < MAX_SKIPPED_AGE}]
  BY DEF age_store
<1>4. Reader!_age(Read(s)) =
        [Read(s) EXCEPT !.events = its, !.skipped = {e \in @ : its - e.stored_at < MAX_SKIPPED_AGE}]
  BY ReadFields DEF Reader!_age
<1> HIDE DEF now, its, t
<1>5. /\ t.dhs_pub = s.dhs_pub /\ t.dhr_pub = s.dhr_pub /\ t.rk = s.rk /\ t.cks = s.cks
      /\ t.ckr = s.ckr /\ t.ns = s.ns /\ t.nr = s.nr /\ t.pn = s.pn /\ t.pushed = s.pushed
      /\ t.events = now /\ t.skipped = {e \in s.skipped : now - e.stored_at < MAX_SKIPPED_AGE}
  BY <1>1, <1>3 DEF RatchetState
<1> QED BY <1>2, <1>4, <1>5 DEF Read, t

\* The last lines of a receive, on a chain that is open.
LEMMA TakesAlike ==
  ASSUME NEW s, SoundState(s), s.ckr # None, NEW h \in Header, s.nr <= h.n, NEW stepped
  PROVE  Agree(ReceiveOnChain(s, h), Reader!TakeNext(Read(s), h.n, stepped))
<1> DEFINE ours == skip_message_keys(s, h.n)
           its == Reader!_skip(Read(s), h.n)
           cur == ours.state
           next == [cur EXCEPT !.ckr = kdf_ck(@)[1], !.nr = @ + 1]
           next2 == [its.state EXCEPT !.ckr = Reader!kdf_ck(@)[1], !.nr = @ + 1]
<1>1. h.n \in U32 /\ h.n \in Nat /\ s.nr \in Nat
  BY BoundsAssumption DEF Header, SoundState, RatchetState, U32
<1>2. Agree(ours, its)
  BY <1>1, SkipsAlike
<1>3. CASE ~ours.ok
  <2>1. ReceiveOnChain(s, h) = ours
    BY <1>3 DEF ReceiveOnChain
  <2>2. Reader!TakeNext(Read(s), h.n, stepped) = its
    BY <1>2, <1>3 DEF Reader!TakeNext, Agree
  <2> QED BY <1>2, <2>1, <2>2
<1>4. CASE ours.ok
  <2>1. its.ok /\ its.state = Read(cur)
    BY <1>2, <1>4 DEF Agree, Same
  <2>2. SoundState(cur)
    BY <1>1, <1>4, SkipIsSound
  <2>3. cur.nr <= h.n /\ cur.ckr # None
    <3>1. s.ckr \in ChainKey /\ s \in RatchetState
      BY DEF SoundState, RatchetState
    <3>2. ChainAfter(s.ckr, h.n - s.nr) \in ChainKey \/ h.n <= s.nr
      BY <1>1, <3>1 DEF ChainAfter, ChainKey
    <3>3. CASE s.dhr_pub = None \/ h.n <= s.nr
      BY <1>1, <3>3 DEF skip_message_keys, Ok
    <3>4. CASE ~(s.dhr_pub = None \/ h.n <= s.nr)
      <4>1. cur.nr = h.n /\ cur.ckr = ChainAfter(s.ckr, h.n - s.nr)
        BY <1>4, <3>1, <3>4 DEF skip_message_keys, Ok, Err, RatchetState
      <4> QED BY <1>1, <3>2, <3>4, <4>1, NoneAssumption
    <3> QED BY <3>3, <3>4
  <2>4. cur \in RatchetState /\ cur.nr \in Nat /\ cur.ckr \in ChainKey
    BY <2>2, <2>3, BoundsAssumption DEF SoundState, RatchetState, U32
  <2>5. ~(h.n < cur.nr)
    BY <1>1, <2>3, <2>4
  <2> HIDE DEF ours, its
  <2>6. CASE cur.nr = U32_MAX
    <3>1. ReceiveOnChain(s, h) = Err("ChainExhausted", cur)
      BY <1>4, <2>3, <2>5, <2>6 DEF ReceiveOnChain, ours
    <3>2. Reader!TakeNext(Read(s), h.n, stepped) = Reader!Raise("ChainExhausted", 0)
      BY <2>1, <2>6, ReadFields DEF Reader!TakeNext, its
    <3> QED BY <3>1, <3>2 DEF Err, Reader!Raise, Agree, Same
  <2>7. CASE cur.nr # U32_MAX
    <3>1. ReceiveOnChain(s, h) = Ok(age_store(next), kdf_ck(cur.ckr)[2])
      BY <1>4, <2>3, <2>5, <2>7 DEF ReceiveOnChain, ours
    <3>2. Reader!TakeNext(Read(s), h.n, stepped) =
            Reader!Return(Reader!_age(next2), Reader!kdf_ck(its.state.ckr)[2], stepped)
      BY <2>1, <2>7, ReadFields DEF Reader!TakeNext, its
    <3>3. SoundState(next)
      <4>1. cur.nr + 1 \in U32 /\ kdf_ck(cur.ckr)[1] \in ChainKey
        BY <2>2, <2>4, <2>7, BoundsAssumption DEF SoundState, RatchetState, U32, kdf_ck, ChainKey
      <4>2. next \in RatchetState
        BY <2>4, <4>1 DEF RatchetState
      <4>3. /\ next.skipped = cur.skipped /\ next.events = cur.events
            /\ next.ckr = kdf_ck(cur.ckr)[1] /\ next.cks = cur.cks /\ next.dhr_pub = cur.dhr_pub
        BY <2>4 DEF RatchetState
      <4> HIDE DEF next
      <4>4. invariant(next)
        BY <2>2, <2>3, <4>3
        DEF SoundState, invariant, StoreBounded, StoreIsMap, StoreNotAhead, ClockBelowCeiling, ChainsOpenInOrder
      <4> QED BY <2>2, <4>2, <4>3, <4>4 DEF SoundState
    <3>4. next2 = Read(next)
      <4>1. Reader!kdf_ck(cur.ckr) = kdf_ck(cur.ckr)
        BY DEF Reader!kdf_ck, kdf_ck
      <4> DEFINE key == kdf_ck(cur.ckr)[1]
      <4>2. next2 = [Read(cur) EXCEPT !.ckr = key, !.nr = cur.nr + 1]
        <5>1. its.state.ckr = cur.ckr /\ its.state.nr = cur.nr
          BY <2>1, ReadFields
        <5>2. next2 = [its.state EXCEPT !.ckr = Reader!kdf_ck(its.state.ckr)[1], !.nr = its.state.nr + 1]
          OBVIOUS
        <5>3. Reader!kdf_ck(its.state.ckr)[1] = key
          BY <4>1, <5>1
        <5> HIDE DEF next2, key
        <5> QED BY <2>1, <5>1, <5>2, <5>3
      <4>3. next = [cur EXCEPT !.ckr = key, !.nr = cur.nr + 1]
        OBVIOUS
      <4> HIDE DEF next, next2, key
      <4>4. /\ next.dhs_pub = cur.dhs_pub /\ next.dhr_pub = cur.dhr_pub /\ next.rk = cur.rk
            /\ next.cks = cur.cks /\ next.ckr = key /\ next.ns = cur.ns /\ next.nr = cur.nr + 1
            /\ next.pn = cur.pn /\ next.events = cur.events /\ next.skipped = cur.skipped
            /\ next.pushed = cur.pushed
        BY <2>4, <4>3 DEF RatchetState
      <4> QED BY <4>2, <4>4 DEF Read
    <3>5. Reader!kdf_ck(its.state.ckr)[2] = kdf_ck(cur.ckr)[2]
      BY <2>1, ReadFields DEF Reader!kdf_ck, kdf_ck
    <3> HIDE DEF next, next2
    <3>6. Reader!_age(next2) = Read(age_store(next))
      BY <3>3, <3>4, AgeAlike
    <3> QED BY <3>1, <3>2, <3>5, <3>6 DEF Ok, Reader!Return, Agree, Same
  <2> QED BY <2>6, <2>7
<1> QED BY <1>3, <1>4

\* The two derivations of a ratchet step give the same chains.
LEMMA StepsAlike ==
  ASSUME NEW s, SoundState(s), NEW h \in Header, NEW dr \in SUBSET KeyPair,
         NEW ds \in SUBSET KeyPair, NEW new \in KeyPair
  PROVE  Reader!DhRatchet(Read(s), h.dh, <<dr, new, ds>>) = Read(dh_ratchet(s, h, dr, ds, new))
<1> DEFINE recv == kdf_rk(s.rk, dr)
           sends == kdf_rk(recv[1], ds)
           t == dh_ratchet(s, h, dr, ds, new)
           its == Reader!DhRatchet(Read(s), h.dh, <<dr, new, ds>>)
<1>1. \A rk, out : Reader!kdf_rk(rk, out) = kdf_rk(rk, out)
  BY DEF Reader!kdf_rk, kdf_rk, ChainStart
<1>2. its = [Read(s) EXCEPT !.rk = sends[1], !.ckr = recv[2], !.cks = sends[2], !.dhr = h.dh,
                            !.nr = 0, !.pn = s.ns, !.ns = 0, !.dhs_pub = new]
  <2>1. Read(s).rk = s.rk /\ Read(s).ns = s.ns
    BY ReadFields
  <2>2. /\ Reader!kdf_rk(Read(s).rk, dr) = recv
        /\ Reader!kdf_rk(recv[1], ds) = sends
    BY <1>1, <2>1
  <2> HIDE DEF recv, sends
  <2> QED BY <2>1, <2>2 DEF Reader!DhRatchet
<1>3. t = [s EXCEPT !.pn = s.ns, !.ns = 0, !.nr = 0, !.dhr_pub = h.dh, !.rk = sends[1],
                    !.ckr = recv[2], !.cks = sends[2], !.dhs_pub = new]
  BY DEF dh_ratchet
<1> HIDE DEF recv, sends, t, its
<1>4. /\ t.pn = s.ns /\ t.ns = 0 /\ t.nr = 0 /\ t.dhr_pub = h.dh /\ t.rk = sends[1]
      /\ t.ckr = recv[2] /\ t.cks = sends[2] /\ t.dhs_pub = new
      /\ t.skipped = s.skipped /\ t.events = s.events /\ t.pushed = s.pushed
  BY <1>3 DEF SoundState, RatchetState
<1>5. its = Read(t)
  BY <1>2, <1>4 DEF Read
<1> QED BY <1>5 DEF t, its

\* A stored key is the only one of its name, so which match is taken does not matter.
LEMMA StoredKeysAlike ==
  ASSUME NEW s, SoundState(s), NEW h, NEW step, Matches(s, h) # {}
  PROVE  Agree(TakeSkipped(s, FirstMatch(s, h)), Reader!receive(Read(s), h, step))
<1> DEFINE M == Matches(s, h)
           stored == {e \in Read(s).skipped : e.dh = h.dh /\ e.n = h.n}
           t == [s EXCEPT !.skipped = @ \ {FirstMatch(s, h)}]
           u == [Read(s) EXCEPT !.skipped = @ \ stored]
<1>1. stored = M
  BY ReadFields DEF Matches
<1>2. PICK e \in M : M = {e}
  BY DEF Matches, SoundState, invariant, StoreIsMap
<1>3. FirstMatch(s, h) = e /\ (CHOOSE x \in stored : TRUE) = e
  <2>1. \E x \in M : \A f \in M : x.pos <= f.pos
    <3>1. e.pos \in Nat
      BY DEF Matches, SoundState, RatchetState, Entry
    <3> HIDE DEF M
    <3> QED BY <1>2, <3>1
  <2>2. FirstMatch(s, h) \in M
    BY <2>1 DEF FirstMatch
  <2>3. (CHOOSE x \in stored : TRUE) \in stored
    BY <1>1, <1>2
  <2> HIDE DEF M, stored
  <2> QED BY <1>1, <1>2, <2>2, <2>3
<1>4. SoundState(t)
  BY FewerKeys
<1>5. u = Read(t)
  <2>1. t = [s EXCEPT !.skipped = s.skipped \ {e}] /\ u = [Read(s) EXCEPT !.skipped = s.skipped \ {e}]
    BY <1>1, <1>2, <1>3, ReadFields
  <2> HIDE DEF t, u
  <2>2. /\ t.dhs_pub = s.dhs_pub /\ t.dhr_pub = s.dhr_pub /\ t.rk = s.rk /\ t.cks = s.cks
        /\ t.ckr = s.ckr /\ t.ns = s.ns /\ t.nr = s.nr /\ t.pn = s.pn /\ t.pushed = s.pushed
        /\ t.events = s.events /\ t.skipped = s.skipped \ {e}
    BY <2>1 DEF SoundState, RatchetState
  <2> QED BY <2>1, <2>2 DEF Read
<1>6. TakeSkipped(s, FirstMatch(s, h)) = Ok(age_store(t), e.key)
  BY <1>3 DEF TakeSkipped
<1>7. Reader!receive(Read(s), h, step) = Reader!Return(Reader!_age(u), e.key, FALSE)
  <2>1. stored # {}
    BY <1>1
  <2>2. Reader!receive(Read(s), h, step) =
          Reader!Return(Reader!_age(u), (CHOOSE x \in stored : TRUE).key, FALSE)
    <3> DEFINE x == Read(s)
    <3> HIDE DEF x
    <3> QED BY <2>1 DEF Reader!receive, x
  <2> QED BY <1>3, <2>2
<1> HIDE DEF t, u
<1>8. Reader!_age(u) = Read(age_store(t))
  BY <1>4, <1>5, AgeAlike
<1> QED BY <1>6, <1>7, <1>8 DEF Ok, Reader!Return, Agree, Same

\* A receive, in a state that has received nothing when its receiving chain is absent.
LEMMA ReceivesAlike ==
  ASSUME NEW s, SoundState(s), s.ckr = None => s.nr = 0, NEW h \in Header,
         NEW dr \in SUBSET KeyPair, NEW ds \in SUBSET KeyPair, NEW new \in KeyPair
  PROVE  Agree(receive(s, h, dr, ds, new), Reader!receive(Read(s), h, <<dr, new, ds>>))
<1> DEFINE x == Read(s)
           step == <<dr, new, ds>>
           stored == {e \in x.skipped : e.dh = h.dh /\ e.n = h.n}
           ours == receive(s, h, dr, ds, new)
           its == Reader!receive(x, h, step)
<1> SUFFICES Agree(ours, its)
  OBVIOUS
<1>1. /\ x.dhr = s.dhr_pub /\ x.ckr = s.ckr /\ x.nr = s.nr /\ stored = Matches(s, h)
  BY ReadFields DEF Matches
<1>2. h.n \in U32 /\ h.pn \in U32 /\ h.n \in Nat /\ s.nr \in Nat
  BY BoundsAssumption DEF Header, SoundState, RatchetState, U32
<1>3. CASE stored # {}
  BY <1>1, <1>3, StoredKeysAlike DEF receive
<1>4. CASE stored = {} /\ (s.dhr_pub = None \/ h.dh # s.dhr_pub)
  <2> DEFINE skip == skip_message_keys(s, h.pn)
             closed == IF x.ckr = None THEN Reader!Return(x, None, FALSE) ELSE Reader!_skip(x, h.pn)
  <2>1. Agree(skip, closed)
    <3>1. CASE s.ckr = None
      BY <1>1, <3>1 DEF skip_message_keys, Ok, Reader!Return, Agree, Same
    <3>2. CASE s.ckr # None
      BY <1>1, <1>2, <3>2, SkipsAlike
    <3> QED BY <3>1, <3>2
  <2>2. /\ ours = IF ~skip.ok THEN skip ELSE ReceiveOnChain(dh_ratchet(skip.state, h, dr, ds, new), h)
        /\ its = IF closed.ok THEN Reader!TakeNext(Reader!DhRatchet(closed.state, h.dh, step), h.n, TRUE)
                              ELSE closed
    <3>1. ours = IF ~skip.ok THEN skip ELSE ReceiveOnChain(dh_ratchet(skip.state, h, dr, ds, new), h)
      BY <1>1, <1>4 DEF receive
    <3> HIDE DEF x
    <3>2. its = IF closed.ok THEN Reader!TakeNext(Reader!DhRatchet(closed.state, h.dh, step), h.n, TRUE)
                             ELSE closed
      BY <1>1, <1>4 DEF Reader!receive
    <3> QED BY <3>1, <3>2
  <2> HIDE DEF skip, closed, step, ours, its
  <2>3. CASE ~skip.ok
    BY <2>1, <2>2, <2>3 DEF Agree
  <2>4. CASE skip.ok
    <3> DEFINE t == dh_ratchet(skip.state, h, dr, ds, new)
    <3>1. closed.ok /\ closed.state = Read(skip.state)
      BY <2>1, <2>4 DEF Agree, Same
    <3>2. SoundState(skip.state)
      BY <1>2, <2>4, SkipIsSound DEF skip
    <3>3. Reader!DhRatchet(closed.state, h.dh, step) = Read(t)
      BY <3>1, <3>2, StepsAlike DEF step
    <3>4. SoundState(t)
      BY <3>2, DhRatchetIsSound
    <3>5. t.ckr # None /\ t.nr = 0
      <4>1. /\ t.ckr = kdf_rk(skip.state.rk, dr)[2] /\ t.nr = 0
        BY <3>2 DEF dh_ratchet, SoundState, RatchetState
      <4>2. kdf_rk(skip.state.rk, dr)[2] \in ChainKey
        BY <3>2 DEF kdf_rk, ChainStart, ChainKey, Root, SoundState, RatchetState
      <4> QED BY <4>1, <4>2, NoneAssumption
    <3> HIDE DEF t
    <3>6. Agree(ReceiveOnChain(t, h), Reader!TakeNext(Read(t), h.n, TRUE))
      <4>1. t.nr <= h.n
        BY <1>2, <3>5
      <4> QED BY <3>4, <3>5, <4>1, TakesAlike, Zenon
    <3> QED BY <2>2, <2>4, <3>1, <3>3, <3>6 DEF t
  <2> QED BY <2>3, <2>4
<1>5. CASE stored = {} /\ ~(s.dhr_pub = None \/ h.dh # s.dhr_pub)
  <2>1. ours = ReceiveOnChain(s, h)
    BY <1>1, <1>5 DEF receive
  <2>2. its = IF s.ckr = None THEN Reader!Raise("NoReceivingChain", 0)
              ELSE IF h.n < s.nr THEN Reader!Raise("OutOfOrder", 0)
              ELSE Reader!TakeNext(x, h.n, FALSE)
    <3> HIDE DEF x
    <3> QED BY <1>1, <1>5 DEF Reader!receive
  <2>3. CASE s.ckr = None
    <3>1. ours = Err("NoReceivingChain", s)
      BY <1>2, <2>1, <2>3 DEF ReceiveOnChain, skip_message_keys, Ok
    <3> HIDE DEF ours, its
    <3> QED BY <2>2, <2>3, <3>1 DEF Err, Reader!Raise, Agree, Same
  <2>4. CASE s.ckr # None /\ h.n < s.nr
    <3>1. ours = Err("OutOfOrder", s)
      <4>1. skip_message_keys(s, h.n) = Ok(s, None)
        BY <1>2, <2>4 DEF skip_message_keys
      <4> QED BY <1>2, <2>1, <2>4, <4>1 DEF ReceiveOnChain, Ok
    <3> HIDE DEF ours, its
    <3> QED BY <2>2, <2>4, <3>1 DEF Err, Reader!Raise, Agree, Same
  <2>5. CASE s.ckr # None /\ ~(h.n < s.nr)
    <3>1. Agree(ReceiveOnChain(s, h), Reader!TakeNext(x, h.n, FALSE))
      <4>1. s.nr <= h.n
        BY <1>2, <2>5
      <4> QED BY <2>5, <4>1, TakesAlike, Zenon
    <3> HIDE DEF ours, its
    <3> QED BY <2>1, <2>2, <2>5, <3>1
  <2> QED BY <2>3, <2>4, <2>5
<1> QED BY <1>3, <1>4, <1>5

\* A send.
LEMMA SendsAlike ==
  ASSUME NEW s, SoundState(s)
  PROVE  Same(send(s), Reader!send(Read(s)))
<1> DEFINE t == [s EXCEPT !.cks = kdf_ck(@)[1], !.ns = @ + 1]
           x == Read(s)
           u == [x EXCEPT !.cks = Reader!kdf_ck(@)[1], !.ns = @ + 1]
<1>1. x.cks = s.cks /\ x.ns = s.ns
  BY ReadFields
<1>2. CASE s.cks = None
  BY <1>1, <1>2 DEF send, Err, Reader!send, Reader!Raise, Same
<1>3. CASE s.cks # None /\ s.ns = U32_MAX
  BY <1>1, <1>3 DEF send, Err, Reader!send, Reader!Raise, Same
<1>4. CASE s.cks # None /\ s.ns # U32_MAX
  <2>1. Reader!kdf_ck(x.cks) = kdf_ck(s.cks)
    BY <1>1 DEF Reader!kdf_ck, kdf_ck
  <2>2. send(s) = Ok(t, kdf_ck(s.cks)[2])
    BY <1>4 DEF send
  <2>3. Reader!send(x) = Reader!Return(u, Reader!kdf_ck(x.cks)[2], FALSE)
    <3> HIDE DEF x
    <3> QED BY <1>1, <1>4 DEF Reader!send
  <2>4. u = Read(t)
    <3> DEFINE key == kdf_ck(s.cks)[1]
    <3>1. u = [x EXCEPT !.cks = Reader!kdf_ck(x.cks)[1], !.ns = x.ns + 1]
      OBVIOUS
    <3>2. Reader!kdf_ck(x.cks)[1] = key
      BY <2>1
    <3>3. t = [s EXCEPT !.cks = key, !.ns = s.ns + 1]
      OBVIOUS
    <3> HIDE DEF t, u, key
    <3>4. /\ t.dhs_pub = s.dhs_pub /\ t.dhr_pub = s.dhr_pub /\ t.rk = s.rk /\ t.cks = key
          /\ t.ckr = s.ckr /\ t.ns = s.ns + 1 /\ t.nr = s.nr /\ t.pn = s.pn /\ t.pushed = s.pushed
          /\ t.events = s.events /\ t.skipped = s.skipped
      BY <3>3 DEF SoundState, RatchetState
    <3> QED BY <1>1, <3>1, <3>2, <3>4 DEF Read
  <2> HIDE DEF t, u, x
  <2> QED BY <2>1, <2>2, <2>3, <2>4 DEF Ok, Reader!Return, Same, x
<1> QED BY <1>2, <1>3, <1>4

\* The same keys are the oldest.
LEMMA EvictsAlike ==
  ASSUME NEW s, SoundState(s), NEW count
  PROVE  Reader!evict(Read(s), count) = Read(evict_oldest(s, count))
<1> DEFINE x == Read(s)
           Before(a, b) == a.stored_at < b.stored_at \/ (a.stored_at = b.stored_at /\ a.pos < b.pos)
           T == {e \in s.skipped : Cardinality({f \in s.skipped : Before(f, e)}) >= count}
           t == evict_oldest(s, count)
<1>1. x.skipped = s.skipped
  BY ReadFields
<1>2. \A e : {f \in s.skipped : Older(f, e)} = {f \in s.skipped : Before(f, e)}
  BY DEF Older
<1>3. t = [s EXCEPT !.skipped = T]
  BY <1>2 DEF evict_oldest
<1>4. Reader!evict(x, count) = [x EXCEPT !.skipped = T]
  <2> HIDE DEF x
  <2>1. Reader!evict(x, count) =
          [x EXCEPT !.skipped =
             {e \in x.skipped : Reader!Cardinality({f \in x.skipped : Before(f, e)}) >= count}]
    BY DEF Reader!evict
  <2>2. {e \in x.skipped : Reader!Cardinality({f \in x.skipped : Before(f, e)}) >= count} = T
    BY <1>1, SizesAlike
  <2> HIDE DEF T
  <2> QED BY <2>1, <2>2
<1> HIDE DEF T, t
<1>5. /\ t.dhs_pub = s.dhs_pub /\ t.dhr_pub = s.dhr_pub /\ t.rk = s.rk /\ t.cks = s.cks
      /\ t.ckr = s.ckr /\ t.ns = s.ns /\ t.nr = s.nr /\ t.pn = s.pn /\ t.pushed = s.pushed
      /\ t.events = s.events /\ t.skipped = T
  BY <1>3 DEF SoundState, RatchetState
<1> QED BY <1>4, <1>5 DEF Read, t

\* In every state the invariant allows, the two do the same.
LEMMA DeliveryGivesAgreement == DInv => ReaderAgreesOnRatchet
<1> SUFFICES ASSUME DInv, NEW p \in Party
             PROVE  /\ Same(send(state[p]), Reader!send(Read(state[p])))
                    /\ \A h \in Headers(p) :
                         Same(receive(state[p], h, DH(ratchet_private[p], h.dh), DH(FreshKey(p), h.dh), FreshKey(p)),
                              Reader!receive(Read(state[p]), h,
                                <<DH(ratchet_private[p], h.dh), FreshKey(p), DH(FreshKey(p), h.dh)>>))
                    /\ \A count \in 0..(MAX_SKIPPED_STORE + 1) :
                         Reader!evict(Read(state[p]), count) = Read(evict_oldest(state[p], count))
  BY DEF ReaderAgreesOnRatchet
<1> DEFINE s == state[p]
<1>1. SoundState(s) /\ (s.ckr = None => s.nr = 0)
  <2>1. IInv /\ Follows(Peer(p), s)
    BY DEF DInv, KInv, Delivers
  <2> QED BY <2>1, StatesAreSound DEF Follows, NothingReceived
<1>2. ratchet_private[p] \in KeyPair /\ FreshKey(p) \in KeyPair
  BY DEF DInv, KInv, IInv, TypeOK, FreshKey, KeyPair
<1>3. ASSUME NEW h \in Headers(p) PROVE h \in Header
  <2>1. PICK m \in sent[Peer(p)] : \E x \in {m} \cup Altered(p, m) : h = x.hdr
    BY <1>3 DEF Headers
  <2>2. PICK x \in {m} \cup Altered(p, m) : h = x.hdr
    BY <2>1
  <2>3. sent[Peer(p)] \subseteq Message
    BY DEF DInv, KInv, IInv, TypeOK, Peer, Party
  <2>4. m.hdr \in Header /\ m \in Message
    BY <2>3 DEF Message
  <2>5. CASE x = m
    BY <2>2, <2>4, <2>5
  <2>6. CASE \E g \in {y.hdr : y \in sent[Peer(p)]} : x = [m EXCEPT !.hdr = g]
    <3>1. PICK y \in sent[Peer(p)] : x = [m EXCEPT !.hdr = y.hdr]
      BY <2>6
    <3> QED BY <2>2, <2>3, <2>4, <3>1 DEF Message
  <2>7. CASE \E i \in {n \in U32 : n <= MAX_SKIP} : x = [m EXCEPT !.hdr.n = i]
    <3>1. PICK i \in U32 : x = [m EXCEPT !.hdr.n = i]
      BY <2>7
    <3>2. x.hdr = [m.hdr EXCEPT !.n = i]
      BY <2>4, <3>1 DEF Message
    <3> QED BY <2>2, <2>4, <3>2 DEF Header
  <2> QED BY <2>5, <2>6, <2>7 DEF Altered
<1>4. ASSUME NEW h \in Headers(p)
      PROVE  Same(receive(s, h, DH(ratchet_private[p], h.dh), DH(FreshKey(p), h.dh), FreshKey(p)),
                  Reader!receive(Read(s), h,
                    <<DH(ratchet_private[p], h.dh), FreshKey(p), DH(FreshKey(p), h.dh)>>))
  <2>1. h \in Header /\ h.dh \in KeyPair
    BY <1>3, <1>4 DEF Header
  <2>2. DH(ratchet_private[p], h.dh) \in SUBSET KeyPair /\ DH(FreshKey(p), h.dh) \in SUBSET KeyPair
    BY <1>2, <2>1 DEF DH
  <2> QED BY <1>1, <1>2, <2>1, <2>2, ReceivesAlike DEF Agree
<1> QED BY <1>1, <1>4, SendsAlike, EvictsAlike

\* The reader's ratchet sends, receives, refuses and evicts as the library's does, in every
\* state of the exchange and for every header, genuine or altered.
THEOREM ReaderFollowsRatchet == Spec => []ReaderAgreesOnRatchet
BY InitDelivers, NextDelivers, DeliveryGivesAgreement, PTL DEF Spec
=============================================================================
