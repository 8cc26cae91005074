------------------------ MODULE SparseExchangeProofs ------------------------
(***************************************************************************)
(* Proofs about module SparseExchange, for every value of its constants:   *)
(* the ratchet keeps pace with the agreement, what was used or retired is  *)
(* gone, a genuine message is read, and the reader's ratchet does the same *)
(* (module ReaderAgreesSparse).                                            *)
(*                                                                         *)
(* A root key is as long as its epoch, so that the roots of two epochs     *)
(* differ; on one chain the step counts; and the two directions of an      *)
(* epoch are told apart by name.                                           *)
(***************************************************************************)
EXTENDS ReaderAgreesSparse, TLAPS, FiniteSetTheorems

-----------------------------------------------------------------------------
(* Types *)

Direction == {"A2b", "B2a"}

Root == Seq(Nat)

ChainKey == [root : Root, dir : Direction, step : Nat]

ChainState == [ck : ChainKey, n : Nat]

Pair == [send : ChainState, receive : ChainState]

Chains == UNION {[D -> Pair] : D \in SUBSET Nat}

Entry == [epoch : Nat, n : Nat, key : ChainKey, pos : Nat]

SparseState ==
  [rk : Root, epoch : Nat, chains : Chains, skipped : SUBSET Entry, pushed : Nat,
   direction : Direction]

Output == [key_epoch : Nat, key : Nat]

Message == [epoch : Nat, n : Nat, key : ChainKey, held : Nat]

-----------------------------------------------------------------------------
(* One party's state *)

\* Every epoch of the window has its chains.
WindowOpen(s) ==
  \A e \in Nat : e <= s.epoch /\ InWindow(e, s.epoch) => e \in DOMAIN s.chains

\* The chains of an epoch are for its root, one a direction.
ChainsOrdered(s) ==
  \A e \in DOMAIN s.chains :
    /\ s.chains[e].send.ck.dir = s.direction
    /\ s.chains[e].receive.ck.dir = Opposite(s.direction)
    /\ Len(s.chains[e].send.ck.root) = e
    /\ Len(s.chains[e].receive.ck.root) = e

\* A stored key is one its epoch's receiving chain has passed.
StoreOrdered(s) ==
  \A x \in s.skipped :
    /\ x.key.root = s.chains[x.epoch].receive.ck.root
    /\ x.key.dir = Opposite(s.direction)
    /\ x.key.step = x.n
    /\ x.n <= s.chains[x.epoch].receive.n

Sound(s) ==
  /\ s \in SparseState
  /\ IsFiniteSet(s.skipped)
  /\ invariant(s)
  /\ Len(s.rk) = s.epoch /\ s.epoch < U64_MAX
  /\ WindowOpen(s)
  /\ ChainsOrdered(s)
  /\ StoreOrdered(s)

\* No receive from state s on can find the key.
Spent(s, key) ==
  /\ Len(key.root) <= s.epoch
  /\ \A e \in DOMAIN s.chains :
       s.chains[e].receive.ck.root = key.root => key.step <= s.chains[e].receive.n
  /\ \A x \in s.skipped : x.key # key

Forgets(s, t) == \A key \in ChainKey : Spent(s, key) => Spent(t, key)

\* From s to t no sending chain was wound back: it is the same, or of a new epoch.
SendsKept(s, t) ==
  \A e \in DOMAIN t.chains :
    \/ e \in DOMAIN s.chains /\ t.chains[e].send = s.chains[e].send
    \/ e > s.epoch

\* What holds of every operation of the receive direction that succeeds.
Moves(s, t) ==
  Sound(t) /\ Forgets(s, t) /\ SendsKept(s, t) /\ t.direction = s.direction

-----------------------------------------------------------------------------
(* Lemmas about chains and the store *)

\* Replacing one chain of an epoch leaves all others.
LEMMA SetReceive ==
  ASSUME NEW c \in Chains, NEW e \in DOMAIN c, NEW ch \in ChainState
  PROVE  LET d == [c EXCEPT ![e].receive = ch]
         IN  /\ d \in Chains /\ DOMAIN d = DOMAIN c
             /\ d[e].receive = ch /\ d[e].send = c[e].send
             /\ \A f \in DOMAIN c : f # e => d[f] = c[f]
<1>1. PICK D \in SUBSET Nat : c \in [D -> Pair]
  BY DEF Chains
<1>2. DOMAIN c = D /\ c[e] \in Pair
  BY <1>1
<1>3. [c EXCEPT ![e].receive = ch] \in [D -> Pair]
  BY <1>1, <1>2 DEF Pair
<1> QED BY <1>1, <1>2, <1>3 DEF Chains, Pair

\* The same for the sending chain.
LEMMA SetSend ==
  ASSUME NEW c \in Chains, NEW e \in DOMAIN c, NEW ch \in ChainState
  PROVE  LET d == [c EXCEPT ![e].send = ch]
         IN  /\ d \in Chains /\ DOMAIN d = DOMAIN c
             /\ d[e].send = ch /\ d[e].receive = c[e].receive
             /\ \A f \in DOMAIN c : f # e => d[f] = c[f]
<1>1. PICK D \in SUBSET Nat : c \in [D -> Pair]
  BY DEF Chains
<1>2. DOMAIN c = D /\ c[e] \in Pair
  BY <1>1
<1>3. [c EXCEPT ![e].send = ch] \in [D -> Pair]
  BY <1>1, <1>2 DEF Pair
<1> QED BY <1>1, <1>2, <1>3 DEF Chains, Pair

\* What the type of the chains says of one of them.
LEMMA ChainTypes ==
  ASSUME NEW c \in Chains
  PROVE  /\ DOMAIN c \subseteq Nat
         /\ \A e \in DOMAIN c :
              /\ c[e] \in Pair /\ c[e].send \in ChainState /\ c[e].receive \in ChainState
              /\ c[e].send.n \in Nat /\ c[e].receive.n \in Nat
              /\ c[e].send.ck \in ChainKey /\ c[e].receive.ck \in ChainKey
BY ZenonT(40) DEF Chains, Pair, ChainState

\* Deleting stored keys (evict_oldest, try_skipped) keeps a state sound.
LEMMA FewerKeys ==
  ASSUME NEW s, Sound(s), NEW T \in SUBSET s.skipped
  PROVE  Moves(s, [s EXCEPT !.skipped = T])
<1> DEFINE t == [s EXCEPT !.skipped = T]
<1>1. IsFiniteSet(T) /\ Cardinality(T) <= Cardinality(s.skipped)
  BY FS_Subset DEF Sound
<1>2. Cardinality(T) \in Nat /\ Cardinality(s.skipped) \in Nat
  BY <1>1, FS_CardinalityType DEF Sound
<1>3. t \in SparseState
  BY DEF Sound, SparseState
<1>4. /\ t.skipped = T /\ t.epoch = s.epoch /\ t.chains = s.chains /\ t.rk = s.rk
      /\ t.direction = s.direction
  BY DEF Sound, SparseState
<1> HIDE DEF t
<1>5. invariant(t)
  BY <1>1, <1>2, <1>4, BoundsAssumption
  DEF Sound, invariant, StoreBounded, ChainsInWindow, CurrentOpen, StoreIsMap, SkippedHaveChains
<1>6. WindowOpen(t) /\ ChainsOrdered(t) /\ StoreOrdered(t)
  BY <1>4 DEF Sound, WindowOpen, ChainsOrdered, StoreOrdered
<1>7. Forgets(s, t) /\ SendsKept(s, t)
  BY <1>4 DEF Forgets, Spent, SendsKept
<1> QED BY <1>1, <1>3, <1>4, <1>5, <1>6, <1>7 DEF Moves, Sound, t

\* Moves compose.
LEMMA MovesCompose ==
  ASSUME NEW s, NEW t, NEW u, Moves(s, t), Moves(t, u), s.epoch \in Nat, t.epoch \in Nat,
         s.epoch <= t.epoch, DOMAIN u.chains \subseteq Nat
  PROVE  Moves(s, u)
BY DEF Moves, Forgets, SendsKept

-----------------------------------------------------------------------------
(* The operations of the ratchet *)

\* Folding in the agreement's next key opens the epoch after the current one, whose
\* root is longer than any before, and retires what leaves the window.
LEMMA AdvanceMoves ==
  ASSUME NEW s, Sound(s), NEW out \in Output, advance(s, out).ok
  PROVE  LET t == advance(s, out).state
         IN  Moves(s, t) /\ t.epoch = s.epoch + 1
<1> DEFINE next == s.epoch + 1
           root == Append(s.rk, out.key)
           pair == OpenChains(root, s.direction)
           all == set_chains(s.chains, next, pair)
           wide == [s EXCEPT !.rk = root, !.epoch = next, !.chains = all]
           t == advance(s, out).state
           dom == {f \in DOMAIN all : InWindow(f, next)}
<1>1. /\ s \in SparseState /\ s.rk \in Root /\ s.epoch \in Nat /\ s.chains \in Chains
      /\ s.skipped \subseteq Entry /\ s.direction \in Direction /\ Len(s.rk) = s.epoch
  BY DEF Sound, SparseState
<1>2. ~(next >= U64_MAX) /\ t = clear_old_epochs(wide, next)
  BY DEF advance, Ok, Err
<1>3. next \in Nat /\ next < U64_MAX /\ U64_MAX \in Nat
  BY <1>1, <1>2, BoundsAssumption
<1>4. root \in Root /\ Len(root) = next
  BY <1>1 DEF Output, Root
<1>5. /\ pair \in Pair /\ pair.send.ck.dir = s.direction
      /\ pair.receive.ck.dir = Opposite(s.direction)
      /\ pair.send.ck.root = root /\ pair.receive.ck.root = root
  BY <1>1, <1>4 DEF OpenChains, Chain, Pair, ChainState, ChainKey, Opposite, Direction
<1>6. /\ DOMAIN s.chains \subseteq Nat
      /\ \A e \in DOMAIN s.chains : s.chains[e] \in Pair /\ e <= s.epoch
  BY <1>1, ChainTypes DEF Sound, invariant, ChainsInWindow
<1> HIDE DEF pair, root
<1>7. /\ DOMAIN all = DOMAIN s.chains \cup {next} /\ all[next] = pair
      /\ \A e \in DOMAIN s.chains : all[e] = s.chains[e]
  BY <1>1, <1>3, <1>6 DEF set_chains
<1>8. /\ wide.skipped = s.skipped /\ wide.chains = all /\ wide.epoch = next /\ wide.rk = root
      /\ wide.direction = s.direction /\ wide.pushed = s.pushed
  BY <1>1 DEF SparseState
<1>9. /\ t.chains = [e \in dom |-> all[e]]
      /\ t.skipped = {x \in s.skipped : InWindow(x.epoch, next)}
      /\ t.epoch = next /\ t.rk = root /\ t.direction = s.direction /\ t.pushed = s.pushed
  BY <1>1, <1>2, <1>8 DEF clear_old_epochs, SparseState
<1>10. t.chains \in Chains
  <2>1. dom \in SUBSET Nat
    BY <1>3, <1>6, <1>7
  <2>2. [e \in dom |-> all[e]] \in [dom -> Pair]
    BY <1>5, <1>6, <1>7
  <2> HIDE DEF dom, all
  <2>3. [dom -> Pair] \in {[D -> Pair] : D \in SUBSET Nat}
    BY <2>1
  <2>4. [e \in dom |-> all[e]] \in Chains
    BY <2>2, <2>3 DEF Chains
  <2> QED BY <1>9, <2>4
<1>11. t \in SparseState
  <2>1. t = [wide EXCEPT !.chains = t.chains, !.skipped = t.skipped]
    BY <1>1, <1>2, <1>8, <1>9 DEF clear_old_epochs, SparseState
  <2>2. t.skipped \in SUBSET Entry
    BY <1>1, <1>9
  <2> HIDE DEF t
  <2> QED BY <1>1, <1>3, <1>4, <1>10, <2>1, <2>2 DEF SparseState
<1> HIDE DEF t, wide
<1>12. /\ DOMAIN t.chains = dom /\ \A e \in dom : t.chains[e] = all[e]
       /\ \A e \in dom : InWindow(e, next) /\ e \in Nat /\ e <= next
  BY <1>1, <1>3, <1>6, <1>7, <1>9
<1>13. next \in dom
  BY <1>3, <1>7, BoundsAssumption DEF InWindow, saturating_add
<1>14. IsFiniteSet(t.skipped) /\ Cardinality(t.skipped) <= Cardinality(s.skipped)
  BY <1>9, FS_Subset DEF Sound
<1>15. Cardinality(t.skipped) \in Nat /\ Cardinality(s.skipped) \in Nat
  BY <1>14, FS_CardinalityType DEF Sound
<1>16. \A x \in t.skipped : x \in s.skipped /\ x.epoch \in DOMAIN s.chains /\ x.epoch \in dom /\ x.epoch # next
  BY <1>1, <1>6, <1>7, <1>9 DEF Sound, invariant, SkippedHaveChains
<1>17. invariant(t)
  <2>1. StoreBounded(t)
    BY <1>14, <1>15, BoundsAssumption DEF Sound, invariant, StoreBounded
  <2>2. ChainsInWindow(t) /\ CurrentOpen(t) /\ SkippedHaveChains(t)
    BY <1>9, <1>12, <1>13, <1>16 DEF ChainsInWindow, CurrentOpen, SkippedHaveChains
  <2>3. StoreIsMap(t)
    BY <1>16 DEF Sound, invariant, StoreIsMap
  <2> QED BY <2>1, <2>2, <2>3 DEF invariant
<1>18. WindowOpen(t)
  <2> SUFFICES ASSUME NEW e \in Nat, e <= next, InWindow(e, next) PROVE e \in dom
    BY <1>9, <1>12 DEF WindowOpen
  <2>1. CASE e = next
    BY <1>13, <2>1
  <2>2. CASE e # next
    <3>1. e <= s.epoch /\ InWindow(e, s.epoch)
      BY <1>1, <1>3, <2>2, BoundsAssumption DEF InWindow, saturating_add
    <3> QED BY <1>7, <3>1 DEF Sound, WindowOpen
  <2> QED BY <2>1, <2>2
<1>19. ChainsOrdered(t)
  BY <1>4, <1>5, <1>7, <1>9, <1>12 DEF Sound, ChainsOrdered
<1>20. \A e \in dom : e # next => e \in DOMAIN s.chains /\ t.chains[e] = s.chains[e]
  BY <1>7, <1>12
<1>21. StoreOrdered(t)
  BY <1>9, <1>16, <1>20 DEF Sound, StoreOrdered
<1>22. Forgets(s, t)
  <2> SUFFICES ASSUME NEW key \in ChainKey, Spent(s, key) PROVE Spent(t, key)
    BY DEF Forgets
  <2>1. Len(key.root) \in Nat /\ Len(key.root) <= s.epoch
    BY DEF Spent, ChainKey, Root
  <2>2. key.root # root
    BY <1>1, <1>4, <2>1
  <2>3. \A e \in dom : t.chains[e].receive.ck.root = key.root => key.step <= t.chains[e].receive.n
    BY <1>5, <1>7, <1>12, <1>20, <2>2 DEF Spent
  <2> QED BY <1>1, <1>3, <1>9, <1>12, <1>16, <2>1, <2>3 DEF Spent
<1>23. SendsKept(s, t)
  BY <1>1, <1>12, <1>20 DEF SendsKept
<1> QED BY <1>4, <1>3, <1>9, <1>11, <1>14, <1>17, <1>18, <1>19, <1>21, <1>22, <1>23
        DEF Moves, Sound, t

\* So does having no key to fold in.
LEMMA MaybeAdvanceMoves ==
  ASSUME NEW s, Sound(s), NEW out \in Output \cup {None}, maybe_advance(s, out).ok
  PROVE  LET t == maybe_advance(s, out).state
         IN  Moves(s, t) /\ t.epoch = IF out = None THEN s.epoch ELSE s.epoch + 1
<1>1. CASE out = None
  BY <1>1 DEF maybe_advance, Ok, Moves, Forgets, SendsKept
<1>2. CASE out # None
  BY <1>2, AdvanceMoves DEF maybe_advance
<1> QED BY <1>1, <1>2

\* A step of a receiving chain to a number it has not passed, and the keys passed.
Passes(s, e, upto, kept, new) ==
  /\ e \in DOMAIN s.chains /\ upto \in Nat /\ s.chains[e].receive.n < upto
  /\ kept \subseteq s.skipped /\ new \subseteq Entry /\ IsFiniteSet(new)
  /\ Cardinality(kept \cup new) <= MAX_SKIPPED_STORE
  /\ \A x \in new : /\ x.epoch = e /\ s.chains[e].receive.n < x.n /\ x.n <= upto
                    /\ x.key = MessageKey(s.chains[e].receive, x.n)
  /\ \A x, y \in new : x.n = y.n => x = y
  /\ \A x \in kept : x.epoch = e => x.n <= s.chains[e].receive.n

Stepped(s, e, upto, store, pushed) ==
  [s EXCEPT !.skipped = store, !.pushed = pushed,
            !.chains[e].receive = StepTo(s.chains[e].receive, upto)]

Reaches(s, t, e, upto, store) ==
  /\ Moves(s, t) /\ t.epoch = s.epoch
  /\ DOMAIN t.chains = DOMAIN s.chains /\ t.skipped = store
  /\ t.chains[e].receive = StepTo(s.chains[e].receive, upto)

\* Such a step keeps the keys of the store in order and spent keys spent.
LEMMA StepMoves ==
  ASSUME NEW s, Sound(s), NEW e, NEW upto, NEW kept, NEW new, NEW pushed \in Nat,
         Passes(s, e, upto, kept, new)
  PROVE  Reaches(s, Stepped(s, e, upto, kept \cup new, pushed), e, upto, kept \cup new)
<1> DEFINE ch == s.chains[e].receive
           to == StepTo(ch, upto)
           d  == [s.chains EXCEPT ![e].receive = to]
           t  == Stepped(s, e, upto, kept \cup new, pushed)
<1> USE DEF Passes
<1>1. /\ s \in SparseState /\ s.chains \in Chains /\ s.skipped \subseteq Entry
      /\ s.epoch \in Nat /\ s.direction \in Direction /\ s.rk \in Root
  BY DEF Sound, SparseState
<1>2. /\ DOMAIN s.chains \subseteq Nat /\ e \in Nat
      /\ ch \in ChainState /\ ch.n \in Nat /\ ch.ck \in ChainKey
  BY <1>1, ChainTypes
<1>3. /\ to \in ChainState /\ to.n = upto /\ to.ck \in ChainKey
      /\ to.ck.root = ch.ck.root /\ to.ck.dir = ch.ck.dir
  BY <1>2 DEF StepTo, ChainState, ChainKey
<1>4. \A x \in new : /\ x.key.root = ch.ck.root /\ x.key.dir = ch.ck.dir /\ x.key.step = x.n
                     /\ x.n \in Nat
  BY <1>2 DEF MessageKey, ChainKey, Entry
<1> HIDE DEF to, ch
<1>5. /\ d \in Chains /\ DOMAIN d = DOMAIN s.chains
      /\ d[e].receive = to /\ d[e].send = s.chains[e].send
      /\ \A f \in DOMAIN s.chains : f # e => d[f] = s.chains[f]
  BY <1>1, <1>3, SetReceive
<1> USE DEF to, ch
<1>6. t = [s EXCEPT !.skipped = kept \cup new, !.pushed = pushed, !.chains = d]
  BY <1>1 DEF SparseState, Stepped
<1> HIDE DEF d, to, ch
<1>7. /\ t.skipped = kept \cup new /\ t.chains = d /\ t.epoch = s.epoch /\ t.rk = s.rk
      /\ t.direction = s.direction
  BY <1>1, <1>6 DEF SparseState
<1>8. t \in SparseState
  BY <1>1, <1>5, <1>6 DEF SparseState
<1> HIDE DEF t
<1>9. IsFiniteSet(kept \cup new)
  BY FS_Subset, FS_Union DEF Sound
<1>10. \A f \in DOMAIN d : /\ d[f].send = s.chains[f].send
                           /\ d[f].receive.ck.root = s.chains[f].receive.ck.root
                           /\ d[f].receive.ck.dir = s.chains[f].receive.ck.dir
                           /\ s.chains[f].receive.n <= d[f].receive.n
                           /\ s.chains[f].receive.n \in Nat /\ d[f].receive.n \in Nat
  BY <1>1, <1>2, <1>3, <1>5, ChainTypes DEF ch
<1>11. \A x \in s.skipped : x.epoch \in DOMAIN d /\ x.epoch \in Nat /\ x.n \in Nat
  BY <1>1, <1>5 DEF Sound, invariant, SkippedHaveChains, Entry
<1>12. invariant(t)
  <2>1. StoreBounded(t)
    BY <1>7 DEF StoreBounded
  <2>2. ChainsInWindow(t) /\ CurrentOpen(t)
    BY <1>5, <1>7 DEF Sound, invariant, ChainsInWindow, CurrentOpen
  <2>3. SkippedHaveChains(t)
    BY <1>5, <1>7, <1>11 DEF SkippedHaveChains
  <2>4. StoreIsMap(t)
    <3> SUFFICES ASSUME NEW x \in kept \cup new, NEW y \in kept \cup new,
                        x.epoch = y.epoch, x.n = y.n
                 PROVE  x = y
      BY <1>7 DEF StoreIsMap
    <3>1. CASE x \in kept /\ y \in kept
      BY <3>1 DEF Sound, invariant, StoreIsMap
    <3>2. CASE x \in new /\ y \in new
      BY <3>2
    <3>3. CASE x \in kept /\ y \in new
      BY <1>2, <1>4, <1>11, <3>3 DEF ch
    <3>4. CASE x \in new /\ y \in kept
      BY <1>2, <1>4, <1>11, <3>4 DEF ch
    <3> QED BY <3>1, <3>2, <3>3, <3>4
  <2> QED BY <2>1, <2>2, <2>3, <2>4 DEF invariant
<1>13. WindowOpen(t) /\ ChainsOrdered(t)
  BY <1>5, <1>7, <1>10 DEF Sound, WindowOpen, ChainsOrdered
<1>14. StoreOrdered(t)
  <2> SUFFICES ASSUME NEW x \in kept \cup new
               PROVE  /\ x.key.root = d[x.epoch].receive.ck.root
                      /\ x.key.dir = Opposite(s.direction)
                      /\ x.key.step = x.n
                      /\ x.n <= d[x.epoch].receive.n
    BY <1>7 DEF StoreOrdered
  <2>1. CASE x \in kept
    <3>1. /\ x.key.root = s.chains[x.epoch].receive.ck.root
          /\ x.key.dir = Opposite(s.direction)
          /\ x.key.step = x.n
          /\ x.n <= s.chains[x.epoch].receive.n
      BY <2>1 DEF Sound, StoreOrdered
    <3> QED BY <1>10, <1>11, <2>1, <3>1
  <2>2. CASE x \in new
    BY <1>3, <1>4, <1>5, <2>2 DEF Sound, ChainsOrdered, ch
  <2> QED BY <2>1, <2>2
<1>15. Forgets(s, t)
  <2> SUFFICES ASSUME NEW key \in ChainKey, Spent(s, key) PROVE Spent(t, key)
    BY DEF Forgets
  <2>1. key.step \in Nat
    BY DEF ChainKey
  <2>2. \A f \in DOMAIN d : d[f].receive.ck.root = key.root => key.step <= d[f].receive.n
    BY <1>5, <1>10, <2>1 DEF Spent
  <2>3. \A x \in new : x.key # key
    BY <1>2, <1>4, <2>1 DEF Spent, ch
  <2> QED BY <1>7, <2>2, <2>3 DEF Spent
<1>16. SendsKept(s, t)
  BY <1>5, <1>7, <1>10 DEF SendsKept
<1>17. Sound(t)
  BY <1>7, <1>8, <1>9, <1>12, <1>13, <1>14 DEF Sound
<1> QED BY <1>5, <1>7, <1>15, <1>16, <1>17 DEF Reaches, Moves, t, to, ch, d

\* The keys of a stretch of a chain: one a number, and as many as the numbers.
Stretch(new, e, ch, upto) ==
  /\ new \subseteq Entry /\ IsFiniteSet(new) /\ Cardinality(new) <= upto - ch.n
  /\ \A x \in new : /\ x.epoch = e /\ ch.n < x.n /\ x.n <= upto
                    /\ x.key = MessageKey(ch, x.n)
  /\ \A x, y \in new : x.n = y.n => x = y

\* The keys skip_message_keys derives are such a stretch.
LEMMA DerivedKeys ==
  ASSUME NEW e \in Nat, NEW ch \in ChainState, NEW upto \in Nat, NEW first \in Nat,
         ch.n < upto
  PROVE  Stretch(DerivedEntries(e, ch, upto, first), e, ch, upto)
<1> DEFINE numbers == (ch.n + 1)..upto
           f == [i \in numbers |->
                   [epoch |-> e, n |-> i, key |-> MessageKey(ch, i), pos |-> first + (i - ch.n)]]
           new == DerivedEntries(e, ch, upto, first)
<1>1. ch.n \in Nat /\ ch.ck \in ChainKey
  BY DEF ChainState
<1>2. \A i \in numbers : i \in Nat /\ MessageKey(ch, i) \in ChainKey /\ ch.n < i /\ i <= upto
                         /\ first + (i - ch.n) \in Nat
  BY <1>1 DEF MessageKey, ChainKey
<1>3. new = {f[i] : i \in numbers}
  BY DEF DerivedEntries
<1>4. f \in Surjection(numbers, new)
  BY <1>3 DEF Surjection
<1>5. IsFiniteSet(numbers) /\ Cardinality(numbers) = upto - ch.n
  <2>1. ch.n + 1 \in Int /\ upto \in Int /\ ~(ch.n + 1 > upto) /\ upto - (ch.n + 1) + 1 = upto - ch.n
    BY <1>1
  <2> QED BY <2>1, FS_Interval
<1>6. IsFiniteSet(new) /\ Cardinality(new) <= upto - ch.n
  BY <1>4, <1>5, FS_Surjection
<1>7. \A i \in numbers : /\ f[i] \in Entry /\ f[i].epoch = e /\ f[i].n = i
                         /\ f[i].key = MessageKey(ch, i)
  BY <1>2 DEF Entry
<1> HIDE DEF f, new, numbers
<1>8. \A x \in new : \E i \in numbers : x = f[i]
  BY <1>3
<1>9. /\ new \subseteq Entry
      /\ \A x \in new : /\ x.epoch = e /\ ch.n < x.n /\ x.n <= upto
                        /\ x.key = MessageKey(ch, x.n)
      /\ \A x, y \in new : x.n = y.n => x = y
  BY <1>2, <1>7, <1>8
<1> QED BY <1>6, <1>9 DEF new, Stretch

\* skip_message_keys, where it succeeds.
LEMMA SkipMoves ==
  ASSUME NEW s, Sound(s), NEW e \in Nat, NEW upto \in Nat, skip_message_keys(s, e, upto).ok
  PROVE  LET t == skip_message_keys(s, e, upto).state
         IN  Moves(s, t) /\ t.epoch = s.epoch /\ e \in DOMAIN t.chains
<1> DEFINE ch == s.chains[e].receive
           count == upto - ch.n
           kept == {x \in s.skipped : ~(x.epoch = e /\ ch.n < x.n /\ x.n <= upto)}
           new == DerivedEntries(e, ch, upto, s.pushed)
<1>1. e \in DOMAIN s.chains
  BY DEF skip_message_keys, Err
<1>2. /\ s \in SparseState /\ s.chains \in Chains /\ s.skipped \subseteq Entry /\ s.pushed \in Nat
  BY DEF Sound, SparseState
<1>3. ch \in ChainState /\ ch.n \in Nat
  BY <1>1, <1>2, ChainTypes
<1>4. CASE upto <= ch.n
  BY <1>1, <1>4 DEF skip_message_keys, Ok, Moves, Forgets, SendsKept
<1>5. CASE ~(upto <= ch.n)
  <2>1. /\ HasRoom(kept, count)
        /\ skip_message_keys(s, e, upto).state
             = [s EXCEPT !.skipped = kept \cup new, !.pushed = @ + count,
                         !.chains[e].receive = StepTo(ch, upto)]
    BY <1>1, <1>5 DEF skip_message_keys, Ok, Err
  <2>2. ch.n < upto /\ count \in Nat /\ s.pushed + count \in Nat
    BY <1>2, <1>3, <1>5
  <2>3. /\ new \subseteq Entry /\ IsFiniteSet(new) /\ Cardinality(new) <= count
        /\ \A x \in new : /\ x.epoch = e /\ ch.n < x.n /\ x.n <= upto
                          /\ x.key = MessageKey(ch, x.n)
        /\ \A x, y \in new : x.n = y.n => x = y
    <3>1. Stretch(new, e, ch, upto)
      BY <1>2, <1>3, <2>2, DerivedKeys
    <3> QED BY <3>1 DEF Stretch
  <2>4. kept \subseteq s.skipped /\ IsFiniteSet(kept)
    BY FS_Subset DEF Sound
  <2>5. \A x \in kept : x.epoch = e => x.n <= ch.n
    <3> SUFFICES ASSUME NEW x \in kept, x.epoch = e PROVE x.n <= ch.n
      OBVIOUS
    <3>1. x.n \in Nat /\ x.n <= ch.n
      BY <1>2 DEF Sound, StoreOrdered, Entry
    <3> QED BY <3>1
  <2>6. Cardinality(kept \cup new) <= MAX_SKIPPED_STORE
    <3>1. /\ Cardinality(kept) \in Nat /\ Cardinality(new) \in Nat
          /\ Cardinality(kept \cap new) \in Nat
      BY <2>3, <2>4, FS_CardinalityType, FS_Intersection
    <3>2. Cardinality(kept \cup new)
            = Cardinality(kept) + Cardinality(new) - Cardinality(kept \cap new)
      BY <2>3, <2>4, FS_Union
    <3>3. Cardinality(kept \cup new) \in Nat
      BY <2>3, <2>4, FS_CardinalityType, FS_Union
    <3>4. Cardinality(kept) + count <= MAX_SKIPPED_STORE
      BY <2>1 DEF HasRoom
    <3> HIDE DEF kept, new, count
    <3> QED BY <2>2, <2>3, <3>1, <3>2, <3>3, <3>4, BoundsAssumption
  <2> DEFINE pushed == s.pushed + count
             t == Stepped(s, e, upto, kept \cup new, pushed)
  <2>7. skip_message_keys(s, e, upto).state = t
    BY <1>2, <2>1 DEF SparseState, Stepped
  <2>a. pushed \in Nat
    BY <2>2
  <2> HIDE DEF kept, new, pushed, count
  <2>8. Passes(s, e, upto, kept, new)
    BY <1>1, <2>2, <2>3, <2>4, <2>5, <2>6 DEF Passes
  <2>9. Moves(s, t) /\ t.epoch = s.epoch /\ DOMAIN t.chains = DOMAIN s.chains
    <3>1. Reaches(s, t, e, upto, kept \cup new)
      BY <2>a, <2>8, StepMoves
    <3> QED BY <3>1 DEF Reaches
  <2> QED BY <1>1, <2>7, <2>9
<1> QED BY <1>4, <1>5

\* What a successful receive gives: a state that forgets all the old one did and the
\* key returned, and a key the old one had not forgotten, of the peer's direction.
Yields(s, t, key) ==
  /\ Moves(s, t)
  /\ key \in ChainKey /\ key.dir = Opposite(s.direction)
  /\ Spent(t, key)
  /\ ~Spent(s, key)

\* try_skipped: the entry leaves the store, which had it once.
LEMMA TakeSkippedYields ==
  ASSUME NEW s, Sound(s), NEW x \in s.skipped
  PROVE  LET r == TakeSkipped(s, x)
         IN  Yields(s, r.state, r.key) /\ r.state.epoch = s.epoch
<1> DEFINE t == [s EXCEPT !.skipped = s.skipped \ {x}]
<1>1. /\ s \in SparseState /\ s.chains \in Chains /\ s.skipped \subseteq Entry
      /\ s.epoch \in Nat /\ DOMAIN s.chains \subseteq Nat
  BY ChainTypes DEF Sound, SparseState
<1>2. TakeSkipped(s, x).state = t /\ TakeSkipped(s, x).key = x.key
  BY <1>1 DEF TakeSkipped, Ok, SparseState
<1>3. /\ t.skipped = s.skipped \ {x} /\ t.chains = s.chains /\ t.epoch = s.epoch
  BY <1>1 DEF SparseState
<1>4. Moves(s, t)
  BY FewerKeys
<1> HIDE DEF t
<1>5. \A y \in s.skipped :
         /\ y.key \in ChainKey /\ y.epoch \in DOMAIN s.chains /\ y.epoch \in Nat
         /\ y.key.root = s.chains[y.epoch].receive.ck.root
         /\ y.key.dir = Opposite(s.direction) /\ y.key.step = y.n
         /\ y.n <= s.chains[y.epoch].receive.n
  BY <1>1 DEF Sound, StoreOrdered, invariant, SkippedHaveChains, Entry
<1>6. \A e \in DOMAIN s.chains : Len(s.chains[e].receive.ck.root) = e /\ e <= s.epoch
  BY DEF Sound, ChainsOrdered, invariant, ChainsInWindow
<1>7. Len(x.key.root) = x.epoch /\ x.epoch <= s.epoch
  BY <1>5, <1>6
<1>8. \A e \in DOMAIN s.chains :
        s.chains[e].receive.ck.root = x.key.root => x.key.step <= s.chains[e].receive.n
  BY <1>5, <1>6, <1>7
<1>9. \A y \in s.skipped \ {x} : y.key # x.key
  BY <1>5, <1>6, <1>7 DEF Sound, invariant, StoreIsMap
<1>10. Spent(t, x.key)
  BY <1>3, <1>7, <1>8, <1>9 DEF Spent
<1>11. ~Spent(s, x.key)
  BY DEF Spent
<1> QED BY <1>2, <1>3, <1>4, <1>5, <1>10, <1>11 DEF Yields

\* The next key of a chain, once the ones before it are stored.
LEMMA TakeNextYields ==
  ASSUME NEW s, Sound(s), NEW e \in Nat, NEW n \in Nat, TakeNext(s, e, n).ok
  PROVE  LET r == TakeNext(s, e, n)
         IN  Yields(s, r.state, r.key) /\ r.state.epoch = s.epoch
<1> DEFINE upto == IF n = 0 THEN 0 ELSE n - 1
           skip == skip_message_keys(s, e, upto)
           st == skip.state
           ch == st.chains[e].receive
           t == [st EXCEPT !.chains[e].receive = StepTo(ch, n)]
           r == TakeNext(s, e, n)
<1>1. upto \in Nat
  OBVIOUS
<1>2. skip.ok
  BY DEF TakeNext
<1>3. Moves(s, st) /\ st.epoch = s.epoch /\ e \in DOMAIN st.chains
  BY <1>1, <1>2, SkipMoves
<1>4. n = ch.n + 1 /\ r.state = t /\ r.key = MessageKey(ch, n)
  BY <1>2 DEF TakeNext, Ok, Err
<1> HIDE DEF r, skip, st, upto
<1>5. /\ Sound(st) /\ st \in SparseState /\ st.chains \in Chains /\ st.skipped \subseteq Entry
      /\ st.pushed \in Nat /\ st.epoch \in Nat /\ DOMAIN st.chains \subseteq Nat
      /\ st.direction = s.direction
  BY <1>3, ChainTypes DEF Moves, Sound, SparseState
<1>6. ch \in ChainState /\ ch.n \in Nat /\ ch.ck \in ChainKey
  BY <1>3, <1>5, ChainTypes
<1>7. /\ ch.ck.dir = Opposite(st.direction) /\ Len(ch.ck.root) = e /\ e <= st.epoch
  BY <1>3, <1>5 DEF Sound, ChainsOrdered, invariant, ChainsInWindow
<1>8. \A x \in st.skipped : x.epoch = e => x.n <= ch.n
  BY <1>5 DEF Sound, StoreOrdered
<1>9. Cardinality(st.skipped \cup {}) <= MAX_SKIPPED_STORE /\ IsFiniteSet({})
  <2>1. st.skipped \cup {} = st.skipped
    OBVIOUS
  <2> QED BY <1>5, <2>1, FS_EmptySet DEF Sound, invariant, StoreBounded
<1> DEFINE u == Stepped(st, e, n, st.skipped \cup {}, st.pushed)
<1>10. t = u
  BY <1>5 DEF SparseState, Stepped
<1>11. /\ Moves(st, u) /\ u.epoch = st.epoch
       /\ DOMAIN u.chains = DOMAIN st.chains /\ u.skipped = st.skipped \cup {}
       /\ u.chains[e].receive = StepTo(ch, n)
  <2>1. ch.n < n
    BY <1>4, <1>6
  <2>2. Passes(st, e, n, st.skipped, {})
    BY <1>3, <1>8, <1>9, <2>1 DEF Passes
  <2>3. Reaches(st, u, e, n, st.skipped \cup {})
    BY <1>5, <2>2, StepMoves
  <2> QED BY <2>3 DEF Reaches
<1>12. /\ Moves(st, t) /\ t.epoch = st.epoch
       /\ DOMAIN t.chains = DOMAIN st.chains /\ t.skipped = st.skipped
       /\ t.chains[e].receive = StepTo(ch, n)
  BY <1>10, <1>11
<1> DEFINE key == MessageKey(ch, n)
<1>13. /\ key \in ChainKey /\ key.dir = ch.ck.dir /\ key.root = ch.ck.root /\ key.step = n
  BY <1>6 DEF MessageKey, ChainKey
<1>14. StepTo(ch, n).n = n
  BY DEF StepTo
<1> HIDE DEF key, t, u, ch
<1>15. \A f \in DOMAIN t.chains : f \in Nat /\ Len(t.chains[f].receive.ck.root) = f
  BY <1>5, <1>12 DEF Moves, Sound, ChainsOrdered
<1>16. \A x \in t.skipped : x.key # key
  <2> SUFFICES ASSUME NEW x \in st.skipped, x.key = key PROVE FALSE
    BY <1>12
  <2>1. /\ x.key.root = st.chains[x.epoch].receive.ck.root /\ x.epoch \in DOMAIN st.chains
        /\ x.key.step = x.n
    BY <1>5 DEF Sound, StoreOrdered, invariant, SkippedHaveChains
  <2>2. Len(x.key.root) = x.epoch
    BY <1>5, <2>1 DEF Sound, ChainsOrdered
  <2>3. x.epoch = e /\ x.n = n
    BY <1>7, <1>13, <2>1, <2>2
  <2> QED BY <1>4, <1>6, <1>8, <2>3
<1>17. Spent(t, key)
  <2>1. Len(key.root) <= t.epoch
    BY <1>7, <1>12, <1>13
  <2>2. \A f \in DOMAIN t.chains :
          t.chains[f].receive.ck.root = key.root => key.step <= t.chains[f].receive.n
    BY <1>7, <1>12, <1>13, <1>14, <1>15
  <2> QED BY <1>16, <2>1, <2>2 DEF Spent
<1>18. ~Spent(st, key)
  BY <1>3, <1>4, <1>6, <1>13 DEF Spent, ch
<1>19. ~Spent(s, key)
  BY <1>3, <1>13, <1>18 DEF Moves, Forgets
<1>20. DOMAIN t.chains \subseteq Nat /\ s.epoch \in Nat
  BY <1>5, <1>12, <1>3
<1>21. Moves(s, t)
  BY <1>3, <1>5, <1>12, <1>20, MovesCompose
<1> QED BY <1>3, <1>4, <1>5, <1>7, <1>12, <1>13, <1>17, <1>19, <1>21 DEF Yields, r, key

-----------------------------------------------------------------------------
(* Receiving and sending *)

EpochAfter(s, out) == IF out = None THEN s.epoch ELSE s.epoch + 1

Gives(s, out, r) ==
  Yields(s, r.state, r.key) /\ r.state.epoch = EpochAfter(s, out)

\* What a state gives, every state gives that it was moved from.
LEMMA YieldsCompose ==
  ASSUME NEW s, NEW t, NEW u, NEW key, Sound(s), Moves(s, t), Yields(t, u, key),
         s.epoch <= t.epoch
  PROVE  Yields(s, u, key)
<1>1. s.epoch \in Nat /\ t.epoch \in Nat /\ DOMAIN u.chains \subseteq Nat
  BY ChainTypes DEF Yields, Moves, Sound, SparseState
<1>2. Moves(s, u)
  BY <1>1, MovesCompose DEF Yields
<1>3. ~Spent(s, key) /\ t.direction = s.direction
  BY DEF Yields, Moves, Forgets
<1> QED BY <1>2, <1>3 DEF Yields

\* The store holds one key a name, so the first match is the match.
LEMMA FirstMatchStored ==
  ASSUME NEW s, Sound(s), NEW e, NEW n, Matches(s, e, n) # {}
  PROVE  LET x == FirstMatch(s, e, n) IN x \in s.skipped /\ x.epoch = e /\ x.n = n
<1>1. PICK y \in Matches(s, e, n) : TRUE
  OBVIOUS
<1>2. \A z \in Matches(s, e, n) : z = y
  BY <1>1 DEF Matches, Sound, invariant, StoreIsMap
<1>3. y.pos \in Nat
  BY <1>1 DEF Matches, Sound, SparseState, Entry
<1>4. \A z \in Matches(s, e, n) : y.pos <= z.pos
  BY <1>2, <1>3
<1>5. FirstMatch(s, e, n) \in Matches(s, e, n)
  BY <1>1, <1>4 DEF FirstMatch
<1> QED BY <1>5 DEF Matches

\* State::receive, where it succeeds.
LEMMA ReceiveGives ==
  ASSUME NEW s, Sound(s), NEW e \in Nat, NEW n \in Nat, NEW out \in Output \cup {None},
         receive(s, e, out, n).ok
  PROVE  Gives(s, out, receive(s, e, out, n))
<1> DEFINE adv == maybe_advance(s, out)
           st == adv.state
           r == receive(s, e, out, n)
<1>1. adv.ok
  BY DEF receive
<1>2. Moves(s, st) /\ st.epoch = EpochAfter(s, out)
  BY <1>1, MaybeAdvanceMoves DEF EpochAfter
<1>3. /\ r = IF Matches(st, e, n) # {} THEN TakeSkipped(st, FirstMatch(st, e, n))
                                     ELSE TakeNext(st, e, n)
  BY <1>1 DEF receive
<1> HIDE DEF adv, r
<1>4. Sound(st) /\ s.epoch \in Nat /\ s.epoch <= st.epoch
  BY <1>2 DEF Moves, Sound, SparseState, EpochAfter
<1> HIDE DEF st
<1>5. CASE Matches(st, e, n) # {}
  <2> DEFINE x == FirstMatch(st, e, n)
  <2>6. x \in st.skipped
    BY <1>4, <1>5, FirstMatchStored
  <2> HIDE DEF x
  <2>7. Yields(st, TakeSkipped(st, x).state, TakeSkipped(st, x).key)
        /\ TakeSkipped(st, x).state.epoch = st.epoch
    BY <1>4, <2>6, TakeSkippedYields
  <2>8. r = TakeSkipped(st, x)
    BY <1>3, <1>5 DEF x
  <2> QED BY <1>2, <1>4, <2>7, <2>8, YieldsCompose DEF Gives, r
<1>6. CASE Matches(st, e, n) = {}
  <2>1. r = TakeNext(st, e, n) /\ r.ok
    BY <1>3, <1>6 DEF r
  <2>2. Yields(st, r.state, r.key) /\ r.state.epoch = st.epoch
    BY <1>4, <2>1, TakeNextYields
  <2> QED BY <1>2, <1>4, <2>2, YieldsCompose DEF Gives, r
<1> QED BY <1>5, <1>6

\* Session::decrypt_ratchet's eviction and retry: however many keys are evicted, the
\* receive that succeeds is one on a state with fewer stored keys.
LEMMA CandidateGives ==
  ASSUME NEW s, Sound(s), NEW m \in Message, NEW out \in Output \cup {None},
         receive_with_eviction(s, m, out).ok
  PROVE  Gives(s, out, receive_with_eviction(s, m, out))
<1> DEFINE Attempt(z) == receive(z, m.epoch, out, m.n)
           r == receive_with_eviction(s, m, out)
<1>1. m.epoch \in Nat /\ m.n \in Nat
  BY DEF Message
<1>2. r = Attempt(s) \/ \E count : r = Attempt(evict_oldest(s, count))
  BY DEF receive_with_eviction
<1>3. CASE r = Attempt(s)
  BY <1>1, <1>3, ReceiveGives
<1>4. ASSUME NEW count, r = Attempt(evict_oldest(s, count))
      PROVE  Gives(s, out, r)
  <2> DEFINE T == {x \in s.skipped : Cardinality({y \in s.skipped : y.pos < x.pos}) >= count}
             t == evict_oldest(s, count)
  <2>1. t = [s EXCEPT !.skipped = T]
    BY DEF evict_oldest, Sound, SparseState
  <2>2. Moves(s, t)
    <3>1. T \in SUBSET s.skipped
      OBVIOUS
    <3> HIDE DEF T
    <3>2. Moves(s, [s EXCEPT !.skipped = T])
      BY <3>1, FewerKeys
    <3> QED BY <2>1, <3>2
  <2>3. t.epoch = s.epoch /\ s.epoch \in Nat
    BY <2>1 DEF Sound, SparseState
  <2> HIDE DEF t
  <2>4. Sound(t) /\ r = receive(t, m.epoch, out, m.n)
    BY <1>4, <2>2 DEF Moves, t
  <2> HIDE DEF r
  <2>5. receive(t, m.epoch, out, m.n).ok
    BY <2>4 DEF r
  <2>6. Gives(t, out, r)
    BY <1>1, <2>4, <2>5, ReceiveGives
  <2> QED BY <2>2, <2>3, <2>6, YieldsCompose DEF Gives, EpochAfter
<1> QED BY <1>2, <1>3, <1>4

\* No send from state s on can use the key.
Sealed(s, key) ==
  /\ Len(key.root) <= s.epoch
  /\ \A e \in DOMAIN s.chains :
       s.chains[e].send.ck.root = key.root => key.step <= s.chains[e].send.n

\* What a successful send gives: a state that forgets all the old one did, and the key,
\* which is the next of the epoch's sending chain.
Emits(s, e, out, r) ==
  /\ Sound(r.state) /\ Forgets(s, r.state) /\ r.state.direction = s.direction
  /\ r.state.epoch = EpochAfter(s, out)
  /\ \A key \in ChainKey : Sealed(s, key) => Sealed(r.state, key)
  /\ r.key \in ChainKey /\ r.key.dir = s.direction /\ Len(r.key.root) = e
  /\ Sealed(r.state, r.key)

\* A receive, or a key folded in, leaves sealed what was.
LEMMA MovesSealed ==
  ASSUME NEW s, NEW t, Sound(s), Moves(s, t), s.epoch <= t.epoch,
         NEW key \in ChainKey, Sealed(s, key)
  PROVE  Sealed(t, key)
<1>1. /\ Len(key.root) \in Nat /\ s.epoch \in Nat /\ t.epoch \in Nat
      /\ DOMAIN t.chains \subseteq Nat
  BY ChainTypes DEF ChainKey, Root, Moves, Sound, SparseState
<1>2. \A e \in DOMAIN t.chains : Len(t.chains[e].send.ck.root) = e
  BY DEF Moves, Sound, ChainsOrdered
<1> QED BY <1>1, <1>2 DEF Sealed, Moves, SendsKept

\* State::send, where it succeeds.
LEMMA SendEmits ==
  ASSUME NEW s, Sound(s), NEW e \in Nat, NEW out \in Output \cup {None}, send(s, e, out).ok
  PROVE  /\ Emits(s, e, out, send(s, e, out))
         /\ SendNumber(s, e, out) \in Nat
<1> DEFINE adv == maybe_advance(s, out)
           st == adv.state
           r == send(s, e, out)
           ch == st.chains[e].send
           to == StepTo(ch, ch.n + 1)
           d == [st.chains EXCEPT ![e].send = to]
           t == [st EXCEPT !.chains[e].send = to]
           k == MessageKey(ch, ch.n + 1)
<1>1. adv.ok
  BY DEF send
<1>2. Moves(s, st) /\ st.epoch = EpochAfter(s, out)
  BY <1>1, MaybeAdvanceMoves DEF EpochAfter
<1>3. e \in DOMAIN st.chains /\ r = Ok(t, k)
  BY <1>1 DEF send, Err
<1>4. r.state = t /\ r.key = k
  BY <1>3 DEF Ok
<1>5. SendNumber(s, e, out) = ch.n + 1
  BY DEF SendNumber
<1> HIDE DEF adv, st, r
<1>6. /\ Sound(st) /\ st \in SparseState /\ st.chains \in Chains /\ DOMAIN st.chains \subseteq Nat
      /\ st.epoch \in Nat /\ s.epoch \in Nat /\ s.epoch <= st.epoch
  BY <1>2, ChainTypes DEF Moves, Sound, SparseState, EpochAfter
<1>7. ch \in ChainState /\ ch.n \in Nat /\ ch.ck \in ChainKey
  BY <1>3, <1>6, ChainTypes
<1>8. /\ to \in ChainState /\ to.n = ch.n + 1 /\ to.ck.root = ch.ck.root /\ to.ck.dir = ch.ck.dir
      /\ k \in ChainKey /\ k.root = ch.ck.root /\ k.dir = ch.ck.dir /\ k.step = ch.n + 1
  BY <1>7 DEF StepTo, MessageKey, ChainState, ChainKey
<1> HIDE DEF to, k
<1>9. /\ d \in Chains /\ DOMAIN d = DOMAIN st.chains
      /\ d[e].send = to /\ d[e].receive = st.chains[e].receive
      /\ \A f \in DOMAIN st.chains : f # e => d[f] = st.chains[f]
  BY <1>3, <1>6, <1>8, SetSend
<1>10. t = [st EXCEPT !.chains = d]
  BY <1>6 DEF SparseState
<1> HIDE DEF d
<1>11. /\ t.chains = d /\ t.skipped = st.skipped /\ t.epoch = st.epoch /\ t.rk = st.rk
       /\ t.direction = st.direction /\ t \in SparseState
  BY <1>6, <1>9, <1>10 DEF SparseState
<1> HIDE DEF t
<1>12. \A f \in DOMAIN d : /\ d[f].receive = st.chains[f].receive
                           /\ d[f].send.ck.root = st.chains[f].send.ck.root
                           /\ d[f].send.ck.dir = st.chains[f].send.ck.dir
                           /\ st.chains[f].send.n <= d[f].send.n
                           /\ st.chains[f].send.n \in Nat /\ d[f].send.n \in Nat
  BY <1>3, <1>6, <1>7, <1>8, <1>9, ChainTypes
<1>13. invariant(t)
  BY <1>6, <1>9, <1>11
  DEF Sound, invariant, StoreBounded, ChainsInWindow, CurrentOpen, StoreIsMap, SkippedHaveChains
<1>14. WindowOpen(t) /\ ChainsOrdered(t)
  BY <1>6, <1>9, <1>11, <1>12 DEF Sound, WindowOpen, ChainsOrdered
<1>15. StoreOrdered(t)
  BY <1>6, <1>9, <1>11, <1>12 DEF Sound, StoreOrdered, invariant, SkippedHaveChains
<1>16. Sound(t)
  BY <1>6, <1>11, <1>13, <1>14, <1>15 DEF Sound
<1>17. Forgets(s, t)
  BY <1>2, <1>9, <1>11, <1>12 DEF Moves, Forgets, Spent
<1>18. \A key \in ChainKey : Sealed(st, key) => Sealed(t, key)
  <2> SUFFICES ASSUME NEW key \in ChainKey, Sealed(st, key) PROVE Sealed(t, key)
    OBVIOUS
  <2>1. key.step \in Nat
    BY DEF ChainKey
  <2> QED BY <1>9, <1>11, <1>12, <2>1 DEF Sealed
<1>19. \A key \in ChainKey : Sealed(s, key) => Sealed(t, key)
  BY <1>2, <1>6, <1>18, MovesSealed
<1>20. /\ k.dir = s.direction /\ Len(k.root) = e /\ e <= st.epoch
  BY <1>2, <1>3, <1>6, <1>8 DEF Moves, Sound, ChainsOrdered, invariant, ChainsInWindow
<1>21. \A f \in DOMAIN d : Len(d[f].send.ck.root) = f
  BY <1>11, <1>14 DEF ChainsOrdered
<1>22. Sealed(t, k)
  <2>1. \A f \in DOMAIN d : d[f].send.ck.root = k.root => f = e
    BY <1>20, <1>21
  <2> QED BY <1>7, <1>8, <1>9, <1>11, <1>20, <2>1 DEF Sealed
<1>23. t.direction = s.direction /\ t.epoch = EpochAfter(s, out)
  BY <1>2, <1>11 DEF Moves
<1> QED BY <1>4, <1>5, <1>7, <1>8, <1>16, <1>17, <1>19, <1>20, <1>22, <1>23 DEF Emits, r

-----------------------------------------------------------------------------
(* The inductive invariant *)

Dir(p) == IF p = Initiator THEN "A2b" ELSE "B2a"

Types ==
  /\ held \in [Party -> Nat] /\ known \in [Party -> Nat]
  /\ state \in [Party -> SparseState]
  /\ sent \in [Party -> SUBSET Message] /\ accepted \in [Party -> SUBSET Message]
  /\ dropped = [p \in Party |-> dropped[p]]

\* The epoch the agreement reports is the one it holds or the one before.
OneBehind(p) == known[p] <= held[p] /\ held[p] <= known[p] + 1

\* The ratchet is sound, in the agreement's epoch, and speaks in p's direction.
InStep(p) == Sound(state[p]) /\ state[p].epoch = held[p] /\ state[p].direction = Dir(p)

\* The keys p sealed with are of its own direction, and its chains are past them.
SentIsSealed(p) ==
  \A m \in sent[p] :
    m.key.dir = Dir(p) /\ Len(m.key.root) = m.epoch /\ Sealed(state[p], m.key)

\* The keys p opened with are of the other direction, and spent.
AcceptedIsSpent(p) ==
  \A m \in accepted[p] : m.key.dir = Opposite(Dir(p)) /\ Spent(state[p], m.key)

SInv ==
  /\ Types
  /\ \A p \in Party : OneBehind(p) /\ InStep(p) /\ SentIsSealed(p) /\ AcceptedIsSpent(p)

\* Each party has one peer, whose peer it is.
LEMMA PeerParty ==
  ASSUME NEW p \in Party
  PROVE  Peer(p) \in Party /\ Peer(p) # p /\ Peer(Peer(p)) = p
BY PartyAssumption DEF Party, Peer

\* The keys the agreement may hand over.
LEMMA OutputTypes ==
  ASSUME Types, NEW p \in Party, NEW out \in Outputs(p)
  PROVE  out \in Output \cup {None}
BY DEF Types, Outputs, OutputOf, Output

\* The state a handshake leaves is sound.
LEMMA InitSound ==
  ASSUME NEW d \in Direction
  PROVE  LET s == init(SharedSecret, d)
         IN  Sound(s) /\ s.epoch = 0 /\ s.direction = d
<1> DEFINE s == init(SharedSecret, d)
           pair == OpenChains(SharedSecret, d)
           c == [e \in {0} |-> pair]
<1>1. SharedSecret \in Root /\ Len(SharedSecret) = 0
  BY DEF SharedSecret, Root
<1>2. /\ pair \in Pair /\ pair.send.ck.dir = d /\ pair.receive.ck.dir = Opposite(d)
      /\ pair.send.ck.root = SharedSecret /\ pair.receive.ck.root = SharedSecret
  BY <1>1 DEF OpenChains, Chain, Pair, ChainState, ChainKey, Opposite, Direction
<1> HIDE DEF pair
<1>3. c \in Chains /\ DOMAIN c = {0} /\ c[0] = pair
  <2>1. c \in [{0} -> Pair] /\ {0} \in SUBSET Nat
    BY <1>2
  <2>2. [{0} -> Pair] \in {[D -> Pair] : D \in SUBSET Nat}
    BY <2>1
  <2> QED BY <2>1, <2>2 DEF Chains
<1>4. /\ s.rk = SharedSecret /\ s.epoch = 0 /\ s.chains = c /\ s.skipped = {} /\ s.pushed = 0
      /\ s.direction = d
  BY DEF init, pair
<1> HIDE DEF c
<1>5. s \in SparseState
  BY <1>1, <1>3 DEF init, SparseState, pair, c
<1> HIDE DEF s
<1>6. IsFiniteSet(s.skipped) /\ Cardinality(s.skipped) = 0
  BY <1>4, FS_EmptySet
<1>7. InWindow(0, 0)
  BY BoundsAssumption DEF InWindow, saturating_add
<1>8. invariant(s)
  BY <1>3, <1>4, <1>6, <1>7, BoundsAssumption
  DEF invariant, StoreBounded, ChainsInWindow, CurrentOpen, StoreIsMap, SkippedHaveChains
<1>9. WindowOpen(s) /\ ChainsOrdered(s) /\ StoreOrdered(s)
  BY <1>1, <1>2, <1>3, <1>4 DEF WindowOpen, ChainsOrdered, StoreOrdered
<1> QED BY <1>1, <1>4, <1>5, <1>6, <1>8, <1>9, BoundsAssumption DEF Sound, s

\* It holds at the start.
LEMMA InitSInv ==
  ASSUME Init PROVE SInv
<1>1. \A p \in Party : /\ held[p] = 0 /\ known[p] = 0 /\ sent[p] = {} /\ accepted[p] = {}
                       /\ state[p] = init(SharedSecret, Dir(p))
  BY DEF Init, A!Init, Dir, Party, A!Party
<1>2. \A p \in Party : Dir(p) \in Direction
  BY DEF Dir, Direction
<1>3. \A p \in Party : Sound(state[p]) /\ state[p].epoch = 0 /\ state[p].direction = Dir(p)
  BY <1>1, <1>2, InitSound
<1>4. \A p \in Party : state[p] \in SparseState
  BY <1>3 DEF Sound
<1>5. Types
  <2>1. state \in [Party -> SparseState]
    BY <1>4 DEF Init
  <2> QED BY <2>1 DEF Init, A!Init, A!Party, Party, Types
<1> QED BY <1>1, <1>3, <1>5 DEF SInv, OneBehind, InStep, SentIsSealed, AcceptedIsSpent

\* A send keeps it: the key is new on its chain, and the chain is stepped past it.
LEMMA EncryptKeeps ==
  ASSUME SInv, NEW p \in Party, NEW out \in Outputs(p), Encrypt(p, out)
  PROVE  SInv'
<1> DEFINE r == send(state[p], known[p], out)
           m == [epoch |-> known[p], n |-> SendNumber(state[p], known[p], out),
                 key |-> r.key, held |-> held'[p]]
<1>1. /\ r.ok /\ state' = [state EXCEPT ![p] = r.state] /\ sent' = [sent EXCEPT ![p] = @ \cup {m}]
      /\ accepted' = accepted /\ dropped' = dropped
      /\ IF out = None THEN held' = held /\ known' = known ELSE A!FirstKey(p)
  BY DEF Encrypt
<1>2. Types /\ held[p] \in Nat /\ known[p] \in Nat /\ out \in Output \cup {None}
  BY OutputTypes DEF SInv, Types
<1>3. /\ OneBehind(p) /\ Sound(state[p]) /\ state[p].epoch = held[p]
      /\ state[p].direction = Dir(p) /\ SentIsSealed(p) /\ AcceptedIsSpent(p)
  BY DEF SInv, InStep
<1>4. Emits(state[p], known[p], out, r) /\ SendNumber(state[p], known[p], out) \in Nat
  BY <1>1, <1>2, <1>3, SendEmits
<1>5. /\ known' = known /\ held' \in [Party -> Nat] /\ \A q \in Party : q # p => held'[q] = held[q]
      /\ held'[p] = EpochAfter(state[p], out)
      /\ known[p] <= held'[p] /\ held'[p] <= known[p] + 1
  <2>1. CASE out = None
    BY <1>1, <1>2, <1>3, <2>1 DEF Types, EpochAfter, OneBehind
  <2>2. CASE out # None
    <3>1. /\ held' = [held EXCEPT ![p] = @ + 1] /\ known' = known /\ known[p] = held[p]
      BY <1>1, <2>2 DEF A!FirstKey, A!MayBegin, A!Party, Party
    <3> QED BY <1>2, <1>3, <2>2, <3>1 DEF Types, EpochAfter
  <2> QED BY <2>1, <2>2
<1>6. m \in Message
  BY <1>2, <1>4, <1>5 DEF Message, Emits
<1>7. m.key = r.key /\ m.epoch = known[p]
  OBVIOUS
<1> HIDE DEF r, m
<1>8. r.state \in SparseState
  BY <1>4 DEF Emits, Sound
<1>9. /\ state' \in [Party -> SparseState] /\ state'[p] = r.state
      /\ \A q \in Party : q # p => state'[q] = state[q]
  BY <1>1, <1>2, <1>8 DEF Types
<1>10. /\ sent' \in [Party -> SUBSET Message] /\ sent'[p] = sent[p] \cup {m}
       /\ \A q \in Party : q # p => sent'[q] = sent[q]
  BY <1>1, <1>2, <1>6 DEF Types
<1>11. Types'
  BY <1>1, <1>2, <1>5, <1>9, <1>10 DEF Types
<1>12. OneBehind(p)' /\ InStep(p)'
  BY <1>3, <1>4, <1>5, <1>9 DEF OneBehind, InStep, Emits, Dir
<1>13. SentIsSealed(p)'
  <2> SUFFICES ASSUME NEW x \in sent[p] \cup {m}
               PROVE  x.key.dir = Dir(p) /\ Len(x.key.root) = x.epoch /\ Sealed(r.state, x.key)
    BY <1>9, <1>10 DEF SentIsSealed, Dir, Sealed
  <2>1. CASE x = m
    BY <1>3, <1>4, <1>7, <2>1 DEF Emits
  <2>2. CASE x \in sent[p]
    <3>1. x.key \in ChainKey
      BY <1>2, <2>2 DEF Types, Message
    <3> QED BY <1>3, <1>4, <2>2, <3>1 DEF SentIsSealed, Emits
  <2> QED BY <2>1, <2>2
<1>14. AcceptedIsSpent(p)'
  <2> SUFFICES ASSUME NEW x \in accepted[p]
               PROVE  x.key.dir = Opposite(Dir(p)) /\ Spent(r.state, x.key)
    BY <1>1, <1>9 DEF AcceptedIsSpent, Dir, Opposite, Spent
  <2>1. x.key \in ChainKey
    BY <1>2 DEF Types, Message
  <2> QED BY <1>3, <1>4, <2>1 DEF AcceptedIsSpent, Emits, Forgets
<1>15. ASSUME NEW q \in Party, q # p
       PROVE  (OneBehind(q) /\ InStep(q) /\ SentIsSealed(q) /\ AcceptedIsSpent(q))'
  <2>1. OneBehind(q) /\ InStep(q) /\ SentIsSealed(q) /\ AcceptedIsSpent(q)
    BY DEF SInv
  <2>2. /\ held'[q] = held[q] /\ known'[q] = known[q] /\ state'[q] = state[q]
        /\ sent'[q] = sent[q] /\ accepted'[q] = accepted[q]
    BY <1>1, <1>5, <1>9, <1>10, <1>15
  <2> QED BY <2>1, <2>2
          DEF OneBehind, InStep, SentIsSealed, AcceptedIsSpent, Dir, Opposite, Sealed, Spent
<1> QED BY <1>11, <1>12, <1>13, <1>14, <1>15 DEF SInv

\* So does a receive: the key was not spent, and is now.
LEMMA DecryptKeeps ==
  ASSUME SInv, NEW p \in Party, NEW out \in Outputs(p), NEW m \in sent[Peer(p)],
         Decrypt(p, m, out)
  PROVE  SInv'
<1> DEFINE r == Candidate(p, m, out)
<1>1. /\ r.ok /\ r.key = m.key /\ Agrees(p, m, out)
      /\ state' = [state EXCEPT ![p] = r.state]
      /\ accepted' = [accepted EXCEPT ![p] = @ \cup {m}] /\ sent' = sent
      /\ \E D : dropped' = [dropped EXCEPT ![p] = D]
  BY DEF Decrypt, Decrypts
<1>2. Types /\ held[p] \in Nat /\ known[p] \in Nat /\ out \in Output \cup {None}
  BY OutputTypes DEF SInv, Types
<1>3. /\ OneBehind(p) /\ Sound(state[p]) /\ state[p].epoch = held[p]
      /\ state[p].direction = Dir(p) /\ SentIsSealed(p) /\ AcceptedIsSpent(p)
  BY DEF SInv, InStep
<1>4. m \in Message
  BY <1>2, PeerParty DEF Types
<1>5. Gives(state[p], out, r)
  BY <1>1, <1>2, <1>3, <1>4, CandidateGives DEF Candidate
<1>6. /\ held' \in [Party -> Nat] /\ known' \in [Party -> Nat]
      /\ \A q \in Party : q # p => held'[q] = held[q] /\ known'[q] = known[q]
      /\ held'[p] = EpochAfter(state[p], out)
      /\ known'[p] <= held'[p] /\ held'[p] <= known'[p] + 1
  <2>1. CASE out # None /\ A!SecondKey(p)
    BY <1>2, <1>3, <2>1 DEF A!SecondKey, Types, EpochAfter
  <2>2. CASE out = None /\ A!Learn(p)
    BY <1>2, <1>3, <2>2 DEF A!Learn, Types, EpochAfter
  <2>3. CASE out = None /\ UNCHANGED <<held, known>>
    BY <1>2, <1>3, <2>3 DEF Types, EpochAfter, OneBehind
  <2> QED BY <1>1, <2>1, <2>2, <2>3 DEF Agrees
<1> HIDE DEF r
<1>7. /\ Moves(state[p], r.state) /\ r.state.epoch = EpochAfter(state[p], out)
      /\ r.key.dir = Opposite(state[p].direction) /\ Spent(r.state, r.key)
  BY <1>5 DEF Gives, Yields
<1>8. r.state \in SparseState /\ Sound(r.state) /\ state[p].epoch <= r.state.epoch
  BY <1>2, <1>3, <1>7 DEF Moves, Sound, EpochAfter
<1>9. /\ state' \in [Party -> SparseState] /\ state'[p] = r.state
      /\ \A q \in Party : q # p => state'[q] = state[q]
  BY <1>1, <1>2, <1>8 DEF Types
<1>10. /\ accepted' \in [Party -> SUBSET Message] /\ accepted'[p] = accepted[p] \cup {m}
       /\ \A q \in Party : q # p => accepted'[q] = accepted[q]
  BY <1>1, <1>2, <1>4 DEF Types
<1>11. Types'
  BY <1>1, <1>2, <1>6, <1>9, <1>10 DEF Types
<1>12. OneBehind(p)' /\ InStep(p)'
  BY <1>3, <1>6, <1>7, <1>8, <1>9 DEF OneBehind, InStep, Moves, Dir
<1>13. SentIsSealed(p)'
  <2> SUFFICES ASSUME NEW x \in sent[p]
               PROVE  x.key.dir = Dir(p) /\ Len(x.key.root) = x.epoch /\ Sealed(r.state, x.key)
    BY <1>1, <1>9 DEF SentIsSealed, Dir, Sealed
  <2>1. x.key \in ChainKey
    BY <1>2 DEF Types, Message
  <2> QED BY <1>3, <1>7, <1>8, <2>1, MovesSealed DEF SentIsSealed
<1>14. AcceptedIsSpent(p)'
  <2> SUFFICES ASSUME NEW x \in accepted[p] \cup {m}
               PROVE  x.key.dir = Opposite(Dir(p)) /\ Spent(r.state, x.key)
    BY <1>9, <1>10 DEF AcceptedIsSpent, Dir, Opposite, Spent
  <2>1. CASE x = m
    BY <1>1, <1>3, <1>7, <2>1
  <2>2. CASE x \in accepted[p]
    <3>1. x.key \in ChainKey
      BY <1>2, <2>2 DEF Types, Message
    <3> QED BY <1>3, <1>7, <2>2, <3>1 DEF AcceptedIsSpent, Moves, Forgets
  <2> QED BY <2>1, <2>2
<1>15. ASSUME NEW q \in Party, q # p
       PROVE  (OneBehind(q) /\ InStep(q) /\ SentIsSealed(q) /\ AcceptedIsSpent(q))'
  <2>1. OneBehind(q) /\ InStep(q) /\ SentIsSealed(q) /\ AcceptedIsSpent(q)
    BY DEF SInv
  <2>2. /\ held'[q] = held[q] /\ known'[q] = known[q] /\ state'[q] = state[q]
        /\ sent'[q] = sent[q] /\ accepted'[q] = accepted[q]
    BY <1>1, <1>6, <1>9, <1>10, <1>15
  <2> QED BY <2>1, <2>2
          DEF OneBehind, InStep, SentIsSealed, AcceptedIsSpent, Dir, Opposite, Sealed, Spent
<1> QED BY <1>11, <1>12, <1>13, <1>14, <1>15 DEF SInv

\* The invariant holds in every reachable state.
LEMMA Invariance == Spec => []SInv
<1>1. Init => SInv
  BY InitSInv
<1>2. SInv /\ [Next]_vars => SInv'
  <2> SUFFICES ASSUME SInv, [Next]_vars PROVE SInv'
    OBVIOUS
  <2>1. ASSUME UNCHANGED vars PROVE SInv'
    BY <2>1 DEF vars, SInv, Types, OneBehind, InStep, SentIsSealed, AcceptedIsSpent
  <2>2. ASSUME NEW p \in Party, NEW out \in Outputs(p), Encrypt(p, out) PROVE SInv'
    BY <2>2, EncryptKeeps
  <2>3. ASSUME NEW p \in Party, NEW out \in Outputs(p), NEW m \in sent[Peer(p)],
               Decrypt(p, m, out)
        PROVE  SInv'
    BY <2>3, DecryptKeeps
  <2>4. ASSUME NEW p \in Party, NEW out \in Outputs(p), NEW m \in sent[Peer(p)],
               Refuse(p, m, out)
        PROVE  SInv'
    BY <2>1, <2>4 DEF Refuse
  <2> QED BY <2>1, <2>2, <2>3, <2>4 DEF Next
<1> QED BY <1>1, <1>2, PTL DEF Spec

-----------------------------------------------------------------------------
(* The ratchet keeps pace with the agreement *)

\* The epoch reported, one behind at most, is in the window and so has its chains.
LEMMA ReportedOpen ==
  ASSUME NEW s, Sound(s), NEW e \in Nat, e <= s.epoch, s.epoch <= e + 1
  PROVE  e \in DOMAIN s.chains
<1>1. s.epoch \in Nat /\ s.epoch < U64_MAX /\ U64_MAX \in Nat
  BY BoundsAssumption DEF Sound, SparseState
<1>2. InWindow(e, s.epoch)
  BY <1>1, BoundsAssumption DEF InWindow, saturating_add
<1> QED BY <1>2 DEF Sound, WindowOpen

\* A send is refused only by the chain.
Sendable(s, e, out) ==
  LET r == send(s, e, out)
  IN  r.ok \/ (r.err = "ChainExhausted" /\ s.chains[e].send.n = U64_MAX)

\* Where the agreement's key is the next one and not at the ceiling, a send on the
\* reported epoch succeeds.
LEMMA SendSucceeds ==
  ASSUME NEW s, Sound(s), NEW e \in Nat, NEW out \in Output \cup {None},
         e <= s.epoch, EpochAfter(s, out) <= e + 1,
         out # None => out.key_epoch = s.epoch + 1 /\ s.epoch + 1 < U64_MAX
  PROVE  Sendable(s, e, out)
<1> DEFINE adv == maybe_advance(s, out)
           st == adv.state
           ch == st.chains[e].send
<1>1. s.epoch \in Nat /\ U64_MAX \in Nat
  BY BoundsAssumption DEF Sound, SparseState
<1>2. adv.ok
  BY <1>1 DEF maybe_advance, advance, Ok
<1>3. Moves(s, st) /\ st.epoch = EpochAfter(s, out)
  BY <1>2, MaybeAdvanceMoves DEF EpochAfter
<1>4. send(s, e, out) =
        IF e \notin DOMAIN st.chains THEN Err("NoChain", st)
        ELSE IF ch.n = U64_MAX THEN Err("ChainExhausted", st)
        ELSE Ok([st EXCEPT !.chains[e].send = StepTo(ch, ch.n + 1)], MessageKey(ch, ch.n + 1))
  BY <1>2 DEF send
<1> HIDE DEF adv, st
<1>5. e <= st.epoch /\ Sound(st)
  BY <1>1, <1>3 DEF EpochAfter, Moves
<1>6. e \in DOMAIN st.chains
  BY <1>3, <1>5, ReportedOpen
<1>7. ch = s.chains[e].send
  BY <1>1, <1>3, <1>6 DEF Moves, SendsKept
<1>8. CASE ch.n = U64_MAX
  BY <1>4, <1>6, <1>7, <1>8 DEF Sendable, Err
<1>9. CASE ch.n # U64_MAX
  BY <1>4, <1>6, <1>9 DEF Sendable, Ok
<1> QED BY <1>8, <1>9

\* KeepsPace, for all bounds: at any time both parties can be stored and restored
\* (State::invariant), the ratchet has folded in exactly the agreement's keys, and a
\* send finds the chain of the epoch the agreement reports (State::send).
THEOREM RatchetKeepsPace == Spec => []KeepsPace
<1>1. SInv => KeepsPace
  <2> SUFFICES ASSUME SInv PROVE KeepsPace
    OBVIOUS
  <2>1. Restorable
    BY DEF SInv, InStep, Sound, Restorable
  <2>2. ASSUME NEW p \in Party, NEW out \in Outputs(p), out # None => A!MayBegin(p)
        PROVE  Sendable(state[p], known[p], out)
    <3>1. /\ held[p] \in Nat /\ known[p] \in Nat /\ out \in Output \cup {None}
          /\ OneBehind(p) /\ Sound(state[p]) /\ state[p].epoch = held[p]
      BY OutputTypes DEF SInv, Types, InStep
    <3>2. CASE out = None
      BY <3>1, <3>2, SendSucceeds DEF OneBehind, EpochAfter
    <3>3. CASE out # None
      <4>1. known[p] = held[p] /\ held[p] <= LastEpoch
        BY <2>2, <3>3 DEF A!MayBegin, A!Party, Party
      <4>2. out.key_epoch = held[p] + 1
        BY <3>3 DEF Outputs, OutputOf
      <4>3. held[p] + 1 < U64_MAX
        BY <3>1, <4>1, BoundsAssumption, PartyAssumption
      <4> QED BY <3>1, <3>3, <4>1, <4>2, <4>3, SendSucceeds DEF EpochAfter
    <3> QED BY <3>2, <3>3
  <2>3. SendAlwaysPossible
    BY <2>2 DEF SendAlwaysPossible, Sendable
  <2> QED BY <2>1, <2>3 DEF KeepsPace
<1> QED BY <1>1, Invariance, PTL

-----------------------------------------------------------------------------
(* What was used or retired is gone *)

\* What is left to derive from a sound state: in the other direction the keys that are
\* not spent, in its own those its chains have not passed, and only of epochs in the
\* window.
LEMMA NotDerivable ==
  ASSUME SInv, NEW p \in Party, NEW key \in ChainKey,
         \/ key.dir = Opposite(Dir(p)) /\ Spent(state[p], key)
         \/ key.dir = Dir(p) /\ Sealed(state[p], key)
         \/ ~InWindow(Len(key.root), state[p].epoch)
  PROVE  ~Derivable(p, key)
<1> DEFINE s == state[p]
<1>1. /\ Sound(s) /\ s.direction = Dir(p) /\ s.chains \in Chains
  BY DEF SInv, InStep, Sound, SparseState
<1>2. Opposite(Dir(p)) # Dir(p)
  BY DEF Opposite, Dir
<1>3. \A e \in DOMAIN s.chains :
        /\ s.chains[e].send.ck.dir = Dir(p) /\ s.chains[e].receive.ck.dir = Opposite(Dir(p))
        /\ Len(s.chains[e].send.ck.root) = e /\ Len(s.chains[e].receive.ck.root) = e
        /\ InWindow(e, s.epoch)
        /\ s.chains[e].send.n \in Nat /\ s.chains[e].receive.n \in Nat
  BY <1>1, ChainTypes DEF Sound, ChainsOrdered, invariant, ChainsInWindow
<1>4. \A x \in s.skipped : /\ x.epoch \in DOMAIN s.chains /\ x.key.dir = Opposite(Dir(p))
                           /\ x.key.root = s.chains[x.epoch].receive.ck.root
  BY <1>1 DEF Sound, StoreOrdered, invariant, SkippedHaveChains
<1>5. key.step \in Nat
  BY DEF ChainKey
<1> HIDE DEF s
<1>6. CASE key.dir = Opposite(Dir(p)) /\ Spent(s, key)
  <2>1. \A x \in s.skipped : x.key # key
    BY <1>6 DEF Spent
  <2>2. ASSUME NEW e \in DOMAIN s.chains, NEW ch \in {s.chains[e].send, s.chains[e].receive},
               ch.ck.root = key.root, ch.ck.dir = key.dir, ch.n < key.step
        PROVE  FALSE
    <3>1. ch = s.chains[e].receive
      BY <1>2, <1>3, <1>6, <2>2
    <3>2. s.chains[e].receive.n >= key.step
      BY <1>6, <2>2, <3>1 DEF Spent
    <3>3. s.chains[e].receive.n \in Nat
      BY <1>3
    <3> QED BY <1>5, <2>2, <3>1, <3>2, <3>3
  <2> QED BY <2>1, <2>2 DEF Derivable, s
<1>7. CASE key.dir = Dir(p) /\ Sealed(s, key)
  <2>1. \A x \in s.skipped : x.key # key
    BY <1>2, <1>4, <1>7
  <2>2. ASSUME NEW e \in DOMAIN s.chains, NEW ch \in {s.chains[e].send, s.chains[e].receive},
               ch.ck.root = key.root, ch.ck.dir = key.dir, ch.n < key.step
        PROVE  FALSE
    <3>1. ch = s.chains[e].send
      BY <1>2, <1>3, <1>7, <2>2
    <3>2. s.chains[e].send.n >= key.step
      BY <1>7, <2>2, <3>1 DEF Sealed
    <3>3. s.chains[e].send.n \in Nat
      BY <1>3
    <3> QED BY <1>5, <2>2, <3>1, <3>2, <3>3
  <2> QED BY <2>1, <2>2 DEF Derivable, s
<1>8. CASE ~InWindow(Len(key.root), s.epoch)
  <2>1. \A x \in s.skipped : x.key # key
    BY <1>3, <1>4, <1>8
  <2>2. ASSUME NEW e \in DOMAIN s.chains, NEW ch \in {s.chains[e].send, s.chains[e].receive},
               ch.ck.root = key.root
        PROVE  FALSE
    BY <1>3, <1>8, <2>2
  <2> QED BY <2>1, <2>2 DEF Derivable, s
<1> QED BY <1>6, <1>7, <1>8 DEF s

\* ForgetsUsed, for all bounds: a message decrypts at most once, and no state derives
\* the key of a message its party sent or accepted, nor a key of an epoch that left the
\* window (State::receive, clear_old_epochs, Session::decrypt_ratchet's eviction).
THEOREM UsedIsForgotten == Spec => []ForgetsUsed
<1>1. SInv => ForgetsUsed
  <2> SUFFICES ASSUME SInv PROVE ForgetsUsed
    OBVIOUS
  <2>1. \A p \in Party :
          /\ \A m \in sent[p] : m \in Message /\ m.key \in ChainKey
          /\ \A m \in accepted[p] : m \in Message /\ m.key \in ChainKey
    BY DEF SInv, Types, Message
  <2>2. ASSUME NEW p \in Party, NEW m \in accepted[p], NEW out \in Outputs(p), Decrypts(p, m, out)
        PROVE  FALSE
    <3>1. Sound(state[p]) /\ out \in Output \cup {None} /\ Spent(state[p], m.key)
      BY OutputTypes DEF SInv, InStep, AcceptedIsSpent
    <3>2. Candidate(p, m, out).ok /\ Candidate(p, m, out).key = m.key
      BY <2>2 DEF Decrypts
    <3>3. Gives(state[p], out, Candidate(p, m, out))
      BY <2>1, <3>1, <3>2, CandidateGives DEF Candidate
    <3> QED BY <3>1, <3>2, <3>3 DEF Gives, Yields
  <2>3. ASSUME NEW p \in Party, NEW m \in accepted[p] PROVE ~Derivable(p, m.key)
    BY <2>1, NotDerivable DEF SInv, AcceptedIsSpent
  <2>4. ASSUME NEW p \in Party, NEW m \in sent[p] PROVE ~Derivable(p, m.key)
    BY <2>1, NotDerivable DEF SInv, SentIsSealed
  <2>5. ASSUME NEW p \in Party, NEW m \in sent[Peer(p)], ~InWindow(m.epoch, state[p].epoch)
        PROVE  ~Derivable(p, m.key)
    <3>1. Len(m.key.root) = m.epoch /\ m.key \in ChainKey
      BY <2>1, PeerParty DEF SInv, SentIsSealed
    <3> QED BY <2>5, <3>1, NotDerivable
  <2> QED BY <2>2, <2>3, <2>4, <2>5 DEF ForgetsUsed, NoReplay, ForwardSecrecy
<1> QED BY <1>1, Invariance, PTL

-----------------------------------------------------------------------------
(* Genuine messages decrypt: eviction *)

\* Among entries with distinct places, evict_oldest leaves no more than the rest: an
\* entry left has at least `count` before it, and no two have equally many.
LEMMA EvictionMakesRoom ==
  ASSUME NEW S, IsFiniteSet(S), \A x \in S : x.pos \in Nat,
         \A x, y \in S : x.pos = y.pos => x = y,
         NEW count \in Nat, count <= Cardinality(S)
  PROVE  Cardinality({x \in S : Cardinality({y \in S : y.pos < x.pos}) >= count})
           <= Cardinality(S) - count
<1> DEFINE Before(x) == {y \in S : y.pos < x.pos}
           left == {x \in S : Cardinality(Before(x)) >= count}
           ranks == count..(Cardinality(S) - 1)
           rank == [x \in left |-> Cardinality(Before(x))]
<1>1. Cardinality(S) \in Nat
  BY FS_CardinalityType
<1>2. \A x \in S : /\ IsFiniteSet(Before(x)) /\ Cardinality(Before(x)) \in Nat
                   /\ Cardinality(Before(x)) < Cardinality(S)
  <2> SUFFICES ASSUME NEW x \in S
               PROVE  /\ IsFiniteSet(Before(x)) /\ Cardinality(Before(x)) \in Nat
                      /\ Cardinality(Before(x)) < Cardinality(S)
    OBVIOUS
  <2>1. Before(x) \in SUBSET S /\ x \notin Before(x)
    OBVIOUS
  <2> HIDE DEF Before
  <2>2. /\ IsFiniteSet(Before(x)) /\ Cardinality(Before(x)) <= Cardinality(S)
        /\ Cardinality(S) = Cardinality(Before(x)) => S = Before(x)
    BY <2>1, FS_Subset
  <2>3. Cardinality(Before(x)) \in Nat
    BY <2>2, FS_CardinalityType
  <2> QED BY <1>1, <2>1, <2>2, <2>3
<1>3. ASSUME NEW x \in S, NEW y \in S, x.pos < y.pos
      PROVE  Cardinality(Before(x)) < Cardinality(Before(y))
  <2>1. Before(x) \in SUBSET Before(y) /\ x \in Before(y) /\ x \notin Before(x)
    BY <1>3
  <2>2. IsFiniteSet(Before(y)) /\ Cardinality(Before(x)) \in Nat /\ Cardinality(Before(y)) \in Nat
    BY <1>2
  <2> HIDE DEF Before
  <2>3. /\ Cardinality(Before(x)) <= Cardinality(Before(y))
        /\ Cardinality(Before(y)) = Cardinality(Before(x)) => Before(y) = Before(x)
    BY <2>1, <2>2, FS_Subset
  <2> QED BY <2>1, <2>2, <2>3
<1>4. \A x, y \in left : Cardinality(Before(x)) = Cardinality(Before(y)) => x = y
  <2> SUFFICES ASSUME NEW x \in left, NEW y \in left, x # y
               PROVE  Cardinality(Before(x)) # Cardinality(Before(y))
    OBVIOUS
  <2>1. x \in S /\ y \in S /\ x.pos # y.pos
    OBVIOUS
  <2>2. x.pos < y.pos \/ y.pos < x.pos
    BY <2>1
  <2>3. Cardinality(Before(x)) \in Nat /\ Cardinality(Before(y)) \in Nat
    BY <1>2, <2>1
  <2> HIDE DEF Before, left
  <2> QED BY <1>3, <2>1, <2>2, <2>3
<1>5. \A x \in left : Cardinality(Before(x)) \in ranks
  <2> SUFFICES ASSUME NEW x \in left PROVE Cardinality(Before(x)) \in ranks
    OBVIOUS
  <2>1. /\ x \in S /\ Cardinality(Before(x)) >= count
        /\ Cardinality(Before(x)) \in Nat /\ Cardinality(Before(x)) < Cardinality(S)
    BY <1>2
  <2> HIDE DEF Before, left
  <2> QED BY <1>1, <2>1
<1> HIDE DEF Before, left, ranks
<1>6. rank \in Injection(left, ranks)
  <2>1. rank \in [left -> ranks]
    BY <1>5
  <2>2. \A x, y \in left : rank[x] = rank[y] => x = y
    BY <1>4
  <2> QED BY <2>1, <2>2 DEF Injection, IsInjective
<1>7. IsFiniteSet(ranks) /\ Cardinality(ranks) = Cardinality(S) - count
  <2>1. count \in Int /\ Cardinality(S) - 1 \in Int
    BY <1>1
  <2>2. /\ IsFiniteSet(ranks)
        /\ Cardinality(ranks)
             = IF count > Cardinality(S) - 1 THEN 0 ELSE Cardinality(S) - 1 - count + 1
    BY <2>1, FS_Interval DEF ranks
  <2> QED BY <1>1, <2>2
<1>8. Cardinality(left) <= Cardinality(S) - count
  BY <1>6, <1>7, FS_Injection
<1> QED BY <1>8 DEF left, Before

-----------------------------------------------------------------------------
(* Genuine messages decrypt: what a state can still read *)

\* The keys of epoch e, which both parties derive from the same secrets.
RootOf(e) == [i \in 1..e |-> i]

Key(e, dir, n) == [root |-> RootOf(e), dir |-> dir, step |-> n]

\* The roots are those of their epochs, no chain is past its last number, and each
\* stored key has a place of its own.
Placed(s) ==
  /\ s.rk = RootOf(s.epoch)
  /\ \A e \in DOMAIN s.chains :
       /\ s.chains[e].send.ck.root = RootOf(e) /\ s.chains[e].receive.ck.root = RootOf(e)
       /\ s.chains[e].send.n <= U64_MAX
  /\ \A x \in s.skipped : x.pos <= s.pushed
  /\ \A x, y \in s.skipped : x.pos = y.pos => x = y

Stored(s, e, n) == \E x \in s.skipped : x.epoch = e /\ x.n = n

\* A state with chains of epoch e can read the message numbered n.
Readable(s, e, n) ==
  e \in DOMAIN s.chains => s.chains[e].receive.n < n \/ Stored(s, e, n)

ReceivedTo(s, e) == IF e \in DOMAIN s.chains THEN s.chains[e].receive.n ELSE 0

Number == Nat \ {0}

\* From s to t only stored keys were lost, and no receiving chain moved.
Thins(s, t) ==
  /\ Placed(t) /\ t.skipped \subseteq s.skipped
  /\ \A e \in Nat, n \in Number : Readable(s, e, n) => Readable(t, e, n) \/ Stored(s, e, n)
  /\ \A e \in DOMAIN t.chains : ReceivedTo(t, e) = ReceivedTo(s, e)

\* From s to t the message numbered n of epoch e was read, and no key lost.
Reads(s, t, e, n) ==
  /\ Placed(t)
  /\ \A f \in Nat, i \in Number :
       Readable(s, f, i) => Readable(t, f, i) \/ (f = e /\ i = n)
  /\ \A f \in DOMAIN t.chains :
       ReceivedTo(t, f) = ReceivedTo(s, f) \/ (f = e /\ ReceivedTo(t, f) = n)

\* Both: what Session::decrypt_ratchet does.
Takes(s, t, e, n) ==
  /\ Placed(t)
  /\ \A f \in Nat, i \in Number :
       Readable(s, f, i) => Readable(t, f, i) \/ Stored(s, f, i) \/ (f = e /\ i = n)
  /\ \A f \in DOMAIN t.chains :
       ReceivedTo(t, f) = ReceivedTo(s, f) \/ (f = e /\ ReceivedTo(t, f) = n)

\* Losing keys and then reading.
LEMMA ThinsReads ==
  ASSUME NEW s, NEW t, NEW u, NEW e, NEW n, Thins(s, t), Reads(t, u, e, n),
         DOMAIN u.chains = DOMAIN t.chains
  PROVE  Takes(s, u, e, n)
BY DEF Thins, Reads, Takes

\* Deleting stored keys.
LEMMA FewerThins ==
  ASSUME NEW s, Sound(s), Placed(s), NEW T \in SUBSET s.skipped
  PROVE  Thins(s, [s EXCEPT !.skipped = T])
<1> DEFINE t == [s EXCEPT !.skipped = T]
<1>1. /\ t.skipped = T /\ t.chains = s.chains /\ t.rk = s.rk /\ t.epoch = s.epoch
      /\ t.pushed = s.pushed
  BY DEF Sound, SparseState
<1> HIDE DEF t
<1>2. Placed(t)
  BY <1>1 DEF Placed
<1> QED BY <1>1, <1>2 DEF Thins, Readable, Stored, ReceivedTo, t

-----------------------------------------------------------------------------
(* Genuine messages decrypt: the operations *)

\* The root after the next secret is the root of the next epoch.
LEMMA NextRoot ==
  ASSUME NEW e \in Nat
  PROVE  /\ RootOf(e) \in Root /\ Len(RootOf(e)) = e
         /\ Append(RootOf(e), e + 1) = RootOf(e + 1)
<1>1. RootOf(e) \in Seq(Nat) /\ Len(RootOf(e)) = e /\ RootOf(e + 1) \in Seq(Nat)
      /\ Len(RootOf(e + 1)) = e + 1
  BY DEF RootOf
<1> DEFINE a == Append(RootOf(e), e + 1)
           b == RootOf(e + 1)
<1>2. a \in Seq(Nat) /\ Len(a) = e + 1
  BY <1>1
<1>3. \A i \in 1..(e + 1) : a[i] = b[i]
  BY <1>1 DEF RootOf
<1>4. a = b
  BY <1>1, <1>2, <1>3
<1> QED BY <1>1, <1>4 DEF Root

\* What folding in the agreement's next key leaves of the older epochs.
Folds(s, t) ==
  /\ t.epoch = s.epoch + 1
  /\ t.skipped = {x \in s.skipped : InWindow(x.epoch, t.epoch)}
  /\ \A e \in DOMAIN t.chains :
       e \in DOMAIN s.chains \/ (t.chains[e].receive.n = 0 /\ t.chains[e].send.n = 0)
  /\ \A e \in DOMAIN s.chains : e \in DOMAIN t.chains => t.chains[e] = s.chains[e]
  /\ \A e \in DOMAIN s.chains : InWindow(e, t.epoch) <=> e \in DOMAIN t.chains

\* An advance opens the new epoch, retires the one outside the window, and loses no more.
LEMMA AdvanceThins ==
  ASSUME NEW s, Sound(s), Placed(s), advance(s, OutputOf(s.epoch + 1)).ok
  PROVE  LET t == advance(s, OutputOf(s.epoch + 1)).state
         IN  Folds(s, t) /\ Thins(s, t)
<1> DEFINE next == s.epoch + 1
           out == OutputOf(next)
           root == Append(s.rk, next)
           pair == OpenChains(root, s.direction)
           all == set_chains(s.chains, next, pair)
           wide == [s EXCEPT !.rk = root, !.epoch = next, !.chains = all]
           t == advance(s, out).state
           dom == {f \in DOMAIN all : InWindow(f, next)}
<1>1. /\ s \in SparseState /\ s.epoch \in Nat /\ s.chains \in Chains
      /\ \A e \in DOMAIN s.chains : e \in Nat /\ e <= s.epoch
  BY ChainTypes DEF Sound, SparseState, invariant, ChainsInWindow
<1>2. out.key = next /\ out.key_epoch = next
  BY DEF OutputOf
<1>3. t = clear_old_epochs(wide, next)
  BY <1>2 DEF advance, Ok, Err
<1>4. root = RootOf(next)
  BY <1>1, NextRoot DEF Placed
<1>5. /\ pair.send.ck.root = root /\ pair.receive.ck.root = root
      /\ pair.send.n = 0 /\ pair.receive.n = 0
  BY DEF OpenChains, Chain
<1> HIDE DEF pair, root
<1>6. /\ DOMAIN all = DOMAIN s.chains \cup {next} /\ all[next] = pair
      /\ next \notin DOMAIN s.chains
      /\ \A e \in DOMAIN s.chains : all[e] = s.chains[e]
  BY <1>1 DEF set_chains
<1>7. /\ wide.skipped = s.skipped /\ wide.chains = all /\ wide.epoch = next /\ wide.rk = root
      /\ wide.pushed = s.pushed
  BY <1>1 DEF SparseState
<1>8. /\ t.chains = [e \in dom |-> all[e]]
      /\ t.skipped = {x \in s.skipped : InWindow(x.epoch, next)}
      /\ t.epoch = next /\ t.rk = root /\ t.pushed = s.pushed
  <2>1. t = [wide EXCEPT !.chains = [e \in {f \in DOMAIN wide.chains : InWindow(f, next)} |->
                                       wide.chains[e]],
                         !.skipped = {x \in wide.skipped : InWindow(x.epoch, next)}]
    BY <1>1, <1>3, <1>7 DEF clear_old_epochs, SparseState
  <2> HIDE DEF t
  <2> QED BY <1>1, <1>7, <2>1 DEF SparseState
<1> HIDE DEF t, wide
<1>9. DOMAIN t.chains = dom /\ \A e \in dom : t.chains[e] = all[e]
  BY <1>8
<1>10. Folds(s, t)
  BY <1>5, <1>6, <1>8, <1>9 DEF Folds
<1>11. Placed(t)
  BY <1>4, <1>5, <1>6, <1>8, <1>9, BoundsAssumption DEF Placed
<1>12. ASSUME NEW e \in Nat, NEW n \in Number, Readable(s, e, n)
       PROVE  Readable(t, e, n) \/ Stored(s, e, n)
  BY <1>10, <1>12 DEF Readable, Stored, Folds, Number
<1>13. \A e \in DOMAIN t.chains : ReceivedTo(t, e) = ReceivedTo(s, e)
  BY <1>10 DEF Folds, ReceivedTo
<1>14. t.skipped \subseteq s.skipped
  BY <1>8
<1> QED BY <1>10, <1>11, <1>12, <1>13, <1>14 DEF Thins, t

\* maybe_advance: the same, or nothing.
MayFold(s, out, t) ==
  /\ Thins(s, t) /\ t.epoch = EpochAfter(s, out)
  /\ t.skipped \subseteq s.skipped
  /\ \A e \in DOMAIN t.chains :
       e \in DOMAIN s.chains \/ (t.chains[e].receive.n = 0 /\ t.chains[e].send.n = 0)
  /\ \A e \in DOMAIN s.chains : e \in DOMAIN t.chains => t.chains[e] = s.chains[e]
  /\ \A e \in DOMAIN s.chains : InWindow(e, t.epoch) <=> e \in DOMAIN t.chains
  /\ \A x \in s.skipped : InWindow(x.epoch, t.epoch) => x \in t.skipped

\* The agreement's next key, if any.
LEMMA MaybeAdvanceFolds ==
  ASSUME NEW s, Sound(s), Placed(s), NEW out \in {None, OutputOf(s.epoch + 1)},
         maybe_advance(s, out).ok
  PROVE  MayFold(s, out, maybe_advance(s, out).state)
<1>1. CASE out = None
  <2>1. maybe_advance(s, out).state = s
    BY <1>1 DEF maybe_advance, Ok
  <2>2. \A e \in DOMAIN s.chains : InWindow(e, s.epoch)
    BY DEF Sound, invariant, ChainsInWindow
  <2>3. Thins(s, s)
    BY DEF Thins
  <2> QED BY <1>1, <2>1, <2>2, <2>3 DEF MayFold, EpochAfter
<1>2. CASE out # None
  <2> DEFINE t == advance(s, OutputOf(s.epoch + 1)).state
  <2>1. maybe_advance(s, out).state = t /\ advance(s, OutputOf(s.epoch + 1)).ok
    BY <1>2 DEF maybe_advance
  <2>2. Folds(s, t) /\ Thins(s, t)
    BY <2>1, AdvanceThins
  <2> HIDE DEF t
  <2> QED BY <1>2, <2>1, <2>2 DEF MayFold, Folds, EpochAfter
<1> QED BY <1>1, <1>2

\* try_skipped reads the message its entry names.
LEMMA TakeSkippedReads ==
  ASSUME NEW s, Sound(s), Placed(s), NEW x \in s.skipped
  PROVE  LET r == TakeSkipped(s, x)
         IN  /\ Reads(s, r.state, x.epoch, x.n) /\ DOMAIN r.state.chains = DOMAIN s.chains
             /\ r.key = Key(x.epoch, Opposite(s.direction), x.n)
<1> DEFINE t == [s EXCEPT !.skipped = s.skipped \ {x}]
<1>1. /\ TakeSkipped(s, x).state = t /\ TakeSkipped(s, x).key = x.key
      /\ t.skipped = s.skipped \ {x} /\ t.chains = s.chains /\ t.epoch = s.epoch
      /\ t.rk = s.rk /\ t.pushed = s.pushed
  BY DEF TakeSkipped, Ok, Sound, SparseState
<1> HIDE DEF t
<1>2. Placed(t)
  BY <1>1 DEF Placed
<1>3. \A f \in Nat, i \in Number :
         Readable(s, f, i) => Readable(t, f, i) \/ (f = x.epoch /\ i = x.n)
  BY <1>1 DEF Readable, Stored
<1>4. x.key = Key(x.epoch, Opposite(s.direction), x.n)
  <2>1. /\ x.key \in ChainKey /\ x.key.root = RootOf(x.epoch)
        /\ x.key.dir = Opposite(s.direction) /\ x.key.step = x.n
    BY DEF Sound, StoreOrdered, invariant, SkippedHaveChains, Placed, SparseState, Entry
  <2> QED BY <2>1 DEF ChainKey, Key
<1> QED BY <1>1, <1>2, <1>3, <1>4 DEF Reads, ReceivedTo

\* A receiving chain stepped to number n, with the keys passed stored.
StepsTo(s, t, e, n) ==
  /\ e \in DOMAIN s.chains /\ DOMAIN t.chains = DOMAIN s.chains
  /\ \A f \in DOMAIN s.chains : /\ t.chains[f].send = s.chains[f].send
                                /\ t.chains[f].receive.ck.root = s.chains[f].receive.ck.root
                                /\ f # e => t.chains[f] = s.chains[f]
  /\ s.chains[e].receive.n < n /\ t.chains[e].receive.n = n
  /\ t.rk = s.rk /\ t.epoch = s.epoch
  /\ s.skipped \subseteq t.skipped /\ s.pushed <= t.pushed /\ t.pushed \in Nat
  /\ \A x \in t.skipped \ s.skipped : s.pushed < x.pos /\ x.pos <= t.pushed
  /\ \A x, y \in t.skipped \ s.skipped : x.pos = y.pos => x = y
  /\ \A i \in Nat : s.chains[e].receive.n < i /\ i < n => Stored(t, e, i)

\* Such a step reads the message numbered n.
LEMMA StepReads ==
  ASSUME NEW s, Sound(s), Placed(s), NEW t, NEW e \in Nat, NEW n \in Number, StepsTo(s, t, e, n)
  PROVE  Reads(s, t, e, n)
<1>1. /\ s.skipped \subseteq Entry /\ s.pushed \in Nat /\ s.chains \in Chains
      /\ \A f \in DOMAIN s.chains : s.chains[f].receive.n \in Nat
  BY ChainTypes DEF Sound, SparseState
<1>2. Placed(t)
  <2>1. \A x \in t.skipped : x.pos <= t.pushed
    BY <1>1 DEF StepsTo, Placed, Entry
  <2>2. \A x, y \in t.skipped : x.pos = y.pos => x = y
    <3> SUFFICES ASSUME NEW x \in t.skipped, NEW y \in t.skipped, x.pos = y.pos PROVE x = y
      OBVIOUS
    <3>1. \A z \in s.skipped : z.pos \in Nat /\ z.pos <= s.pushed
      BY <1>1 DEF Placed, Entry
    <3>2. CASE x \in s.skipped /\ y \in s.skipped
      BY <3>2 DEF Placed
    <3>3. CASE x \notin s.skipped /\ y \notin s.skipped
      BY <3>3 DEF StepsTo
    <3>4. CASE x \in s.skipped /\ y \notin s.skipped
      <4>1. s.pushed < y.pos /\ x.pos <= s.pushed /\ x.pos \in Nat
        BY <3>1, <3>4 DEF StepsTo
      <4> QED BY <1>1, <4>1
    <3>5. CASE x \notin s.skipped /\ y \in s.skipped
      <4>1. s.pushed < x.pos /\ y.pos <= s.pushed /\ y.pos \in Nat
        BY <3>1, <3>5 DEF StepsTo
      <4> QED BY <1>1, <4>1
    <3> QED BY <3>2, <3>3, <3>4, <3>5
  <2> QED BY <2>1, <2>2 DEF StepsTo, Placed
<1>3. ASSUME NEW f \in Nat, NEW i \in Number, Readable(s, f, i), ~(f = e /\ i = n)
      PROVE  Readable(t, f, i)
  <2>1. CASE f # e
    BY <1>3, <2>1 DEF Readable, Stored, StepsTo
  <2>2. CASE f = e
    <3>1. CASE Stored(s, e, i)
      BY <2>2, <3>1 DEF Readable, Stored, StepsTo
    <3>2. CASE s.chains[e].receive.n < i
      <4>1. CASE i < n
        BY <2>2, <3>2, <4>1 DEF Readable, StepsTo, Number
      <4>2. CASE n < i
        BY <2>2, <4>2 DEF Readable, StepsTo
      <4> QED BY <1>3, <2>2, <4>1, <4>2 DEF Number
    <3> QED BY <1>3, <2>2, <3>1, <3>2 DEF Readable, StepsTo
  <2> QED BY <2>1, <2>2
<1>4. \A f \in DOMAIN t.chains :
        ReceivedTo(t, f) = ReceivedTo(s, f) \/ (f = e /\ ReceivedTo(t, f) = n)
  BY DEF StepsTo, ReceivedTo
<1> QED BY <1>2, <1>3, <1>4 DEF Reads

\* skip_message_keys keeps the keys it had, and has those it passed.
SkipsTo(s, t, e, upto) ==
  /\ e \in DOMAIN s.chains /\ DOMAIN t.chains = DOMAIN s.chains
  /\ t \in SparseState
  /\ t.chains[e].receive = StepTo(s.chains[e].receive, upto)
  /\ \A f \in DOMAIN s.chains : /\ t.chains[f].send = s.chains[f].send
                                /\ f # e => t.chains[f] = s.chains[f]
  /\ t.rk = s.rk /\ t.epoch = s.epoch /\ t.direction = s.direction
  /\ s.skipped \subseteq t.skipped /\ s.pushed <= t.pushed
  /\ \A x \in t.skipped \ s.skipped : s.pushed < x.pos /\ x.pos <= t.pushed
  /\ \A x, y \in t.skipped \ s.skipped : x.pos = y.pos => x = y
  /\ \A i \in Nat : s.chains[e].receive.n < i /\ i <= upto => Stored(t, e, i)

\* A skip that succeeds stores every key up to the number and moves the chain there.
LEMMA SkipGoes ==
  ASSUME NEW s, Sound(s), NEW e \in Nat, NEW upto \in Nat, e \in DOMAIN s.chains,
         s.chains[e].receive.n < upto, skip_message_keys(s, e, upto).ok
  PROVE  SkipsTo(s, skip_message_keys(s, e, upto).state, e, upto)
<1> DEFINE ch == s.chains[e].receive
           count == upto - ch.n
           kept == {x \in s.skipped : ~(x.epoch = e /\ ch.n < x.n /\ x.n <= upto)}
           new == DerivedEntries(e, ch, upto, s.pushed)
           d == [s.chains EXCEPT ![e].receive = StepTo(ch, upto)]
           t == skip_message_keys(s, e, upto).state
           entry(i) == [epoch |-> e, n |-> i, key |-> MessageKey(ch, i), pos |-> s.pushed + (i - ch.n)]
<1>1. /\ s \in SparseState /\ s.chains \in Chains /\ s.skipped \subseteq Entry /\ s.pushed \in Nat
  BY DEF Sound, SparseState
<1>2. ch \in ChainState /\ ch.n \in Nat /\ ch.ck \in ChainKey
  BY <1>1, ChainTypes
<1>3. t = [s EXCEPT !.skipped = kept \cup new, !.pushed = @ + count,
                    !.chains[e].receive = StepTo(ch, upto)]
  BY <1>2 DEF skip_message_keys, Ok, Err
<1>4. count \in Nat /\ s.pushed + count \in Nat
  BY <1>1, <1>2
<1>5. kept = s.skipped
  <2> SUFFICES ASSUME NEW x \in s.skipped, x.epoch = e, ch.n < x.n PROVE FALSE
    OBVIOUS
  <2>1. x.n \in Nat /\ x.n <= ch.n
    BY <1>1 DEF Sound, StoreOrdered, Entry
  <2> QED BY <1>2, <2>1
<1>6. StepTo(ch, upto) \in ChainState
  BY <1>2 DEF StepTo, ChainState, ChainKey
<1>7. /\ d \in Chains /\ DOMAIN d = DOMAIN s.chains
      /\ d[e].receive = StepTo(ch, upto) /\ d[e].send = s.chains[e].send
      /\ \A f \in DOMAIN s.chains : f # e => d[f] = s.chains[f]
  <2> DEFINE to == StepTo(ch, upto)
  <2>1. to \in ChainState
    BY <1>6
  <2> HIDE DEF to
  <2> SUFFICES LET c == [s.chains EXCEPT ![e].receive = to]
               IN  /\ c \in Chains /\ DOMAIN c = DOMAIN s.chains
                   /\ c[e].receive = to /\ c[e].send = s.chains[e].send
                   /\ \A f \in DOMAIN s.chains : f # e => c[f] = s.chains[f]
    BY DEF to
  <2> QED BY <1>1, <2>1, SetReceive
<1>8. new \subseteq Entry
  <2>1. Stretch(new, e, ch, upto)
    BY <1>1, <1>2, DerivedKeys
  <2> QED BY <2>1 DEF Stretch
<1>9. new = {entry(i) : i \in (ch.n + 1)..upto}
  BY DEF DerivedEntries
<1>10. t = [s EXCEPT !.skipped = s.skipped \cup new, !.pushed = s.pushed + count, !.chains = d]
  BY <1>1, <1>3, <1>5 DEF SparseState
<1> HIDE DEF d, new, kept, count, t
<1>11. /\ t \in SparseState /\ t.skipped = s.skipped \cup new /\ t.pushed = s.pushed + count
       /\ t.chains = d /\ t.rk = s.rk /\ t.epoch = s.epoch /\ t.direction = s.direction
  BY <1>1, <1>4, <1>7, <1>8, <1>10 DEF SparseState
<1>12. \A x \in new : s.pushed < x.pos /\ x.pos <= t.pushed
  <2> SUFFICES ASSUME NEW i \in (ch.n + 1)..upto
               PROVE  s.pushed < entry(i).pos /\ entry(i).pos <= t.pushed
    BY <1>9
  <2> QED BY <1>1, <1>2, <1>11 DEF count
<1>13. \A x, y \in new : x.pos = y.pos => x = y
  <2> SUFFICES ASSUME NEW i \in (ch.n + 1)..upto, NEW j \in (ch.n + 1)..upto,
                      entry(i).pos = entry(j).pos
               PROVE  entry(i) = entry(j)
    BY <1>9
  <2>1. i = j
    BY <1>1, <1>2
  <2> QED BY <2>1
<1>14. \A i \in Nat : ch.n < i /\ i <= upto => Stored(t, e, i)
  <2> SUFFICES ASSUME NEW i \in Nat, ch.n < i, i <= upto PROVE Stored(t, e, i)
    OBVIOUS
  <2>1. i \in (ch.n + 1)..upto
    BY <1>2
  <2>2. entry(i) \in new /\ entry(i).epoch = e /\ entry(i).n = i
    BY <1>9, <2>1
  <2> QED BY <1>11, <2>2 DEF Stored
<1>15. s.pushed <= t.pushed
  BY <1>1, <1>4, <1>11
<1> QED BY <1>7, <1>11, <1>12, <1>13, <1>14, <1>15 DEF SkipsTo, t

\* The next key of a chain, the ones before it stored: it reads the message numbered n.
ReadsNext(s, r, e, n) ==
  /\ Reads(s, r.state, e, n) /\ DOMAIN r.state.chains = DOMAIN s.chains
  /\ r.key = Key(e, Opposite(s.direction), n)

\* A key taken from the chain leaves the keys before it stored.
LEMMA TakeNextReads ==
  ASSUME NEW s, Sound(s), Placed(s), NEW e \in Nat, NEW n \in Number, TakeNext(s, e, n).ok
  PROVE  ReadsNext(s, TakeNext(s, e, n), e, n)
<1> DEFINE skip == skip_message_keys(s, e, n - 1)
           st == skip.state
           ch == st.chains[e].receive
           to == StepTo(ch, n)
           d == [st.chains EXCEPT ![e].receive = to]
           t == [st EXCEPT !.chains[e].receive = to]
           r == TakeNext(s, e, n)
<1>1. n \in Nat /\ n - 1 \in Nat
  BY DEF Number
<1>2. skip.ok
  BY DEF TakeNext, Number
<1>3. n = ch.n + 1 /\ r.state = t /\ r.key = MessageKey(ch, n)
  BY <1>2 DEF TakeNext, Ok, Err, Number
<1>4. e \in DOMAIN s.chains
  BY <1>2 DEF skip_message_keys, Err
<1>5. /\ s \in SparseState /\ s.chains \in Chains /\ s.skipped \subseteq Entry /\ s.pushed \in Nat
      /\ s.chains[e].receive \in ChainState /\ s.chains[e].receive.n \in Nat
      /\ s.chains[e].receive.ck \in ChainKey
  BY <1>4, ChainTypes DEF Sound, SparseState
<1>6. s.chains[e].receive.ck.root = RootOf(e) /\ s.chains[e].receive.ck.dir = Opposite(s.direction)
  BY <1>4 DEF Placed, Sound, ChainsOrdered
<1>7. CASE n - 1 <= s.chains[e].receive.n
  <2>1. st = s
    BY <1>4, <1>7 DEF skip_message_keys, Ok
  <2>2. StepsTo(s, t, e, n) /\ DOMAIN t.chains = DOMAIN s.chains
    <3>1. to \in ChainState /\ to.n = n /\ to.ck.root = ch.ck.root
      BY <1>1, <1>5, <2>1 DEF StepTo, ChainState, ChainKey
    <3>2. t = [s EXCEPT !.chains = d]
      BY <1>5, <2>1 DEF SparseState
    <3> HIDE DEF to
    <3>3. /\ DOMAIN d = DOMAIN s.chains
          /\ d[e].receive = to /\ d[e].send = s.chains[e].send
          /\ \A f \in DOMAIN s.chains : f # e => d[f] = s.chains[f]
      BY <1>4, <1>5, <2>1, <3>1, SetReceive
    <3> HIDE DEF d, t
    <3>4. /\ t.chains = d /\ t.skipped = s.skipped /\ t.pushed = s.pushed /\ t.rk = s.rk
          /\ t.epoch = s.epoch
      BY <1>5, <3>2 DEF SparseState
    <3> QED BY <1>1, <1>3, <1>4, <1>5, <2>1, <3>1, <3>3, <3>4 DEF StepsTo
  <2>3. r.key = Key(e, Opposite(s.direction), n)
    BY <1>3, <1>5, <1>6, <2>1, SMTT(60) DEF MessageKey, Key, ChainKey
  <2>4. Reads(s, t, e, n)
    BY <2>2, StepReads
  <2> QED BY <1>3, <2>2, <2>3, <2>4 DEF ReadsNext
<1>8. CASE ~(n - 1 <= s.chains[e].receive.n)
  <2>1. SkipsTo(s, st, e, n - 1)
    BY <1>1, <1>2, <1>4, <1>5, <1>8, SkipGoes
  <2> HIDE DEF skip, st
  <2>2. /\ st \in SparseState /\ st.chains \in Chains /\ st.pushed \in Nat
        /\ e \in DOMAIN st.chains /\ ch \in ChainState /\ ch.ck \in ChainKey /\ ch.n = n - 1
        /\ ch.ck.root = RootOf(e) /\ ch.ck.dir = Opposite(s.direction)
    BY <1>1, <1>5, <1>6, <2>1 DEF SkipsTo, StepTo, ChainState, ChainKey, SparseState
  <2>3. to \in ChainState /\ to.n = n /\ to.ck.root = ch.ck.root
    BY <1>1, <2>2 DEF StepTo, ChainState, ChainKey
  <2>4. t = [st EXCEPT !.chains = d]
    BY <2>2 DEF SparseState
  <2> HIDE DEF to
  <2>5. /\ DOMAIN d = DOMAIN st.chains
        /\ d[e].receive = to /\ d[e].send = st.chains[e].send
        /\ \A f \in DOMAIN st.chains : f # e => d[f] = st.chains[f]
    BY <2>2, <2>3, SetReceive
  <2> HIDE DEF d, t, ch
  <2>6. /\ t.chains = d /\ t.skipped = st.skipped /\ t.pushed = st.pushed /\ t.rk = st.rk
        /\ t.epoch = st.epoch
    BY <2>2, <2>4 DEF SparseState
  <2>7. \A i \in Nat : s.chains[e].receive.n < i /\ i < n => Stored(t, e, i)
    <3> SUFFICES ASSUME NEW i \in Nat, s.chains[e].receive.n < i, i < n PROVE Stored(t, e, i)
      OBVIOUS
    <3>1. i <= n - 1
      BY <1>1
    <3> QED BY <2>1, <2>6, <3>1 DEF SkipsTo, Stored
  <2>8. \A f \in DOMAIN s.chains : /\ t.chains[f].send = s.chains[f].send
                                   /\ t.chains[f].receive.ck.root = s.chains[f].receive.ck.root
                                   /\ f # e => t.chains[f] = s.chains[f]
    BY <1>6, <2>1, <2>2, <2>3, <2>5, <2>6 DEF SkipsTo
  <2>9. StepsTo(s, t, e, n) /\ DOMAIN t.chains = DOMAIN s.chains
    BY <1>1, <1>5, <1>8, <2>1, <2>2, <2>3, <2>5, <2>6, <2>7, <2>8 DEF StepsTo, SkipsTo
  <2>10. r.key = Key(e, Opposite(s.direction), n)
    BY <1>3, <2>2 DEF MessageKey, Key, ChainKey
  <2>11. Reads(s, t, e, n)
    BY <2>9, StepReads
  <2> QED BY <1>3, <2>9, <2>10, <2>11 DEF ReadsNext
<1> QED BY <1>7, <1>8

\* A successful receive reads the message its header names, with its key.
TakesKey(s, r, e, n) ==
  Takes(s, r.state, e, n) /\ r.key = Key(e, Opposite(s.direction), n)

\* State::receive, when it succeeds, takes the key of the number in the header.
LEMMA ReceiveTakes ==
  ASSUME NEW s, Sound(s), Placed(s), NEW e \in Nat, NEW n \in Number,
         NEW out \in {None, OutputOf(s.epoch + 1)}, out \in Output \cup {None},
         receive(s, e, out, n).ok
  PROVE  TakesKey(s, receive(s, e, out, n), e, n)
<1> DEFINE adv == maybe_advance(s, out)
           st == adv.state
           r == receive(s, e, out, n)
<1>1. adv.ok
  BY DEF receive
<1>2. Moves(s, st) /\ MayFold(s, out, st)
  BY <1>1, MaybeAdvanceMoves, MaybeAdvanceFolds
<1>3. r = IF Matches(st, e, n) # {} THEN TakeSkipped(st, FirstMatch(st, e, n))
                                    ELSE TakeNext(st, e, n)
  BY <1>1 DEF receive
<1>4. r.ok
  OBVIOUS
<1> HIDE DEF adv, st, r
<1>5. Sound(st) /\ Placed(st) /\ Thins(s, st) /\ st.direction = s.direction
  BY <1>2 DEF Moves, MayFold, Thins
<1>6. CASE Matches(st, e, n) # {}
  <2> DEFINE x == FirstMatch(st, e, n)
  <2>1. x \in st.skipped /\ x.epoch = e /\ x.n = n
    BY <1>5, <1>6, FirstMatchStored
  <2> HIDE DEF x
  <2>2. /\ Reads(st, TakeSkipped(st, x).state, e, n)
        /\ DOMAIN TakeSkipped(st, x).state.chains = DOMAIN st.chains
        /\ TakeSkipped(st, x).key = Key(e, Opposite(st.direction), n)
    BY <1>5, <2>1, TakeSkippedReads
  <2>3. r = TakeSkipped(st, x)
    BY <1>3, <1>6 DEF x
  <2> QED BY <1>5, <2>2, <2>3, ThinsReads DEF TakesKey, r
<1>7. CASE Matches(st, e, n) = {}
  <2>1. r = TakeNext(st, e, n)
    BY <1>3, <1>7
  <2>2. ReadsNext(st, r, e, n)
    BY <1>4, <1>5, <2>1, TakeNextReads
  <2> QED BY <1>5, <2>2, ThinsReads DEF TakesKey, ReadsNext, r
<1> QED BY <1>6, <1>7

\* The state left by evict_oldest: fewer keys, all else the same.
Thinned(s, u) ==
  /\ Sound(u) /\ Thins(s, u) /\ u.chains = s.chains /\ u.epoch = s.epoch
  /\ u.direction = s.direction

\* evict_oldest takes from the store alone, and keeps those with `count` older ones.
LEMMA EvictThins ==
  ASSUME NEW s, Sound(s), Placed(s), NEW count
  PROVE  /\ Thinned(s, evict_oldest(s, count))
         /\ evict_oldest(s, count).skipped
              = {x \in s.skipped : Cardinality({y \in s.skipped : y.pos < x.pos}) >= count}
<1> DEFINE T == {x \in s.skipped : Cardinality({y \in s.skipped : y.pos < x.pos}) >= count}
           u == evict_oldest(s, count)
<1>1. u = [s EXCEPT !.skipped = T]
  BY DEF evict_oldest, Sound, SparseState
<1>2. T \in SUBSET s.skipped
  OBVIOUS
<1>3. u.skipped = T /\ u.chains = s.chains /\ u.epoch = s.epoch /\ u.direction = s.direction
  BY <1>1 DEF Sound, SparseState
<1> HIDE DEF T
<1>4. Moves(s, [s EXCEPT !.skipped = T]) /\ Thins(s, [s EXCEPT !.skipped = T])
  BY <1>2, FewerKeys, FewerThins
<1> HIDE DEF u
<1>5. Thinned(s, u)
  BY <1>1, <1>3, <1>4 DEF Thinned, Moves
<1> QED BY <1>3, <1>5 DEF T, u

\* So does decrypt_ratchet's receive, which loses stored keys at most.
LEMMA CandidateTakes ==
  ASSUME NEW s, Sound(s), Placed(s), NEW m \in Message, m.n \in Number,
         NEW out \in {None, OutputOf(s.epoch + 1)}, out \in Output \cup {None},
         receive_with_eviction(s, m, out).ok
  PROVE  TakesKey(s, receive_with_eviction(s, m, out), m.epoch, m.n)
<1> DEFINE Attempt(z) == receive(z, m.epoch, out, m.n)
           r == receive_with_eviction(s, m, out)
<1>1. m.epoch \in Nat
  BY DEF Message
<1>2. r = Attempt(s) \/ \E count : r = Attempt(evict_oldest(s, count))
  BY DEF receive_with_eviction
<1>3. CASE r = Attempt(s)
  BY <1>1, <1>3, ReceiveTakes
<1>4. ASSUME NEW count, r = Attempt(evict_oldest(s, count))
      PROVE  TakesKey(s, r, m.epoch, m.n)
  <2> DEFINE u == evict_oldest(s, count)
  <2>1. Thinned(s, u)
    BY EvictThins
  <2>2. r = receive(u, m.epoch, out, m.n) /\ r.ok
    BY <1>4
  <2> HIDE DEF u, r
  <2>3. TakesKey(u, r, m.epoch, m.n)
    BY <1>1, <2>1, <2>2, ReceiveTakes DEF Thinned, Thins
  <2> QED BY <2>1, <2>3 DEF Thinned, Thins, TakesKey, Takes, Stored, ReceivedTo
<1> QED BY <1>2, <1>3, <1>4

\* The store is what refuses the message.
Full(s, r, e, n) ==
  /\ r.err = "SkippedStoreFull"
  /\ s.chains[e].receive.n < n - 1
  /\ Cardinality(s.skipped) + (n - 1 - s.chains[e].receive.n) > MAX_SKIPPED_STORE

\* A message that is readable, in the window and not too far ahead is read, or the
\* store is full.
LEMMA ReceiveFinds ==
  ASSUME NEW s, Sound(s), Placed(s), NEW e \in DOMAIN s.chains, NEW n \in Number, n <= U64_MAX,
         NEW out \in {None, OutputOf(s.epoch + 1)}, out \in Output \cup {None},
         out # None => s.epoch + 1 < U64_MAX,
         InWindow(e, EpochAfter(s, out)), Readable(s, e, n),
         n - 1 - s.chains[e].receive.n <= MAX_SKIP
  PROVE  LET r == receive(s, e, out, n)
         IN  (r.ok /\ r.err = "none") \/ Full(s, r, e, n)
<1> DEFINE adv == maybe_advance(s, out)
           st == adv.state
           r == receive(s, e, out, n)
           ch == s.chains[e].receive
<1>1. /\ s.epoch \in Nat /\ U64_MAX \in Nat /\ n \in Nat /\ n - 1 \in Nat /\ n > 0
      /\ ch.n \in Nat /\ MAX_SKIP \in Nat
  BY BoundsAssumption, ChainTypes DEF Sound, SparseState, Number
<1>2. adv.ok
  BY <1>1 DEF maybe_advance, advance, Ok, OutputOf
<1>3. MayFold(s, out, st) /\ Moves(s, st)
  BY <1>2, MaybeAdvanceMoves, MaybeAdvanceFolds
<1>4. r = IF Matches(st, e, n) # {} THEN TakeSkipped(st, FirstMatch(st, e, n))
                                    ELSE TakeNext(st, e, n)
  BY <1>2 DEF receive
<1> HIDE DEF adv, st
<1>5. e \in DOMAIN st.chains /\ st.chains[e].receive = ch /\ st.skipped \subseteq s.skipped
  BY <1>3 DEF MayFold
<1>6. CASE Matches(st, e, n) # {}
  BY <1>4, <1>6 DEF TakeSkipped, Ok
<1>7. CASE Matches(st, e, n) = {}
  <2>1. ch.n < n
    <3>1. ~Stored(s, e, n)
      BY <1>3, <1>7 DEF Stored, Matches, MayFold
    <3> QED BY <3>1 DEF Readable
  <2> DEFINE skip == skip_message_keys(st, e, n - 1)
             kept == {x \in st.skipped : ~(x.epoch = e /\ ch.n < x.n /\ x.n <= n - 1)}
             count == n - 1 - ch.n
  <2>2. r = IF ~skip.ok THEN skip
            ELSE IF skip.state.chains[e].receive.n = U64_MAX THEN Err("ChainExhausted", skip.state)
            ELSE IF n # skip.state.chains[e].receive.n + 1 THEN Err("OutOfOrder", skip.state)
            ELSE Ok([skip.state EXCEPT !.chains[e].receive = StepTo(skip.state.chains[e].receive, n)],
                    MessageKey(skip.state.chains[e].receive, n))
    BY <1>1, <1>4, <1>7, SMTT(60) DEF TakeNext
  <2>3. CASE n - 1 <= ch.n
    <3>1. skip = Ok(st, None)
      BY <1>5, <2>3 DEF skip_message_keys
    <3>2. skip.ok /\ skip.state.chains[e].receive.n = ch.n
      BY <1>5, <3>1 DEF Ok
    <3> HIDE DEF skip
    <3>3. ch.n # U64_MAX /\ n = ch.n + 1
      BY <1>1, <2>1, <2>3
    <3> QED BY <2>2, <3>2, <3>3 DEF Ok
  <2>4. CASE ~(n - 1 <= ch.n) /\ HasRoom(kept, count)
    <3>1. skip.ok
      BY <1>1, <1>5, <2>4 DEF skip_message_keys, Ok
    <3>2. SkipsTo(st, skip.state, e, n - 1)
      <4>1. Sound(st) /\ st.chains[e].receive.n < n - 1
        BY <1>1, <1>3, <1>5, <2>4 DEF Moves
      <4>2. e \in Nat
        BY ChainTypes DEF Sound, SparseState
      <4> QED BY <1>1, <1>5, <3>1, <4>1, <4>2, SkipGoes
    <3> HIDE DEF skip
    <3>3. skip.state.chains[e].receive.n = n - 1
      BY <3>2 DEF SkipsTo, StepTo
    <3>4. n - 1 # U64_MAX /\ n = n - 1 + 1
      BY <1>1
    <3> QED BY <2>2, <3>1, <3>3, <3>4 DEF Ok
  <2>5. CASE ~(n - 1 <= ch.n) /\ ~HasRoom(kept, count)
    <3>1. r.err = "SkippedStoreFull"
      <4>1. ~(count > MAX_SKIP)
        BY <1>1
      <4>2. skip = Err("SkippedStoreFull", st)
        BY <1>5, <2>5, <4>1 DEF skip_message_keys
      <4> HIDE DEF skip
      <4> QED BY <2>2, <4>2 DEF Err
    <3>2. kept \in SUBSET s.skipped /\ IsFiniteSet(s.skipped)
      BY <1>5 DEF Sound
    <3>3. ~(Cardinality(kept) + count <= MAX_SKIPPED_STORE) /\ count \in Nat
      BY <1>1, <2>5 DEF HasRoom
    <3> HIDE DEF kept, count
    <3>4. IsFiniteSet(kept) /\ Cardinality(kept) <= Cardinality(s.skipped)
      BY <3>2, FS_Subset
    <3>5. Cardinality(kept) \in Nat /\ Cardinality(s.skipped) \in Nat
      BY <3>2, <3>4, FS_CardinalityType
    <3>6. Cardinality(s.skipped) + count > MAX_SKIPPED_STORE
      BY <3>3, <3>4, <3>5, BoundsAssumption
    <3> QED BY <1>1, <2>5, <3>1, <3>6 DEF Full, count
  <2> QED BY <2>3, <2>4, <2>5
<1> QED BY <1>6, <1>7

\* A full store refuses nothing: the first eviction is exactly the room the message
\* needs, however the agreement moves.
LEMMA CandidateFinds ==
  ASSUME NEW s, Sound(s), Placed(s), NEW m \in Message, m.epoch \in DOMAIN s.chains,
         m.n \in Number, m.n <= U64_MAX,
         NEW out \in {None, OutputOf(s.epoch + 1)}, out \in Output \cup {None},
         out # None => s.epoch + 1 < U64_MAX,
         InWindow(m.epoch, EpochAfter(s, out)), Readable(s, m.epoch, m.n),
         m.n - 1 - s.chains[m.epoch].receive.n <= MAX_SKIP
  PROVE  receive_with_eviction(s, m, out).ok
<1> DEFINE e == m.epoch
           n == m.n
           Attempt(z) == receive(z, m.epoch, out, m.n)
           Retry(k) == Attempt(evict_oldest(s, EvictedAfter(s, m, k)))
           settled == {k \in 1..Cardinality(s.skipped) : Retry(k).err # "SkippedStoreFull"}
           ch == s.chains[m.epoch].receive
<1>1. (Attempt(s).ok /\ Attempt(s).err = "none") \/ Full(s, Attempt(s), e, n)
  BY ReceiveFinds
<1>2. receive_with_eviction(s, m, out) =
        IF Attempt(s).err # "SkippedStoreFull" \/ settled = {} THEN Attempt(s)
        ELSE Retry(CHOOSE k \in settled : \A j \in settled : k <= j)
  BY DEF receive_with_eviction
<1>3. CASE Attempt(s).ok /\ Attempt(s).err = "none"
  BY <1>2, <1>3
<1>4. CASE Full(s, Attempt(s), e, n)
  <2> DEFINE need == n - 1 - ch.n
             excess == Cardinality(s.skipped) + need - MAX_SKIPPED_STORE
             u == evict_oldest(s, excess)
  <2>1. /\ n \in Nat /\ ch.n \in Nat /\ need \in Nat /\ ch.n < n - 1 /\ need <= MAX_SKIP
        /\ MAX_SKIP \in Nat /\ MAX_SKIPPED_STORE \in Nat /\ MAX_SKIP <= MAX_SKIPPED_STORE
    BY <1>4, BoundsAssumption, ChainTypes DEF Full, Sound, SparseState, Number
  <2>2. Cardinality(s.skipped) \in Nat /\ IsFiniteSet(s.skipped)
    BY FS_CardinalityType DEF Sound
  <2>3. excess \in Nat /\ excess >= 1 /\ excess <= Cardinality(s.skipped)
    BY <1>4, <2>1, <2>2 DEF Full
  <2>4. receive_shortfall(s, m) = excess
    BY <2>1, <2>3 DEF receive_shortfall
  <2>5. EvictedAfter(s, m, 1) = excess
    <3>1. EvictedAfter(s, m, 1) = excess * (2^1 - 1)
      BY <2>4 DEF EvictedAfter
    <3>2. 2^1 = 2
      OBVIOUS
    <3> HIDE DEF excess
    <3> QED BY <2>3, <3>1, <3>2
  <2>6. /\ Thinned(s, u)
        /\ u.skipped = {x \in s.skipped : Cardinality({y \in s.skipped : y.pos < x.pos}) >= excess}
    BY EvictThins
  <2>7. Cardinality(u.skipped) <= Cardinality(s.skipped) - excess
    <3>1. /\ \A x \in s.skipped : x.pos \in Nat
          /\ \A x, y \in s.skipped : x.pos = y.pos => x = y
      BY DEF Sound, SparseState, Entry, Placed
    <3> HIDE DEF excess, u
    <3> QED BY <2>2, <2>3, <2>6, <3>1, EvictionMakesRoom, ZenonT(40)
  <2>8. Cardinality(u.skipped) \in Nat
    BY <2>6, FS_CardinalityType, ZenonT(40) DEF Thinned, Sound
  <2> HIDE DEF u
  <2>9. ~Full(u, Attempt(u), e, n)
    <3>1. u.chains[e].receive = ch
      BY <2>6 DEF Thinned
    <3> HIDE DEF Attempt, ch, e, n
    <3>2. Cardinality(u.skipped) + (n - 1 - ch.n) <= MAX_SKIPPED_STORE
      BY <2>1, <2>2, <2>7, <2>8
    <3>3. ~(Cardinality(u.skipped) + (n - 1 - ch.n) > MAX_SKIPPED_STORE)
      BY <2>1, <2>8, <3>2
    <3> QED BY <3>1, <3>3 DEF Full
  <2>10. Readable(u, e, n)
    BY <2>1, <2>6 DEF Thinned, Readable
  <2>11. Attempt(u).ok /\ Attempt(u).err = "none"
    BY <2>6, <2>9, <2>10, ReceiveFinds DEF Thinned, Thins, EpochAfter
  <2>12. Retry(1) = Attempt(u)
    BY <2>5 DEF u
  <2>13. 1 \in settled
    BY <2>2, <2>3, <2>11, <2>12
  <2>14. \A k \in settled : k \in Nat /\ 1 <= k
    BY <2>2
  <2>15. Attempt(s).err = "SkippedStoreFull"
    BY <1>4 DEF Full
  <2> HIDE DEF settled, Attempt
  <2>16. (CHOOSE k \in settled : \A j \in settled : k <= j) = 1
    BY <2>13, <2>14
  <2>17. receive_with_eviction(s, m, out) = Retry(CHOOSE k \in settled : \A j \in settled : k <= j)
    BY <1>2, <2>13, <2>15
  <2> HIDE DEF Retry
  <2>18. receive_with_eviction(s, m, out) = Retry(1)
    BY <2>16, <2>17
  <2> QED BY <2>11, <2>12, <2>18
<1> QED BY <1>1, <1>3, <1>4

\* What a successful send does: the key is the next of the reported epoch's chain, and
\* nothing that could be read is lost.
Sends(s, e, out, r, n) ==
  /\ Placed(r.state)
  /\ \A f \in Nat, i \in Number : Readable(s, f, i) => Readable(r.state, f, i)
  /\ \A f \in DOMAIN r.state.chains :
       /\ ReceivedTo(r.state, f) = ReceivedTo(s, f)
       /\ f \in DOMAIN s.chains => s.chains[f].send.n <= r.state.chains[f].send.n
       /\ f \notin DOMAIN s.chains => f = s.epoch + 1
  /\ n = s.chains[e].send.n + 1 /\ n <= U64_MAX
  /\ r.key = Key(e, s.direction, n)

\* State::send, when it succeeds, sends on the epoch's chain and loses nothing to read.
LEMMA SendSends ==
  ASSUME NEW s, Sound(s), Placed(s), NEW e \in DOMAIN s.chains,
         NEW out \in {None, OutputOf(s.epoch + 1)}, out \in Output \cup {None},
         send(s, e, out).ok
  PROVE  Sends(s, e, out, send(s, e, out), SendNumber(s, e, out))
<1> DEFINE adv == maybe_advance(s, out)
           st == adv.state
           r == send(s, e, out)
           ch == st.chains[e].send
           to == StepTo(ch, ch.n + 1)
           d == [st.chains EXCEPT ![e].send = to]
           t == [st EXCEPT !.chains[e].send = to]
<1>1. adv.ok
  BY DEF send
<1>2. Moves(s, st) /\ MayFold(s, out, st)
  BY <1>1, MaybeAdvanceMoves, MaybeAdvanceFolds
<1>3. e \in DOMAIN st.chains /\ ch.n # U64_MAX /\ r = Ok(t, MessageKey(ch, ch.n + 1))
  BY <1>1 DEF send, Err
<1>4. r.state = t /\ r.key = MessageKey(ch, ch.n + 1) /\ SendNumber(s, e, out) = ch.n + 1
  BY <1>3 DEF Ok, SendNumber
<1> HIDE DEF adv, st, r
<1>5. /\ Sound(st) /\ Placed(st) /\ st.direction = s.direction /\ st \in SparseState
      /\ st.chains \in Chains /\ DOMAIN st.chains \subseteq Nat /\ s.epoch \in Nat
      /\ DOMAIN s.chains \subseteq Nat /\ ch = s.chains[e].send /\ s.chains \in Chains
  BY <1>2, <1>3, ChainTypes, SMTT(60) DEF Moves, MayFold, Thins, Sound, SparseState
<1>6. /\ ch \in ChainState /\ ch.n \in Nat /\ ch.ck \in ChainKey /\ ch.n <= U64_MAX
      /\ ch.ck.root = RootOf(e) /\ ch.ck.dir = s.direction
  BY <1>3, <1>5, ChainTypes DEF Placed, Sound, ChainsOrdered
<1>7. ch.n + 1 <= U64_MAX
  BY <1>3, <1>6, BoundsAssumption
<1>8. MessageKey(ch, ch.n + 1) = Key(e, s.direction, ch.n + 1)
  BY <1>6 DEF MessageKey, Key, ChainKey
<1>9. to \in ChainState /\ to.n = ch.n + 1 /\ to.ck.root = ch.ck.root
  BY <1>6 DEF StepTo, ChainState, ChainKey
<1> HIDE DEF to
<1>10. /\ DOMAIN d = DOMAIN st.chains
       /\ d[e].send = to /\ d[e].receive = st.chains[e].receive
       /\ \A f \in DOMAIN st.chains : f # e => d[f] = st.chains[f]
  BY <1>3, <1>5, <1>9, SetSend
<1>11. t = [st EXCEPT !.chains = d]
  BY <1>5 DEF SparseState
<1> HIDE DEF d
<1>12. /\ t.chains = d /\ t.skipped = st.skipped /\ t.epoch = st.epoch /\ t.rk = st.rk
       /\ t.pushed = st.pushed
  BY <1>5, <1>11 DEF SparseState
<1> HIDE DEF t
<1>13. \A f \in DOMAIN d : d[f].receive = st.chains[f].receive
  BY <1>10
<1>14. Placed(t)
  BY <1>5, <1>6, <1>7, <1>9, <1>10, <1>12, <1>13 DEF Placed
<1>15. ASSUME NEW f \in Nat, NEW i \in Number, Readable(s, f, i)
       PROVE  Readable(t, f, i)
  <2>1. Readable(st, f, i)
    BY <1>2, <1>15 DEF MayFold, Readable, Stored, Number
  <2> QED BY <1>10, <1>12, <1>13, <2>1 DEF Readable, Stored
<1>16. ASSUME NEW f \in DOMAIN t.chains
       PROVE  /\ ReceivedTo(t, f) = ReceivedTo(s, f)
              /\ f \in DOMAIN s.chains => s.chains[f].send.n <= t.chains[f].send.n
              /\ f \notin DOMAIN s.chains => f = s.epoch + 1
  <2>1. ReceivedTo(t, f) = ReceivedTo(s, f)
    BY <1>2, <1>10, <1>12, <1>13 DEF MayFold, Thins, ReceivedTo
  <2>2. ASSUME f \in DOMAIN s.chains PROVE s.chains[f].send.n <= t.chains[f].send.n
    <3>1. st.chains[f] = s.chains[f] /\ s.chains[f].send.n \in Nat
      BY <1>2, <1>5, <1>10, <1>12, <2>2, ChainTypes DEF MayFold
    <3>2. CASE f = e
      BY <1>5, <1>6, <1>9, <1>10, <1>12, <3>2
    <3>3. CASE f # e
      BY <1>10, <1>12, <3>1, <3>3
    <3> QED BY <3>2, <3>3
  <2>3. ASSUME f \notin DOMAIN s.chains PROVE f = s.epoch + 1
    <3>1. f \in DOMAIN st.chains /\ f \in Nat /\ f <= st.epoch /\ f > s.epoch
      BY <1>2, <1>5, <1>10, <1>12, <2>3 DEF Moves, SendsKept, Sound, invariant, ChainsInWindow
    <3>2. st.epoch <= s.epoch + 1
      BY <1>2, <1>5 DEF MayFold, EpochAfter
    <3>3. st.epoch \in Nat
      BY <1>5 DEF SparseState
    <3> QED BY <1>5, <3>1, <3>2, <3>3
  <2> QED BY <2>1, <2>2, <2>3
<1> QED BY <1>4, <1>5, <1>7, <1>8, <1>14, <1>15, <1>16 DEF Sends, r

-----------------------------------------------------------------------------
(* Genuine messages decrypt: the invariant *)

\* An epoch is reported when both parties hold it, and none begins after the last.
Shared(p) == known[p] <= held[Peer(p)] /\ held[p] <= LastEpoch + 1

\* Each message of p has the key its header names, and no other has it.
Named(p) ==
  /\ \A m \in sent[p] : /\ m.n \in Number /\ m.n <= U64_MAX /\ m.epoch <= known[p]
                        /\ m.key = Key(m.epoch, Dir(p), m.n)
  /\ \A m, x \in sent[p] : m.key = x.key => m = x

\* No receiving chain of p is ahead of the chain its peer sends on.
NotAhead(p) ==
  \A e \in DOMAIN state[p].chains :
    /\ e \in DOMAIN state[Peer(p)].chains =>
         state[p].chains[e].receive.n <= state[Peer(p)].chains[e].send.n
    /\ e > state[Peer(p)].epoch => state[p].chains[e].receive.n = 0

\* What p's peer sent and p has not accepted can be read, or its key was evicted.
Covered(p) ==
  \A m \in sent[Peer(p)] \ accepted[p] :
    Readable(state[p], m.epoch, m.n) \/ m.key \in dropped[p]

Delivers(p) == Shared(p) /\ Placed(state[p]) /\ Named(p) /\ NotAhead(p) /\ Covered(p)

DInv == SInv /\ \A p \in Party : Delivers(p)

\* It holds at the start.
LEMMA InitDelivers ==
  ASSUME Init PROVE DInv
<1>1. SInv
  BY InitSInv
<1>2. \A p \in Party : /\ held[p] = 0 /\ known[p] = 0 /\ sent[p] = {} /\ accepted[p] = {}
                       /\ state[p] = init(SharedSecret, Dir(p))
  BY DEF Init, A!Init, Dir, Party, A!Party
<1>3. SharedSecret = RootOf(0)
  BY DEF SharedSecret, RootOf
<1>4. ASSUME NEW p \in Party
      PROVE  /\ Placed(state[p]) /\ state[p].epoch = 0
             /\ \A e \in DOMAIN state[p].chains :
                  state[p].chains[e].receive.n = 0 /\ state[p].chains[e].send.n = 0
  <2> DEFINE c == OpenChains(SharedSecret, Dir(p))
             i == init(SharedSecret, Dir(p))
  <2>1. /\ i.rk = SharedSecret /\ i.epoch = 0 /\ i.skipped = {}
        /\ i.chains = [e \in {0} |-> OpenChains(SharedSecret, Dir(p))]
    BY DEF init
  <2>2. /\ c.send.ck.root = RootOf(0) /\ c.receive.ck.root = RootOf(0)
        /\ c.send.n = 0 /\ c.receive.n = 0
    BY <1>3 DEF OpenChains, Chain
  <2> HIDE DEF c
  <2>3. state[p] = i
    BY <1>2
  <2>4. i.chains = [e \in {0} |-> c]
    BY <2>1 DEF c
  <2> HIDE DEF i
  <2>5. /\ state[p].rk = RootOf(0) /\ state[p].epoch = 0 /\ state[p].skipped = {}
        /\ DOMAIN state[p].chains = {0} /\ state[p].chains[0] = c
    BY <1>3, <2>1, <2>3, <2>4
  <2> QED BY <2>2, <2>5, BoundsAssumption DEF Placed
<1>5. ASSUME NEW p \in Party PROVE Delivers(p)
  <2>1. Shared(p)
    BY <1>2, PeerParty, PartyAssumption DEF Shared
  <2>2. Named(p) /\ Covered(p)
    BY <1>2, PeerParty DEF Named, Covered
  <2>3. NotAhead(p)
    BY <1>4, PeerParty DEF NotAhead
  <2> QED BY <1>4, <2>1, <2>2, <2>3 DEF Delivers
<1> QED BY <1>1, <1>5 DEF DInv

\* Two keys of one direction are equal only for the same epoch and number.
LEMMA KeyNames ==
  ASSUME NEW e \in Nat, NEW f \in Nat, NEW i, NEW j, NEW c, NEW d, Key(e, c, i) = Key(f, d, j)
  PROVE  e = f /\ i = j
<1>1. RootOf(e) = RootOf(f) /\ i = j
  BY DEF Key
<1>2. Len(RootOf(e)) = e /\ Len(RootOf(f)) = f
  BY NextRoot
<1> QED BY <1>1, <1>2

\* A send keeps it: the message's number is past all that p sent and its peer received.
LEMMA EncryptDelivers ==
  ASSUME DInv, NEW p \in Party, NEW out \in Outputs(p), Encrypt(p, out), SInv'
  PROVE  DInv'
<1> DEFINE q == Peer(p)
           s == state[p]
           e == known[p]
           r == send(s, e, out)
           n == SendNumber(s, e, out)
           m == [epoch |-> e, n |-> n, key |-> r.key, held |-> held'[p]]
           t == r.state
<1>1. /\ r.ok /\ state' = [state EXCEPT ![p] = t] /\ sent' = [sent EXCEPT ![p] = @ \cup {m}]
      /\ accepted' = accepted /\ dropped' = dropped
      /\ IF out = None THEN held' = held /\ known' = known ELSE A!FirstKey(p)
  BY DEF Encrypt
<1>2. /\ Types /\ held[p] \in Nat /\ e \in Nat /\ out \in Output \cup {None}
      /\ out \in {None, OutputOf(s.epoch + 1)} /\ q \in Party /\ q # p /\ Peer(q) = p
      /\ \A x \in Party : x = p \/ x = q
  BY OutputTypes, PeerParty DEF DInv, SInv, Types, InStep, Outputs, Party, Peer
<1>3. /\ OneBehind(p) /\ Sound(s) /\ s.epoch = held[p] /\ s.direction = Dir(p) /\ SentIsSealed(p)
      /\ Delivers(p) /\ Delivers(q) /\ Sound(state[q]) /\ state[q].epoch = held[q]
      /\ held[q] \in Nat /\ known[q] \in Nat
  BY <1>2 DEF DInv, SInv, InStep, Types
<1>4. e \in DOMAIN s.chains
  BY <1>2, <1>3, ReportedOpen DEF OneBehind
<1>5. Sends(s, e, out, r, n)
  BY <1>1, <1>2, <1>3, <1>4, SendSends DEF Delivers
<1>6. m.key = r.key /\ m.epoch = e /\ m.n = n
  OBVIOUS
<1> HIDE DEF m, r, n
<1>7. /\ state'[p] = t /\ state'[q] = state[q] /\ sent'[p] = sent[p] \cup {m} /\ sent'[q] = sent[q]
      /\ accepted'[p] = accepted[p] /\ accepted'[q] = accepted[q] /\ dropped'[p] = dropped[p]
      /\ dropped'[q] = dropped[q]
  BY <1>1, <1>2 DEF Types
<1>8. /\ known' = known /\ held'[q] = held[q] /\ held[p] <= held'[p] /\ held'[p] <= LastEpoch + 1
      /\ held'[p] \in Nat
  <2>1. CASE out = None
    BY <1>1, <1>2, <1>3, <2>1 DEF Delivers, Shared
  <2>2. CASE out # None
    <3>1. held' = [held EXCEPT ![p] = @ + 1] /\ known' = known /\ held[p] <= LastEpoch
      BY <1>1, <2>2 DEF A!FirstKey, A!MayBegin
    <3> QED BY <1>2, <1>3, <3>1, PartyAssumption DEF Types
  <2> QED BY <2>1, <2>2
<1>9. /\ Sound(t) /\ t.epoch = held'[p] /\ DOMAIN s.chains \subseteq Nat /\ DOMAIN t.chains \subseteq Nat
      /\ DOMAIN state[q].chains \subseteq Nat
      /\ \A f \in DOMAIN s.chains : s.chains[f].send.n \in Nat /\ s.chains[f].receive.n \in Nat
      /\ \A f \in DOMAIN t.chains : t.chains[f].send.n \in Nat /\ t.chains[f].receive.n \in Nat
      /\ \A f \in DOMAIN state[q].chains :
            state[q].chains[f].send.n \in Nat /\ state[q].chains[f].receive.n \in Nat
  BY <1>2, <1>3, <1>7, ChainTypes, SMTT(60) DEF SInv, InStep, Sound, SparseState
<1>10. n \in Number /\ n <= U64_MAX /\ n = s.chains[e].send.n + 1 /\ m.key = Key(e, Dir(p), n)
  <2>1. s.chains[e].send.n \in Nat
    BY <1>4, <1>9
  <2>2. n = s.chains[e].send.n + 1 /\ n <= U64_MAX /\ r.key = Key(e, s.direction, n)
    BY <1>5 DEF Sends
  <2>3. s.direction = Dir(p)
    BY <1>3
  <2>4. n \in Number
    BY <2>1, <2>2 DEF Number
  <2> QED BY <1>6, <2>2, <2>3, <2>4
<1>11. Shared(p)' /\ Shared(q)'
  BY <1>2, <1>3, <1>8, PartyAssumption DEF Delivers, Shared, Peer
<1>12. \A x \in sent[p] : x.key # m.key
  <2> SUFFICES ASSUME NEW x \in sent[p], x.key = m.key PROVE FALSE
    OBVIOUS
  <2>1. /\ x.key = Key(x.epoch, Dir(p), x.n) /\ x.epoch \in Nat /\ x.n \in Nat
        /\ Sealed(s, x.key) /\ x.key.root = RootOf(x.epoch) /\ x.key.step = x.n
    BY <1>2, <1>3, SMTT(60) DEF Delivers, Named, SentIsSealed, Types, Message, Key
  <2>2. x.epoch = e /\ x.n = n
    <3>1. Key(x.epoch, Dir(p), x.n) = Key(e, Dir(p), n) /\ x.epoch \in Nat
      BY <1>10, <2>1
    <3>2. e \in Nat
      BY <1>2
    <3> QED BY <3>1, <3>2, KeyNames
  <2>3. x.n <= s.chains[e].send.n
    BY <1>3, <1>4, <2>1, <2>2 DEF Sealed, Delivers, Placed
  <2>4. s.chains[e].send.n \in Nat
    BY <1>4, <1>9
  <2>5. x.n = s.chains[e].send.n + 1
    BY <1>10, <2>2
  <2> HIDE DEF s, e
  <2> QED BY <2>3, <2>4, <2>5
<1>13. Named(p)' /\ Named(q)'
  <2>1. \A x \in sent[p] \cup {m} : /\ x.n \in Number /\ x.n <= U64_MAX /\ x.epoch <= known[p]
                                    /\ x.key = Key(x.epoch, Dir(p), x.n)
    BY <1>2, <1>3, <1>6, <1>10 DEF Delivers, Named
  <2>2. \A x, y \in sent[p] \cup {m} : x.key = y.key => x = y
    BY <1>3, <1>12 DEF Delivers, Named
  <2>3. Named(q)
    BY <1>3 DEF Delivers
  <2> QED BY <1>7, <1>8, <2>1, <2>2, <2>3 DEF Named, Dir, Key
<1>14. NotAhead(p)'
  <2> SUFFICES ASSUME NEW f \in DOMAIN t.chains
               PROVE  /\ f \in DOMAIN state[q].chains =>
                           t.chains[f].receive.n <= state[q].chains[f].send.n
                      /\ f > state[q].epoch => t.chains[f].receive.n = 0
    BY <1>7 DEF NotAhead, Peer
  <2>1. t.chains[f].receive.n = ReceivedTo(s, f)
    BY <1>5 DEF Sends, ReceivedTo
  <2>2. CASE f \in DOMAIN s.chains
    BY <1>3, <2>1, <2>2 DEF Delivers, NotAhead, ReceivedTo
  <2>3. CASE f \notin DOMAIN s.chains
    BY <1>9, <2>1, <2>3 DEF ReceivedTo
  <2> QED BY <2>2, <2>3
<1>15. NotAhead(q)'
  <2> SUFFICES ASSUME NEW f \in DOMAIN state[q].chains
               PROVE  /\ f \in DOMAIN t.chains =>
                           state[q].chains[f].receive.n <= t.chains[f].send.n
                      /\ f > t.epoch => state[q].chains[f].receive.n = 0
    BY <1>2, <1>7 DEF NotAhead, Peer
  <2>1. /\ f \in DOMAIN s.chains => state[q].chains[f].receive.n <= s.chains[f].send.n
        /\ f > s.epoch => state[q].chains[f].receive.n = 0
    BY <1>2, <1>3 DEF Delivers, NotAhead
  <2>2. ASSUME f > t.epoch PROVE state[q].chains[f].receive.n = 0
    BY <1>3, <1>8, <1>9, <1>2, <2>1, <2>2
  <2>3. ASSUME f \in DOMAIN t.chains PROVE state[q].chains[f].receive.n <= t.chains[f].send.n
    <3>1. CASE f \in DOMAIN s.chains
      BY <1>5, <1>9, <2>1, <2>3, <3>1, SMTT(60) DEF Sends
    <3>2. CASE f \notin DOMAIN s.chains
      <4>1. f = s.epoch + 1
        BY <1>5, <2>3, <3>2 DEF Sends
      <4>2. s.epoch \in Nat
        BY <1>2, <1>3
      <4>3. state[q].chains[f].receive.n = 0
        BY <2>1, <4>1, <4>2
      <4>4. t.chains[f].send.n \in Nat
        BY <1>9, <2>3
      <4> QED BY <4>3, <4>4
    <3> QED BY <3>1, <3>2
  <2> QED BY <2>2, <2>3
<1>16. Covered(p)'
  <2> SUFFICES ASSUME NEW x \in sent[q] \ accepted[p]
               PROVE  Readable(t, x.epoch, x.n) \/ x.key \in dropped[p]
    BY <1>7 DEF Covered, Peer, Readable, Stored
  <2>1. x.epoch \in Nat /\ x.n \in Number
    BY <1>2, <1>3 DEF Types, Message, Delivers, Named
  <2> QED BY <1>3, <1>5, <2>1 DEF Delivers, Covered, Sends
<1>17. Covered(q)'
  <2> SUFFICES ASSUME NEW x \in (sent[p] \cup {m}) \ accepted[q]
               PROVE  Readable(state[q], x.epoch, x.n) \/ x.key \in dropped[q]
    BY <1>2, <1>7 DEF Covered, Peer, Readable, Stored
  <2>1. CASE x \in sent[p]
    BY <1>2, <1>3, <2>1 DEF Delivers, Covered
  <2>2. CASE x = m
    <3>1. e \in DOMAIN state[q].chains => state[q].chains[e].receive.n <= s.chains[e].send.n
      BY <1>2, <1>3, <1>4 DEF Delivers, NotAhead
    <3>2. x.epoch = e /\ x.n = n /\ n = s.chains[e].send.n + 1
      BY <1>6, <1>10, <2>2
    <3>3. s.chains[e].send.n \in Nat
      BY <1>4, <1>9
    <3>4. e \in DOMAIN state[q].chains => state[q].chains[e].receive.n \in Nat
      BY <1>9
    <3> QED BY <3>1, <3>2, <3>3, <3>4 DEF Readable
  <2> QED BY <2>1, <2>2
<1>18. Placed(state[p])' /\ Placed(state[q])'
  <2>1. Placed(t) /\ Placed(state[q])
    BY <1>3, <1>5 DEF Delivers, Sends
  <2>2. Placed(state[p])'
    BY <1>7, <2>1, SMTT(60) DEF Placed, RootOf
  <2>3. Placed(state[q])'
    BY <1>7, <2>1, SMTT(60) DEF Placed, RootOf
  <2> QED BY <2>2, <2>3
<1>19. Delivers(p)' /\ Delivers(q)'
  BY <1>11, <1>13, <1>14, <1>15, <1>16, <1>17, <1>18 DEF Delivers
<1> QED BY <1>2, <1>19 DEF DInv

\* A receive keeps it: what it passed it stored, and what it lost it counts as evicted.
LEMMA DecryptDelivers ==
  ASSUME DInv, NEW p \in Party, NEW out \in Outputs(p), NEW m \in sent[Peer(p)],
         Decrypt(p, m, out), SInv'
  PROVE  DInv'
<1> DEFINE q == Peer(p)
           s == state[p]
           r == Candidate(p, m, out)
           t == r.state
           lost == {x.key : x \in Evicted(s, t)} \ {m.key}
<1>1. /\ r.ok /\ r.key = m.key /\ Agrees(p, m, out)
      /\ state' = [state EXCEPT ![p] = t]
      /\ accepted' = [accepted EXCEPT ![p] = @ \cup {m}] /\ sent' = sent
      /\ dropped' = [dropped EXCEPT ![p] = @ \cup lost]
  BY DEF Decrypt, Decrypts
<1>2. /\ Types /\ held[p] \in Nat /\ known[p] \in Nat /\ out \in Output \cup {None}
      /\ out \in {None, OutputOf(s.epoch + 1)} /\ q \in Party /\ q # p /\ Peer(q) = p
      /\ \A x \in Party : x = p \/ x = q
  BY OutputTypes, PeerParty DEF DInv, SInv, Types, InStep, Outputs, Party, Peer
<1>3. /\ OneBehind(q) /\ Sound(s) /\ s.epoch = held[p] /\ s.direction = Dir(p) /\ SentIsSealed(q)
      /\ Delivers(p) /\ Delivers(q) /\ Sound(state[q]) /\ state[q].epoch = held[q]
      /\ held[q] \in Nat /\ known[q] \in Nat /\ Dir(q) = Opposite(Dir(p))
  BY <1>2, PartyAssumption DEF DInv, SInv, InStep, Types, Dir, Opposite, Peer
<1>4. /\ m \in Message /\ m.epoch \in Nat /\ m.n \in Number /\ m.n \in Nat /\ m.epoch <= known[q]
      /\ m.key = Key(m.epoch, Opposite(Dir(p)), m.n) /\ Sealed(state[q], m.key)
  BY <1>2, <1>3 DEF Types, Message, Delivers, Named, SentIsSealed
<1>5. Takes(s, t, m.epoch, m.n)
  BY <1>1, <1>2, <1>3, <1>4, CandidateTakes DEF Candidate, Delivers, TakesKey
<1>6. Moves(s, t)
  BY <1>1, <1>2, <1>3, <1>4, CandidateGives DEF Candidate, Gives, Yields
<1> HIDE DEF r, t, lost
<1>7. /\ state'[p] = t /\ state'[q] = state[q] /\ sent'[p] = sent[p] /\ sent'[q] = sent[q]
      /\ accepted'[p] = accepted[p] \cup {m} /\ accepted'[q] = accepted[q]
      /\ dropped'[p] = dropped[p] \cup lost /\ dropped'[q] = dropped[q]
  BY <1>1, <1>2 DEF Types
<1>8. /\ known'[q] = known[q] /\ held'[q] = held[q] /\ held[p] <= held'[p] /\ known[p] <= known'[p]
      /\ known'[p] <= held[q] /\ held'[p] <= LastEpoch + 1 /\ held'[p] \in Nat /\ known'[p] \in Nat
  <2>0. known[p] <= held[q] /\ held[p] <= LastEpoch + 1 /\ known[p] <= held[p]
    BY <1>2, <1>3 DEF Delivers, Shared, DInv, SInv, OneBehind
  <2>1. CASE A!SecondKey(p)
    <3>1. /\ held' = [held EXCEPT ![p] = @ + 1] /\ known' = [known EXCEPT ![p] = held[p] + 1]
          /\ held[q] = held[p] + 1 /\ held[p] < LastEpoch
      BY <2>1 DEF A!SecondKey, A!Peer, Peer
    <3> QED BY <1>2, <1>3, <2>0, <3>1, PartyAssumption DEF Types
  <2>2. CASE A!Learn(p)
    <3>1. held' = held /\ known' = [known EXCEPT ![p] = held[p]] /\ held[q] = held[p]
      BY <2>2 DEF A!Learn, A!Peer, Peer
    <3> QED BY <1>2, <1>3, <2>0, <3>1 DEF Types
  <2>3. CASE UNCHANGED <<held, known>>
    BY <1>2, <2>0, <2>3
  <2> QED BY <1>1, <2>1, <2>2, <2>3 DEF Agrees
<1>9. /\ Sound(t) /\ t.epoch = held'[p] /\ DOMAIN s.chains \subseteq Nat /\ DOMAIN t.chains \subseteq Nat
      /\ DOMAIN state[q].chains \subseteq Nat
      /\ \A f \in DOMAIN s.chains : s.chains[f].send.n \in Nat /\ s.chains[f].receive.n \in Nat
      /\ \A f \in DOMAIN t.chains : t.chains[f].send.n \in Nat /\ t.chains[f].receive.n \in Nat
      /\ \A f \in DOMAIN state[q].chains :
            state[q].chains[f].send.n \in Nat /\ state[q].chains[f].receive.n \in Nat
  BY <1>2, <1>3, <1>7, ChainTypes DEF SInv, InStep, Sound, SparseState
<1>10. Shared(p)' /\ Shared(q)'
  <2>1. known[q] <= held[p] /\ held[q] <= LastEpoch + 1
    BY <1>2, <1>3 DEF Delivers, Shared
  <2>2. known'[q] <= held'[p]
    BY <1>2, <1>3, <1>8, <2>1
  <2> QED BY <1>2, <1>8, <2>1, <2>2 DEF Shared, Peer
<1>11. Named(p)' /\ Named(q)'
  <2>1. /\ Named(p) /\ Named(q) /\ \A x \in sent[p] : x.epoch \in Nat
    BY <1>2, <1>3 DEF Delivers, Types, Message
  <2>2. \A x \in sent[p] : x.epoch <= known'[p]
    BY <1>2, <1>8, <2>1 DEF Named
  <2> QED BY <1>7, <1>8, <2>1, <2>2 DEF Named, Dir, Key
<1>12. NotAhead(p)'
  <2> SUFFICES ASSUME NEW f \in DOMAIN t.chains
               PROVE  /\ f \in DOMAIN state[q].chains =>
                           t.chains[f].receive.n <= state[q].chains[f].send.n
                      /\ f > state[q].epoch => t.chains[f].receive.n = 0
    BY <1>7 DEF NotAhead, Peer
  <2>1. CASE t.chains[f].receive.n = ReceivedTo(s, f) /\ f \in DOMAIN s.chains
    BY <1>3, <2>1 DEF Delivers, NotAhead, ReceivedTo
  <2>2. CASE t.chains[f].receive.n = ReceivedTo(s, f) /\ f \notin DOMAIN s.chains
    BY <1>9, <2>2 DEF ReceivedTo
  <2>3. CASE f = m.epoch /\ t.chains[f].receive.n = m.n
    <3>1. ~(f > state[q].epoch)
      BY <1>3, <1>4, <2>3 DEF OneBehind
    <3>2. ASSUME f \in DOMAIN state[q].chains PROVE m.n <= state[q].chains[f].send.n
      <4>1. state[q].chains[f].send.ck.root = m.key.root /\ m.key.step = m.n
        BY <1>3, <1>4, <2>3, <3>2, SMTT(60) DEF Delivers, Placed, Key
      <4> QED BY <1>4, <3>2, <4>1 DEF Sealed
    <3> QED BY <2>3, <3>1, <3>2
  <2> QED BY <1>5, <2>1, <2>2, <2>3 DEF Takes, ReceivedTo
<1>13. NotAhead(q)'
  <2> SUFFICES ASSUME NEW f \in DOMAIN state[q].chains
               PROVE  /\ f \in DOMAIN t.chains =>
                           state[q].chains[f].receive.n <= t.chains[f].send.n
                      /\ f > t.epoch => state[q].chains[f].receive.n = 0
    BY <1>2, <1>7 DEF NotAhead, Peer
  <2>1. /\ f \in DOMAIN s.chains => state[q].chains[f].receive.n <= s.chains[f].send.n
        /\ f > s.epoch => state[q].chains[f].receive.n = 0
    BY <1>2, <1>3 DEF Delivers, NotAhead
  <2>2. ASSUME f > t.epoch PROVE state[q].chains[f].receive.n = 0
    BY <1>2, <1>3, <1>8, <1>9, <2>1, <2>2
  <2>3. ASSUME f \in DOMAIN t.chains PROVE state[q].chains[f].receive.n <= t.chains[f].send.n
    BY <1>6, <1>9, <2>1, <2>3 DEF Moves, SendsKept
  <2> QED BY <2>2, <2>3
<1>14. Covered(p)'
  <2> SUFFICES ASSUME NEW x \in sent[q], x \notin accepted[p], x # m,
                      x.key \notin dropped[p], ~Readable(t, x.epoch, x.n)
               PROVE  x.key \in lost
    BY <1>7 DEF Covered, Peer, Readable, Stored
  <2>1. /\ x.epoch \in Nat /\ x.n \in Number /\ x.key = Key(x.epoch, Opposite(Dir(p)), x.n)
        /\ Readable(s, x.epoch, x.n) /\ x.key # m.key
    BY <1>2, <1>3 DEF Types, Message, Delivers, Named, Covered
  <2>2. ~(x.epoch = m.epoch /\ x.n = m.n)
    BY <1>4, <2>1
  <2>3. Stored(s, x.epoch, x.n)
    BY <1>5, <2>1, <2>2 DEF Takes
  <2>4. PICK y \in s.skipped : y.epoch = x.epoch /\ y.n = x.n
    BY <2>3 DEF Stored
  <2>5. y \notin t.skipped /\ y.epoch \in DOMAIN t.chains
    BY <2>4 DEF Readable, Stored
  <2>6. y.key = x.key
    <3>1. /\ y.key \in ChainKey /\ y.key.root = RootOf(y.epoch)
          /\ y.key.dir = Opposite(Dir(p)) /\ y.key.step = y.n
      BY <1>3 DEF Delivers, Sound, StoreOrdered, invariant, SkippedHaveChains, Placed, SparseState,
                  Entry
    <3> QED BY <2>1, <2>4, <3>1, SMTT(60) DEF ChainKey, Key
  <2>7. y \in Evicted(s, t)
    BY <2>5 DEF Evicted
  <2> QED BY <2>1, <2>6, <2>7 DEF lost
<1>15. Covered(q)'
  <2>1. Covered(q)
    BY <1>3 DEF Delivers
  <2> QED BY <1>2, <1>7, <2>1 DEF Covered, Peer, Readable, Stored
<1>16. Placed(state[p])' /\ Placed(state[q])'
  <2>1. Placed(t) /\ Placed(state[q])
    BY <1>3, <1>5 DEF Delivers, Takes
  <2>2. Placed(state[p])'
    BY <1>7, <2>1 DEF Placed, RootOf
  <2>3. Placed(state[q])'
    BY <1>7, <2>1, SMTT(60) DEF Placed, RootOf
  <2> QED BY <2>2, <2>3
<1>17. Delivers(p)' /\ Delivers(q)'
  BY <1>10, <1>11, <1>12, <1>13, <1>14, <1>15, <1>16 DEF Delivers
<1> QED BY <1>2, <1>17 DEF DInv

\* The invariant holds in every reachable state.
LEMMA Delivery == Spec => []DInv
<1>1. Init => DInv
  BY InitDelivers
<1>2. DInv /\ [Next]_vars => DInv'
  <2> SUFFICES ASSUME DInv, [Next]_vars PROVE DInv'
    OBVIOUS
  <2>0. SInv
    BY DEF DInv
  <2>1. ASSUME UNCHANGED vars PROVE DInv'
    BY <2>1 DEF vars, DInv, SInv, Types, OneBehind, InStep, SentIsSealed, AcceptedIsSpent,
                Delivers, Shared, Named, NotAhead, Covered
  <2>2. ASSUME NEW p \in Party, NEW out \in Outputs(p), Encrypt(p, out) PROVE DInv'
    BY <2>0, <2>2, EncryptKeeps, EncryptDelivers
  <2>3. ASSUME NEW p \in Party, NEW out \in Outputs(p), NEW m \in sent[Peer(p)],
               Decrypt(p, m, out)
        PROVE  DInv'
    BY <2>0, <2>3, DecryptKeeps, DecryptDelivers
  <2>4. ASSUME NEW p \in Party, NEW out \in Outputs(p), NEW m \in sent[Peer(p)],
               Refuse(p, m, out)
        PROVE  DInv'
    BY <2>1, <2>4 DEF Refuse
  <2> QED BY <2>1, <2>2, <2>3, <2>4 DEF Next
<1> QED BY <1>1, <1>2, PTL DEF Spec

\* GenuineDecrypts, for all bounds: a genuine message is read whenever it arrives, unless
\* its epoch is retired, its key was evicted or too many before it are missing; a full
\* store refuses none (State::receive, Session::decrypt_ratchet, receive_shortfall).
THEOREM GenuineMessagesDecrypt == Spec => []GenuineDecrypts
<1>1. DInv => GenuineDecrypts
  <2> SUFFICES ASSUME DInv, NEW p \in Party, NEW m \in sent[Peer(p)] \ accepted[p],
                      NEW out \in Outputs(p), Current(p, m, out), m.key \notin dropped[p],
                      ~TooFarAhead(p, m), out # None => held[Peer(p)] > held[p]
               PROVE  Decrypts(p, m, out)
    BY DEF GenuineDecrypts
  <2> DEFINE q == Peer(p)
             s == state[p]
             r == Candidate(p, m, out)
  <2>1. /\ Types /\ q \in Party /\ out \in Output \cup {None} /\ held[p] \in Nat /\ held[q] \in Nat
        /\ Sound(s) /\ s.epoch = held[p] /\ s.direction = Dir(p) /\ known[q] \in Nat
        /\ out \in {None, OutputOf(s.epoch + 1)} /\ Delivers(p) /\ Delivers(q)
        /\ Peer(q) = p /\ Dir(q) = Opposite(Dir(p))
    BY OutputTypes, PeerParty, PartyAssumption
    DEF DInv, SInv, Types, InStep, Outputs, Dir, Opposite, Peer
  <2>2. /\ m \in Message /\ m.epoch \in Nat /\ m.n \in Number /\ m.n <= U64_MAX
        /\ m.epoch <= known[q] /\ known[q] <= held[p] /\ held[q] <= LastEpoch + 1
        /\ m.key = Key(m.epoch, Opposite(s.direction), m.n) /\ Readable(s, m.epoch, m.n)
    BY <2>1 DEF Types, Message, Delivers, Named, Shared, Covered
  <2>3. m.epoch <= s.epoch /\ InWindow(m.epoch, EpochAfter(s, out)) /\ InWindow(m.epoch, s.epoch)
    BY <2>1, <2>2, BoundsAssumption DEF Current, EpochAfter, InWindow, saturating_add
  <2>4. m.epoch \in DOMAIN s.chains
    BY <2>1, <2>2, <2>3 DEF Sound, WindowOpen
  <2>5. m.n - 1 - s.chains[m.epoch].receive.n <= MAX_SKIP
    <3>1. s.chains[m.epoch].receive.n \in Nat
      BY <2>1, <2>4, ChainTypes DEF Sound, SparseState
    <3> QED BY <2>2, <2>4, <3>1, BoundsAssumption DEF TooFarAhead, Number
  <2>6. out # None => s.epoch + 1 < U64_MAX
    BY <2>1, <2>2, PartyAssumption, BoundsAssumption
  <2>7. r.ok
    BY <2>1, <2>2, <2>3, <2>4, <2>5, <2>6, CandidateFinds DEF Candidate, Delivers
  <2>8. r.key = Key(m.epoch, Opposite(s.direction), m.n)
    BY <2>1, <2>2, <2>7, CandidateTakes DEF Candidate, Delivers, TakesKey
  <2> QED BY <2>2, <2>7, <2>8 DEF Decrypts
<1> QED BY <1>1, Delivery, PTL

-----------------------------------------------------------------------------
(* The reader's ratchet does the same *)

\* The reader's state x is the library's t, in some order of the chains.
Mirrors(x, t) ==
  x \in [rk : {t.rk}, epoch : {t.epoch}, direction : {t.direction}, chains : {t.chains},
         order : {x.order}, skipped : {t.skipped}, pushed : {t.pushed}]

\* Both accept, with the same key and next state, or both refuse for the same reason.
Agree(library, reader) ==
  /\ library.ok = reader.ok /\ ReasonOf(library.err) = reader.err
  /\ library.ok => reader.key = library.key /\ Mirrors(reader.state, library.state)

\* Field by field.
LEMMA MirrorFields ==
  ASSUME NEW x, NEW t, Mirrors(x, t)
  PROVE  /\ x.rk = t.rk /\ x.epoch = t.epoch /\ x.direction = t.direction /\ x.chains = t.chains
         /\ x.skipped = t.skipped /\ x.pushed = t.pushed
BY DEF Mirrors

\* What the lemmas below show implies what the property compares.
LEMMA AgreeIsSame ==
  ASSUME NEW library, NEW reader, Agree(library, reader)
  PROVE  Same(library, reader)
BY DEF Agree, Same, Mirrors, Unordered, Read

\* The form that the property compares in is such a state.
LEMMA ReadMirrors ==
  ASSUME NEW t
  PROVE  Mirrors(Read(t), t)
BY DEF Mirrors, Read

\* An instance has its own copy of the standard module.
LEMMA SizesAlike ==
  ASSUME NEW S
  PROVE  Reader!Cardinality(S) = Cardinality(S)
BY DEF Reader!Cardinality, Cardinality

\* Only the order of the chains changes.
LEMMA TouchOrders ==
  ASSUME NEW x, NEW e
  PROVE  \E order : Reader!_touch(x, e) = [x EXCEPT !.order = order]
BY Zenon DEF Reader!_touch

\* So a touched state still mirrors what it did.
LEMMA TouchMirrors ==
  ASSUME NEW x, NEW t, Mirrors(x, t), NEW e
  PROVE  Mirrors(Reader!_touch(x, e), t)
<1>1. PICK order : Reader!_touch(x, e) = [x EXCEPT !.order = order]
  BY TouchOrders
<1> DEFINE y == Reader!_touch(x, e)
<1>2. y = [x EXCEPT !.order = order]
  BY <1>1
<1> HIDE DEF y
<1>3. Mirrors(y, t)
  BY <1>2 DEF Mirrors
<1> QED BY <1>3 DEF y

\* The next epoch's key, when there is one.
LEMMA AdvancesAlike ==
  ASSUME NEW s, Sound(s), NEW x, Mirrors(x, s), NEW out \in Output \cup {None},
         out # None => out.key_epoch = s.epoch + 1
  PROVE  Agree(maybe_advance(s, out), Reader!Advanced(x, out))
<1> DEFINE next == s.epoch + 1
           root == Append(s.rk, out.key)
           pair == OpenChains(root, s.direction)
           all == set_chains(s.chains, next, pair)
           wide == [s EXCEPT !.rk = root, !.epoch = next, !.chains = all]
           t == clear_old_epochs(wide, next)
           dom == {f \in DOMAIN all : InWindow(f, next)}
           at == out.key_epoch
           itsRoot == Append(x.rk, out.key)
           itsPair == Reader!_assign(x.direction, itsRoot)
           opened == [e \in DOMAIN x.chains \cup {at} |-> IF e = at THEN itsPair ELSE x.chains[e]]
           kept == {e \in DOMAIN opened : Reader!Kept(e, at)}
           u == [Reader!_touch(x, at) EXCEPT
                   !.rk = itsRoot, !.epoch = at, !.chains = [e \in kept |-> opened[e]],
                   !.order = Reader!SelectSeq(@, LAMBDA e : e \in kept),
                   !.skipped = {k \in @ : k.epoch \in kept}]
<1>1. /\ s \in SparseState /\ s.epoch \in Nat /\ next \in Nat /\ s.chains \in Chains
      /\ s.direction \in Direction /\ next <= U64_MAX /\ DOMAIN s.chains \subseteq Nat
      /\ U64_MAX \in Nat /\ EPOCHS_KEPT \in Nat
  BY ChainTypes, BoundsAssumption DEF Sound, SparseState
<1>2. CASE out = None
  BY <1>2 DEF maybe_advance, Ok, Reader!Advanced, Reader!Return, Agree, ReasonOf
<1>3. CASE out # None /\ next = U64_MAX
  <2>1. maybe_advance(s, out) = Err("ChainExhausted", s)
    BY <1>1, <1>3 DEF maybe_advance, advance
  <2>2. Reader!Advanced(x, out) = Reader!Raise("ChainExhausted", 0)
    BY <1>1, <1>3, MirrorFields DEF Reader!Advanced, Reader!_advance
  <2> QED BY <2>1, <2>2 DEF Err, Reader!Raise, Agree, ReasonOf
<1>4. CASE out # None /\ next # U64_MAX
  <2>1. maybe_advance(s, out) = Ok(t, None)
    BY <1>1, <1>4 DEF maybe_advance, advance
  <2>2. itsPair = pair
    BY <1>1, MirrorFields DEF Reader!_assign, OpenChains, Chain, Opposite, Direction
  <2>0. at = next
    BY <1>4
  <2>3. opened = all
    BY <2>0, <2>2, MirrorFields DEF set_chains
  <2>4. kept = dom
    <3>1. \A e \in DOMAIN all : Reader!Kept(e, next) <=> InWindow(e, next)
      <4>1. DOMAIN all \subseteq Nat
        BY <1>1 DEF set_chains
      <4> HIDE DEF all
      <4> QED BY <1>1, <4>1 DEF Reader!Kept, InWindow, saturating_add
    <3> HIDE DEF all, opened
    <3> QED BY <2>0, <2>3, <3>1
  <2>5. {k \in s.skipped : k.epoch \in dom} = {k \in s.skipped : InWindow(k.epoch, next)}
    <3>1. \A k \in s.skipped : k.epoch \in DOMAIN all
      BY DEF Sound, invariant, SkippedHaveChains, set_chains
    <3> QED BY <3>1
  <2>6. Reader!Advanced(x, out) = Reader!Return(u, None)
    <3>1. x.epoch = s.epoch /\ x.rk = s.rk
      BY MirrorFields
    <3> QED BY <1>1, <1>4, <3>1 DEF Reader!Advanced, Reader!_advance
  <2> HIDE DEF opened, all, itsPair, pair, root
  <2>7. Mirrors(u, t)
    <3>1. /\ t.rk = root /\ t.epoch = next /\ t.direction = s.direction /\ t.pushed = s.pushed
          /\ t.chains = [e \in dom |-> all[e]]
          /\ t.skipped = {k \in s.skipped : InWindow(k.epoch, next)}
      BY <1>1 DEF clear_old_epochs, SparseState
    <3> DEFINE w == Reader!_touch(x, at)
    <3> HIDE DEF kept, opened
    <3>2. PICK order : u = [w EXCEPT !.rk = itsRoot, !.epoch = at, !.chains = [e \in kept |-> opened[e]],
                                     !.order = order, !.skipped = {k \in @ : k.epoch \in kept}]
      BY Zenon
    <3>3. Mirrors(w, s)
      BY TouchMirrors
    <3>4. itsRoot = root /\ w.skipped = s.skipped
      BY <3>3, MirrorFields DEF root
    <3>5. [e \in kept |-> opened[e]] = [e \in dom |-> all[e]]
      BY <2>3, <2>4
    <3> HIDE DEF u, t, w, itsRoot, at, next, dom
    <3>6. u = [w EXCEPT !.rk = root, !.epoch = next, !.chains = [e \in dom |-> all[e]],
                        !.order = order, !.skipped = {k \in s.skipped : InWindow(k.epoch, next)}]
      BY <2>0, <2>4, <2>5, <3>2, <3>4, <3>5
    <3> QED BY <3>1, <3>3, <3>6 DEF Mirrors
  <2> HIDE DEF u, t
  <2> QED BY <2>1, <2>6, <2>7 DEF Ok, Reader!Return, Agree, ReasonOf
<1> QED BY <1>2, <1>3, <1>4

\* A send, with no key to fold in first.
LEMMA SendsAlike ==
  ASSUME NEW s, Sound(s), NEW x, Mirrors(x, s), NEW e \in Nat
  PROVE  Agree(send(s, e, None), Reader!send(x, e, None))
<1> DEFINE ch == s.chains[e].send
           t == [s EXCEPT !.chains[e].send = StepTo(ch, ch.n + 1)]
           u == [x EXCEPT !.chains[e].send = Reader!ChainAt(ch, ch.n + 1)]
<1>1. s \in SparseState /\ s.chains \in Chains
  BY DEF Sound, SparseState
<1>2. x.chains = s.chains
  BY MirrorFields
<1>3. maybe_advance(s, None) = Ok(s, None) /\ Reader!Advanced(x, None) = Reader!Return(x, None)
  BY DEF maybe_advance, Reader!Advanced
<1>4. CASE e \notin DOMAIN s.chains
  BY <1>2, <1>3, <1>4 DEF send, Reader!send, Ok, Err, Reader!Return, Reader!Raise, Agree, ReasonOf
<1>5. CASE e \in DOMAIN s.chains /\ ch.n = U64_MAX
  <2>1. ch # None
    BY <1>1, <1>5, ChainTypes, NoneAssumption DEF ChainState, ChainKey, Root, Direction
  <2> QED BY <1>2, <1>3, <1>5, <2>1
          DEF send, Reader!send, Ok, Err, Reader!Return, Reader!Raise, Agree, ReasonOf
<1>6. CASE e \in DOMAIN s.chains /\ ch.n # U64_MAX
  <2>1. ch # None
    BY <1>1, <1>6, ChainTypes, NoneAssumption DEF ChainState, ChainKey, Root, Direction
  <2>2. send(s, e, None) = Ok(t, MessageKey(ch, ch.n + 1))
    BY <1>3, <1>6 DEF send, Ok
  <2>3. Reader!send(x, e, None) = Reader!Return(Reader!_touch(u, e), Reader!MessageKey(ch, ch.n + 1))
    <3>1. Reader!Advanced(x, None).state = x /\ Reader!Advanced(x, None).ok
      BY <1>3 DEF Reader!Return
    <3> QED BY <1>2, <1>6, <2>1, <3>1 DEF Reader!send
  <2>4. Mirrors(Reader!_touch(u, e), t)
    <3> DEFINE c == [s.chains EXCEPT ![e].send = StepTo(ch, ch.n + 1)]
    <3>1. /\ t.chains = c /\ t.rk = s.rk /\ t.epoch = s.epoch /\ t.direction = s.direction
          /\ t.pushed = s.pushed /\ t.skipped = s.skipped
      BY <1>1 DEF SparseState
    <3>2. u = [x EXCEPT !.chains = c]
      BY <1>2 DEF Reader!ChainAt, StepTo
    <3> HIDE DEF t, u, c
    <3>3. Mirrors(u, t)
      BY <3>1, <3>2 DEF Mirrors
    <3> QED BY <3>3, TouchMirrors
  <2>5. Reader!MessageKey(ch, ch.n + 1) = MessageKey(ch, ch.n + 1)
    BY DEF Reader!MessageKey, MessageKey
  <2> HIDE DEF t, u
  <2> QED BY <2>2, <2>3, <2>4, <2>5 DEF Ok, Reader!Return, Agree, ReasonOf
<1> QED BY <1>4, <1>5, <1>6

\* A stored key is the only one of its epoch and number.
LEMMA StoredKeysAlike ==
  ASSUME NEW s, Sound(s), NEW x, Mirrors(x, s), NEW e, NEW n, Matches(s, e, n) # {}
  PROVE  Agree(TakeSkipped(s, FirstMatch(s, e, n)), Reader!Take(x, Matches(s, e, n)))
<1> DEFINE M == Matches(s, e, n)
           k == FirstMatch(s, e, n)
           t == [s EXCEPT !.skipped = @ \ {k}]
           u == [x EXCEPT !.skipped = @ \ M]
<1>1. k \in M
  BY FirstMatchStored DEF Matches
<1>2. M = {k}
  BY <1>1 DEF Matches, Sound, invariant, StoreIsMap
<1>3. (CHOOSE y \in M : TRUE) = k
  <2> HIDE DEF M, k
  <2>1. (CHOOSE y \in M : TRUE) \in M
    BY <1>2
  <2> QED BY <1>2, <2>1
<1>4. TakeSkipped(s, k) = Ok(t, k.key)
  BY DEF TakeSkipped
<1>5. Reader!Take(x, M) = Reader!Return(u, k.key)
  <2> HIDE DEF M, k
  <2> QED BY <1>3 DEF Reader!Take
<1>6. Mirrors(u, t)
  <2> HIDE DEF M, k
  <2>1. /\ t.rk = s.rk /\ t.epoch = s.epoch /\ t.direction = s.direction /\ t.chains = s.chains
        /\ t.skipped = s.skipped \ {k} /\ t.pushed = s.pushed
    BY DEF Sound, SparseState
  <2>2. u = [x EXCEPT !.skipped = s.skipped \ {k}]
    BY <1>2, MirrorFields
  <2> HIDE DEF t, u
  <2> QED BY <2>1, <2>2 DEF Mirrors
<1> HIDE DEF t, u, M, k
<1>7. Agree(TakeSkipped(s, k), Reader!Take(x, M))
  BY <1>4, <1>5, <1>6 DEF Ok, Reader!Return, Agree, ReasonOf
<1> QED BY <1>7 DEF M, k

\* Of two steps of one chain, the second is what counts.
LEMMA LastStepCounts ==
  ASSUME NEW c \in Chains, NEW e \in DOMAIN c, NEW a, NEW b,
         NEW d, d = [c EXCEPT ![e].receive = a]
  PROVE  [d EXCEPT ![e].receive = b] = [c EXCEPT ![e].receive = b]
<1>1. PICK D \in SUBSET Nat : c \in [D -> Pair]
  BY DEF Chains
<1>2. c[e] \in Pair /\ e \in D
  BY <1>1
<1>3. [[c[e] EXCEPT !.receive = a] EXCEPT !.receive = b] = [c[e] EXCEPT !.receive = b]
  BY <1>2 DEF Pair
<1> QED BY <1>1, <1>2, <1>3

\* What the library's chain gives for the next number it has not passed.
NextOnChain(s, e, n) ==
  LET ch == s.chains[e].receive
      kept == {k \in s.skipped : ~(k.epoch = e /\ ch.n < k.n /\ k.n <= n - 1)}
  IN  IF n - 1 - ch.n > MAX_SKIP THEN Err("TooManySkipped", s)
      ELSE IF ~HasRoom(kept, n - 1 - ch.n) THEN Err("SkippedStoreFull", s)
      ELSE Ok([s EXCEPT !.skipped = kept \cup DerivedEntries(e, ch, n - 1, s.pushed),
                        !.pushed = @ + (n - 1 - ch.n),
                        !.chains[e].receive = StepTo(ch, n)],
              MessageKey(ch, n))

\* The library steps to n - 1, storing the keys passed, and then to n: as one step to n.
LEMMA NextOnChainIs ==
  ASSUME NEW s, Sound(s), NEW e \in DOMAIN s.chains, NEW n \in U64, s.chains[e].receive.n < n
  PROVE  TakeNext(s, e, n) = NextOnChain(s, e, n)
<1> DEFINE ch == s.chains[e].receive
           upto == n - 1
           count == upto - ch.n
           kept == {k \in s.skipped : ~(k.epoch = e /\ ch.n < k.n /\ k.n <= upto)}
           new == DerivedEntries(e, ch, upto, s.pushed)
           skip == skip_message_keys(s, e, upto)
           t == [s EXCEPT !.skipped = kept \cup new, !.pushed = @ + count, !.chains[e].receive = StepTo(ch, n)]
<1>1. /\ s \in SparseState /\ s.chains \in Chains /\ s.skipped \subseteq Entry /\ s.pushed \in Nat
      /\ IsFiniteSet(s.skipped) /\ Cardinality(s.skipped) <= MAX_SKIPPED_STORE
  BY DEF Sound, SparseState, invariant, StoreBounded
<1>2. /\ ch \in ChainState /\ ch.n \in Nat /\ ch.ck \in ChainKey /\ n \in Nat /\ n # 0 /\ n <= U64_MAX
      /\ U64_MAX \in Nat /\ upto \in Nat /\ ch.n <= upto /\ count \in Nat /\ MAX_SKIP \in Nat
  BY <1>1, ChainTypes, BoundsAssumption DEF U64
<1>3. TakeNext(s, e, n) =
        IF ~skip.ok THEN skip
        ELSE LET c == skip.state.chains[e].receive
             IN  IF c.n = U64_MAX THEN Err("ChainExhausted", skip.state)
                 ELSE IF n # c.n + 1 THEN Err("OutOfOrder", skip.state)
                 ELSE Ok([skip.state EXCEPT !.chains[e].receive = StepTo(c, n)], MessageKey(c, n))
  BY <1>2 DEF TakeNext
<1>4. CASE ch.n = upto
  <2>1. skip = Ok(s, None)
    BY <1>2, <1>4 DEF skip_message_keys
  <2>2. TakeNext(s, e, n) = Ok([s EXCEPT !.chains[e].receive = StepTo(ch, n)], MessageKey(ch, n))
    <3> HIDE DEF skip
    <3>1. skip.ok /\ skip.state = s
      BY <2>1 DEF Ok
    <3> QED BY <1>2, <1>3, <1>4, <3>1
  <2>3. kept = s.skipped /\ new = {} /\ count = 0
    BY <1>1, <1>2, <1>4 DEF Entry, DerivedEntries
  <2>4. HasRoom(kept, count) /\ ~(count > MAX_SKIP)
    <3>1. Cardinality(s.skipped) \in Nat
      BY <1>1, FS_CardinalityType
    <3> HIDE DEF kept, count
    <3> QED BY <1>1, <1>2, <2>3, <3>1, BoundsAssumption DEF HasRoom
  <2>5. t = [s EXCEPT !.chains[e].receive = StepTo(ch, n)]
    <3>1. kept \cup new = s.skipped /\ s.pushed + count = s.pushed
      BY <1>1, <2>3
    <3> HIDE DEF kept, new, count
    <3> QED BY <1>1, <3>1 DEF SparseState
  <2> QED BY <2>2, <2>4, <2>5 DEF NextOnChain
<1>5. CASE ch.n # upto
  <2>1. ~(upto <= ch.n)
    BY <1>2, <1>5
  <2>2. CASE count > MAX_SKIP
    <3>1. skip = Err("TooManySkipped", s)
      BY <2>1, <2>2 DEF skip_message_keys
    <3> HIDE DEF skip
    <3> QED BY <1>3, <2>2, <3>1 DEF Err, NextOnChain
  <2>3. CASE ~(count > MAX_SKIP) /\ ~HasRoom(kept, count)
    <3>1. skip = Err("SkippedStoreFull", s)
      BY <2>1, <2>3 DEF skip_message_keys
    <3> HIDE DEF skip
    <3> QED BY <1>3, <2>3, <3>1 DEF Err, NextOnChain
  <2>4. CASE ~(count > MAX_SKIP) /\ HasRoom(kept, count)
    <3> DEFINE mid == StepTo(ch, upto)
               c == [s.chains EXCEPT ![e].receive = mid]
               v == [s EXCEPT !.skipped = kept \cup new, !.pushed = @ + count, !.chains[e].receive = mid]
               w == [v EXCEPT !.chains[e].receive = StepTo(mid, n)]
    <3>1. skip = Ok(v, None)
      BY <2>1, <2>4 DEF skip_message_keys
    <3>2. /\ mid \in ChainState /\ mid.n = upto /\ StepTo(mid, n) = StepTo(ch, n)
          /\ MessageKey(mid, n) = MessageKey(ch, n) /\ StepTo(ch, n) \in ChainState
      BY <1>2 DEF StepTo, MessageKey, ChainState, ChainKey
    <3> HIDE DEF mid, kept, new, count, skip
    <3>3. v.chains = c /\ c[e].receive = mid
      <4>1. v.chains = c
        BY <1>1 DEF SparseState
      <4> QED BY <1>1, <3>2, <4>1, SetReceive
    <3>4. TakeNext(s, e, n) = Ok(w, MessageKey(ch, n))
      <4>1. skip.ok /\ skip.state = v
        BY <3>1 DEF Ok
      <4>2. v.chains[e].receive = mid
        BY <3>3
      <4>3. mid.n # U64_MAX /\ n = mid.n + 1
        BY <1>2, <3>2
      <4> HIDE DEF v
      <4> QED BY <1>3, <3>2, <4>1, <4>2, <4>3
    <3>5. w = t
      <4>1. [c EXCEPT ![e].receive = StepTo(ch, n)] = [s.chains EXCEPT ![e].receive = StepTo(ch, n)]
        <5>1. c = [s.chains EXCEPT ![e].receive = mid]
          OBVIOUS
        <5> HIDE DEF c
        <5> QED BY <1>1, <5>1, LastStepCounts
      <4>2. w = [v EXCEPT !.chains = [c EXCEPT ![e].receive = StepTo(ch, n)]]
        BY <3>2, <3>3
      <4>3. v = [s EXCEPT !.skipped = kept \cup new, !.pushed = s.pushed + count, !.chains = c]
        BY <1>1
      <4>4. t = [s EXCEPT !.skipped = kept \cup new, !.pushed = s.pushed + count,
                          !.chains = [s.chains EXCEPT ![e].receive = StepTo(ch, n)]]
        BY <1>1
      <4> HIDE DEF w, v, t, c
      <4> QED BY <1>1, <4>1, <4>2, <4>3, <4>4 DEF SparseState
    <3> HIDE DEF w, t
    <3> QED BY <2>4, <3>4, <3>5 DEF NextOnChain, count, kept, new, t
  <2> QED BY <2>2, <2>3, <2>4
<1> QED BY <1>4, <1>5

\* The reader steps forward from its state to the same key, and from there to the same state.
LEMMA StepsForwardAlike ==
  ASSUME NEW s, Sound(s), NEW x, Mirrors(x, s), NEW e \in DOMAIN s.chains, NEW n \in U64,
         s.chains[e].receive.n < n
  PROVE  Agree(NextOnChain(s, e, n), Reader!StepForward(x, e, n))
<1> DEFINE ch == s.chains[e].receive
           count == n - 1 - ch.n
           kept == {k \in s.skipped : ~(k.epoch = e /\ ch.n < k.n /\ k.n <= n - 1)}
           new == DerivedEntries(e, ch, n - 1, s.pushed)
           itsCh == x.chains[e].receive
           numbers == (itsCh.n + 1)..(n - 1)
           heldAt == {k \in x.skipped : k.epoch = e /\ k.n \in numbers}
           over == Cardinality(x.skipped) + (Cardinality(numbers) - Cardinality(heldAt)) - MAX_SKIPPED_STORE
           stored == {[epoch |-> e, n |-> i, key |-> Reader!MessageKey(itsCh, i),
                       pos |-> x.pushed + (i - itsCh.n)] : i \in numbers}
           t == [s EXCEPT !.skipped = kept \cup new, !.pushed = @ + count, !.chains[e].receive = StepTo(ch, n)]
           u == [x EXCEPT !.skipped = (@ \ heldAt) \cup stored, !.pushed = @ + Cardinality(numbers),
                          !.chains[e].receive = Reader!ChainAt(itsCh, n)]
           its == Reader!StepForward(x, e, n)
<1>1. /\ s \in SparseState /\ s.chains \in Chains /\ s.skipped \subseteq Entry /\ s.pushed \in Nat
      /\ IsFiniteSet(s.skipped) /\ \A k \in s.skipped : k.n \in Nat
  BY DEF Sound, SparseState, Entry
<1>2. ch.n \in Nat /\ n \in Nat /\ count \in Nat /\ MAX_SKIPPED_STORE \in Nat /\ MAX_SKIP \in Nat
  BY <1>1, ChainTypes, BoundsAssumption DEF U64
<1>3. x.skipped = s.skipped /\ x.chains = s.chains /\ itsCh = ch /\ x.pushed = s.pushed
  BY MirrorFields
<1>4. Cardinality(numbers) = count
  <2>1. ch.n + 1 \in Int /\ n - 1 \in Int
    BY <1>2
  <2>2. Cardinality((ch.n + 1)..(n - 1)) = IF ch.n + 1 > n - 1 THEN 0 ELSE (n - 1) - (ch.n + 1) + 1
    BY <2>1, FS_Interval
  <2> QED BY <1>2, <1>3, <2>2
<1>5. kept = s.skipped \ heldAt /\ heldAt \subseteq s.skipped
  BY <1>1, <1>2, <1>3
<1>6. stored = new
  BY <1>3 DEF DerivedEntries, Reader!MessageKey, MessageKey
<1>7. HasRoom(kept, count) <=> ~(over > 0)
  <2> HIDE DEF kept, heldAt, numbers
  <2>1. s.skipped \cap heldAt = heldAt
    BY <1>5
  <2>2. IsFiniteSet(heldAt) /\ Cardinality(heldAt) \in Nat /\ Cardinality(s.skipped) \in Nat
    BY <1>1, <1>5, FS_Subset, FS_CardinalityType
  <2>3. Cardinality(kept) = Cardinality(s.skipped) - Cardinality(heldAt)
    <3>1. Cardinality(s.skipped \ heldAt) = Cardinality(s.skipped) - Cardinality(s.skipped \cap heldAt)
      BY <1>1, <2>2, FS_Difference
    <3>2. kept = s.skipped \ heldAt
      BY <1>5
    <3> QED BY <2>1, <3>1, <3>2
  <2> HIDE DEF count
  <2> QED BY <1>2, <1>3, <1>4, <2>2, <2>3 DEF HasRoom
<1>8. its = IF Cardinality(numbers) > MAX_SKIP THEN Reader!Raise("TooManySkipped", 0)
            ELSE IF over > 0 THEN Reader!Raise("SkippedStoreFull", over)
            ELSE Reader!Return(Reader!_touch(u, e), Reader!MessageKey(itsCh, n))
  <2>1. /\ Reader!Cardinality(numbers) = Cardinality(numbers)
        /\ Reader!Cardinality(heldAt) = Cardinality(heldAt)
        /\ Reader!Cardinality(x.skipped) = Cardinality(x.skipped)
    BY SizesAlike
  <2>2. its = IF Reader!Cardinality(numbers) > MAX_SKIP THEN Reader!Raise("TooManySkipped", 0)
              ELSE IF Reader!Cardinality(x.skipped) + (Reader!Cardinality(numbers) - Reader!Cardinality(heldAt))
                        - MAX_SKIPPED_STORE > 0
                THEN Reader!Raise("SkippedStoreFull",
                                  Reader!Cardinality(x.skipped)
                                    + (Reader!Cardinality(numbers) - Reader!Cardinality(heldAt))
                                    - MAX_SKIPPED_STORE)
              ELSE Reader!Return(
                     Reader!_touch([x EXCEPT !.skipped = (@ \ heldAt) \cup stored,
                                             !.pushed = @ + Reader!Cardinality(numbers),
                                             !.chains[e].receive = Reader!ChainAt(itsCh, n)], e),
                     Reader!MessageKey(itsCh, n))
    BY Zenon DEF Reader!StepForward
  <2> HIDE DEF numbers, heldAt, stored, itsCh, its
  <2> QED BY <2>1, <2>2
<1> HIDE DEF its
<1>9. CASE count > MAX_SKIP
  <2> HIDE DEF numbers, over
  <2> QED BY <1>4, <1>8, <1>9 DEF NextOnChain, Err, Reader!Raise, Agree, ReasonOf, its
<1>10. CASE ~(count > MAX_SKIP) /\ over > 0
  <2> HIDE DEF numbers, over
  <2>1. NextOnChain(s, e, n) = Err("SkippedStoreFull", s)
    BY <1>7, <1>10 DEF NextOnChain
  <2>2. its = Reader!Raise("SkippedStoreFull", over)
    BY <1>4, <1>8, <1>10
  <2> QED BY <2>1, <2>2 DEF Err, Reader!Raise, Agree, ReasonOf, its
<1>11. CASE ~(count > MAX_SKIP) /\ ~(over > 0)
  <2>1. NextOnChain(s, e, n) = Ok(t, MessageKey(ch, n))
    <3> HIDE DEF over
    <3> QED BY <1>7, <1>11 DEF NextOnChain
  <2>2. its = Reader!Return(Reader!_touch(u, e), MessageKey(ch, n))
    <3>1. Reader!MessageKey(itsCh, n) = MessageKey(ch, n)
      BY <1>3 DEF Reader!MessageKey, MessageKey
    <3> HIDE DEF over, u, numbers
    <3> QED BY <1>4, <1>8, <1>11, <3>1
  <2>3. Mirrors(u, t)
    <3> DEFINE keys == kept \cup new
               c == [s.chains EXCEPT ![e].receive = StepTo(ch, n)]
    <3>1. /\ t.rk = s.rk /\ t.epoch = s.epoch /\ t.direction = s.direction /\ t.chains = c
          /\ t.skipped = keys /\ t.pushed = s.pushed + count
      BY <1>1 DEF SparseState
    <3>2. u = [x EXCEPT !.skipped = keys, !.pushed = s.pushed + count, !.chains = c]
      <4>1. (x.skipped \ heldAt) \cup stored = keys
        BY <1>3, <1>5, <1>6
      <4>2. Reader!ChainAt(itsCh, n) = StepTo(ch, n)
        BY <1>3 DEF Reader!ChainAt, StepTo
      <4>3. u = [x EXCEPT !.skipped = (x.skipped \ heldAt) \cup stored, !.pushed = x.pushed + Cardinality(numbers),
                          !.chains = [x.chains EXCEPT ![e].receive = Reader!ChainAt(itsCh, n)]]
        OBVIOUS
      <4> HIDE DEF u, keys, heldAt, stored, numbers, count
      <4> QED BY <1>3, <1>4, <4>1, <4>2, <4>3
    <3> HIDE DEF t, u, c, keys, count
    <3> QED BY <3>1, <3>2 DEF Mirrors
  <2> HIDE DEF t, u
  <2>4. Mirrors(Reader!_touch(u, e), t)
    BY <2>3, TouchMirrors
  <2> QED BY <2>1, <2>2, <2>4 DEF Ok, Reader!Return, Agree, ReasonOf, its
<1> QED BY <1>9, <1>10, <1>11

\* A receive, with no key to fold in first.
LEMMA ReceivesAlike ==
  ASSUME NEW s, Sound(s), NEW x, Mirrors(x, s), NEW e \in Nat, NEW n \in U64
  PROVE  Agree(receive(s, e, None, n), Reader!receive(x, e, n, None))
<1> DEFINE ch == s.chains[e].receive
           upto == IF n = 0 THEN 0 ELSE n - 1
           ours == receive(s, e, None, n)
           its == Reader!receive(x, e, n, None)
<1> SUFFICES Agree(ours, its)
  OBVIOUS
<1>1. s \in SparseState /\ s.chains \in Chains /\ n \in Nat /\ U64_MAX \in Nat /\ n <= U64_MAX
  BY BoundsAssumption DEF Sound, SparseState, U64
<1>2. x.chains = s.chains /\ {k \in x.skipped : k.epoch = e /\ k.n = n} = Matches(s, e, n)
  BY MirrorFields DEF Matches
<1>3. ours = IF Matches(s, e, n) # {} THEN TakeSkipped(s, FirstMatch(s, e, n)) ELSE TakeNext(s, e, n)
  <2>1. maybe_advance(s, None).ok /\ maybe_advance(s, None).state = s
    BY DEF maybe_advance, Ok
  <2> QED BY <2>1 DEF receive
<1>4. its = IF Matches(s, e, n) # {} THEN Reader!Take(x, Matches(s, e, n))
            ELSE IF e \notin DOMAIN s.chains THEN Reader!Raise("NoChain", 0)
            ELSE IF ch = None THEN Reader!Raise("ChainRetired", 0)
            ELSE IF n <= ch.n THEN Reader!Raise(IF ch.n = U64_MAX THEN "ChainExhausted" ELSE "OutOfOrder", 0)
            ELSE Reader!StepForward(x, e, n)
  <2>1. Reader!Advanced(x, None).ok /\ Reader!Advanced(x, None).state = x
    BY DEF Reader!Advanced, Reader!Return
  <2> QED BY <1>2, <2>1 DEF Reader!receive
<1> HIDE DEF ours, its
<1>5. CASE Matches(s, e, n) # {}
  BY <1>3, <1>4, <1>5, StoredKeysAlike
<1>6. CASE Matches(s, e, n) = {} /\ e \notin DOMAIN s.chains
  <2>1. ours = Err("NoChain", s)
    BY <1>3, <1>6 DEF TakeNext, skip_message_keys, Err
  <2> QED BY <1>4, <1>6, <2>1 DEF Err, Reader!Raise, Agree, ReasonOf
<1>7. CASE Matches(s, e, n) = {} /\ e \in DOMAIN s.chains
  <2>1. ch \in ChainState /\ ch.n \in Nat /\ ch # None
    BY <1>1, <1>7, ChainTypes, NoneAssumption DEF ChainState, ChainKey, Root, Direction
  <2>2. CASE n <= ch.n
    <3>1. skip_message_keys(s, e, upto) = Ok(s, None)
      BY <1>1, <1>7, <2>1, <2>2 DEF skip_message_keys
    <3>2. ours = IF ch.n = U64_MAX THEN Err("ChainExhausted", s) ELSE Err("OutOfOrder", s)
      <4>1. ours = TakeNext(s, e, n)
        BY <1>3, <1>7
      <4>2. n # ch.n + 1
        BY <1>1, <2>1, <2>2
      <4> QED BY <3>1, <4>1, <4>2 DEF TakeNext, Ok
    <3>3. its = Reader!Raise(IF ch.n = U64_MAX THEN "ChainExhausted" ELSE "OutOfOrder", 0)
      BY <1>4, <1>7, <2>1, <2>2
    <3> QED BY <3>2, <3>3 DEF Err, Reader!Raise, Agree, ReasonOf
  <2>3. CASE ~(n <= ch.n)
    <3>1. ch.n < n
      BY <1>1, <2>1, <2>3
    <3>2. ours = NextOnChain(s, e, n) /\ its = Reader!StepForward(x, e, n)
      BY <1>3, <1>4, <1>7, <2>1, <2>3, <3>1, NextOnChainIs
    <3> QED BY <1>7, <3>1, <3>2, StepsForwardAlike
  <2> QED BY <2>2, <2>3
<1> QED BY <1>5, <1>6, <1>7

\* With a key to fold in, a send or a receive is the fold and then the rest.
LEMMA FoldsFirst ==
  ASSUME NEW s, NEW e, NEW n, NEW out, maybe_advance(s, out).ok
  PROVE  /\ send(s, e, out) = send(maybe_advance(s, out).state, e, None)
         /\ receive(s, e, out, n) = receive(maybe_advance(s, out).state, e, None, n)
<1> DEFINE t == maybe_advance(s, out).state
<1>1. maybe_advance(t, None).ok /\ maybe_advance(t, None).state = t
  BY DEF maybe_advance, Ok
<1> QED BY <1>1 DEF send, receive

\* The same of the reader.
LEMMA ReaderFoldsFirst ==
  ASSUME NEW x, NEW e, NEW n, NEW out, Reader!Advanced(x, out).ok
  PROVE  /\ Reader!send(x, e, out) = Reader!send(Reader!Advanced(x, out).state, e, None)
         /\ Reader!receive(x, e, n, out) = Reader!receive(Reader!Advanced(x, out).state, e, n, None)
<1> DEFINE t == Reader!Advanced(x, out).state
<1>1. Reader!Advanced(t, None).ok /\ Reader!Advanced(t, None).state = t
  BY DEF Reader!Advanced, Reader!Return
<1> QED BY <1>1 DEF Reader!send, Reader!receive

\* Every send and receive of a sound state, with the next epoch's key or without.
LEMMA OperationsAlike ==
  ASSUME NEW s, Sound(s), NEW x, Mirrors(x, s), NEW out \in Output \cup {None},
         out # None => out.key_epoch = s.epoch + 1, NEW e \in Nat, NEW n \in U64
  PROVE  /\ Agree(send(s, e, out), Reader!send(x, e, out))
         /\ Agree(receive(s, e, out, n), Reader!receive(x, e, n, out))
<1> DEFINE adv == maybe_advance(s, out)
           its == Reader!Advanced(x, out)
<1>1. Agree(adv, its)
  BY AdvancesAlike
<1>2. CASE adv.ok
  <2>1. Mirrors(its.state, adv.state) /\ its.ok
    BY <1>1, <1>2 DEF Agree
  <2>2. Sound(adv.state)
    BY <1>2, MaybeAdvanceMoves DEF Moves
  <2>3. /\ send(s, e, out) = send(adv.state, e, None)
        /\ receive(s, e, out, n) = receive(adv.state, e, None, n)
    BY <1>2, FoldsFirst
  <2>4. /\ Reader!send(x, e, out) = Reader!send(its.state, e, None)
        /\ Reader!receive(x, e, n, out) = Reader!receive(its.state, e, n, None)
    BY <2>1, ReaderFoldsFirst
  <2> HIDE DEF adv, its
  <2> QED BY <2>1, <2>2, <2>3, <2>4, SendsAlike, ReceivesAlike
<1>3. CASE ~adv.ok
  <2>1. ~its.ok
    BY <1>1, <1>3 DEF Agree
  <2>2. send(s, e, out) = adv /\ receive(s, e, out, n) = adv
    BY <1>3 DEF send, receive
  <2>3. Reader!send(x, e, out) = its /\ Reader!receive(x, e, n, out) = its
    BY <2>1 DEF Reader!send, Reader!receive
  <2> HIDE DEF adv, its
  <2> QED BY <1>1, <2>2, <2>3
<1> QED BY <1>2, <1>3

\* The states of the exchange are sound, and its keys are the next epoch's.
LEMMA SoundnessGivesAgreement == SInv => ReaderAgreesOnSparse
<1> SUFFICES ASSUME SInv, NEW p \in Party, NEW out \in Outputs(p), NEW e \in 0..(state[p].epoch + 1)
             PROVE  /\ Same(send(state[p], e, out), Reader!send(Read(state[p]), e, out))
                    /\ \A n \in U64 :
                         Same(receive(state[p], e, out, n), Reader!receive(Read(state[p]), e, n, out))
  BY DEF ReaderAgreesOnSparse
<1>1. Sound(state[p]) /\ state[p].epoch = held[p]
  BY DEF SInv, InStep
<1>2. out \in Output \cup {None} /\ (out # None => out.key_epoch = state[p].epoch + 1)
  BY <1>1, OutputTypes DEF SInv, Outputs, OutputOf
<1>3. e \in Nat
  BY <1>1 DEF Sound, SparseState
<1>4. Mirrors(Read(state[p]), state[p])
  BY ReadMirrors
<1>5. ASSUME NEW n \in U64
      PROVE  /\ Agree(send(state[p], e, out), Reader!send(Read(state[p]), e, out))
             /\ Agree(receive(state[p], e, out, n), Reader!receive(Read(state[p]), e, n, out))
  BY <1>1, <1>2, <1>3, <1>4, OperationsAlike
<1>6. 0 \in U64
  BY BoundsAssumption DEF U64
<1> QED BY <1>5, <1>6, AgreeIsSame

\* In every state of the exchange, the reader's send and receive of the sparse ratchet
\* take and refuse what the library's do, for the same reason, with the same key and the
\* same next state but for the order of the chains.
THEOREM ReaderFollowsSparse == Spec => []ReaderAgreesOnSparse
BY Invariance, SoundnessGivesAgreement, PTL
=============================================================================
