--------------------------- MODULE Establishment ---------------------------
(***************************************************************************)
(* A responder with a prekey store, the initiators that open sessions with *)
(* it, and the storage it is restored from after a crash.                  *)
(*                                                                         *)
(* An initiator takes a bundle the store published, and its messages may   *)
(* arrive at any later time, in any order, any number of times, altered,   *)
(* or not at all.  The responder gives them to establish_responder or to a *)
(* session it has (Session::decrypt).  Whatever it did, it saves before it *)
(* does the next thing, publishes or acknowledges, in the order the        *)
(* library asks for: the session, then the store.  It may crash between    *)
(* any two steps.                                                          *)
(***************************************************************************)
EXTENDS PrekeyStore

CONSTANTS
  Handshakes,      \* the handshakes initiators may start
  Old,             \* a handshake an older release accepted
  OneTimeCount,    \* one-time keys of each kind, at creation
  ReplenishCount,  \* and in each replenishment
  MaxMessages,     \* bound: initial messages of one handshake
  MaxCrashes       \* bound: crashes

ASSUME EstablishmentAssumption ==
  /\ Old \notin Handshakes
  /\ {OneTimeCount, ReplenishCount, MaxMessages, MaxCrashes} \subseteq Nat

\* The keys of a store, and what an initiator takes from it.
StoreKey == [id : Nat, life : Nat, sig : {Owner}]

Taken ==
  [bundle : [signed : StoreKey, one_time : StoreKey \cup {None}, kem : StoreKey],
   turns : [signed : Nat, kem : Nat]]

ASSUME NoneAssumption ==
  None \notin StoreKey /\ None \notin Taken /\ None \notin (Handshakes \cup {Old}) \X Nat \X Nat

VARIABLES
  store,     \* the prekey store in memory
  sessions,  \* the sessions in memory
  disk,      \* what is saved: [store, sessions, turns]
  todo,      \* what is still to be saved, in order
  held,      \* the message to acknowledge once it is
  taken,     \* taken[h]: the bundle handshake h was made with, or None
  life,      \* crashes so far
  acked,     \* acknowledged messages: <<handshake, session number, n>>
  turns,     \* rotations of the signed and of the last-resort key
  torn       \* torn[h]: crashes after the session of h was saved and before
             \* the store was

vars == <<store, sessions, disk, todo, held, taken, life, acked, turns, torn>>

Started == {h \in DOMAIN taken : taken[h] # None}

Genuine == {Initial(h, taken[h].bundle, n) : h \in Started, n \in 1..MaxMessages}

\* One field of the wrapper replaced; identifiers not issued are like zero.
Altered ==
  LET first  == {m \in Genuine : m.n = 1}
      issued == 0..(store.next_id - 1)
  IN  {[m EXCEPT !.signed_id = id] : m \in first, id \in issued}
        \cup {[m EXCEPT !.one_time_id = id] : m \in first, id \in issued}
        \cup {[m EXCEPT !.kem_id = id] : m \in first, id \in issued}
        \cup {[m EXCEPT !.hs = h] : m \in first, h \in DOMAIN taken}

SessionsOf(h, set) == {s \in set : s.hs = h}

-----------------------------------------------------------------------------
(* Saving *)

\* Variants: the store is saved first, or not at all.
StoreFirst == <<"store", "session">>
SessionOnly == <<"session">>

\* After establish_responder: the session, then the store.
AfterEstablishing == <<"session", "store">>

\* Variant: nothing is saved.
NoSave == << >>

\* After Session::decrypt.
AfterReceiving == <<"session">>

\* After a rotation or a replenishment.
AfterStoreChange == <<"store">>

SessionExported == [disk EXCEPT !.sessions = sessions]

StoreWritten == [disk EXCEPT !.store = store, !.turns = turns]

\* A store that changed is saved next.
Change(st) == todo' = IF st = store THEN << >> ELSE AfterStoreChange

-----------------------------------------------------------------------------
(* Initial states: a new store, or one an older release wrote after it had  *)
(* accepted a last-resort handshake, under the current key or a retired one *)

NoTurns == [signed |-> 0, kem |-> 0]

OldStore(created, current) ==
  LET recorded == [created EXCEPT !.last_resort_seen =
                     {[id |-> created.kem.id, fp |-> Secret(Old, None, None, None)]}]
  IN  IF current THEN recorded ELSE rotate_kem(recorded, Owner, 0)

InitWith(st, opened, turned) ==
  LET created == create_prekeys(OneTimeCount, 0)
      b       == publish_multi_use(created)
      all     == {[hs |-> h, no |-> 1, secret |-> Secret(h, b.signed, b.one_time, b.kem),
                   received |-> {1}] : h \in opened}
  IN  /\ store = st
      /\ sessions = all
      /\ disk = [store |-> st, sessions |-> all, turns |-> turned]
      /\ turns = turned
      /\ taken = [h \in Handshakes \cup {Old} |->
                    IF h \in opened THEN [bundle |-> b, turns |-> NoTurns] ELSE None]
      /\ todo = << >> /\ held = None /\ life = 0 /\ acked = {}
      /\ torn = [h \in Handshakes \cup {Old} |-> 0]

Init ==
  LET created == create_prekeys(OneTimeCount, 0)
  IN  \/ InitWith(created, {}, NoTurns)
      \/ InitWith(Upgraded(OldStore(created, TRUE)), {Old}, NoTurns)
      \/ InitWith(Upgraded(OldStore(created, FALSE)), {Old}, [NoTurns EXCEPT !.kem = 1])
      \/ InitWith(Upgraded(Untagged(OldStore(created, FALSE))), {Old}, [NoTurns EXCEPT !.kem = 1])

-----------------------------------------------------------------------------
(* Actions *)

\* establish_initiator_for, against a bundle the directory was given.
Initiate(h) ==
  /\ todo = << >>
  /\ h \in Handshakes /\ taken[h] = None
  /\ \E b \in Publications(store) :
       /\ verify_bundle(b)
       /\ taken' = [taken EXCEPT ![h] = [bundle |-> b, turns |-> turns]]
  /\ UNCHANGED <<store, sessions, disk, todo, held, life, acked, turns, torn>>

\* establish_responder on a message that is accepted.
Establish(m) ==
  /\ todo = << >>
  /\ Refusal(store, m) = "None"
  /\ store' = establish_responder(store, m)
  /\ sessions' = sessions \cup
       {[hs |-> m.hs, no |-> Cardinality(SessionsOf(m.hs, sessions)) + 1,
         secret |-> responder_shared_secret(store, m), received |-> {m.n}]}
  /\ held' = <<m.hs, Cardinality(SessionsOf(m.hs, sessions)) + 1, m.n>>
  /\ todo' = AfterEstablishing
  /\ UNCHANGED <<disk, taken, life, acked, turns, torn>>

\* establish_responder on a message that is refused.
Refuse(m) ==
  /\ todo = << >>
  /\ Refusal(store, m) # "None"
  /\ store' = establish_responder(store, m)
  /\ Change(store')
  /\ UNCHANGED <<sessions, disk, held, taken, life, acked, turns, torn>>

\* Session::decrypt on a repeated initial message.  The wrapper is recognised
\* by the ephemeral and the identity; its identifiers are not looked at, so that
\* to alter them changes nothing.
DecryptRepeated(s, m) ==
  /\ todo = << >>
  /\ s.hs = m.hs /\ s.secret = m.secret /\ m.n \notin s.received
  /\ sessions' = (sessions \ {s}) \cup {[s EXCEPT !.received = @ \cup {m.n}]}
  /\ held' = <<s.hs, s.no, m.n>>
  /\ todo' = AfterReceiving
  /\ UNCHANGED <<store, disk, taken, life, acked, turns, torn>>

Replenish(identity) ==
  /\ todo = << >>
  /\ store' = replenish(store, identity, ReplenishCount, life)
  /\ Change(store')
  /\ UNCHANGED <<sessions, disk, held, taken, life, acked, turns, torn>>

RotateSignedPrekey(identity) ==
  /\ todo = << >>
  /\ store' = rotate_signed_prekey(store, identity, life)
  /\ Change(store')
  /\ turns' = IF store' = store THEN turns ELSE [turns EXCEPT !.signed = @ + 1]
  /\ UNCHANGED <<sessions, disk, held, taken, life, acked, torn>>

RotateKem(identity) ==
  /\ todo = << >>
  /\ store' = rotate_kem(store, identity, life)
  /\ Change(store')
  /\ turns' = IF store' = store THEN turns ELSE [turns EXCEPT !.kem = @ + 1]
  /\ UNCHANGED <<sessions, disk, held, taken, life, acked, torn>>

\* One file written; after the last one the message is acknowledged.
Save ==
  /\ todo # << >>
  /\ disk' = IF Head(todo) = "session" THEN SessionExported ELSE StoreWritten
  /\ todo' = Tail(todo)
  /\ IF Tail(todo) = << >>
       THEN held' = None /\ acked' = acked \cup ({held} \ {None})
       ELSE UNCHANGED <<held, acked>>
  /\ UNCHANGED <<store, sessions, taken, life, turns, torn>>

\* Memory is lost, and what was saved is read back.
Crash ==
  /\ life < MaxCrashes
  /\ from_bytes_accepts(disk.store)
  /\ store' = disk.store
  /\ sessions' = disk.sessions
  /\ turns' = disk.turns
  /\ torn' = IF held # None /\ todo = <<"store">>
               THEN [torn EXCEPT ![held[1]] = @ + 1]
               ELSE torn
  /\ todo' = << >> /\ held' = None /\ life' = life + 1
  /\ UNCHANGED <<disk, taken, acked>>

Next ==
  \/ \E h \in Handshakes : Initiate(h)
  \/ \E m \in Genuine \cup Altered : Establish(m) \/ Refuse(m)
  \/ \E s \in sessions, m \in Genuine : DecryptRepeated(s, m)
  \/ \E identity \in {Owner, Stranger} :
       Replenish(identity) \/ RotateSignedPrekey(identity) \/ RotateKem(identity)
  \/ Save
  \/ Crash

Spec == Init /\ [][Next]_vars

-----------------------------------------------------------------------------
(* Properties *)

\* The store in memory and the one on disk are always accepted when they are
\* read back: identifiers distinct, issued and never the absent one, the record
\* only about keys that can still decrypt and within each key's budget, and
\* every signature the owner's (PrekeyStore::invariant, signatures_verify).
Restorable == from_bytes_accepts(store) /\ from_bytes_accepts(disk.store)

\* A handshake opens one session, however often its messages are delivered and
\* whatever was rotated, replenished or upgraded meanwhile; one more for each
\* crash that fell between the two saves (establish_responder, last_resort_seen).
OneSession ==
  \A h \in DOMAIN taken : Cardinality(SessionsOf(h, sessions)) <= 1 + torn[h]

\* The keys of h have been rotated at most once since its bundle was published.
InGrace(h) ==
  /\ turns.signed <= taken[h].turns.signed + 1
  /\ turns.kem <= taken[h].turns.kem + 1

\* Another handshake was given one of the one-time keys of h.
Contended(h) ==
  LET b == taken[h].bundle
  IN  \E g \in Started \ {h} :
        \/ b.one_time # None /\ b.one_time = taken[g].bundle.one_time
        \/ b.kem = taken[g].bundle.kem /\ ~IsLastResort(store, b.kem.id)

\* The last-resort key k has accepted as many handshakes as it may, or is one
\* that an older release had in use.
UsedUp(k) ==
  /\ IsLastResort(store, k.id)
  /\ \/ k.id \in store.blocked
     \/ Cardinality({s.hs : s \in {x \in sessions : x.secret.kem = k}}) >= MAX_LAST_RESORT_SEEN

\* The peer is never locked out: while the bundle it used is at most one rotation
\* old, and no other handshake was given one of its one-time keys or used up its
\* last-resort key, every message of the handshake opens the session, or the
\* session is there already -- after any crash, and whatever altered messages
\* came first (establish_responder, rotate_signed_prekey, rotate_kem, and the
\* order Session::export asks for).
FirstContact ==
  \A h \in Started :
    \/ ~InGrace(h) \/ Contended(h) \/ UsedUp(taken[h].bundle.kem)
    \/ SessionsOf(h, sessions) # {}
    \/ \A n \in 1..MaxMessages : Refusal(store, Initial(h, taken[h].bundle, n)) = "None"

\* A message that was acknowledged is on disk as received, so that no restart
\* delivers it again on its session (Session::export, "persist before
\* acknowledging").
AckedIsSaved ==
  \A a \in acked : \E s \in disk.sessions : s.hs = a[1] /\ s.no = a[2] /\ a[3] \in s.received

\* Once a message of a handshake is acknowledged its one-time keys are neither
\* in memory nor on disk, unless a crash tore the save of that session.
SpentKeysGone ==
  \A a \in acked, st \in {store, disk.store} :
    torn[a[1]] > 0 \/
    LET b == taken[a[1]].bundle
    IN  /\ \A i \in DOMAIN st.one_time : st.one_time[i] # b.one_time
        /\ \A i \in DOMAIN st.kem_one_time : st.kem_one_time[i] # b.kem

\* An identifier a peer was given never comes to name another key, although a
\* crash may wind next_id back (next_id; publishing only what was saved).
NamesAreStable ==
  \A h \in Started :
    LET b == taken[h].bundle
    IN  /\ Named(store.signed, store.previous_signed, b.signed.id) \subseteq {b.signed}
        /\ Named(store.kem, store.previous_kem, b.kem.id) \subseteq {b.kem}
        /\ Find(store.kem_one_time, b.kem.id) \subseteq {b.kem}
        /\ b.one_time # None => Find(store.one_time, b.one_time.id) \subseteq {b.one_time}

\* The remaining budget the store reports for its current last-resort key says
\* whether the next peer that uses the multi-use bundle will be accepted
\* (last_resort_record_remaining).
RemainingIsTrue ==
  \A h \in Handshakes \ Started :
    (last_resort_record_remaining_for(store, store.kem.id) > 0)
      <=> Refusal(store, Initial(h, publish_multi_use(store), 1)) = "None"

\* Each handshake opens one session: no second one, and not none
\* (establish_responder).
ExactlyOneSession == OneSession /\ FirstContact

\* The store can be read back and knows what it can still accept.
StoreIsSound == Restorable /\ RemainingIsTrue

\* Across restarts what was acknowledged stays received, what was spent stays gone,
\* and what was published keeps its name.
SurvivesRestart == AckedIsSaved /\ SpentKeysGone /\ NamesAreStable
=============================================================================
