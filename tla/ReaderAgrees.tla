---------------------------- MODULE ReaderAgrees ----------------------------
(***************************************************************************)
(* The two implementations of the Double Ratchet, side by side.  The       *)
(* library's ratchet (module Ratchet) runs in the exchange of module       *)
(* DoubleRatchet; in every state that exchange reaches, the reader's       *)
(* ratchet (module ReaderRatchet) is given the same state and the same     *)
(* header, genuine or altered, and must do the same.                       *)
(***************************************************************************)
EXTENDS DoubleRatchet

Reader == INSTANCE ReaderRatchet

\* The reader's form of a state of the library.
Read(st) ==
  [dhs_pub |-> st.dhs_pub, dhr |-> st.dhr_pub, rk |-> st.rk, cks |-> st.cks, ckr |-> st.ckr,
   ns |-> st.ns, nr |-> st.nr, pn |-> st.pn, events |-> st.events, skipped |-> st.skipped,
   pushed |-> st.pushed]

\* Both accept, with the same key and the same next state, or both refuse for the
\* same reason.
Same(library, reader) ==
  /\ library.err = reader.err
  /\ library.ok => reader.key = library.key /\ reader.state = Read(library.state)

Headers(p) == {x.hdr : x \in UNION {{m} \cup Altered(p, m) : m \in sent[Peer(p)]}}

\* The reader's send and receive agree with the library's in every state of the
\* exchange: at the skip limit, with a full store, at the last message number, with
\* a clock that has stopped, and after any number of ratchet steps; and both give up
\* the same keys when they evict, however many.
ReaderAgreesOnRatchet ==
  \A p \in Party :
    /\ Same(send(state[p]), Reader!send(Read(state[p])))
    /\ \A h \in Headers(p) :
         Same(receive(state[p], h, DH(ratchet_private[p], h.dh), DH(FreshKey(p), h.dh), FreshKey(p)),
              Reader!receive(Read(state[p]), h,
                             <<DH(ratchet_private[p], h.dh), FreshKey(p), DH(FreshKey(p), h.dh)>>))
    /\ \A count \in 0..(MAX_SKIPPED_STORE + 1) :
         Reader!evict(Read(state[p]), count) = Read(evict_oldest(state[p], count))

=============================================================================
