------------------------- MODULE ReaderAgreesSparse -------------------------
(***************************************************************************)
(* The two implementations of the sparse ratchet, side by side, in every   *)
(* state that the exchange of module SparseExchange reaches (see module    *)
(* ReaderAgrees).                                                          *)
(***************************************************************************)
EXTENDS SparseExchange

Reader == INSTANCE ReaderSparse

\* The reader's form of a state of the library.  Only the library's byte format has
\* the order of the chains, so it is left out of the comparison.
Read(st) ==
  [rk |-> st.rk, epoch |-> st.epoch, direction |-> st.direction, chains |-> st.chains,
   order |-> << >>, skipped |-> st.skipped, pushed |-> st.pushed]

Unordered(st) == [st EXCEPT !.order = << >>]

ReasonOf(err) == IF err = "EpochOutOfOrder" THEN "EpochGap" ELSE err

Same(library, reader) ==
  /\ ReasonOf(library.err) = reader.err
  /\ library.ok => reader.key = library.key /\ Unordered(reader.state) = Read(library.state)

\* The reader's send and receive agree with the library's in every state of the
\* exchange, for every message under way and for numbers and epochs that no message
\* has, with and without the agreement's next key.
ReaderAgreesOnSparse ==
  \A p \in Party : \A out \in Outputs(p) :
    \A e \in 0..(state[p].epoch + 1) :
      /\ Same(send(state[p], e, out), Reader!send(Read(state[p]), e, out))
      /\ \A n \in U64 :
           Same(receive(state[p], e, out, n), Reader!receive(Read(state[p]), e, n, out))
=============================================================================
