------------------------- MODULE InventoryVerifiers -------------------------
(***************************************************************************)
(* Issuers sign inventory statements; the threads of one verifier check    *)
(* them at the same time, against one stored generation to an account.     *)
(* Statements arrive late, twice, in any order, altered on the way, or     *)
(* under another issuer's key. The freshness check reads the store; the    *)
(* policy's `accepted` hook, the last step, reads it again and writes.     *)
(***************************************************************************)
EXTENDS InventoryStatement

CONSTANTS
  Threads,      \* the verifier's threads
  Accounts,     \* account handles
  Bound,        \* the issuer entries the verifier's policy holds, a sequence
  Secrets,      \* the signing keys of the issuers
  Offered,      \* the statements an issuer is asked to sign
  MaxIssued     \* bound: statements signed in one behaviour

VARIABLES
  issued,       \* signed statements on the network
  stored,       \* account -> the generation recorded for it
  thread,       \* thread -> the statement it has checked and not yet recorded
  accepted,     \* the statements accepted, in order, each with the account asked about
  last          \* the last refusal of a statement that arrived as it was signed

vars == <<issued, stored, thread, accepted, last>>

\* What the constants must be.
VerifiersAssumption ==
  /\ \A s \in Offered : s.generation \in Nat
  /\ AnyAccount \notin Accounts

Idle == [asked |-> AnyAccount, s |-> NoStatement]

\* The policy of a verifier that accepts what is newer than its record and refuses no binding.
Policy(now) ==
  [issuers |-> Bound, fresh |-> {<<a, g>> \in Accounts \X {s.generation : s \in Offered} : g > now[a]},
   refuse_binding |-> <<>>, refuse_every_binding |-> FALSE, refuse_statement |-> FALSE]

Init ==
  /\ issued = {}
  /\ stored = [a \in Accounts |-> -1]
  /\ thread = [t \in Threads |-> Idle]
  /\ accepted = <<>>
  /\ last = None

\* An issuer signs a statement that passes its own checks.
Issue(secret, s) ==
  /\ issuer_allows(s)
  /\ Cardinality(issued) < MaxIssued
  /\ issued' = issued \union {sign_statement(secret, s)}
  /\ UNCHANGED <<stored, thread, accepted, last>>

\* What can arrive: a signed statement as it was, one cell of it changed, or cut short.
Arrivals ==
  issued \union UNION {{[w EXCEPT !.body[i] = @ + 1] : i \in DOMAIN w.body} : w \in issued}
         \union {[w EXCEPT !.body = Front(w.body)] : w \in issued}

\* A thread runs the checks up to the record of the generation.
Verify(t, wire, asked) ==
  LET outcome == accept(wire, asked, Policy(stored)).refusal IN
    /\ thread[t] = Idle
    /\ thread' = IF outcome = None THEN [thread EXCEPT ![t] = [asked |-> asked, s |-> decode_unsigned(wire.body)]]
                 ELSE thread
    /\ last' = IF wire \in issued THEN outcome ELSE last
    /\ UNCHANGED <<issued, stored, accepted>>

\* Variant: the generation is recorded without looking again.
RecordBlindly(t) ==
  LET p == thread[t] IN
    /\ p # Idle
    /\ thread' = [thread EXCEPT ![t] = Idle]
    /\ stored' = [stored EXCEPT ![p.s.account] = p.s.generation]
    /\ accepted' = Append(accepted, p)
    /\ UNCHANGED <<issued, last>>

\* `accepted`: the rule again, against what is stored now, and the record, in one step.
Record(t) ==
  LET p == thread[t]
      current == p.s.generation > stored[p.s.account] IN
    /\ p # Idle
    /\ thread' = [thread EXCEPT ![t] = Idle]
    /\ stored' = IF current THEN [stored EXCEPT ![p.s.account] = p.s.generation] ELSE stored
    /\ accepted' = IF current THEN Append(accepted, p) ELSE accepted
    /\ UNCHANGED <<issued, last>>

Next ==
  \/ \E secret \in Secrets, s \in Offered : Issue(secret, s)
  \/ \E t \in Threads, wire \in Arrivals, asked \in Accounts : Verify(t, wire, asked)
  \/ \E t \in Threads : Record(t)

Spec == Init /\ [][Next]_vars

-----------------------------------------------------------------------------
\* Whatever the threads' interleaving and the order of arrival, the statements
\* accepted for one account have ascending generations and the record is the
\* newest of them: a statement that a newer one overtook between its freshness
\* check and its record is not accepted, and the record never falls
\* (Policy.accepted, called at the end of _checks).
NewestStands ==
  \A i \in DOMAIN accepted :
    /\ stored[accepted[i].s.account] >= accepted[i].s.generation
    /\ \A j \in 1..(i - 1) :
         accepted[j].s.account = accepted[i].s.account => accepted[j].s.generation < accepted[i].s.generation

\* What is accepted is, field for field, a statement signed by a key the policy
\* binds to that account, and it is for the account the verifier asked about,
\* also where one issuer key serves two accounts (checks 1 to 3).
AcceptedIsIssued ==
  \A i \in DOMAIN accepted :
    LET p == accepted[i] IN
      /\ p.asked = p.s.account
      /\ \E e \in Range(Bound) : /\ e.account \in {AnyAccount, p.s.account}
                                 /\ e.id = p.s.issuer
                                 /\ sign_statement(e.key, p.s) \in issued

\* A statement that arrives as it was signed is refused, if at all, for its
\* account, its issuer, its key or its generation: an issuer that applies its duty
\* (sign_statement) never signs what a verifier refuses by an encoding rule, by
\* check 5 or by check 6.
SignedIsTaken == last \in {None, "account", "issuer", "signature", "freshness"}

\* A verifier accepts, once and in order, what it should, and nothing else.
VerifiersHold == NewestStands /\ AcceptedIsIssued /\ SignedIsTaken
=============================================================================
