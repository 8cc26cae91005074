------------------------- MODULE InventoryGenerator -------------------------
(***************************************************************************)
(* generate-inventory-vectors.py: a second reading of the inventory page,  *)
(* with a decoder and an acceptance of its own, the corpus it checks case  *)
(* by case, and the four files it writes for the independent reader's      *)
(* runner. Somebody adds a case to the corpus.                             *)
(***************************************************************************)
EXTENDS InventoryStatement, TLC

CONSTANTS
  Offered     \* the cases somebody adds

VARIABLES
  corpus,     \* do the cases of the script hold, and pass the reader?
  new,        \* the case added
  built       \* "no", "written" or "refused"

vars == <<corpus, new, built>>

-----------------------------------------------------------------------------
(* The script's own encoding, decoder and acceptance *)

Sorted(s) ==
  [s EXCEPT !.active = SortSeq(@, LAMBDA a, b : Before(encode_binding(a), encode_binding(b))),
            !.revoked = SortSeq(@, LAMBDA a, b : Before(encode_revocation(a), encode_revocation(b)))]

\* The encoding with declared counts that may differ from the lists.
EncodeCounts(s, active, revoked) ==
  <<INVENTORY_DOMAIN, s.issuer, Len(s.account)>> \o s.account \o <<s.generation, active>>
    \o FlattenSeq(Map(encode_binding, s.active)) \o <<s.floor, revoked>>
    \o FlattenSeq(Map(encode_revocation, s.revoked))

Encode(s) == EncodeCounts(s, Len(s.active), Len(s.revoked))

\* The cells one entry takes, or 0 when it is refused where it stands.
EntryCells(d, i) ==
  IF i + 3 > Len(d) THEN 0
  ELSE IF d[i + 2] # GROUP_EPOCH_V1 \/ d[i + 3] \notin {0, 1} THEN 0
  ELSE IF i + 3 + d[i + 3] > Len(d) THEN 0 ELSE 4 + d[i + 3]

\* Where the entries of a list begin, and where the cursor stands after them; 0 refuses.
Starts(d, i, n, extra) ==
  FoldLeft(LAMBDA at, k : LET c == EntryCells(d, Last(at)) IN
                            IF Last(at) = 0 \/ c = 0 \/ Last(at) + c + extra > Len(d) + 1 THEN <<0>>
                            ELSE Append(at, Last(at) + c + extra),
           <<i>>, [k \in 1..n |-> k])

BindingAt(d, i) ==
  [device |-> d[i], key |-> d[i + 1], caps |-> d[i + 2], pred |-> IF d[i + 3] = 0 THEN NoPredecessor ELSE d[i + 4]]

Ascends(group) == \A i \in 2..Len(group) : Before(group[i - 1], group[i])

TerminalInside(r, floor, generation) == floor < r.terminal /\ r.terminal <= generation

\* The rules on a statement read from d, the whole of which its encoding is.
Spelled(s, d) ==
  IF /\ s.floor <= s.generation
     /\ \A r \in Range(s.revoked) : TerminalInside(r, s.floor, s.generation)
     /\ Ascends(Map(encode_binding, s.active)) /\ Ascends(Map(encode_revocation, s.revoked))
     /\ \A r \in Range(s.revoked) : encode_binding(r.binding) \notin Range(Map(encode_binding, s.active))
     /\ Encode(s) = d
  THEN s ELSE NoStatement

\* The revocations, which start at `rev`, after the bindings, which start at `act`.
RevokedFrom(d, n, act, rev) ==
  IF Last(rev) # Len(d) + 1 THEN NoStatement
  ELSE Spelled(Statement(d[2], SubSeq(d, 4, 3 + n), d[4 + n],
                         [k \in 1..(Len(act) - 1) |-> BindingAt(d, act[k])], d[Last(act)],
                         [k \in 1..(Len(rev) - 1) |-> Revocation(BindingAt(d, rev[k]), d[rev[k + 1] - 1])]), d)

ActiveFrom(d, n, act) ==
  IF Last(act) = 0 \/ Last(act) + 1 > Len(d) THEN NoStatement
  ELSE IF d[Last(act) + 1] > MAX_RECENT_REVOCATIONS THEN NoStatement
  ELSE RevokedFrom(d, n, act, Starts(d, Last(act) + 2, d[Last(act) + 1], 1))

\* decode: the statement, or NoStatement where the script raises Refuse.
decode(d) ==
  LET n == d[3] IN
    IF Len(d) < 3 THEN NoStatement
    ELSE IF d[1] # INVENTORY_DOMAIN \/ n = 0 \/ n > MAX_ACCOUNT_BYTES \/ 5 + n > Len(d) THEN NoStatement
    ELSE IF BadByte \in Range(SubSeq(d, 4, 3 + n)) \/ d[5 + n] > MAX_ACTIVE_BINDINGS THEN NoStatement
    ELSE ActiveFrom(d, n, Starts(d, 6 + n, d[5 + n], 0))

\* Variant: a refused binding does not stop the pass over the others.
PassGoesOn(policy, s) ==
  FoldLeft(LAMBDA r, e :
             [calls |-> Append(r.calls, <<"binding", e>>),
              refused |-> r.refused \/ policy.refuse_every_binding \/ policy.refuse_binding = <<e[1].key, e[2]>>],
           [calls |-> <<>>, refused |-> FALSE], Entries(s))

\* Check 7 entry by entry: the calls made and whether one was refused.
PolicyPass(policy, s) ==
  FoldLeft(LAMBDA r, e :
             IF r.refused THEN r
             ELSE [calls |-> Append(r.calls, <<"binding", e>>),
                   refused |-> policy.refuse_every_binding \/ policy.refuse_binding = <<e[1].key, e[2]>>],
           [calls |-> <<>>, refused |-> FALSE], Entries(s))

\* The first row whose check fails; a row is its refusal, the failure and the calls made.
FirstFailing(fails) ==
  LET k == CHOOSE i \in DOMAIN fails : fails[i][2] /\ \A j \in 1..(i - 1) : ~fails[j][2]
  IN [refusal |-> fails[k][1], calls |-> fails[k][3]]

\* The checks on statement s, decoded from the wire, with the policy's pass over it.
GenChecks(s, pass, wire, asked, policy) ==
  LET keys == {policy.issuers[i].key : i \in {j \in DOMAIN policy.issuers :
                 /\ policy.issuers[j].id = s.issuer /\ policy.issuers[j].account \in {AnyAccount, s.account}
                 /\ \A h \in 1..(j - 1) : ~(/\ policy.issuers[h].id = s.issuer
                                            /\ policy.issuers[h].account \in {AnyAccount, s.account})}}
      looked == <<<<"issuer", s.issuer, s.account>>>>
      asked4 == Append(looked, <<"freshness", s.account, s.generation>>)
  IN FirstFailing(
              << <<"decode", ~wire.signed \/ s = NoStatement, <<>> >>,
                  <<"account", s.account # asked, <<>> >>,
                  <<"issuer", keys = {}, looked>>,
                  <<"signature", \A k \in keys : ~xeddsa_verify(k, wire.body, wire.sig), looked>>,
                  <<"freshness", <<s.account, s.generation>> \notin policy.fresh, asked4>>,
                  <<"duplicate-device", Cardinality({b.device : b \in Range(s.active)}) # Len(s.active), asked4>>,
                  <<"identity-key", ~({e[1].key : e \in Range(Entries(s))} \subseteq IdentityKeys), asked4>>,
                  <<"binding-policy", pass.refused, asked4 \o pass.calls>>,
                  <<"statement-policy", policy.refuse_statement, asked4 \o pass.calls \o <<<<"statement">>>> >>,
                  <<None, TRUE, asked4 \o pass.calls \o <<<<"statement">>>> >> >>)

\* The acceptance of generate-inventory-vectors.py.
GenDecoded(s, wire, asked, policy) == GenChecks(s, PolicyPass(policy, s), wire, asked, policy)

GenAccept(wire, asked, policy) == GenDecoded(decode(wire.body), wire, asked, policy)

Commitment(b) == IF b.caps # GROUP_EPOCH_V1 THEN NoPredecessor ELSE binding_commitment(b)
-----------------------------------------------------------------------------
(* The corpus. Keys below 20 are not identity keys; handles and generations  *)
(* are small numbers.                                                       *)

Alice == <<1, 2>>
Bob == <<3>>
ALICE_KEY == 9
BOB_KEY == 10

Entry(id, account, key) == [id |-> id, account |-> account, key |-> key]
Policy(issuers, current) ==
  [issuers |-> issuers, fresh |-> current, refuse_binding |-> <<>>, refuse_every_binding |-> FALSE,
   refuse_statement |-> FALSE]
base_policy == Policy(<<Entry(7, Alice, ALICE_KEY), Entry(8, Bob, BOB_KEY)>>, {<<Alice, 2>>, <<Bob, 5>>})
AlicePolicy == Policy(<<Entry(7, Alice, ALICE_KEY)>>, {<<Alice, 2>>})

B(device, key) == DeviceBinding(device, key)
Replaces(b, pred) == [b EXCEPT !.pred = pred]
R(b, terminal) == Revocation(b, terminal)

alice(active, generation, floor, revoked) == Statement(7, Alice, generation, active, floor, revoked)
A2(active) == alice(active, 2, 0, <<>>)

\* A body signed as it stands, and a statement sorted and signed.
sign_body(secret, body) == Wire(body, xeddsa_sign(secret, "inventory", body))
Signed(s) == sign_body(ALICE_KEY, Encode(Sorted(s)))

First(n, Item(_)) == [i \in 1..n |-> Item(i)]
FullActive == First(MAX_ACTIVE_BINDINGS, LAMBDA i : B(i, 30 + i))
FullRevoked == First(MAX_RECENT_REVOCATIONS, LAMBDA i : R(B(i, 40 + i), 2 + (i % 4)))

Old == B(1, 24)
StatementCases ==
  { A2(<<B(1, 5)>>), Statement(0, <<1>>, 0, <<>>, 0, <<>>), alice(<<>>, 5, 5, <<>>),
     A2(<<B(1, 21), B(2, 22)>>), A2(<<B(1, 5), B(1, 6)>>),
     A2(<<B(1, 23), Replaces(B(1, 23), 44)>>), A2(<<Replaces(B(1, 23), 10), Replaces(B(1, 23), 20)>>),
     alice(<<Replaces(B(1, 25), binding_commitment(Old))>>, 5, 2, <<R(Old, 4)>>),
     alice(<<Replaces(B(2, 25), binding_commitment(Old))>>, 5, 2, <<R(Old, 4)>>),
     alice(<<Replaces(B(1, 25), binding_commitment(Old))>>, 5, 2, <<>>),
     alice(<<>>, 5, 1, <<R(B(1, 26), 3), R(B(2, 27), 2)>>), alice(<<>>, 5, 1, <<R(B(1, 26), 2), R(B(1, 26), 3)>>),
     alice(<<>>, 5, 1, <<R(B(1, 26), 4), R(B(2, 26), 2)>>), alice(<<>>, 5, 2, <<R(B(1, 26), 3), R(B(2, 26), 5)>>),
     A2(FullActive), alice(<<>>, 5, 1, FullRevoked), alice(FullActive, 5, 1, FullRevoked),
     Statement(7, First(MAX_ACCOUNT_BYTES, LAMBDA i : 1), 2, <<>>, 0, <<>>),
     alice(<<B(1, 0), B(2, 11)>>, 2, 0, <<R(B(1, 12), 1)>>) }

Good == Sorted(alice(<<B(1, 21), Replaces(B(2, 22), 44)>>, 5, 1, <<R(B(3, 23), 2), R(B(4, 24), 3)>>))
Raw == Encode(Good)
With_account(account, declared) == <<INVENTORY_DOMAIN, 7, declared>> \o account \o <<2, 0, 0, 0>>
One_active(cells) == <<INVENTORY_DOMAIN, 7, 1, 1, 5, 1>> \o cells \o <<1, 0>>
One_revoked(cells) == <<INVENTORY_DOMAIN, 7, 1, 1, 5, 0, 1, 1>> \o cells

BadCapabilities == {0, 2, 3, 8, 9}

\* Inputs the decoder refuses, by the rule each breaks.
ShapeRefusals ==
  { <<>>, [Raw EXCEPT ![1] = 98], Front(Raw), SubSeq(Raw, 1, Len(Raw) - 7), Append(Raw, 0),
     With_account(<<>>, 0), With_account(First(MAX_ACCOUNT_BYTES + 1, LAMBDA i : 1), MAX_ACCOUNT_BYTES + 1),
     With_account(<<1>>, MAX_ACCOUNT_BYTES), With_account(<<1>>, 90), With_account(<<1, BadByte>>, 2),
     Encode(A2(First(MAX_ACTIVE_BINDINGS + 1, LAMBDA i : B(i, 30 + i)))),
     EncodeCounts(A2(FullActive), MAX_ACTIVE_BINDINGS + 1, 0), EncodeCounts(Good, 90, 2), EncodeCounts(Good, 3, 2),
     Encode(alice(<<>>, 5, 1, First(MAX_RECENT_REVOCATIONS + 1, LAMBDA i : R(B(i, 40 + i), 2)))),
     EncodeCounts(Good, 2, 90), EncodeCounts(Good, 2, 3),
     One_active(<<1, 21, 1, 2, 0>>), One_active(<<1, 21, 1, 8>>), One_active(<<1, 21, 1, 1>>) }
   \union ({One_active(<<1, 21, caps, 0>>) : caps \in BadCapabilities}
               \union {One_revoked(<<1, 21, caps, 0, 3>>) : caps \in BadCapabilities})

OrderRefusals ==
  {Encode(s) : s \in
   { A2(<<B(2, 22), B(1, 21)>>), A2(<<B(1, 21), B(1, 21)>>), A2(<<B(1, 6), B(1, 5)>>),
      A2(<<Replaces(B(1, 23), 44), B(1, 23)>>), A2(<<Replaces(B(1, 23), 20), Replaces(B(1, 23), 10)>>),
      alice(<<>>, 5, 1, <<R(B(2, 27), 3), R(B(1, 26), 2)>>), alice(<<>>, 5, 1, <<R(B(1, 26), 2), R(B(1, 26), 2)>>),
      alice(<<>>, 5, 1, <<R(B(1, 26), 3), R(B(1, 26), 2)>>), alice(<<>>, 5, 1, <<R(B(2, 26), 2), R(B(1, 26), 4)>>),
      alice(<<>>, 4, 5, <<>>), alice(<<>>, 5, 1, <<R(B(1, 26), 1)>>), alice(<<>>, 5, 0, <<R(B(1, 26), 0)>>),
      alice(<<>>, 5, 1, <<R(B(1, 26), 6)>>), alice(<<B(1, 21)>>, 5, 1, <<R(B(1, 21), 3)>>) }}

CommitmentCases ==
  {Replaces(B(7, 3), 4), B(7, 3), Replaces(B(8, 3), 4), Replaces(B(7, 5), 4), Replaces(B(7, 3), 6), B(7, 0)}
    \union ({[B(7, 3) EXCEPT !.caps = caps] : caps \in BadCapabilities})

\* An acceptance case: what is intended of a wire, for an account, under a policy.
Accepts(wire, expect, asked, policy) ==
  [kind |-> "acceptance", wire |-> wire, expect |-> expect, asked |-> asked, policy |-> policy]
A(wire, expect) == Accepts(wire, expect, Alice, base_policy)
Plain == A2(<<B(1, 21), B(2, 22)>>)
PlainBody == Encode(Sorted(Plain))
Shared(fresh_for) == Policy(<<Entry(9, AnyAccount, ALICE_KEY)>>, fresh_for)
ReplacesOld(device) == alice(<<Replaces(B(device, 25), binding_commitment(Old))>>, 2, 0, <<R(Old, 1)>>)
Retired == Replaces(B(1, 25), 77)
BobShared == sign_body(ALICE_KEY, Encode(Statement(9, Bob, 5, <<B(1, 21)>>, 0, <<>>)))

AcceptedCases ==
  { A(Signed(Plain), None), A(Signed(A2(<<>>)), None),
     Accepts(sign_body(BOB_KEY, Encode(Statement(8, Bob, 5, <<B(3, 23)>>, 0, <<>>))), None, Bob, base_policy),
     A(Signed(alice(FullActive, 2, 0, First(MAX_RECENT_REVOCATIONS, LAMBDA i : R(B(i, 50 + i), 1 + (i % 2))))), None),
     A(Signed(ReplacesOld(1)), None), A(Signed(ReplacesOld(2)), None),
     Accepts(Signed(alice(<<Replaces(B(1, 25), binding_commitment(Old))>>, 5, 2, <<>>)), None, Alice,
             Policy(<<Entry(7, Alice, ALICE_KEY)>>, {<<Alice, 5>>})),
     A(Signed(A2(<<Replaces(B(1, 25), 99)>>)), None),
     A(Signed(A2(<<B(1, 21), Replaces(B(2, 22), binding_commitment(B(1, 21)))>>)), None),
     A(Signed(alice(<<Replaces(B(1, 25), binding_commitment(Retired))>>, 2, 0, <<R(Retired, 1)>>)), None),
     A(Signed(A2(<<B(1, 21), B(2, 21)>>)), None), A(Signed(alice(<<B(2, 21)>>, 2, 0, <<R(B(1, 21), 1)>>)), None),
     A(Signed(alice(<<B(1, 22)>>, 2, 0, <<R(B(1, 21), 1)>>)), None),
     Accepts(Signed(alice(<<>>, 3, 0, <<R(B(1, 21), 1), R(B(1, 21), 2)>>)), None, Alice,
             Policy(<<Entry(7, Alice, ALICE_KEY)>>, {<<Alice, 3>>})),
     Accepts(BobShared, None, Bob, Shared({<<Alice, 2>>, <<Bob, 5>>})) }

\* Refusals by rule, by check 1 and by check 2.
EarlyCases ==
  { A(sign_body(ALICE_KEY, Encode(A2(<<B(2, 22), B(1, 21)>>))), "decode"),
     A(sign_body(ALICE_KEY, Encode(A2(<<[B(1, 21) EXCEPT !.caps = 2]>>))), "decode"),
     A(sign_body(ALICE_KEY, Encode(Statement(7, <<>>, 2, <<>>, 0, <<>>))), "decode"),
     A(sign_body(ALICE_KEY, One_active(<<1, 21, 1, 2, 0>>)), "decode"),
     A([Signed(Plain) EXCEPT !.signed = FALSE], "decode"), A(sign_body(ALICE_KEY, <<>>), "decode"),
     A([Signed(Plain) EXCEPT !.body[1] = 98], "decode"), A([Signed(Plain) EXCEPT !.body = Append(@, 9)], "decode"),
     A(Signed([A2(<<B(1, 21)>>) EXCEPT !.issuer = 99]), "issuer"),
     A(Signed([A2(<<B(1, 21)>>) EXCEPT !.issuer = 8]), "issuer"),
     A(Signed([A2(<<B(1, 21)>>) EXCEPT !.issuer = 0]), "issuer"),
     Accepts(BobShared, "account", Alice, Shared({<<Alice, 2>>, <<Bob, 5>>})) }
   \union ({Accepts(Signed(Plain), "account", asked, base_policy) : asked \in {Bob, <<1>>, <<2>>, <<1, 2, 0>>, <<>>}})

\* Check 3: the signature's bits, its label, its key, and what it was made over.
SignatureCases ==
  { A(Wire(PlainBody, xeddsa_sign(BOB_KEY, "inventory", PlainBody)), "signature"),
     A(Wire(Encode(alice(Plain.active, 3, 0, <<>>)), xeddsa_sign(ALICE_KEY, "inventory", PlainBody)), "signature") }
   \union ({A(Wire(PlainBody, xeddsa_sign(ALICE_KEY, label, PlainBody)), "signature") :
                  label \in {"flipped", "none", "application", "unterminated", "twice"}}
               \union {Accepts(Signed(Plain), "signature", Alice, Policy(<<Entry(7, Alice, k)>>, {<<Alice, 2>>})) :
                         k \in {0, 11, 12}})

\* Checks 4 to 6.
WithKey(key, where) ==
  IF where = "active" THEN Signed(A2(<<B(1, key)>>)) ELSE Signed(alice(<<B(2, 22)>>, 2, 0, <<R(B(1, key), 1)>>))

LateCases ==
  { A(Signed(alice(<<B(1, 21)>>, 3, 0, <<>>)), "freshness"), A(Signed(alice(<<B(1, 21)>>, 1, 0, <<>>)), "freshness"),
     Accepts(Signed(Plain), "freshness", Alice, Policy(<<Entry(7, Alice, ALICE_KEY)>>, {<<Bob, 2>>})),
     A(Signed(A2(<<B(1, 21), B(1, 22)>>)), "duplicate-device"), A(Signed(A2(<<B(1, 0), B(1, 22)>>)), "duplicate-device"),
     A(Signed(A2(<<B(1, 21), B(2, 22), B(3, 23), B(4, 13)>>)), "identity-key") }
   \union ({A(WithKey(key, where), "identity-key") : key \in {0, 11, 12, 13}, where \in {"active", "revoked"}})

\* Check 7 and the order of its hooks.
Refusing(policy, key, where) == [policy EXCEPT !.refuse_binding = <<key, where>>]
RevokedToo == Signed(alice(<<B(1, 21)>>, 2, 0, <<R(B(2, 22), 1)>>))
RefuseStatement(policy) == [policy EXCEPT !.refuse_statement = TRUE]
RefuseEvery == [base_policy EXCEPT !.refuse_every_binding = TRUE]

PolicyCases ==
  { Accepts(Signed(Plain), "binding-policy", Alice, Refusing(base_policy, 22, "active")),
     Accepts(RevokedToo, "binding-policy", Alice, Refusing(base_policy, 22, "revoked")),
     Accepts(RevokedToo, None, Alice, Refusing(base_policy, 22, "active")),
     Accepts(Signed(Plain), None, Alice, Refusing(base_policy, 22, "revoked")),
     Accepts(Signed(Plain), "binding-policy", Alice, RefuseEvery), Accepts(RevokedToo, "binding-policy", Alice, RefuseEvery),
     Accepts(Signed(A2(<<B(1, 21), B(2, 22), B(3, 23)>>)), "binding-policy", Alice, Refusing(AlicePolicy, 23, "active")),
     Accepts(Signed(Plain), "statement-policy", Alice, RefuseStatement(base_policy)),
     Accepts(Signed(Plain), "binding-policy", Alice, RefuseStatement(Refusing(AlicePolicy, 21, "active"))),
     Accepts(Signed(A2(<<B(1, 21), B(2, 0)>>)), "identity-key", Alice, Refusing(AlicePolicy, 21, "active")),
     Accepts(Signed(alice(<<B(1, 21)>>, 2, 0, <<R(B(2, 0), 1)>>)), "identity-key", Alice,
             Refusing(AlicePolicy, 21, "active")) }

Order == <<"account", "issuer", "signature", "freshness", "duplicate-device", "identity-key", "binding-policy",
           "statement-policy">>

\* The case in which exactly the checks of `faults` fail, meant for the first of them.
failing(faults) ==
  LET Has(check) == check \in faults
      active == (IF Has("duplicate-device") THEN <<B(1, 21), B(1, 22)>> ELSE <<B(1, 21)>>)
                \o (IF Has("binding-policy") THEN <<B(4, 23)>> ELSE <<>>)
                \o (IF Has("identity-key") THEN <<B(5, 0)>> ELSE <<>>)
      s == Statement(IF Has("issuer") THEN 99 ELSE 7, Alice, IF Has("freshness") THEN 3 ELSE 2, active, 0, <<>>)
      policy == [AlicePolicy EXCEPT !.refuse_binding = IF Has("binding-policy") THEN <<23, "active">> ELSE <<>>,
                                    !.refuse_statement = Has("statement-policy")]
      failed == SelectSeq(Order, Has)
  IN Accepts(sign_body(IF Has("signature") THEN BOB_KEY ELSE ALICE_KEY, Encode(Sorted(s))),
             IF failed = <<>> THEN None ELSE failed[1], IF Has("account") THEN Bob ELSE Alice, policy)

MaskCases ==
  {failing(faults) : faults \in
     {{}} \union {{Order[i]} : i \in 1..Len(Order)} \union {{Order[i - 1], Order[i]} : i \in 2..Len(Order)}
          \union {{Order[j] : j \in i..Len(Order)} : i \in 1..Len(Order)}}

-----------------------------------------------------------------------------
(* Building the corpus and running it *)

Case(kind, of) == [kind |-> kind, of |-> of]

Corpus ==
  {Case("statement", s) : s \in StatementCases} \union {Case("refusal", d) : d \in ShapeRefusals \union OrderRefusals}
    \union {Case("commitment", b) : b \in CommitmentCases}
    \union AcceptedCases \union EarlyCases \union SignatureCases \union LateCases \union PolicyCases \union MaskCases

\* The assertion a case makes as it is added.
Holds(c) ==
  CASE c.kind = "statement"  -> LET d == Encode(Sorted(c.of)) IN decode(d) # NoStatement /\ Encode(decode(d)) = d
    [] c.kind = "refusal"    -> decode(c.of) = NoStatement
    [] c.kind = "commitment" -> TRUE
    [] c.kind = "acceptance" -> GenAccept(c.wire, c.asked, c.policy).refusal = c.expect

RunnerAcceptance(c) ==
  LET got == accept(c.wire, c.asked, c.policy) IN
    /\ got = GenAccept(c.wire, c.asked, c.policy)
    /\ got.refusal = None => encode_unsigned(decode_unsigned(c.wire.body)) = c.wire.body

\* The reader's handler, given the case as it was written.
Runner(c) ==
  CASE c.kind = "statement"  -> LET s == Sorted(c.of) IN
                                  /\ check_encoding_rules(s) /\ encode_unsigned(s) = Encode(s)
                                  /\ decode_unsigned(Encode(s)) = s
    [] c.kind = "refusal"    -> decode_unsigned(c.of) = NoStatement
    [] c.kind = "commitment" -> binding_commitment(c.of) = Commitment(c.of)
    [] c.kind = "acceptance" -> RunnerAcceptance(c)

\* The cases of any set of faults, those of the script's masks among them.
AllMasks == {failing(faults) @@ [faults |-> faults] : faults \in SUBSET Range(Order)}

Init ==
  /\ corpus = [holds |-> \A c \in Corpus : Holds(c), runs |-> \A c \in Corpus : Runner(c)]
  /\ new \in Offered \union AllMasks
  /\ built = "no"

\* main: the corpus, with the new case, is written whole or not at all.
Build ==
  /\ built = "no"
  /\ built' = IF Holds(new) /\ corpus.holds THEN "written" ELSE "refused"
  /\ UNCHANGED <<corpus, new>>

Next == Build

Spec == Init /\ [][Next]_vars

-----------------------------------------------------------------------------
\* The two readings of the page decode every input alike, and answer every signed
\* statement with the same refusal and the same hook calls, whatever cells of it
\* were changed: inventory.py against generate-inventory-vectors.py.
ReadersAgree ==
  /\ new.kind = "refusal" => decode(new.of) = decode_unsigned(new.of)
  /\ new.kind = "acceptance" => GenAccept(new.wire, new.asked, new.policy) = accept(new.wire, new.asked, new.policy)

\* A case the generator writes is one the reader's runner passes: the assertions it
\* makes of a case are all the handlers ask (Corpus, h_statements, h_decode_refusals,
\* h_acceptance).
WrittenPasses == built = "written" => Runner(new)

\* A statement with any set of faults is refused by the first check that fails, and
\* no hook that comes after that check is called: the 26 masks the script lists and
\* the 230 it does not.
FirstFailureWins ==
  "faults" \in DOMAIN new =>
    LET got == accept(new.wire, new.asked, new.policy)
        Called(hook) == \E i \in DOMAIN got.calls : got.calls[i][1] = hook
    IN /\ got.refusal = new.expect
       /\ Called("statement") => new.faults \subseteq {"statement-policy"}
       /\ Called("binding") => new.faults \subseteq {"binding-policy", "statement-policy"}
       /\ Called("freshness") => new.faults \cap {"account", "issuer", "signature"} = {}

\* Only a new case can keep the files from being written, and the reader passes
\* every case of the corpus as it stands (build, main).
CorpusPasses ==
  /\ built = "refused" => ~Holds(new)
  /\ built = "written" => corpus.runs

\* The generator, the reader and the corpus agree.
CorpusHoldsUp == ReadersAgree /\ WrittenPasses /\ FirstFailureWins /\ CorpusPasses
=============================================================================
