------------------------- MODULE IdentityGenerator --------------------------
(***************************************************************************)
(* generate-identity-vectors.py: a second reading of the initiator's       *)
(* checks, the cases it writes as vectors, and the build that writes them  *)
(* only when its own reading, the model's and the author's intent agree.   *)
(* Somebody adds a case; the vectors that come out are read by the         *)
(* independent reader's runner.                                            *)
(***************************************************************************)
EXTENDS ReaderExpectation, TLC

CONSTANTS
  Offered      \* the cases somebody adds to the table

VARIABLES
  table,      \* what the build finds in the table as it stands
  new,        \* the case added
  model,      \* what the Lean model answers for it
  published   \* "written" or "refused"

vars == <<table, new, model, published>>

-----------------------------------------------------------------------------
(* The script's own reading *)

key_refusal(k) == IF k \in NonCanonical THEN "decode-failure"
                  ELSE IF k \notin IdentityKeys THEN "invalid-identity-key" ELSE None

well_formed(r) == (r.current \union r.retired) \cap NonCanonical = {}

GenClassify(k, r) ==
  IF key_refusal(k) # None THEN key_refusal(k)
  ELSE IF ~well_formed(r) THEN "malformed-record"
  ELSE IF k \in r.retired THEN "retired" ELSE IF k \in r.current THEN "same" ELSE "new"

GenLookup(k, rs) ==
  LET same == {n \in DOMAIN rs : GenClassify(k, rs[n]) = "same"}
      retired == {n \in DOMAIN rs : GenClassify(k, rs[n]) = "retired"}
      malformed == {n \in DOMAIN rs : GenClassify(k, rs[n]) = "malformed-record"}
      Result(attribution, contact) ==
        [attribution |-> attribution, contact |-> contact, retired_for |-> retired, malformed |-> malformed]
  IN IF key_refusal(k) # None THEN [attribution |-> key_refusal(k), contact |-> None, retired_for |-> {}, malformed |-> {}]
     ELSE IF Cardinality(same) = 1 THEN Result("contact", CHOOSE n \in same : TRUE)
     ELSE IF Cardinality(same) > 1 THEN Result("ambiguous", None)
     ELSE IF retired # {} THEN Result("retired-key", None) ELSE Result("unattributed", None)

\* Whether the bundle decoder accepts the encoding.
decodes(b) ==
  /\ {b.ik, b.spk} \cap NonCanonical = {}
  /\ b.ek \notin {"short", "long"}
  /\ b.opk # None => b.opk \notin NonCanonical

PresenceFails(b) == (b.opk # None) # b.has_id
CanonicalFails(b) == BundleKeys(b) \cap NonCanonical # {}

GenRefusal(cls) ==
  IF cls \in {"same", "unattributed"} THEN None
  ELSE IF cls \in {"retired", "retired-key"} THEN "retired-identity"
  ELSE IF cls \in {"new", "contact", "ambiguous"} THEN "unexpected-identity"
  ELSE cls

GenExpectation(e, rs, k) ==
  GenRefusal(IF e.form = "known" THEN GenClassify(k, rs[e.contact]) ELSE GenLookup(k, rs).attribution)

\* Variant: the KEM prekey's input checks before the signatures.
InitiatorKemFirst(e, rs, b) ==
  LET malformed == IF e.form = "known" THEN ~well_formed(rs[e.contact]) \/ ~holds_record(rs[e.contact])
                   ELSE \E n \in DOMAIN rs : ~well_formed(rs[n])
      steps == << <<"malformed-record", malformed, "no">>,
                  <<"inconsistent-bundle", PresenceFails(b), "no">>,
                  <<"non-canonical-key", CanonicalFails(b), "no">>,
                  <<GenExpectation(e, rs, b.ik), GenExpectation(e, rs, b.ik) # None, "no">>,
                  <<"kem-input", b.ek # "ok", "open">>,
                  <<"authentication-failure", ~(b.spk_ok /\ b.kem_ok /\ b.signer = b.ik), "no">>,
                  <<"non-contributory", {b.spk, b.opk} \cap LowOrder # {}, "yes">>,
                  <<"session", TRUE, "yes">> >>
  IN SelectSeq(steps, LAMBDA s : s[2])[1]

\* The outcome and whether randomness is drawn before it.
initiator(e, rs, b) ==
  LET malformed == IF e.form = "known" THEN ~well_formed(rs[e.contact]) \/ ~holds_record(rs[e.contact])
                   ELSE \E n \in DOMAIN rs : ~well_formed(rs[n])
      steps == << <<"malformed-record", malformed, "no">>,
                  <<"inconsistent-bundle", PresenceFails(b), "no">>,
                  <<"non-canonical-key", CanonicalFails(b), "no">>,
                  <<GenExpectation(e, rs, b.ik), GenExpectation(e, rs, b.ik) # None, "no">>,
                  <<"invalid-identity-key", b.ik \notin IdentityKeys, "no">>,
                  <<"authentication-failure", ~(b.spk_ok /\ b.kem_ok /\ b.signer = b.ik), "no">>,
                  <<"kem-input", b.ek # "ok", "open">>,
                  <<"non-contributory", {b.spk, b.opk} \cap LowOrder # {}, "yes">>,
                  <<"session", TRUE, "yes">> >>
  IN SelectSeq(steps, LAMBDA s : s[2])[1]

-----------------------------------------------------------------------------
(* The cases *)

Record(current, retired) == [current |-> current, retired |-> retired]

\* A bundle naming `ik`, its prekeys signed by `signer`.
bundle(ik, signer) ==
  [ik |-> ik, signer |-> signer, spk |-> "SPK", spk_ok |-> TRUE, opk |-> "OPK", has_id |-> TRUE,
   ek |-> "ok", kem_ok |-> TRUE, layout |-> TRUE]

Case(e, rs, b, intent) == [expectation |-> e, records |-> rs, bundle |-> b, intent |-> intent, raw |-> FALSE]
Raw(c) == [c EXCEPT !.raw = TRUE]

RecK == <<Record({"K"}, {})>>
RecKOld == <<Record({"K"}, {"KOLD"})>>
RecP == <<Record({"K", "P"}, {})>>
K1 == Known(1)
BK == bundle("K", "K")
BKP == bundle("KP", "KP")

ExpectedCases ==
  << Case(K1, RecK, BK, "session"),
     Case(K1, RecK, BKP, "unexpected-identity"),
     Case(K1, RecKOld, bundle("KOLD", "KOLD"), "retired-identity"),
     Case(K1, RecK, [BKP EXCEPT !.spk_ok = FALSE], "unexpected-identity"),
     Case(K1, RecK, [BKP EXCEPT !.kem_ok = FALSE], "unexpected-identity"),
     Case(K1, RecK, [BK EXCEPT !.spk_ok = FALSE, !.kem_ok = FALSE], "authentication-failure"),
     Case(K1, RecK, [BKP EXCEPT !.has_id = FALSE], "inconsistent-bundle"),
     Case(K1, RecK, [BKP EXCEPT !.opk = None], "inconsistent-bundle") >>

InputCases ==
  << Case(K1, RecK, [BKP EXCEPT !.ek = "unencodable"], "unexpected-identity"),
     Case(K1, RecK, [BK EXCEPT !.ek = "unencodable"], "kem-input"),
     Raw(Case(K1, RecK, [BKP EXCEPT !.ek = "short"], "unexpected-identity")),
     Raw(Case(K1, RecK, [BK EXCEPT !.ek = "short"], "kem-input")),
     Raw(Case(K1, RecK, [BK EXCEPT !.ek = "long"], "kem-input")),
     Raw(Case(K1, RecK, [BK EXCEPT !.ek = "short", !.kem_ok = FALSE], "authentication-failure")),
     Case(K1, RecK, [BKP EXCEPT !.opk = "O8A"], "unexpected-identity"),
     Case(K1, RecK, [BK EXCEPT !.opk = "O8A"], "non-contributory"),
     Case(K1, RecK, [BKP EXCEPT !.spk = "U0"], "unexpected-identity"),
     Case(K1, RecK, [BK EXCEPT !.spk = "U0"], "non-contributory") >>

RecordCases ==
  << Case(K1, RecP, [BK EXCEPT !.spk_ok = FALSE], "malformed-record"),
     Case(K1, RecK, bundle("K_T", "K"), "invalid-identity-key"),
     Case(FirstContact, <<>>, bundle("K_T", "K"), "invalid-identity-key"),
     Raw(Case(K1, RecK, bundle("K255", "K"), "non-canonical-key")),
     Raw(Case(K1, RecK, bundle("K+P", "K"), "non-canonical-key")),
     Case(FirstContact, <<>>, bundle("KPP", "KPP"), "session"),
     Case(K1, <<EmptyRecord>>, BK, "malformed-record"),
     Case(K1, <<EmptyRecord>>, [BK EXCEPT !.spk_ok = FALSE], "malformed-record"),
     Case(FirstContact, RecKOld, bundle("KOLD", "KOLD"), "retired-identity"),
     Case(FirstContact, <<Record({"KD"}, {})>>, bundle("KD", "KD"), "unexpected-identity"),
     Case(FirstContact, <<Record({"K"}, {}), Record({}, {"K"})>>, BK, "unexpected-identity"),
     Case(K1, <<Record({"K"}, {}), Record({"K"}, {})>>, BK, "session"),
     Case(FirstContact, <<Record({"KD255"}, {})>>, [bundle("KPP", "KPP") EXCEPT !.spk_ok = FALSE], "malformed-record"),
     Case(FirstContact, <<Record({"K"}, {}), Record({"K"}, {})>>, BK, "unexpected-identity") >>

NonIdentityCases ==
  [i \in 1..6 |-> Case(K1, RecK, [bundle(<<"U0", "U1", "PM1", "O8A", "O8B", "U2">>[i], "K")
                                    EXCEPT !.spk_ok = FALSE, !.kem_ok = FALSE], "invalid-identity-key")]
  \o << Case(K1, <<Record({"K"}, {"K_T"})>>, bundle("K_T", "K"), "invalid-identity-key"),
        Case(FirstContact, <<>>, bundle("U2", "K"), "invalid-identity-key"),
        Case(FirstContact, <<>>, bundle("PM1", "K"), "invalid-identity-key"),
        Case(K1, RecP, bundle("U0", "K"), "malformed-record"),
        Case(K1, RecP, [BK EXCEPT !.has_id = FALSE], "malformed-record"),
        Raw(Case(K1, RecP, bundle("K255", "K"), "malformed-record")),
        Case(K1, RecK, [bundle("U0", "K") EXCEPT !.has_id = FALSE], "inconsistent-bundle"),
        Case(K1, <<Record({"K", "U0"}, {})>>, BK, "session"),
        Case(FirstContact, <<Record({"U0"}, {})>>, bundle("KPP", "KPP"), "session") >>

cases == ExpectedCases \o InputCases \o RecordCases \o NonIdentityCases

-----------------------------------------------------------------------------
(* The build *)

\* A vector: its inputs, and the refusal or the session's lookup it names.
render_vector(c) ==
  LET outcome == initiator(c.expectation, c.records, c.bundle)[1] IN
    [case |-> c, refusal |-> IF outcome = "session" THEN None ELSE outcome,
     fields |-> IF outcome = "session" THEN GenLookup(c.bundle.ik, c.records) ELSE None]

\* Where the script's own outcome, the author's intent and the model's verdict differ.
Disagrees(c, verdict, own) ==
  \/ own[1] # c.intent
  \/ verdict = None
  \/ verdict # None /\ verdict.name # own[1]
  \/ verdict # None /\ own[3] = "no" /\ verdict.draws # 0
  \/ verdict # None /\ own[3] = "yes" /\ verdict.draws = 0
  \/ verdict # None /\ own[1] = "session" /\ verdict.fields # GenLookup(c.bundle.ik, c.records)

\* Variant: a case is given as bytes or as fields, whichever the author says.
ProblemsAnyForm(c, verdict) ==
  Disagrees(c, verdict, initiator(c.expectation, c.records, c.bundle))

\* A case the build refuses, given the model's verdict of it.
Problems(c, verdict) ==
  \/ c.raw = decodes(c.bundle)
  \/ Disagrees(c, verdict, initiator(c.expectation, c.records, c.bundle))

\* The model: the reading of session-establishment.md it is written from, a bundle
\* given as fields.
VerdictOf(c, o) ==
  [name |-> IF PresenceFails(c.bundle) /\ o.kind = "non-canonical-key" THEN "inconsistent-bundle" ELSE o.kind,
   draws |-> o.draws,
   fields |-> IF o.kind = "session" THEN lookup(c.bundle.ik, c.records) ELSE None]

ModelVerdict(c) ==
  VerdictOf(c, initiator_prefix(c.expectation, c.records, c.bundle @@ [whole |-> FALSE]))

TableProblems == {i \in DOMAIN cases : Problems(cases[i], ModelVerdict(cases[i]))}

-----------------------------------------------------------------------------
(* The reader's runner on a vector *)

RunnerJudges(row, o) ==
  /\ h_initiator_expectation(o)
  /\ IF row.refusal # None THEN o.kind = row.refusal
     ELSE o.kind = "session" /\ row.fields = lookup(row.case.bundle.ik, row.case.records)

RunnerAccepts(row) ==
  RunnerJudges(row, initiator_prefix(row.case.expectation, row.case.records,
                                     row.case.bundle @@ [whole |-> ~row.case.raw]))

\* A bundle the pages let a reader refuse for either of two reasons.
FailsBoth(b) == PresenceFails(b) /\ CanonicalFails(b)

TableAccepted == \A i \in DOMAIN cases : RunnerAccepts(render_vector(cases[i])) /\ ~FailsBoth(cases[i].bundle)

-----------------------------------------------------------------------------
(* One more case *)

\* What a model with a fault of its own answers.
Faulty(c, verdict) ==
  {verdict, None, [verdict EXCEPT !.draws = 2 - @],
   [name |-> "session", draws |-> 2, fields |-> lookup(c.bundle.ik, c.records)]}

Verdicts(c) == Faulty(c, ModelVerdict(c))

Init ==
  /\ table = [problems |-> TableProblems, accepted |-> TableAccepted]
  /\ new \in Offered
  /\ model \in Verdicts(new)
  /\ published = "none"

build ==
  /\ published = "none"
  /\ published' = IF table.problems # {} \/ Problems(new, model) THEN "refused"
                  ELSE "written"
  /\ UNCHANGED <<table, new, model>>

Next == build
Spec == Init /\ [][Next]_vars

-----------------------------------------------------------------------------
(* Properties *)

\* Two readings of the pages written apart give every bundle, records and expectation
\* the same outcome, but for the order the pages leave open (initiator against
\* initiator_prefix).
ReadingsAgree ==
  FailsBoth(new.bundle) \/
    initiator(new.expectation, new.records, new.bundle)[1]
      = initiator_prefix(new.expectation, new.records, new.bundle @@ [whole |-> FALSE]).kind

\* A vector that is written passes the reader's runner: whatever case is added, and
\* whatever the model answers, a file that would fail a conforming reader is not
\* written (build, render_vector), the open order apart.
PublishedIsAccepted ==
  published = "written" => RunnerAccepts(render_vector(new)) \/ FailsBoth(new.bundle)

\* The table as it stands has no problem, each of its vectors passes the reader's runner,
\* and none turns on the order the pages leave open (cases).
TableHolds == table.problems = {} /\ table.accepted

\* The generator, the reader and the table agree.
VectorsHold == ReadingsAgree /\ PublishedIsAccepted /\ TableHolds
=============================================================================
