------------------------- MODULE ReaderExpectation --------------------------
(***************************************************************************)
(* Records of contacts' identity keys, and the initiator's checks of a     *)
(* prekey bundle under an expectation, as the independent reader makes     *)
(* them (records.py, wire.py, admission.py, pqxdh.py): which check refuses *)
(* first, and what work was done before it.                                *)
(***************************************************************************)
EXTENDS Naturals, Sequences, FiniteSets, FiniteSetsExt, SequencesExt

CONSTANTS
  Keys,          \* encodings of curve public keys
  NonCanonical,  \* those that are not the canonical encoding of their key
  IdentityKeys,  \* the canonical ones that are identity keys
  LowOrder,      \* the canonical ones whose agreements are all zero
  None

\* What the constants must be.
KeyKinds ==
  /\ NonCanonical \subseteq Keys /\ IdentityKeys \subseteq Keys /\ LowOrder \subseteq Keys
  /\ NonCanonical \cap (IdentityKeys \union LowOrder) = {} /\ IdentityKeys \cap LowOrder = {}

-----------------------------------------------------------------------------
(* Records, classification and lookup *)

EmptyRecord == [current |-> {}, retired |-> {}]
holds_record(r) == r.current # {} \/ r.retired # {}

is_canonical_curve_key(k) == k \notin NonCanonical
is_identity_key(k) == k \in IdentityKeys

is_wellformed(r) == \A k \in r.current \union r.retired : is_canonical_curve_key(k)

\* The key has to be an identity key, a decode failure coming first.
admit_presented_key(k) ==
  IF ~is_canonical_curve_key(k) THEN "decode-failure"
  ELSE IF ~is_identity_key(k) THEN "invalid-identity-key"
  ELSE "admitted"

\* Variant: a key that is current again is no longer retired.
ClassifyCurrentFirst(k, r) ==
  IF admit_presented_key(k) # "admitted" THEN admit_presented_key(k)
  ELSE IF ~is_wellformed(r) THEN "malformed-record"
  ELSE IF k \in r.current THEN "same"
  ELSE IF k \in r.retired THEN "retired" ELSE "new"

classify(k, r) ==
  IF admit_presented_key(k) # "admitted" THEN admit_presented_key(k)
  ELSE IF ~is_wellformed(r) THEN "malformed-record"
  ELSE IF k \in r.retired THEN "retired"
  ELSE IF k \in r.current THEN "same" ELSE "new"

Lookup(attribution, contact, retired, malformed) ==
  [attribution |-> attribution, contact |-> contact, retired_for |-> retired, malformed |-> malformed]

\* Variant: the first contact the key is current for.
LookupFirst(k, rs) ==
  LET Found(cls) == {n \in DOMAIN rs : classify(k, rs[n]) = cls} IN
    IF admit_presented_key(k) # "admitted" THEN Lookup(admit_presented_key(k), None, {}, {})
    ELSE IF Found("same") # {} THEN Lookup("contact", Min(Found("same")), Found("retired"), Found("malformed-record"))
    ELSE Lookup(IF Found("retired") # {} THEN "retired-key" ELSE "unattributed", None,
                Found("retired"), Found("malformed-record"))

\* A refused key refuses the lookup and reports no record.
lookup(k, rs) ==
  LET Found(cls) == {n \in DOMAIN rs : classify(k, rs[n]) = cls}
      attribution == CASE Cardinality(Found("same")) = 1 -> "contact"
                       [] Cardinality(Found("same")) > 1 -> "ambiguous"
                       [] Found("same") = {} /\ Found("retired") # {} -> "retired-key"
                       [] Found("same") = {} /\ Found("retired") = {} -> "unattributed"
  IN IF admit_presented_key(k) # "admitted" THEN Lookup(admit_presented_key(k), None, {}, {})
     ELSE Lookup(attribution, IF attribution = "contact" THEN CHOOSE n \in Found("same") : TRUE ELSE None,
                 Found("retired"), Found("malformed-record"))

-----------------------------------------------------------------------------
(* The initiator's checks, in order *)

Known(n) == [form |-> "known", contact |-> n]
FirstContact == [form |-> "first", contact |-> None]

check_expectation_wellformed(e, rs) ==
  IF e.form = "known"
    THEN holds_record(rs[e.contact]) /\ is_wellformed(rs[e.contact])
    ELSE \A n \in DOMAIN rs : is_wellformed(rs[n])

\* Refusals of a known contact's key by its class, and of a first contact's key by
\* the lookup's attribution.
KnownRefusal(cls) ==
  IF cls = "retired" THEN "retired-identity" ELSE IF cls = "new" THEN "unexpected-identity"
  ELSE IF cls = "same" THEN None ELSE cls

FirstRefusal(found) ==
  IF found \in {"contact", "ambiguous"} THEN "unexpected-identity"
  ELSE IF found = "retired-key" THEN "retired-identity"
  ELSE IF found = "unattributed" THEN None ELSE found

\* Variant: first contact refuses the key of a contact, and lets an ambiguous one go on.
CheckOneContact(e, rs, k) ==
  IF e.form = "known" THEN KnownRefusal(classify(k, rs[e.contact]))
  ELSE IF lookup(k, rs).attribution = "ambiguous" THEN None ELSE FirstRefusal(lookup(k, rs).attribution)

\* How the expectation refuses a bundle's identity key, or None.
check_bundle_identity(e, rs, k) ==
  IF e.form = "known" THEN KnownRefusal(classify(k, rs[e.contact])) ELSE FirstRefusal(lookup(k, rs).attribution)

BundleKeys(b) == {b.ik, b.spk} \union (IF b.opk = None THEN {} ELSE {b.opk})

\* What the bundle decoder accepts: the layout, the KEM prekey's length, canonical keys.
decode_bundle(b) ==
  /\ b.layout
  /\ b.ek \notin {"short", "long"}
  /\ \A k \in BundleKeys(b) : is_canonical_curve_key(k)

\* A signature verifies under the key that made it; one of a key that is no identity
\* key is never reached.
xeddsa_verify(b, ok) == ok /\ b.signer = b.ik
check_kem_prekey(b) == b.ek = "ok"
x25519_contributory(k) == k \notin LowOrder

Check(kind, refuses, work) == [kind |-> kind, refuses |-> refuses, work |-> work]

\* Variant: the signatures before the expectation.
CheckSignaturesFirst(e, rs, b) ==
  LET identity == check_bundle_identity(e, rs, b.ik) IN
  << Check("non-canonical-key", \E k \in BundleKeys(b) : ~is_canonical_curve_key(k), "none"),
     Check("inconsistent-bundle", (b.opk # None) # b.has_id, "none"),
     Check("authentication-failure", ~xeddsa_verify(b, b.spk_ok), "signature"),
     Check("authentication-failure", ~xeddsa_verify(b, b.kem_ok), "signature"),
     Check(identity, identity # None, "none") >>

initiator_check_bundle(e, rs, b) ==
  LET identity == check_bundle_identity(e, rs, b.ik) IN
  << Check("non-canonical-key", \E k \in BundleKeys(b) : ~is_canonical_curve_key(k), "none"),
     Check("inconsistent-bundle", (b.opk # None) # b.has_id, "none"),
     Check(identity, identity # None, "none"),
     Check("invalid-identity-key", ~is_identity_key(b.ik), "none"),
     Check("authentication-failure", ~xeddsa_verify(b, b.spk_ok), "signature"),
     Check("authentication-failure", ~xeddsa_verify(b, b.kem_ok), "signature") >>

\* DH1 to DH4; the two with the signed prekey refuse together.
initiator_agreements(b) ==
  << Check("non-contributory", ~x25519_contributory(b.spk), "agreement"),
     Check("non-contributory", ~x25519_contributory(b.ik), "agreement"),
     Check("non-contributory", ~x25519_contributory(b.spk), "agreement") >>
  \o (IF b.opk = None THEN <<>>
      ELSE <<Check("non-contributory", ~x25519_contributory(b.opk), "agreement")>>)

\* The outcome of the checks up to the first that refuses, with the work done by then.
UpToRefusal(checks) ==
  LET refusing == {i \in DOMAIN checks : checks[i].refuses}
      stop == IF refusing = {} THEN Len(checks) ELSE Min(refusing)
      Done(work) == Cardinality({i \in 1..stop : checks[i].work = work})
  IN [kind       |-> IF refusing = {} THEN "session" ELSE checks[stop].kind,
      signatures |-> Done("signature"),
      draws      |-> Done("draw"),
      agreements |-> Done("agreement")]

\* Everything from the expectation to the four agreements.
initiator_prefix(e, rs, b) ==
  UpToRefusal(
    <<Check("malformed-record", ~check_expectation_wellformed(e, rs), "none"),
      Check("decode-failure", b.whole /\ ~decode_bundle(b), "none")>>
    \o initiator_check_bundle(e, rs, b)
    \o <<Check("kem-input", ~check_kem_prekey(b), "none"), Check("eka", FALSE, "draw"),
         Check("encapsulation", FALSE, "draw")>>
    \o initiator_agreements(b))

-----------------------------------------------------------------------------
(* The runner's judgement of an establishment, whatever the vector names *)

_BEFORE_SIGNATURES ==
  {"malformed-record", "unexpected-identity", "retired-identity", "invalid-identity-key",
   "inconsistent-bundle", "non-canonical-key", "decode-failure"}

h_initiator_expectation(o) ==
  IF o.kind = "session" THEN o.signatures = 2 /\ o.draws = 2
  ELSE /\ o.kind \notin {"kem-input", "non-contributory"} => o.draws = 0 /\ o.agreements = 0
       /\ o.kind = "kem-input" => o.agreements = 0
       /\ o.kind \in _BEFORE_SIGNATURES => o.signatures = 0

=============================================================================
