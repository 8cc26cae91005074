------------------------- MODULE InventoryStatement -------------------------
(***************************************************************************)
(* inventory.py of the independent reader: hosted device-inventory         *)
(* statements, their encoding rules, the decoder, the issuer's duty and    *)
(* the seven checks, with the scripted policy of inventory_vectors.py.     *)
(*                                                                         *)
(* A preimage is a sequence of cells, one cell to a fixed-width field and  *)
(* one to a byte of the account handle; every cell is a number, so a       *)
(* misplaced field reads as another. Integer order on a cell is the order  *)
(* of its big-endian bytes. Keys and signatures are symbolic.              *)
(***************************************************************************)
EXTENDS Integers, FiniteSets, Sequences, SequencesExt

CONSTANTS
  MAX_ACCOUNT_BYTES, MAX_ACTIVE_BINDINGS, MAX_RECENT_REVOCATIONS,
  IdentityKeys,    \* the cells that is_identity_key admits
  BadByte          \* a byte no UTF-8 text holds

ASSUME BoundsAssumption ==
  {MAX_ACCOUNT_BYTES, MAX_ACTIVE_BINDINGS, MAX_RECENT_REVOCATIONS} \subseteq Nat \ {0}

None == "none"
NoPredecessor == -1
NoKey == -1
GROUP_EPOCH_V1 == 1
INVENTORY_DOMAIN == 99

-----------------------------------------------------------------------------
(* Values and encoding *)

DeviceBinding(device, key) == [device |-> device, key |-> key, caps |-> GROUP_EPOCH_V1, pred |-> NoPredecessor]
Revocation(binding, terminal) == [binding |-> binding, terminal |-> terminal]
Statement(issuer, account, generation, active, floor, revoked) ==
  [issuer |-> issuer, account |-> account, generation |-> generation, active |-> active, floor |-> floor,
   revoked |-> revoked]

has_encoding(b) == b.caps = GROUP_EPOCH_V1

encode_binding(b) ==
  <<b.device, b.key, b.caps>> \o IF b.pred = NoPredecessor THEN <<0>> ELSE <<1, b.pred>>

encode_revocation(r) == Append(encode_binding(r.binding), r.terminal)

\* Byte-string order of two encodings.
Before(a, b) ==
  \E i \in 1..Len(b) : /\ i <= Len(a) + 1
                       /\ \A j \in 1..(i - 1) : a[j] = b[j]
                       /\ i > Len(a) \/ a[i] < b[i]

strictly_ascending(encodings) == \A i \in 1..(Len(encodings) - 1) : Before(encodings[i], encodings[i + 1])

Map(Op(_), s) == [i \in DOMAIN s |-> Op(s[i])]
BindingsOf(revoked) == Map(LAMBDA r : r.binding, revoked)

valid_utf8(account) == BadByte \notin Range(account)

check_account(account) == Len(account) \in 1..MAX_ACCOUNT_BYTES /\ valid_utf8(account)

\* Variant: a terminal generation may equal the floor.
GenerationsFromFloor(s) ==
  /\ s.floor <= s.generation
  /\ \A r \in Range(s.revoked) : s.floor <= r.terminal /\ r.terminal <= s.generation

check_generations(s) ==
  /\ s.floor <= s.generation
  /\ \A r \in Range(s.revoked) : s.floor < r.terminal /\ r.terminal <= s.generation

\* Variant: the lists' order alone, without the rule on both lists.
ListsApart(s) ==
  /\ Len(s.active) <= MAX_ACTIVE_BINDINGS
  /\ Len(s.revoked) <= MAX_RECENT_REVOCATIONS
  /\ \A b \in Range(s.active) \union Range(BindingsOf(s.revoked)) : has_encoding(b)
  /\ strictly_ascending(Map(encode_binding, s.active))
  /\ strictly_ascending(Map(encode_revocation, s.revoked))

check_lists(s) ==
  /\ Len(s.active) <= MAX_ACTIVE_BINDINGS
  /\ Len(s.revoked) <= MAX_RECENT_REVOCATIONS
  /\ \A b \in Range(s.active) \union Range(BindingsOf(s.revoked)) : has_encoding(b)
  /\ strictly_ascending(Map(encode_binding, s.active))
  /\ strictly_ascending(Map(encode_revocation, s.revoked))
  /\ Range(s.active) \cap Range(BindingsOf(s.revoked)) = {}

check_encoding_rules(s) == check_account(s.account) /\ check_generations(s) /\ check_lists(s)

\* The preimage of a statement the rules admit.
encode_unsigned(s) ==
  <<INVENTORY_DOMAIN, s.issuer, Len(s.account)>> \o s.account
    \o <<s.generation, Len(s.active)>> \o FlattenSeq(Map(encode_binding, s.active))
    \o <<s.floor, Len(s.revoked)>> \o FlattenSeq(Map(encode_revocation, s.revoked))

-----------------------------------------------------------------------------
(* Decoding: a reading is what was read and where the cursor stands after  *)
(* it; Refused is the reading of an input that ends or breaks a rule.      *)

Refused == [at |-> 0, read |-> <<>>]

read_binding(d, i) ==
  LET tagged == i + 3 <= Len(d)
      entry(pred) == [device |-> d[i], key |-> d[i + 1], caps |-> d[i + 2], pred |-> pred] IN
    IF ~tagged \/ (tagged /\ d[i + 2] # GROUP_EPOCH_V1) THEN Refused
    ELSE IF d[i + 3] = 0 THEN [at |-> i + 4, read |-> entry(NoPredecessor)]
    ELSE IF d[i + 3] = 1 /\ i + 4 <= Len(d) THEN [at |-> i + 5, read |-> entry(d[i + 4])]
    ELSE Refused

read_revocation(d, i) ==
  LET b == read_binding(d, i) IN
    IF b.at = 0 \/ b.at > Len(d) THEN Refused
    ELSE [at |-> b.at + 1, read |-> Revocation(b.read, d[b.at])]

\* The entries a count declares, read one after another.
read_entries(Reader(_, _), d, i, bound) ==
  LET Next(r, k) == IF r.at = 0 THEN r
                    ELSE LET e == Reader(d, r.at) IN
                           IF e.at = 0 THEN Refused ELSE [at |-> e.at, read |-> Append(r.read, e.read)]
  IN IF i > Len(d) \/ (i <= Len(d) /\ d[i] > bound) THEN Refused
     ELSE FoldLeft(Next, [at |-> i + 1, read |-> <<>>], [k \in 1..d[i] |-> k])

NoStatement == Statement(0, <<>>, 0, <<>>, 0, <<>>)

\* The end of decoding: the rules, and that the encoding is the whole input.
Canonical(s, d) == IF check_encoding_rules(s) /\ encode_unsigned(s) = d THEN s ELSE NoStatement

\* The statement whose generation is at cell i, given its lists as read.
WithLists(d, i, active, revoked) ==
  IF active.at = 0 \/ revoked.at # Len(d) + 1 THEN NoStatement
  ELSE Canonical(Statement(d[2], SubSeq(d, 4, i - 1), d[i], active.read, d[active.at], revoked.read), d)

WithActive(d, i, active) ==
  WithLists(d, i, active, read_entries(read_revocation, d, active.at + 1, MAX_RECENT_REVOCATIONS))

\* The statement a preimage spells, or NoStatement.
decode_unsigned(d) ==
  IF \/ Len(d) < 3 \/ (Len(d) >= 3 /\ (d[1] # INVENTORY_DOMAIN \/ d[3] \notin 1..MAX_ACCOUNT_BYTES))
  THEN NoStatement
  ELSE WithActive(d, 4 + d[3], read_entries(read_binding, d, 5 + d[3], MAX_ACTIVE_BINDINGS))

\* The commitment to a binding: symbolic, and none without an encoding.
binding_commitment(b) == IF has_encoding(b) THEN 100 * b.device + 10 * b.key + b.pred + 1000 ELSE NoPredecessor

-----------------------------------------------------------------------------
(* Signing *)

duplicate_active_device(s) ==
  \E i, j \in DOMAIN s.active : i # j /\ s.active[i].device = s.active[j].device

unsound_key(s) == \E b \in Range(s.active) \union Range(BindingsOf(s.revoked)) : b.key \notin IdentityKeys

xeddsa_sign(secret, label, body) == [by |-> secret, label |-> label, over |-> body]
xeddsa_verify(key, body, sig) == sig = xeddsa_sign(key, "inventory", body)

\* Variant: the issuer leaves check 5 to the verifier.
IssuerAllowsSharedDevice(s) == check_encoding_rules(s) /\ ~unsound_key(s)

\* What the issuer will sign.
issuer_allows(s) == check_encoding_rules(s) /\ ~duplicate_active_device(s) /\ ~unsound_key(s)

\* A signed statement; `signed` is false when the input is shorter than a signature.
Wire(body, sig) == [body |-> body, sig |-> sig, signed |-> TRUE]
sign_statement(secret, s) == Wire(encode_unsigned(s), xeddsa_sign(secret, "inventory", encode_unsigned(s)))

-----------------------------------------------------------------------------
(* The scripted policy and the checks *)

\* `issuers` are tried in order; AnyAccount is the entry that names no account.
AnyAccount == <<>>

\* Variant: an issuer's entry serves every account.
IssuerKeyById(policy, s) ==
  LET bound == SelectSeq(policy.issuers, LAMBDA e : e.id = s.issuer)
  IN IF bound = <<>> THEN NoKey ELSE bound[1].key

issuer_key(policy, s) ==
  LET bound == SelectSeq(policy.issuers, LAMBDA e : e.id = s.issuer /\ e.account \in {AnyAccount, s.account})
  IN IF bound = <<>> THEN NoKey ELSE bound[1].key

fresh(policy, s) == <<s.account, s.generation>> \in policy.fresh

accept_binding(policy, b, status) ==
  /\ ~policy.refuse_every_binding
  /\ policy.refuse_binding # <<b.key, status>>

Entries(s) ==
  Map(LAMBDA b : <<b, "active">>, s.active) \o Map(LAMBDA r : <<r.binding, "revoked">>, s.revoked)

\* The binding hook's calls, which stop at the first refusal.
BindingCalls(policy, s) ==
  LET entries == Entries(s)
      refused == {i \in DOMAIN entries : ~accept_binding(policy, entries[i][1], entries[i][2])}
      last == IF refused = {} THEN Len(entries) ELSE CHOOSE i \in refused : \A j \in refused : i <= j
  IN [calls |-> [i \in 1..last |-> <<"binding", entries[i]>>], refused |-> refused # {}]

\* Variant: the freshness rule is asked last, with the policies.
ChecksFreshnessLate(s, wire, asked, policy) ==
  LET key == issuer_key(policy, s)
      issuer == <<<<"issuer", s.issuer, s.account>>>>
      freshness == Append(issuer, <<"freshness", s.account, s.generation>>)
      bindings == BindingCalls(policy, s)
      whole == freshness \o bindings.calls \o <<<<"statement">>>>
      Result(refusal, calls) == [refusal |-> refusal, calls |-> calls]
  IN IF s.account # asked THEN Result("account", <<>>)
     ELSE IF key = NoKey THEN Result("issuer", issuer)
     ELSE IF ~xeddsa_verify(key, wire.body, wire.sig) THEN Result("signature", issuer)
     ELSE IF duplicate_active_device(s) THEN Result("duplicate-device", freshness)
     ELSE IF unsound_key(s) THEN Result("identity-key", freshness)
     ELSE IF ~fresh(policy, s) THEN Result("freshness", freshness)
     ELSE IF bindings.refused THEN Result("binding-policy", freshness \o bindings.calls)
     ELSE IF policy.refuse_statement THEN Result("statement-policy", whole)
     ELSE Result(None, whole)

\* The refusal and the hook calls of the checks, in their order; None accepts.
Checks(s, wire, asked, policy) ==
  LET key == issuer_key(policy, s)
      issuer == <<<<"issuer", s.issuer, s.account>>>>
      freshness == Append(issuer, <<"freshness", s.account, s.generation>>)
      bindings == BindingCalls(policy, s)
      whole == freshness \o bindings.calls \o <<<<"statement">>>>
      Result(refusal, calls) == [refusal |-> refusal, calls |-> calls]
  IN IF s.account # asked THEN Result("account", <<>>)
     ELSE IF key = NoKey THEN Result("issuer", issuer)
     ELSE IF ~xeddsa_verify(key, wire.body, wire.sig) THEN Result("signature", issuer)
     ELSE IF ~fresh(policy, s) THEN Result("freshness", freshness)
     ELSE IF duplicate_active_device(s) THEN Result("duplicate-device", freshness)
     ELSE IF unsound_key(s) THEN Result("identity-key", freshness)
     ELSE IF bindings.refused THEN Result("binding-policy", freshness \o bindings.calls)
     ELSE IF policy.refuse_statement THEN Result("statement-policy", whole)
     ELSE Result(None, whole)

DecodeRefusal == [refusal |-> "decode", calls |-> <<>>]

Decoded(s, wire, asked, policy) ==
  IF ~wire.signed \/ s = NoStatement THEN DecodeRefusal ELSE Checks(s, wire, asked, policy)

\* A signed statement as bytes, up to the record of its generation.
accept(wire, asked, policy) == Decoded(decode_unsigned(wire.body), wire, asked, policy)
=============================================================================
