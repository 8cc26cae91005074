----------------------------- MODULE AttestPins -----------------------------
(***************************************************************************)
(* The pins gate of attest.py: what holds a proved result in place while   *)
(* authors edit proofs, pins, the claim ledger, the script's own floors    *)
(* and the manifests, regenerate, and commit what CI accepts.              *)
(*                                                                         *)
(* The model follows one name, of any module the floors list; the gate     *)
(* treats the names one by one.  Its axiom pin and its statement pin are   *)
(* what the scans report of them, its proof is what it says and what it    *)
(* rests on.                                                               *)
(***************************************************************************)
EXTENDS AttestFloor

CONSTANTS
  Followed,     \* the modules a followed name is taken from
  MaxEdits,     \* bound: edits between two commits, by module
  MaxCommits,   \* bound: commits
  None

ASSUME AttestAssumption ==
  /\ Followed \subseteq Modules
  /\ MaxEdits \in [Followed -> Nat] /\ MaxCommits \in Nat
  \* "assert REQUIRED_PRINT_FORM <= REQUIRED_STATEMENT_PINS"
  /\ \A mod \in ModulesOf(REQUIRED_PRINT_FORM) :
       NamesOf(REQUIRED_PRINT_FORM, mod) <= NamesOf(REQUIRED_STATEMENT_PINS, mod)

VARIABLES
  name,      \* the module of the followed name, and the floors it is on at the start
  tree,      \* the working tree
  commits,   \* how many commits there are
  accepted,  \* the tree CI accepted last
  edits,     \* edits since the last commit
  disclosed  \* the edits since the start that a reader sees as such in a diff

vars == <<name, tree, commits, accepted, edits, disclosed>>

-----------------------------------------------------------------------------
(* The axiom pin *)

KERNEL == "kernel"
EXTERNAL == "opaque-external"
COMPILER == "compiler"

\* Variant: only what is named like the compiler's axiom is the compiler's.
ClassifyByName(axioms) ==
  IF axioms = {} THEN KERNEL ELSE IF "native" \in axioms THEN COMPILER ELSE EXTERNAL

\* An axiom outside the kernel's is the compiler's if it is named like one; what
\* is not a declared external counts as the compiler's.
classify(axioms) ==
  IF axioms = {} THEN KERNEL
  ELSE IF "native" \in axioms THEN COMPILER
  ELSE IF axioms \subseteq {"external"} THEN EXTERNAL
  ELSE COMPILER

\* The scan stops at a pin in a comment, at one of a shape it does not know, and
\* at one whose docstring names another theorem.
ScanStops(t) == t.pin.form \in {"commented", "odd", "misnamed"}

\* How many pins of the followed name the scan returns.
axiom_pins(t) == IF t.pin.form = "live" THEN 1 ELSE 0

\* Variant: a copied pin makes up for a lost one.
PinListsByCount(t) ==
     (IF t.script.required /\ axiom_pins(t) = 0 /\ t.pin.form # "replaced" THEN {"required"} ELSE {})
  \union (IF axiom_pins(t) > 0 /\ classify(t.pin.lists) = COMPILER /\ ~t.script.compiler THEN {"compiler"} ELSE {})
  \union (IF t.script.compiler /\ ~(axiom_pins(t) > 0 /\ classify(t.pin.lists) = COMPILER) THEN {"stale"} ELSE {})

\* A pin lost, an unlisted compiler-trusted one, a stale entry of the ceiling, and
\* a pin written twice: the neighbour's, when it took the place of this one.
check_pin_lists(t) ==
     (IF t.pin.form = "replaced" THEN {"repeated"} ELSE {})
  \union (IF t.script.required /\ axiom_pins(t) = 0 THEN {"required"} ELSE {})
  \union (IF axiom_pins(t) > 0 /\ classify(t.pin.lists) = COMPILER /\ ~t.script.compiler THEN {"compiler"} ELSE {})
  \union (IF t.script.compiler /\ ~(axiom_pins(t) > 0 /\ classify(t.pin.lists) = COMPILER) THEN {"stale"} ELSE {})

-----------------------------------------------------------------------------
(* The statement pin *)

Options == {None, "check info, drop warning", "drop info", "drop warning", "whitespace := lax", "other"}

\* The first option that covers `info` must compare it; without a filter the
\* message is compared; an option the gate does not know is refused.
guard_option_problem(options) == options \notin {None, "check info, drop warning"}

\* What the survey tells apart: live under a guard, inside a comment or a string,
\* without a guard, and not there.
statement_pin_survey == {"guarded", "commented", "unguarded", "deleted"}

\* A pin the scan finds: a guard with its options, perhaps the argument of an earlier
\* command, perhaps inside a namespace.
scan_statement_pins(t) == {s \in {t.statement} : s.form = "guarded"}

\* The modules the audits import.
audit_reach(t) == IF t.statement.reached THEN {name.module} ELSE {}

\* Does Lean compare the statement with the pin's message?
Compares(s) == s.form = "guarded" /\ ~s.wrapped /\ ~guard_option_problem(s.options)

\* Variant: a pin counts wherever it is built or not.
StatementPinsAnywhere(t) ==
  IF t.script.statement =>
       \E s \in scan_statement_pins(t) :
         /\ ~guard_option_problem(s.options) /\ ~s.wrapped /\ ~s.framed
         /\ (t.script.print => s.command = "print")
    THEN {} ELSE {"statement"}

\* On the floor: live, under a guard that compares, a command of its own, outside
\* every namespace, in a module an audit imports, and in the form required.
check_statement_pins(t) ==
  IF t.script.statement =>
       \E s \in scan_statement_pins(t) :
         /\ ~guard_option_problem(s.options) /\ ~s.wrapped /\ ~s.framed
         /\ name.module \in audit_reach(t)
         /\ (t.script.print => s.command = "print")
    THEN {} ELSE {"statement"}

\* Every live pin, on the floor or not: no cut in the message, nothing between the
\* docstring and the guard.
check_statement_pin_messages(t) ==
  IF \E s \in scan_statement_pins(t) : s.detached \/ s.expects = "cut" THEN {"message"} ELSE {}

check_pp_options(t) == IF t.narrowed THEN {"pp"} ELSE {}

\* Variant: a manifest without a floor has nothing to compare with.
FloorRecordedOpen(t) ==
  IF t.manifest # None /\ t.manifest.floor /\ ~t.script.statement THEN {"floor"} ELSE {}

\* The floor may not be shorter than the one the manifest records, and there must
\* be such a record.
check_statement_floor_recorded(t) ==
  IF t.manifest = None THEN {"floor"}
  ELSE IF t.manifest.floor /\ ~t.script.statement THEN {"floor"}
  ELSE {}

-----------------------------------------------------------------------------
(* The claim ledger *)

\* The theorems of the followed name's last segment, and what a section can claim:
\* nothing, one of them, one in a file that does not hold it, one nobody declares, or
\* both at once.
declared_theorems == {"it", "namesake"}

claims == {"absent", "in place", "namesake", "elsewhere", "undeclared", "ambiguous"}

\* What a claim of the ledger resolves to: the one theorem of its name in the file
\* its section names.  A claim can also be of a namesake in another section.
resolve_claim(t) ==
  CASE t.claim = "in place" -> "it"
    [] t.claim = "namesake" -> "namesake"
    [] OTHER -> None

check_claims(t) == IF t.claim # "absent" /\ resolve_claim(t) \notin declared_theorems THEN {"claim"} ELSE {}

\* Variant: the last segment of the name is compared.
CompletenessByBareName(t) ==
  IF axiom_pins(t) > 0 /\ resolve_claim(t) = None THEN {"unclaimed"} ELSE {}

check_completeness(t) ==
  IF axiom_pins(t) > 0 /\ resolve_claim(t) # "it" THEN {"unclaimed"} ELSE {}

check_session_t1_claim_pins(t) ==
  IF name.module = "UnitLifecycleT1" /\ resolve_claim(t) = "it" /\ axiom_pins(t) = 0
    THEN {"unpinned"} ELSE {}

-----------------------------------------------------------------------------
(* The manifest and the modes of the script *)

\* What the manifest says of the rest of the tree is the size of the floors.
AllPins == Total(REQUIRED_PINS)
AllStatementPins == Total(REQUIRED_STATEMENT_PINS)

Counts(t) ==
  [pinned |-> AllPins + axiom_pins(t) + (IF t.pin.form = "replaced" THEN 1 ELSE 0),
   floor  |-> AllStatementPins - (IF t.script.statement THEN 0 ELSE 1)]

\* Variant: the commit takes part in the comparison.
ComparableWithCommit(m) == m

VOLATILE == {"generated_at_commit"}

comparable(m) == [f \in DOMAIN m \ VOLATILE |-> m[f]]

build(t) ==
  [generated_at_commit |-> commits,
   axiom_pins |-> IF axiom_pins(t) > 0 THEN {classify(t.pin.lists)} ELSE {},
   statement_pins |-> {s.command : s \in scan_statement_pins(t)},
   floor |-> t.script.statement,
   counts |-> Counts(t),
   claims |-> t.claim]

Problems(t) ==
  IF ScanStops(t) THEN {"stop"}
  ELSE check_claims(t) \union check_completeness(t) \union check_pin_lists(t)
         \union check_statement_pins(t) \union check_statement_pin_messages(t)
         \union check_pp_options(t) \union check_statement_floor_recorded(t)
         \union check_session_t1_claim_pins(t)

\* attest.py --check
Check(t) ==
  /\ Problems(t) = {}
  /\ t.manifest # None
  /\ comparable(build(t)) = comparable(t.manifest)

\* The Lean build: a live axiom pin lists what the proof rests on, and a pin that
\* compares expects what the declaration says.
LeanBuilds(t) ==
  /\ t.pin.form \in {"live", "odd"} => t.pin.lists = t.rests
  /\ Compares(t.statement) => t.statement.expects = t.says

-----------------------------------------------------------------------------
(* A repository that starts with the name in place *)

FirstTree(n) ==
  [pin       |-> [form |-> IF n.required THEN "live" ELSE "deleted", lists |-> n.rests],
   rests     |-> n.rests,
   statement |-> [form |-> IF n.statement THEN "guarded" ELSE "deleted",
                  command |-> IF n.print THEN "print" ELSE "check", options |-> None,
                  wrapped |-> FALSE, framed |-> FALSE, reached |-> TRUE,
                  expects |-> "full", detached |-> FALSE],
   says      |-> "full",
   narrowed  |-> FALSE,
   script    |-> [required |-> n.required, statement |-> n.statement, print |-> n.print,
                  compiler |-> "native" \in n.rests],
   claim     |-> IF n.required THEN "in place" ELSE "absent",
   manifest  |-> None]

\* The floors a name of the module can be on, by what the lists hold of it.
Names(mod) ==
  {n \in [module : {mod}, required : BOOLEAN, statement : BOOLEAN, print : BOOLEAN,
          rests : {{}, {"external"}, {"native"}}] :
     /\ n.required \/ n.statement
     /\ n.required  => NamesOf(REQUIRED_PINS, mod) > 0
     /\ n.statement => NamesOf(REQUIRED_STATEMENT_PINS, mod) > 0
     /\ n.print     => n.statement /\ ~n.required /\ NamesOf(REQUIRED_PRINT_FORM, mod) > 0
     /\ "native" \in n.rests => n.required /\ NamesOf(COMPILER_TRUSTED_PINS, mod) > 0
     /\ ~n.required => n.rests = {}}

Init ==
  /\ \E mod \in Followed : name \in Names(mod)
  /\ commits = 0
  /\ tree = [FirstTree(name) EXCEPT !.manifest = build(FirstTree(name))]
  /\ accepted = tree
  /\ edits = 0
  /\ disclosed = {}

Edit(t, seen) ==
  /\ edits < MaxEdits[name.module] /\ commits < MaxCommits
  /\ t # tree
  /\ tree' = t
  /\ edits' = edits + 1
  /\ disclosed' = disclosed \union seen
  /\ UNCHANGED <<name, commits, accepted>>

\* The axiom pin is deleted, left in a comment, reshaped, renamed, or overwritten
\* by a copy of its neighbour.
EditPin ==
  \E form \in {"deleted", "commented", "odd", "misnamed", "replaced"} :
    Edit([tree EXCEPT !.pin.form = form], {})

\* The proof comes to rest on something else, with or without its pin saying so.
EditProof ==
  \E axioms \in {{}, {"external"}, {"native"}, {"unknown"}} :
    \/ Edit([tree EXCEPT !.rests = axioms], {})
    \/ Edit([tree EXCEPT !.rests = axioms, !.pin.lists = axioms], {})

EditStatementPin ==
  LET s == tree.statement IN
  \E new \in {[s EXCEPT !.form = f] : f \in statement_pin_survey \ {"guarded"}}
             \union {[s EXCEPT !.options = o] : o \in Options}
             \union {[s EXCEPT !.wrapped = TRUE], [s EXCEPT !.framed = TRUE], [s EXCEPT !.reached = FALSE],
                     [s EXCEPT !.command = "check"], [s EXCEPT !.detached = TRUE],
                     [s EXCEPT !.expects = "cut"]} :
    Edit([tree EXCEPT !.statement = new], {})

\* The statement is weakened; its pin's message may be rewritten with it, which the
\* diff of the pin shows.
EditStatement ==
  \/ Edit([tree EXCEPT !.says = "weak"], {})
  \/ Edit([tree EXCEPT !.says = "weak", !.statement.expects = "weak"], {"message"})
  \/ Edit([tree EXCEPT !.narrowed = TRUE], {})

EditScript ==
  \/ Edit([tree EXCEPT !.script.required = FALSE], {"required"})
  \/ Edit([tree EXCEPT !.script.statement = FALSE], {"statement"})
  \/ Edit([tree EXCEPT !.script.print = FALSE], {"print"})
  \/ Edit([tree EXCEPT !.script.compiler = ~@], {"compiler"})

EditLedger ==
  \E claim \in claims \ {"in place"} : Edit([tree EXCEPT !.claim = claim], {})

\* By hand: the manifest's floor loses the name, or the file goes.
EditManifest ==
  \/ tree.manifest # None /\ Edit([tree EXCEPT !.manifest.floor = FALSE], {"manifest"})
  \/ Edit([tree EXCEPT !.manifest = None], {})

\* attest.py without a flag writes nothing while there is a problem.
Regenerate ==
  /\ Problems(tree) = {}
  /\ tree' = [tree EXCEPT !.manifest = build(tree)]
  /\ UNCHANGED <<name, commits, accepted, edits, disclosed>>

Commit ==
  /\ commits < MaxCommits
  /\ Check(tree) /\ LeanBuilds(tree)
  /\ commits' = commits + 1
  /\ accepted' = tree
  /\ edits' = 0
  /\ UNCHANGED <<name, tree, disclosed>>

Next ==
  \/ EditPin \/ EditProof \/ EditStatementPin \/ EditStatement \/ EditScript \/ EditLedger
  \/ EditManifest \/ Regenerate \/ Commit

Spec == Init /\ [][Next]_vars

-----------------------------------------------------------------------------
(* Properties of what CI accepted *)

\* A name on the axiom floor keeps a live pin that says what its proof rests on,
\* unless the script's floor was edited (check_pin_lists).
RequiredPinStays ==
  name.required /\ "required" \notin disclosed =>
    accepted.pin.form = "live" /\ accepted.pin.lists = accepted.rests

\* A result comes to rest on the compiler, or on an axiom nobody declared, only
\* through an edit of the ceiling (COMPILER_TRUSTED_PINS), while its pin is required.
TrustDoesNotWiden ==
  name.required /\ {"required", "compiler"} \cap disclosed = {} =>
    (accepted.rests \cap {"native", "unknown"} # {}) = ("native" \in name.rests)

\* A name on the statement floor says what it said at the start, and Lean compares
\* it, unless its message was rewritten or both the script and the manifest were
\* edited by hand (check_statement_pins, check_statement_floor_recorded).
StatementStays ==
  name.statement /\ "message" \notin disclosed /\ ~({"statement", "manifest"} \subseteq disclosed) =>
    /\ accepted.says = "full"
    /\ Compares(accepted.statement) /\ accepted.statement.expects = "full"
    /\ accepted.statement.reached

\* What CI accepted is still current at the commit that holds it: the check does
\* not cry wolf on an unchanged tree (VOLATILE).
AcceptedIsCurrent == Check(accepted)

\* Every axiom-pinned result is claimed where it is declared, and a claimed Session
\* T1 result has its pin (check_completeness, check_session_t1_claim_pins).
LedgerIsExact ==
  /\ accepted.pin.form = "live" => accepted.claim = "in place"
  /\ accepted.claim \in {"in place", "absent", "namesake"}
  /\ (name.module = "UnitLifecycleT1" /\ accepted.claim = "in place") => accepted.pin.form = "live"

\* Whatever is edited, in whatever order, what the floors hold stays in place, the
\* ledger says so, and a tree that was accepted stays accepted (main).
PinsHold == RequiredPinStays /\ TrustDoesNotWiden /\ StatementStays /\ LedgerIsExact /\ AcceptedIsCurrent
=============================================================================
