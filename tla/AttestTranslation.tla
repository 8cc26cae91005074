------------------------- MODULE AttestTranslation -------------------------
(***************************************************************************)
(* The translation gate of attest.py: the generated Lean files, the Rust   *)
(* they stand for, the record of the last translation, and the allowlist   *)
(* of their axioms, while an author edits any of them, runs the            *)
(* toolchain, refreshes the record, commits and rebases, and CI judges     *)
(* the head.                                                               *)
(*                                                                         *)
(* A content hash is the content.  The content of a hand-written zone is   *)
(* its version; of an assembled unit, what it was assembled from; of a     *)
(* generated file, what it was translated from and what a hand put in it.  *)
(***************************************************************************)
EXTENDS Naturals, Sequences, FiniteSets, Functions

CONSTANTS
  Zones,        \* the zones in play
  MaxEdits,     \* bound: edits by hand and rebases, together
  None

VERIFIED_ZONES ==
  {"ratchet", "session", "erasure", "protobuf", "wire", "spqr", "braid", "lifecycle", "triple",
   "triple-unit", "braid-unit", "session-unit"}

\* The zones that are assembled, and what from.
ASSEMBLED_ZONES ==
  [unit \in {"triple-unit", "braid-unit", "session-unit"} |->
     CASE unit = "triple-unit"  -> {"ratchet", "spqr", "triple"}
       [] unit = "braid-unit"   -> {"braid", "erasure"}
       [] unit = "session-unit" -> {"ratchet", "spqr", "triple", "erasure", "braid", "session",
                                    "wire", "lifecycle"}]

Units == Zones \cap DOMAIN ASSEMBLED_ZONES
HandWritten == Zones \ Units

\* What the constants must be.
TranslationAssumption ==
  /\ Zones \subseteq VERIFIED_ZONES
  /\ \A unit \in Units : ASSEMBLED_ZONES[unit] \subseteq Zones
  /\ MaxEdits \in Nat

VARIABLES
  tree,      \* the working tree
  history,   \* the commits HEAD descends from, oldest first: name and sources
  committed, \* the tree at HEAD
  commits,   \* how many commits were ever made
  edits, rebases,
  honest,    \* was the record written right after a run of the toolchain?
  accepted   \* the tree CI accepted last, whether its record was honest, and the
             \* sources of the commit its record named then

vars == <<tree, history, committed, commits, edits, rebases, honest, accepted>>

-----------------------------------------------------------------------------
(* The toolchain *)

\* What the assembly script of a unit writes.
Assembled(t, unit) ==
  [script |-> t.script[unit].text, sources |-> [s \in t.script[unit].reads |-> t.src[s]],
   byHand |-> FALSE]

tree_hash(t, zone) == IF zone \in Units THEN t.crate[zone] ELSE t.src[zone]

workspace_hash(t) == t.workspace

\* What run-aeneas.sh makes of a zone: the units are assembled first.
Translated(t, zone) ==
  [of |-> IF zone \in Units THEN Assembled(t, zone) ELSE t.src[zone],
   workspace |-> workspace_hash(t), aeneas |-> t.aeneas, planted |-> None]

\* The externals a translation declares: a later version of the code calls one more.
Later(of, zone) == IF zone \in Units THEN \E s \in DOMAIN of.sources : of.sources[s] > 0 ELSE of > 0

Emitted(file, zone) ==
  {<<"external", "type">>} \union (IF Later(file.of, zone) THEN {<<"new external", "type">>} ELSE {})

\* What the text of a generated file declares, by name and type.
axiom_declarations(file, zone) ==
  CASE file.planted = "axiom"   -> Emitted(file, zone) \union {<<"planted", "type">>}
    [] file.planted = "retyped" -> (Emitted(file, zone) \ {<<"external", "type">>})
                                     \union {<<"external", "stronger type">>}
    [] OTHER -> Emitted(file, zone)

Named(declarations) == {d[1] : d \in declarations}

\* What Lean's environment holds: a macro's axiom is in it and not in the text.
Environment(file, zone) ==
  Named(axiom_declarations(file, zone)) \union (IF file.planted = "macro" THEN {"planted"} ELSE {})

-----------------------------------------------------------------------------
(* The record *)

generated_files(t) == DOMAIN t.gen

\* The zone run-aeneas.sh translates into the file; None for a file it does not make.
ZoneOf(t, zone) == IF zone \in t.translated THEN zone ELSE None

assembly_record(t, zone) ==
  IF zone \in Units
    THEN [script |-> t.script[zone].text, sources |-> [s \in t.named[zone] |-> tree_hash(t, s)]]
    ELSE None

translation_attestation(t) ==
  [generated_at |-> history[Len(history)].commit,
   aeneas |-> t.aeneas,
   files  |-> [zone \in generated_files(t) |->
                 [bytes     |-> t.gen[zone],
                  axioms    |-> Named(axiom_declarations(t.gen[zone], zone)),
                  zone      |-> ZoneOf(t, zone),
                  source    |-> tree_hash(t, zone),
                  workspace |-> workspace_hash(t),
                  assembly  |-> assembly_record(t, zone)]]]

typed_declarations(t) ==
  [zone \in generated_files(t) |-> axiom_declarations(t.gen[zone], zone)]

\* The same files, and in each the same names with the same types.
check_axiom_allowlist(t) == IF t.allowed = typed_declarations(t) THEN {} ELSE {"allowlist"}

\* The sources of a zone as they were at a commit; None when HEAD does not descend from it.
committed_tree_hash(commit, zone) ==
  IF \E i \in DOMAIN history : history[i].commit = commit
    THEN LET at == CHOOSE i \in DOMAIN history : history[i].commit = commit
         IN history[at].src[zone]
    ELSE None

\* The commit the record names is available and an ancestor of HEAD.
GenerationCommitHolds(record) == \E i \in DOMAIN history : history[i].commit = record.generated_at

\* Variant: the zone's own hash is its provenance, whoever wrote it.
SourcesByZone(record, zone) ==
  IF zone \in HandWritten THEN record.source = committed_tree_hash(tree.record.generated_at, zone) ELSE TRUE

\* The recorded sources are those of the commit: of the leaves, for a unit.
SourcesAtCommit(record, zone) ==
  IF zone \in Units
    THEN \A s \in DOMAIN record.assembly.sources :
           record.assembly.sources[s] = committed_tree_hash(tree.record.generated_at, s)
    ELSE record.source = committed_tree_hash(tree.record.generated_at, zone)

\* The script and every leaf are what they were.
AssemblyHolds(have, want) == have = want

\* One file against its record.
FileProblems(have, want, zone) ==
     (IF have.zone = None THEN {"no zone"} ELSE {})
  \union (IF have.bytes # want.bytes THEN {"bytes"} ELSE {})
  \union (IF have.axioms # want.axioms THEN {"axioms"} ELSE {})
  \union (IF have.zone # want.zone \/ have.source # want.source THEN {"stale"} ELSE {})
  \union (IF GenerationCommitHolds(tree.record) /\ ~SourcesAtCommit(have, zone) THEN {"commit first"} ELSE {})
  \union (IF ~AssemblyHolds(have.assembly, want.assembly) THEN {"reassemble"} ELSE {})
  \union (IF have.workspace # want.workspace THEN {"workspace"} ELSE {})

check_translation(t) ==
  LET current == translation_attestation(t) IN
    check_axiom_allowlist(t)
      \union {"unmapped" : zone \in {z \in generated_files(t) : ZoneOf(t, z) = None}}
      \union (IF ~GenerationCommitHolds(t.record) THEN {"not an ancestor"} ELSE {})
      \union (IF t.record.aeneas # t.aeneas THEN {"pin"} ELSE {})
      \union (IF DOMAIN t.record.files # DOMAIN current.files THEN {"unrecorded"} ELSE {})
      \union UNION {FileProblems(t.record.files[zone], current.files[zone], zone) :
                      zone \in DOMAIN t.record.files \cap DOMAIN current.files}

\* A source of an assembled zone is translated with it.
check_zones_match_translation(t) ==
  IF t.translated \union UNION {t.named[unit] : unit \in Units \cap t.translated} = t.attested
    THEN {} ELSE {"zones"}

\* Variant: the hand-kept list is taken at its word.
AssemblySourcesTrusted(t) == {}

\* The sources named for a unit are those its script reads.
check_assembly_sources(t) ==
  IF \A unit \in Units : t.named[unit] = t.script[unit].reads THEN {} ELSE {"sources"}

\* Variant: the record alone says what to expect of the environment.
AuditAgainstRecord(t) ==
  \A zone \in DOMAIN t.record.files \cap generated_files(t) :
    Named(axiom_declarations(t.gen[zone], zone)) = t.record.files[zone].axioms

\* The axioms the audit saw in the built environment, against the record and the allowlist.
compare_audit(t) ==
  \A zone \in DOMAIN t.record.files \cap generated_files(t) :
    /\ Environment(t.gen[zone], zone) = t.record.files[zone].axioms
    /\ Environment(t.gen[zone], zone) = Named(t.allowed[zone])

\* attest.py --check, then --compare-audit on the log of the build.
Check(t) ==
  /\ check_translation(t) \union check_zones_match_translation(t) \union check_assembly_sources(t) = {}
  /\ compare_audit(t)

-----------------------------------------------------------------------------
(* A repository in order *)

FirstTree ==
  LET src == [zone \in HandWritten |-> 0]
      script == [unit \in Units |-> [text |-> 0, reads |-> ASSEMBLED_ZONES[unit]]]
      crate == [unit \in Units |-> Assembled([src |-> src, script |-> script], unit)]
  IN [src |-> src, script |-> script, crate |-> crate,
      named |-> [unit \in Units |-> ASSEMBLED_ZONES[unit]],
      translated |-> Zones \ {"triple"}, attested |-> Zones,
      workspace |-> 0, aeneas |-> 0,
      gen |-> [zone \in Zones \ {"triple"} |->
                 [of |-> IF zone \in Units THEN crate[zone] ELSE 0,
                  workspace |-> 0, aeneas |-> 0, planted |-> None]],
      allowed |-> [zone \in Zones \ {"triple"} |-> {<<"external", "type">>}],
      record |-> None]

Init ==
  /\ commits = 1
  /\ history = <<[commit |-> 1, src |-> FirstTree.src]>>
  /\ tree = [FirstTree EXCEPT !.record = translation_attestation(FirstTree)]
  /\ committed = tree
  /\ edits = 0 /\ rebases = 0
  /\ honest = TRUE
  /\ accepted = [tree |-> tree, honest |-> TRUE, named |-> tree.src]

Edit(t) ==
  /\ edits + rebases < MaxEdits
  /\ t # tree
  /\ tree' = t
  /\ edits' = edits + 1
  /\ UNCHANGED <<history, committed, commits, rebases, honest, accepted>>

EditSource == \E zone \in HandWritten : Edit([tree EXCEPT !.src[zone] = 1])

\* An assembly script is rewritten, or stops reading a leaf; the list in attest.py
\* loses one.
EditAssembly ==
  \E unit \in Units :
    \/ Edit([tree EXCEPT !.script[unit].text = 1])
    \/ \E s \in tree.script[unit].reads :
         \/ Edit([tree EXCEPT !.script[unit] = [text |-> 2, reads |-> @.reads \ {s}]])
         \/ Edit([tree EXCEPT !.named[unit] = @ \ {s}])

EditWorkspace == Edit([tree EXCEPT !.workspace = 1]) \/ Edit([tree EXCEPT !.aeneas = 1])

\* A unit's crate or a generated file is changed by hand.
EditGenerated ==
  \/ \E unit \in Units : Edit([tree EXCEPT !.crate[unit].byHand = TRUE])
  \/ \E zone \in generated_files(tree), what \in {"axiom", "retyped", "macro", "body"} :
       Edit([tree EXCEPT !.gen[zone].planted = what])

\* A zone is no longer translated, or no longer attested.
EditZones ==
  \/ \E zone \in Zones : Edit([tree EXCEPT !.attested = @ \ {zone}])
  \/ \E zone \in tree.translated : Edit([tree EXCEPT !.translated = @ \ {zone}])

\* run-aeneas.sh: assembles the units, then translates every zone it lists.  A file
\* of a zone it no longer lists stays.
RunAeneas ==
  /\ tree' = [tree EXCEPT
       !.crate = [unit \in Units |-> IF unit \in tree.translated THEN Assembled(tree, unit) ELSE @[unit]],
       !.gen = [zone \in DOMAIN @ |-> IF zone \in tree.translated THEN Translated(tree, zone) ELSE @[zone]]]
  /\ tree' # tree
  /\ UNCHANGED <<history, committed, commits, edits, rebases, honest, accepted>>

\* What run-aeneas.sh does not make is removed, as the gate asks.
RemoveUnmapped ==
  /\ tree' = [tree EXCEPT !.gen = [zone \in DOMAIN @ \cap tree.translated |-> @[zone]]]
  /\ tree' # tree
  /\ UNCHANGED <<history, committed, commits, edits, rebases, honest, accepted>>

\* attest.py --write-axiom-allowlist, outside CI.
write_axiom_allowlist ==
  /\ tree' = [tree EXCEPT !.allowed = typed_declarations(tree)]
  /\ tree' # tree
  /\ UNCHANGED <<history, committed, commits, edits, rebases, honest, accepted>>

\* attest.py --refresh-translation: decided before anything is written.  An author
\* runs it when the gate asks for it.
Refresh ==
  /\ check_translation(tree) # {}
  /\ \A zone \in generated_files(tree) : ZoneOf(tree, zone) # None
  /\ check_axiom_allowlist(tree) = {}
  /\ tree' = [tree EXCEPT !.record = translation_attestation(tree)]
  /\ tree' # tree
  /\ honest' = \A zone \in generated_files(tree) : tree.gen[zone] = Translated(tree, zone)
  /\ UNCHANGED <<history, committed, commits, edits, rebases, accepted>>

Commit ==
  /\ tree # committed
  /\ committed' = tree
  /\ commits' = commits + 1
  /\ history' = Append(history, [commit |-> commits', src |-> tree.src])
  /\ UNCHANGED <<tree, edits, rebases, honest, accepted>>

\* The last commit is rewritten under another name.
Rebase ==
  /\ edits + rebases < MaxEdits /\ Len(history) > 1
  /\ rebases' = rebases + 1
  /\ commits' = commits + 1
  /\ history' = [history EXCEPT ![Len(history)].commit = commits']
  /\ UNCHANGED <<tree, committed, edits, honest, accepted>>

\* The sources of the commit a record names; None when HEAD does not descend from it.
SourcesNamed(record) ==
  IF GenerationCommitHolds(record)
    THEN (CHOOSE h \in Range(history) : h.commit = record.generated_at).src
    ELSE None

\* CI judges a clean checkout of HEAD.
Accept ==
  /\ tree = committed /\ Check(tree)
  /\ accepted' = [tree |-> tree, honest |-> honest, named |-> SourcesNamed(tree.record)]
  /\ accepted' # accepted
  /\ UNCHANGED <<tree, history, committed, commits, edits, rebases, honest>>

Next ==
  \/ EditSource \/ EditAssembly \/ EditWorkspace \/ EditGenerated \/ EditZones
  \/ RunAeneas \/ RemoveUnmapped \/ write_axiom_allowlist \/ Refresh \/ Commit \/ Accept \/ Rebase

Spec == Init /\ [][Next]_vars

-----------------------------------------------------------------------------
(* Properties *)

\* Where the record was written right after a run of the toolchain, each generated
\* file of an accepted tree is what the toolchain makes of the Rust, the workspace
\* and the assembly scripts of that same tree (check_translation).
AcceptedIsCurrent ==
  accepted.honest =>
    \A zone \in DOMAIN accepted.tree.gen :
      accepted.tree.gen[zone] = Translated(accepted.tree, zone)

\* However the record was written, the axioms in force in an accepted tree are those
\* the allowlist shows a reader, by name and, where the text declares them, by type
\* (check_axiom_allowlist, compare_audit).
AxiomsAreListed ==
  \A zone \in DOMAIN accepted.tree.gen :
    LET file == accepted.tree.gen[zone] IN
      /\ axiom_declarations(file, zone) = accepted.tree.allowed[zone]
      /\ Environment(file, zone) = Named(accepted.tree.allowed[zone])

\* When CI accepts, the commit the record names is in HEAD's history and holds the
\* very sources of the accepted tree, those that are only part of a unit included
\* (committed_tree_hash, check_zones_match_translation).
AcceptedWasCommitted == accepted.named = accepted.tree.src

\* An accepted tree is what its sources say it is.
TranslationHolds == AcceptedIsCurrent /\ AxiomsAreListed /\ AcceptedWasCommitted
=============================================================================
