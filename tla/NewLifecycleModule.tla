------------------------- MODULE NewLifecycleModule -------------------------
(***************************************************************************)
(* The wiring of a new lifecycle proof module into the shared files        *)
(* (tacenta-proofs/scripts/new-lifecycle-module.py): `scaffold` before the *)
(* proof exists, `pins` once it does and again whenever its pins change.   *)
(*                                                                         *)
(* A file is what the tool reads of it: the lists of names in their order, *)
(* the pins of each module, a count.  A run computes every edit in memory  *)
(* (Tree) and then writes the changed files one after another; it may be   *)
(* interrupted in between.                                                 *)
(***************************************************************************)
EXTENDS Naturals, Sequences, SequencesExt, FiniteSets

CONSTANTS
  Modules,    \* the names of new modules, in their sort order
  Existing,   \* the entries every list has, in the order they have
  Parts,      \* the parts of the hosted partition
  PinNames,   \* the theorems and definitions a module may pin
  None,
  CrashIn     \* the steps whose writing may be interrupted

VARIABLES
  disk,     \* file -> what it holds
  run,      \* the run in progress, or None
  section,  \* module -> its `## Pins` section, or None
  wired,    \* modules that a scaffold run was finished for
  pinned    \* modules whose pins have not changed since a pins run was finished

vars == <<disk, run, section, wired, pinned>>

NoPins == [axiom |-> {}, statement |-> {}, print |-> {}, compiler |-> {}]
NoCases == [axiom |-> {}, statement |-> {}, form |-> None]

-----------------------------------------------------------------------------
(* Placing an entry *)


\* The greatest key below, or the first.
place_after(keys, new) ==
  LET below == {i \in DOMAIN keys : keys[i] < new} IN
    IF below = {} THEN 1 ELSE CHOOSE i \in below : \A j \in below : keys[j] <= keys[i]

Has(keys, new) == new \in ToSet(keys)

\* Variant: an entry is added again.
InsertAgain(keys, new) == InsertAt(keys, place_after(keys, new) + 1, new)

insert_word(keys, new) == IF Has(keys, new) THEN keys ELSE InsertAt(keys, place_after(keys, new) + 1, new)

\* In a list whose last entry has no comma, no entry goes after it.
InsertBeforeEnd(keys, new) ==
  LET at == place_after(keys, new) IN
    IF Has(keys, new) THEN keys ELSE InsertAt(keys, IF at = Len(keys) THEN at ELSE at + 1, new)

\* Before the least entry above it, or before the last.
InsertEvidence(keys, new) ==
  LET above == {i \in DOMAIN keys : keys[i] > new} IN
    InsertAt(keys, IF above = {} THEN Len(keys) ELSE CHOOSE i \in above : \A j \in above : keys[i] <= keys[j], new)

InsertBeforeLast(keys, new) == InsertAt(keys, Len(keys), new)

-----------------------------------------------------------------------------
(* scaffold: the edits, in their order, that need no theorem name *)

\* Each file is created once.
create_files(t, m) == [t EXCEPT !.module = @ \union {m}, !.script = @ \union {m}]

edit_audit(t, m) ==
  [t EXCEPT !.audit.imports = insert_word(@, m),
            !.audit.paragraphs = IF Has(@, m) THEN @ ELSE Append(@, m)]

edit_no_sorry(t, m) == [t EXCEPT !.no_sorry.functions = insert_word(@, m), !.no_sorry.runs = insert_word(@, m)]

\* A phase is in one part; another part for it is refused.
PartRefused(t, m, part) == part \notin Parts \/ \E p \in Parts \ {part} : Has(t.parts[p], m)

edit_parts(t, m, part) == [t EXCEPT !.parts[part] = insert_word(@, m)]

edit_cases(t, m) == [t EXCEPT !.cases.py_controls = insert_word(@, m), !.cases.called = insert_word(@, m)]
edit_parts_cases(t, m) == [t EXCEPT !.parts_cases.py_stubs = insert_word(@, m)]
edit_counts_cases(t, m) == [t EXCEPT !.counts_cases.named = insert_word(@, m)]
edit_record(t, m) == [t EXCEPT !.record.scripts = InsertBeforeEnd(@, m)]

edit_inventory(t, m) ==
  [t EXCEPT !.inventory.controls = InsertBeforeEnd(@, m), !.inventory.rows = insert_word(@, m)]

edit_mutations(t, m) == [t EXCEPT !.mutations.entries = insert_word(@, m)]

\* Variant: the gate list alone says whether the script is there.
EditObligationsByGate(t, m) ==
  [t EXCEPT !.obligations.gates = insert_word(@, m),
            !.obligations.evidence = InsertEvidence(@, m), !.obligations.clauses = InsertBeforeLast(@, m)]

\* The row's three fields at once, unless the row names the script.
edit_obligations(t, m) ==
  IF \E field \in DOMAIN t.obligations : Has(t.obligations[field], m) THEN t
  ELSE [t EXCEPT !.obligations.gates = insert_word(@, m),
                 !.obligations.evidence = InsertEvidence(@, m), !.obligations.clauses = InsertBeforeLast(@, m)]

\* Variant: a module that is there was wired.
ScaffoldOnce(t, m, part) ==
  IF PartRefused(t, m, part) THEN {}
  ELSE IF m \in t.module THEN {t}
  ELSE {edit_obligations(edit_mutations(edit_inventory(edit_record(edit_counts_cases(edit_parts_cases(
          edit_cases(edit_parts(edit_no_sorry(edit_audit(create_files(t, m), m), m), m, part), m), m), m), m), m), m), m)}

\* The tree after the step, or nothing when it is refused.
scaffold(t, m, part) ==
  IF PartRefused(t, m, part) THEN {}
  ELSE {edit_obligations(edit_mutations(edit_inventory(edit_record(edit_counts_cases(edit_parts_cases(
          edit_cases(edit_parts(edit_no_sorry(edit_audit(create_files(t, m), m), m), m, part), m), m), m), m), m), m), m)}

-----------------------------------------------------------------------------
(* pins: the edits that need the names *)

\* The module's names replaced in the four lists.
edit_attest(t, m, pins) == [t EXCEPT !.attest[m] = pins]

\* A print-form case for a definition, unless the module has one.
FormCase(cases, pins, wanted) ==
  IF ~wanted \/ cases.form # None THEN cases.form ELSE CHOOSE n \in pins.print : TRUE

FormRefused(pins, wanted) == wanted /\ pins.print = {}

edit_negative_lists(t, m, pins, wanted) ==
  [t EXCEPT !.negatives[m] =
     [axiom |-> pins.axiom, statement |-> pins.statement, form |-> FormCase(@, pins, wanted)]]

Cases(cases) == Cardinality(cases.axiom) + Cardinality(cases.statement) + (IF cases.form = None THEN 0 ELSE 1)

\* Variant: the names of a line that goes are not taken off.
CountOnlyAdded(t, new, m) ==
  [new EXCEPT !.count = IF Cases(new.negatives[m]) > Cases(t.negatives[m])
                          THEN @ + Cases(new.negatives[m]) - Cases(t.negatives[m]) ELSE @]

\* The count follows by what the lists gained and lost.
edit_count(t, new, m) == [new EXCEPT !.count = (@ + Cases(new.negatives[m])) - Cases(t.negatives[m])]

pins_step(t, m, pins, wanted) ==
  IF m \notin t.module \/ pins = None THEN {}
  ELSE IF FormRefused(pins, wanted) THEN {}
  ELSE {edit_count(t, edit_negative_lists(edit_attest(t, m, pins), m, pins, wanted), m)}

-----------------------------------------------------------------------------
(* Running it *)

FILES ==
  <<"module", "script", "audit", "no_sorry", "parts", "cases", "parts_cases", "counts_cases", "record", "inventory",
    "mutations", "obligations", "attest", "negatives", "count">>

changed(old, new) == SelectSeq(FILES, LAMBDA f : old[f] # new[f])

\* One file of the commit.
Written(t, new, f) == [t EXCEPT ![f] = new[f]]

Begin(step, m, results) ==
  /\ run = None /\ results # {}
  /\ run' = [step |-> step, m |-> m, new |-> CHOOSE t \in results : TRUE,
             todo |-> changed(disk, CHOOSE t \in results : TRUE)]
  /\ UNCHANGED <<disk, section, wired, pinned>>

Scaffold(m, part) == Begin("scaffold", m, scaffold(disk, m, part))
PinsStep(m, wanted) == Begin("pins", m, pins_step(disk, m, section[m], wanted))

commit ==
  /\ run # None /\ run.todo # <<>>
  /\ disk' = Written(disk, run.new, Head(run.todo))
  /\ run' = [run EXCEPT !.todo = Tail(@)]
  /\ UNCHANGED <<section, wired, pinned>>

Finish ==
  /\ run # None /\ run.todo = <<>>
  /\ run' = None
  /\ wired' = IF run.step = "scaffold" THEN wired \union {run.m} ELSE wired
  /\ pinned' = IF run.step = "pins" THEN pinned \union {run.m} ELSE pinned
  /\ UNCHANGED <<disk, section>>

\* The run is interrupted; what is written stays.
Crash ==
  /\ run # None /\ run.step \in CrashIn
  /\ run' = None
  /\ UNCHANGED <<disk, section, wired, pinned>>

Sections ==
  {[axiom |-> names, statement |-> names, print |-> printed, compiler |-> names \ printed] :
     names \in SUBSET PinNames, printed \in SUBSET PinNames}

\* The author proves, or changes what is proved, and the section is written.
Author(m, pins) ==
  /\ run = None /\ m \in disk.module /\ pins.print \subseteq pins.statement
  /\ section' = [section EXCEPT ![m] = pins]
  /\ pinned' = pinned \ {m}
  /\ UNCHANGED <<disk, run, wired>>

Init ==
  /\ disk = [module |-> {}, script |-> {},
             audit |-> [imports |-> Existing, paragraphs |-> Existing],
             no_sorry |-> [functions |-> Existing, runs |-> Existing],
             parts |-> [p \in Parts |-> Existing],
             cases |-> [py_controls |-> Existing, called |-> Existing],
             parts_cases |-> [py_stubs |-> Existing], counts_cases |-> [named |-> Existing],
             record |-> [scripts |-> Existing], inventory |-> [controls |-> Existing, rows |-> Existing],
             mutations |-> [entries |-> Existing],
             obligations |-> [gates |-> Existing, evidence |-> Existing, clauses |-> Existing],
             attest |-> [m \in Modules |-> NoPins], negatives |-> [m \in Modules |-> NoCases], count |-> 0]
  /\ run = None
  /\ section = [m \in Modules |-> None]
  /\ wired = {} /\ pinned = {}

\* What happens before the first theorem is pinned.
ScaffoldNext ==
  \/ \E m \in Modules, part \in Parts : Scaffold(m, part)
  \/ commit \/ Finish \/ Crash

Next ==
  \/ ScaffoldNext
  \/ \E m \in Modules, wanted \in BOOLEAN : PinsStep(m, wanted)
  \/ \E m \in Modules, pins \in Sections : Author(m, pins)

Spec == Init /\ [][Next]_vars

-----------------------------------------------------------------------------
\* The files that hold lists.
Listed == {"audit", "no_sorry", "cases", "parts_cases", "counts_cases", "record", "inventory", "mutations", "obligations"}

Hosted(m) == \E p \in Parts : Has(disk.parts[p], m)

\* A module that a scaffold run was finished for is in every list of every file, in
\* one part and created, however many runs were interrupted before ("a file missed
\* was a gate that silently did not hold the module").
WiredEverywhere ==
  \A m \in wired :
    /\ m \in disk.module /\ m \in disk.script /\ Hosted(m)
    /\ \A f \in Listed : \A list \in DOMAIN disk[f] : Has(disk[f][list], m)

\* No list names a module twice, and none has it in two parts, in any order of runs
\* and interruptions (insert_word, edit_obligations, edit_parts).
NamedOnce ==
  /\ \A f \in Listed : \A list \in DOMAIN disk[f] : IsInjective(disk[f][list])
  /\ \A m \in Modules : Cardinality({p \in Parts : Has(disk.parts[p], m)}) <= 1

\* Running a finished step again changes nothing.
AgainChangesNothing ==
  run = None =>
    /\ \A m \in wired, part \in Parts : \A t \in scaffold(disk, m, part) : t = disk
    /\ \A m \in pinned : \A t \in pins_step(disk, m, section[m], FALSE) : t = disk

\* A module stands next to the entry its name sorts after, or to another new module
\* that sorts there too, so two branches that add different modules meet only there
\* ("add lines at different places").
NextToItsPlace ==
  \A m \in Modules : Has(disk.cases.py_controls, m) =>
    LET keys == disk.cases.py_controls
        i == CHOOSE j \in DOMAIN keys : keys[j] = m
        below == {x \in ToSet(Existing) : x < m}
        anchor == IF below = {} THEN Existing[1] ELSE CHOOSE x \in below : \A y \in below : y <= x
        k == CHOOSE j \in DOMAIN keys : keys[j] = anchor
    IN  k < i /\ \A j \in (k + 1)..i : keys[j] \in Modules

\* The recorded number of cases is the number of cases the lists have, between runs,
\* through every change of the pins (edit_count).
CountIsTrue ==
  run = None =>
    disk.count = FoldSet(LAMBDA m, n : n + Cases(disk.negatives[m]), 0, Modules)

=============================================================================
