---------------------------- MODULE NoSorryParts ----------------------------
(***************************************************************************)
(* A run of no-sorry.sh split over machines (no-sorry-parts.py): the       *)
(* parts file divides the phases of the script among parts, each part      *)
(* runs on its own machine and writes a directory about itself, and the    *)
(* combiner gives the verdict, while the branch moves, main saves newer    *)
(* build caches, parts fail, and jobs are run again.                       *)
(***************************************************************************)
EXTENDS Naturals, Sequences, FiniteSets, SequencesExt, FiniteSetsExt, TLC

CONSTANTS
  Parts,       \* names of parts, all of one partition
  Files,       \* the parts files: functions from Parts to sets of [phase, slice, of]
  MaxPushes,   \* bound: times the branch moves
  MaxSaves,    \* bound: build caches main saves meanwhile
  MaxFaults,   \* bound: parts that go wrong
  None

VARIABLES
  head,     \* commit, version of the script, parts file, and what it resolves to
  dirs,     \* the directory of each part, or None
  cache,    \* the build cache a part restores now
  faults,   \* parts that went wrong so far
  verdict   \* the combiner's, of the head

vars == <<head, dirs, cache, faults, verdict>>

-----------------------------------------------------------------------------
(* What the script lists: a later version has one more phase and one more control *)

Table(version) ==
  <<[id |-> "build", kind |-> "prelude", units |-> <<>>],
    [id |-> "audit", kind |-> "plain", units |-> <<>>],
    [id |-> "negatives", kind |-> "sliceable",
     units |-> IF version = 1 THEN <<"u0", "u1", "u2">> ELSE <<"u0", "u1", "u2", "u3">>]>>
  \o (IF version = 1 THEN <<>> ELSE <<[id |-> "reach", kind |-> "plain", units |-> <<>>]>>)

Phase(version, id) ==
  LET table == Table(version) IN table[CHOOSE i \in DOMAIN table : table[i].id = id]

Listed(version) == {Table(version)[i].id : i \in DOMAIN Table(version)}
Divided(version) == {id \in Listed(version) : Phase(version, id).kind # "prelude"}

Whole == [slice |-> None, of |-> None]

\* The controls of slice k of `count`: those at k modulo count, counted from nought.
Slice(units, k, count) ==
  LET places == SelectSeq([i \in DOMAIN units |-> i], LAMBDA i : (i - 1) % count = k)
  IN [i \in DOMAIN places |-> units[places[i]]]

-----------------------------------------------------------------------------
(* The parts file *)

\* One entry of a part is well formed.
SpecHolds(version, s) ==
  /\ s.phase \in Divided(version)
  /\ s.of # None =>
       /\ Phase(version, s.phase).kind = "sliceable"
       /\ s.of >= 2 /\ s.slice < s.of
       /\ s.of <= Len(Phase(version, s.phase).units)

Holders(file, id) == {h \in [part : Parts, spec : UNION {file[p] : p \in Parts}] :
                        h.spec \in file[h.part] /\ h.spec.phase = id}

\* Variant: as many slices as their number says.
CoveredByCount(file, id) ==
  \/ \E h \in Holders(file, id) : h.spec.of = None /\ Holders(file, id) = {h}
  \/ /\ Holders(file, id) # {}
     /\ \A h \in Holders(file, id) : h.spec.of = Cardinality(Holders(file, id))

\* A phase is in one part whole, or every slice of one division is in one part.
Covered(file, id) ==
  \/ \E h \in Holders(file, id) : h.spec.of = None /\ Holders(file, id) = {h}
  \/ \E count \in 2..4 :
       /\ \A h \in Holders(file, id) : h.spec.of = count
       /\ \A k \in 0..count - 1 : Cardinality({h \in Holders(file, id) : h.spec.slice = k}) = 1

\* Every part names a phase, none names one twice, and the partition covers the script.
read_parts(version, file) ==
  /\ \A part \in Parts : file[part] # {}
  /\ \A part \in Parts, s \in UNION {file[p] : p \in Parts} : s \in file[part] => SpecHolds(version, s)
  /\ \A part \in Parts : \A s, t \in file[part] : s.phase = t.phase => s = t
  /\ \A id \in Divided(version) : Covered(file, id)

\* The part's own phases, in the script's order; a whole sliceable phase is slice 0 of 1.
selection(version, file, part) ==
  LET own == SelectSeq(Table(version), LAMBDA p : \E s \in file[part] : s.phase = p.id)
      Of(p) == CHOOSE s \in file[part] : s.phase = p.id
  IN [i \in DOMAIN own |->
        [id |-> own[i].id,
         slice |-> IF own[i].kind = "plain" THEN Whole
                   ELSE IF Of(own[i]).of = None THEN [slice |-> 0, of |-> 1]
                   ELSE [slice |-> Of(own[i]).slice, of |-> Of(own[i]).of]]]

\* What the part runs: the prelude and its own phases, in the script's order.
run_order(version, file, part) ==
  LET own == selection(version, file, part)
      runs == SelectSeq(Table(version), LAMBDA p : p.kind = "prelude" \/ \E i \in DOMAIN own : own[i].id = p.id)
  IN [i \in DOMAIN runs |->
        IF runs[i].kind = "prelude" THEN [id |-> runs[i].id, slice |-> Whole]
        ELSE own[CHOOSE j \in DOMAIN own : own[j].id = runs[i].id]]

-----------------------------------------------------------------------------
(* What a part writes about itself *)

Faults == {"phase failed", "phase skipped", "error line", "control accepted", "control skipped",
           "baseline refused", "log missing", "dirty", "seam", "manifest lost"}

\* Phases of the part that hold results of controls.
Sliceable(version, order) ==
  {i \in DOMAIN order : Phase(version, order[i].id).kind = "sliceable"}

\* The result file of one slice.
Result(units, s, fault) ==
  LET selected == Slice(units, s.slice, s.of) IN
    [slice |-> s,
     selected |-> IF fault = "control skipped" THEN Tail(selected) ELSE selected,
     refused |-> IF fault = "control accepted" THEN ToSet(Tail(selected)) ELSE ToSet(selected),
     baselines |-> fault # "baseline refused",
     logs |-> fault # "log missing"]

\* A fault the part can have, given what it runs.
CanHappen(fault, version, order) ==
  fault \in {"control accepted", "control skipped", "baseline refused", "log missing"}
    => Sliceable(version, order) # {}

\* What really happened in a phase: itself, or the controls of it, that came out as
\* they must.
Truth(run, result, fault) ==
  IF run.slice = Whole THEN {<<run.id>>}
  ELSE IF fault = "baseline refused" THEN {}
  ELSE {<<run.id, u>> : u \in ToSet(result.selected) \cap result.refused}

cmd_manifest(part, fault) ==
  LET order == head.plan[part]
      ran == IF fault = "phase skipped" THEN Front(order) ELSE order
      results == [i \in Sliceable(head.version, ran) |->
                    Result(Phase(head.version, ran[i].id).units, ran[i].slice, fault)]
      sound == IF fault \in {"dirty", "seam"} THEN {}
               ELSE IF fault \in {"phase failed", "error line"} THEN 1..Len(ran) - 1
               ELSE DOMAIN ran
  IN [part    |-> part,
      commit  |-> head.commit,
      script  |-> head.version,
      parts   |-> head.file,
      clean   |-> fault # "dirty",
      seam    |-> fault = "seam",
      cache   |-> cache,
      exit    |-> IF fault = "phase failed" THEN 1 ELSE 0,
      phases  |-> ran,
      failed  |-> fault = "phase failed",
      log     |-> fault # "error line",
      results |-> results,
      truth   |-> UNION {Truth(ran[i], IF i \in DOMAIN results THEN results[i] ELSE None, fault) : i \in sound}]

-----------------------------------------------------------------------------
(* The combiner *)

\* Variant: the result's own list of controls is enough, whatever became of them.
ResultCounted(result, s, units) ==
  /\ result.slice = s
  /\ result.selected = Slice(units, s.slice, s.of)
  /\ result.baselines /\ result.logs

check_result(result, s, units) ==
  /\ result.slice = s
  /\ result.selected = Slice(units, s.slice, s.of)
  /\ result.refused = ToSet(result.selected)
  /\ result.baselines
  /\ result.logs

ManifestHolds(d) ==
  /\ d.commit = head.commit /\ d.clean
  /\ d.script = head.version /\ d.parts = head.file
  /\ ~d.seam
  /\ d.exit = 0
  /\ d.phases = head.plan[d.part]
  /\ ~d.failed
  /\ d.log
  /\ \A i \in Sliceable(head.version, d.phases) :
       check_result(d.results[i], d.phases[i].slice, Phase(head.version, d.phases[i].id).units)

\* The controls of a phase that the parts ran, in whatever order.
slices_run(id) ==
  LET of(part) == {dirs[part].results[i].selected : i \in {j \in DOMAIN dirs[part].results : dirs[part].phases[j].id = id}}
  IN FoldSet(LAMBDA part, acc : acc \o (IF of(part) = {} THEN <<>> ELSE CHOOSE s \in of(part) : TRUE), <<>>, Parts)

cmd_combine ==
  /\ head.plan # None
  /\ \A part \in Parts : dirs[part] # None /\ ManifestHolds(dirs[part])
  /\ \A p, q \in Parts : dirs[p].cache = dirs[q].cache
  /\ \A id \in Divided(head.version) : Phase(head.version, id).kind = "sliceable" =>
       /\ Len(slices_run(id)) = Cardinality(ToSet(slices_run(id)))
       /\ ToSet(slices_run(id)) = ToSet(Phase(head.version, id).units)

-----------------------------------------------------------------------------
(* A workflow run and what goes on around it *)

\* What `resolve` answers for each part, or None where the file does not cover the script.
cmd_resolve(version, file) ==
  IF read_parts(version, file) THEN [part \in Parts |-> run_order(version, file, part)] ELSE None

Init ==
  /\ \E version \in {1, 2}, file \in Files :
       head = [commit |-> 1, version |-> version, file |-> file, plan |-> cmd_resolve(version, file)]
  /\ dirs = [part \in Parts |-> None]
  /\ cache = 1
  /\ faults = 0
  /\ verdict = None

\* A part runs that has not run on this commit, or failed: it resolves its phases
\* first, and a parts file that does not cover the script stops it there.
RunPart(part) ==
  /\ head.plan # None
  /\ dirs[part] # None => ~(dirs[part].commit = head.commit /\ dirs[part].exit = 0)
  /\ \E fault \in Faults \union {None} :
       /\ fault # None => faults < MaxFaults
       /\ faults' = IF fault = None THEN faults ELSE faults + 1
       /\ CanHappen(fault, head.version, head.plan[part])
       /\ dirs' = [dirs EXCEPT ![part] =
                     IF fault = "manifest lost" THEN None ELSE cmd_manifest(part, fault)]
  /\ UNCHANGED <<head, cache, verdict>>

\* The combiner meets whatever directories are there, parts of an older commit among them.
Combine ==
  /\ verdict = None
  /\ head.plan # None
  /\ \A part \in Parts : dirs[part] # None
  /\ verdict' = IF cmd_combine THEN "pass" ELSE "refuse"
  /\ UNCHANGED <<head, dirs, cache, faults>>

\* "Re-run all jobs", which the combiner's message asks for.
RerunAll ==
  /\ verdict = "refuse"
  /\ verdict' = None
  /\ dirs' = [part \in Parts |-> None]
  /\ UNCHANGED <<head, cache, faults>>

\* The branch moves, with the script or the parts file changed or not.
Push ==
  /\ head.commit <= MaxPushes
  /\ \E version \in {1, 2}, file \in Files :
       head' = [commit |-> head.commit + 1, version |-> version, file |-> file,
                plan |-> cmd_resolve(version, file)]
  /\ verdict' = None
  /\ UNCHANGED <<dirs, cache, faults>>

\* main saves a newer build cache.
SaveCache ==
  /\ cache <= MaxSaves
  /\ cache' = cache + 1
  /\ UNCHANGED <<head, dirs, faults, verdict>>

Next == (\E part \in Parts : RunPart(part)) \/ Combine \/ RerunAll \/ Push \/ SaveCache

Spec == Init /\ [][Next]_vars

-----------------------------------------------------------------------------
(* Properties *)

\* A parts file that is accepted has every phase, and every control of a sliced
\* phase, run by exactly one part, whatever the division (read_parts, run_order).
PartitionIsExact ==
  head.plan # None =>
    \A id \in Divided(head.version) :
      LET units == Phase(head.version, id).units
          RunsOf(part) == {i \in DOMAIN head.plan[part] : head.plan[part][i].id = id}
          SliceOf(part) == head.plan[part][CHOOSE i \in RunsOf(part) : TRUE].slice
      IN IF units = <<>>
           THEN Cardinality({part \in Parts : RunsOf(part) # {}}) = 1
           ELSE \A u \in ToSet(units) :
                  Cardinality({part \in Parts :
                    /\ RunsOf(part) # {}
                    /\ u \in ToSet(Slice(units, SliceOf(part).slice, SliceOf(part).of))}) = 1

\* A verdict of pass says that each phase of the script as it is at the head, and each
\* control, really came out as it must in exactly one of the parts, all of them on the
\* head and from one build cache (cmd_combine).
VerdictIsWhole ==
  verdict = "pass" =>
    /\ \A p, q \in Parts : dirs[p].commit = head.commit /\ dirs[p].cache = dirs[q].cache
    /\ \A id \in Divided(head.version) :
         LET units == Phase(head.version, id).units
             facts == IF units = <<>> THEN {<<id>>} ELSE {<<id, u>> : u \in ToSet(units)}
         IN \A fact \in facts : Cardinality({part \in Parts : fact \in dirs[part].truth}) = 1

\* The division is exact, and a pass is of the whole.
DivisionHolds == PartitionIsExact /\ VerdictIsWhole
=============================================================================
