-------------------------- MODULE NegativeControls ---------------------------
(***************************************************************************)
(* One change to a negatives script and what happens to it: an author      *)
(* edits the script, the static gate check-negatives-control-counts.py     *)
(* reads its text, and the script runs.  The run asks Lean to accept every *)
(* unmodified copy and then to refuse every control, and ends by checking  *)
(* that it did all it holds (check_complete).                              *)
(*                                                                         *)
(* Lean is the environment: it may refuse at the named place with the      *)
(* named message, elsewhere, for another reason, time out inside, hang or  *)
(* not start.  An edit is any of the spellings the gate's documentation    *)
(* says are caught, by the gate or by the run.                             *)
(***************************************************************************)
EXTENDS NegativeTables, FiniteSets, SequencesExt

CONSTANTS Chosen,     \* the scripts considered
          MaxEdits,   \* how many edits the author makes to each, at most
          HeldToPlace \* the scripts whose evidence is held to the named place

ASSUME ChosenAssumption ==
    Chosen \subseteq DOMAIN Scripts /\ MaxEdits \in [Chosen -> Nat] /\ HeldToPlace \subseteq Chosen

VARIABLES script,     \* the script considered
          edits,      \* what the author changed in it
          gate,       \* the verdict of the static gate
          pc, k,      \* the step of main, and its place in the list it walks
          accepted,   \* results['accepted']
          rejected,   \* the controls in results['rejected']
          noted,      \* the records inside, projection_of and projects in it
          RUNS,       \* how often Lean accepted and refused, as run_lean counts
          exit,       \* how the script ended
          evidence,   \* what Lean really did, run by run (no part of the script)
          surprise    \* whether Lean ever did something unexpected

vars == <<script, edits, gate, pc, k, accepted, rejected, noted, RUNS, exit, evidence, surprise>>

----------------------------------------------------------------------------
(* The text of the script after the edits.                                 *)

S == Scripts[script]
Ids == 1..Len(S.controls)
C(i) == S.controls[i]
Edited(kind, x) == <<kind, x>> \in edits

\* The control list and the label tables as the edited file holds them.
MUTANTS == SelectSeq([i \in Ids |-> i], LAMBDA i : ~ Edited("delete", i))
Label(i) == IF Edited("unlabel", i) THEN "leaf" ELSE C(i).label
Labelled_(l) == {i \in ToSet(MUTANTS) : Label(i) = l}
Sources == SelectSeq(S.sources, LAMBDA c : ~ Edited("dropBaseline", c))

\* INSIDE as main finds it: `INSIDE.clear()` empties it after start-up.
INSIDE == IF Edited("clear", "INSIDE") THEN {} ELSE Labelled_("inside")
PROJECTION == Labelled_("projection")
STATEMENT_SHAPE == Labelled_("statement_shape")

\* What an author may change: a control, its label, its run or its emptied
\* run; a baseline or its run; and main or a helper as a whole.
Edits ==
    {"delete", "unlabel", "skip", "skipProbe", "invent", "inventProbe"} \X Ids
    \cup {"dropBaseline", "skipBaseline", "inventBaseline"} \X ToSet(S.sources)
    \cup {<<"return", "main">>, <<"narrow", "sources">>, <<"helper", "check_refused">>, <<"exit", "helper">>,
          <<"clear", "INSIDE">>, <<"rebind", "check_complete">>}

----------------------------------------------------------------------------
(* The static gate.                                                        *)

counts ==
    [c \in Labels \cup {"baselines"} |->
        IF c = "baselines" THEN Len(Sources) ELSE Cardinality(Labelled_(c))]

\* A call of an in-place method on a module-level name.
edit_problems == Edited("clear", "INSIDE")
\* A helper that ends the run, and main returning before check_complete.
exit_problems == Edited("exit", "helper")
sources_problems == Edited("narrow", "sources")
main_problems == edit_problems \/ exit_problems \/ sources_problems \/ Edited("return", "main")
\* A shared helper rebound through globals(), or its text changed.
dynamic_uses == Edited("rebind", "check_complete")
shared_problems == Edited("helper", "check_refused")

Gate ==
    /\ pc = "edit"
    /\ gate' = IF ~ S.labelled THEN "none"
               ELSE IF counts # Record[script] \/ main_problems \/ dynamic_uses \/ shared_problems
                    THEN "refused" ELSE "passed"
    /\ pc' = "start"
    /\ UNCHANGED <<script, edits, k, accepted, rejected, noted, RUNS, exit, evidence, surprise>>

----------------------------------------------------------------------------
(* Lean.                                                                   *)

Kinds == {"named", "other", "timeout", "slowNamed", "unresolved"}

\* The errors of one run: at a place the control names, or before or after it.
Outputs(at) ==
    LET errors == (ToSet(at) \cup {"before", "after"}) \X Kinds
    IN  {{}} \cup {{e, f} : e, f \in errors}

\* A run ends with a status and its errors; without an error it is accepted
\* or killed from outside.
Outcomes(at) == {o \in [status : {0, 1}, errors : Outputs(at)] : o.errors # {} => o.status = 1}

not_a_refusal(out) == \E e \in out.errors : e[2] = "unresolved"
is_timeout(e) == e[2] \in {"timeout", "slowNamed"}
Matches(e) == e[2] \in {"named", "slowNamed"}

\* run_lean: only a compiler that started and ended in time is counted.
run_lean(out) == RUNS' = IF out.status = 0 THEN [RUNS EXCEPT !.accepting = @ + 1]
                         ELSE [RUNS EXCEPT !.refusing = @ + 1]

----------------------------------------------------------------------------
(* How a script judges the refusal of a control: the first of the named    *)
(* places that counts, or "none".                                          *)

FirstPlace(at, holds(_)) ==
    IF \E j \in DOMAIN at : holds(at[j])
    THEN at[CHOOSE j \in DOMAIN at : holds(at[j]) /\ \A h \in 1..(j - 1) : ~ holds(at[h])]
    ELSE "none"

Refused(out) == out.status # 0 /\ (\E e \in out.errors : Matches(e)) /\ ~ not_a_refusal(out)

check_refused_no_place(at, out) ==
    IF out.status = 0 \/ not_a_refusal(out) \/ ~ (\E e \in out.errors : Matches(e)) THEN "none" ELSE at[1]

\* The labelled scripts: an error at the place that is no timeout and matches.
check_refused(at, out) ==
    IF out.status = 0 \/ not_a_refusal(out) THEN "none"
    ELSE FirstPlace(at, LAMBDA p : \E e \in out.errors : e[1] = p /\ ~ is_timeout(e) /\ Matches(e))

\* The message anywhere in the output, and any error at the place.
check_somewhere(at, out) ==
    IF ~ Refused(out) THEN "none" ELSE FirstPlace(at, LAMBDA p : \E e \in out.errors : e[1] = p)

\* The message in an error at the place.
check_at_place(at, out) ==
    IF ~ Refused(out) THEN "none"
    ELSE FirstPlace(at, LAMBDA p : \E e \in out.errors : e[1] = p /\ Matches(e))

\* The first error at the place, and the message in one there that is no timeout.
place_of(at, out) ==
    IF out.status = 0 \/ out.errors = {} \/ not_a_refusal(out) \/ (\E e \in out.errors : e[1] = "before") THEN "none"
    ELSE FirstPlace(at, LAMBDA p : \E e \in out.errors : e[1] = p /\ ~ is_timeout(e) /\ Matches(e))

check_anywhere_any_error(out) == IF out.status # 0 THEN "anywhere" ELSE "none"

\* No named place: the message anywhere, with or without the guard.
check_anywhere(out) == IF Refused(out) THEN "anywhere" ELSE "none"
check_unguarded(out) ==
    IF out.status # 0 /\ \E e \in out.errors : Matches(e) THEN "anywhere" ELSE "none"
check_branch(at, out) ==
    IF out.status = 0 THEN "none" ELSE FirstPlace(at, LAMBDA p : \E e \in out.errors : e[1] = p /\ Matches(e))

Judge(at, out) ==
    CASE Edited("helper", "check_refused") -> IF at = <<>> THEN "anywhere" ELSE at[1]
      [] S.judge = "named" -> check_refused(at, out)
      [] S.judge = "somewhere" -> check_somewhere(at, out)
      [] S.judge = "atPlace" -> check_at_place(at, out)
      [] S.judge = "first" -> place_of(at, out)
      [] S.judge = "anywhere" -> check_anywhere(out)
      [] S.judge = "unguarded" -> check_unguarded(out)
      [] S.judge = "branch" -> check_branch(at, out)

\* What a refusal is, whoever judges it: the message in an error at a named
\* place that is no timeout, in a copy whose names all resolve.  Of a script not held
\* to the place, the message anywhere in a copy Lean refused.
IsRefusal(at, out) ==
    IF script \in HeldToPlace
    THEN ~ not_a_refusal(out) /\ \E e \in out.errors : e[1] \in ToSet(at) /\ e[2] = "named"
    ELSE out.status # 0 /\ \E e \in out.errors : Matches(e)

----------------------------------------------------------------------------
(* The run.                                                                *)

Fail == exit' = "failed" /\ pc' = "done" /\ UNCHANGED k
Advance(list, next) ==
    IF k < Len(list) THEN pc' = pc /\ k' = k + 1 ELSE pc' = next /\ k' = 1

\* What the run counts is kept while it is true; one step that counts what
\* did not happen voids the whole run as evidence.
Witness(happened, what) ==
    /\ surprise' = (surprise \/ ~ happened)
    /\ evidence' = IF surprise' THEN {} ELSE evidence \cup {what}

Edit ==
    /\ pc = "edit" /\ S.labelled /\ Cardinality(edits) < MaxEdits[script]
    /\ \E e \in Edits \ edits : edits' = edits \cup {e}
    /\ UNCHANGED <<script, gate, pc, k, accepted, rejected, noted, RUNS, exit, evidence, surprise>>

\* The labels agree with each other, with where each control is refused and
\* with what passed_through reads off the module.
check_labels ==
    /\ \A i \in Labelled_("inside") : C(i).of \in ToSet(C(i).at) \cap S.composing /\ C(i).placed = "none"
    /\ \A i \in PROJECTION : C(i).at # <<>> /\ ToSet(C(i).at) \subseteq S.composing /\ C(i).placed = C(i).of
    /\ \A i \in STATEMENT_SHAPE : ToSet(C(i).at) \cap S.composing = {} /\ C(i).of \in S.projected
    /\ \A i \in ToSet(MUTANTS) : C(i).label # "pin" /\ ToSet(C(i).at) \cap S.composing # {}
                                 => Label(i) \in {"inside", "projection"}

\* The unmodified guard passes its self-test; an empty table stops the run.
StartUp ==
    /\ pc = "start"
    /\ IF MUTANTS # <<>> /\ (S.labelled => check_labels)
       THEN pc' = "baseline" /\ k' = 1 /\ UNCHANGED exit
       ELSE Fail
    /\ UNCHANGED <<script, edits, gate, accepted, rejected, noted, RUNS, evidence, surprise>>

\* Lean does not start, or hangs and is killed, or the text a control changes
\* is not in the copy exactly once: the run fails at once.
NoVerdict ==
    /\ pc \in {"baseline", "control", "probe"} /\ exit = "none"
    /\ Fail /\ surprise' = TRUE
    /\ UNCHANGED <<script, edits, gate, accepted, rejected, noted, RUNS, evidence>>

Baseline ==
    /\ pc = "baseline"
    /\ IF Len(Sources) = 0 THEN pc' = "control" /\ UNCHANGED <<k, accepted, RUNS, exit, evidence, surprise>>
       ELSE LET c == Sources[k]
            IN  IF Edited("skipBaseline", c) \/ Edited("inventBaseline", c)
                THEN /\ accepted' = IF Edited("inventBaseline", c) THEN Append(accepted, c) ELSE accepted
                     /\ Advance(Sources, "control") /\ UNCHANGED <<RUNS, exit, evidence, surprise>>
                ELSE \E out \in Outcomes(<<>>), sorry \in BOOLEAN :
                        /\ run_lean(out)
                        /\ IF out.status = 0 /\ ~ sorry
                           THEN /\ accepted' = Append(accepted, c) /\ Witness(TRUE, <<"accepted", c>>)
                                /\ Advance(Sources, "control") /\ UNCHANGED exit
                           ELSE Fail /\ surprise' = TRUE /\ UNCHANGED <<accepted, evidence>>
    /\ UNCHANGED <<script, edits, gate, rejected, noted>>

Probed(i) == i \in INSIDE \cup STATEMENT_SHAPE
\* After the last control, main calls check_complete.
NextControl == Advance(MUTANTS, "complete")
PlaceHolds(i, place) ==
    /\ i \in INSIDE => place = C(i).of
    /\ i \in PROJECTION => place = C(i).at[1]
Recorded(i) ==
    /\ rejected' = rejected \cup {i}
    /\ noted' = IF i \in PROJECTION THEN noted \cup {<<"projection_of", i>>} ELSE noted

\* The changed copy: its text occurs exactly once, Lean runs, the refusal is
\* judged and recorded, and a labelled control goes on to its emptied run.
Control ==
    /\ pc = "control" /\ exit = "none"
    /\ LET i == MUTANTS[k]
       IN  IF Edited("skip", i) THEN NextControl /\ UNCHANGED <<rejected, noted, RUNS, exit, evidence, surprise>>
           ELSE IF Edited("invent", i)
           THEN Recorded(i) /\ NextControl /\ UNCHANGED <<RUNS, exit, evidence, surprise>>
           ELSE \E out \in Outcomes(C(i).at) :
                  /\ run_lean(out)
                  /\ IF Judge(C(i).at, out) # "none" /\ PlaceHolds(i, Judge(C(i).at, out))
                     THEN /\ Recorded(i) /\ Witness(IsRefusal(C(i).at, out), <<"refused", i>>)
                          /\ IF Edited("exit", "helper") THEN exit' = "passed" /\ pc' = "done" /\ UNCHANGED k
                             ELSE UNCHANGED exit /\ IF Probed(i) THEN pc' = "probe" /\ UNCHANGED k ELSE NextControl
                     ELSE Fail /\ surprise' = TRUE /\ UNCHANGED <<rejected, noted, evidence>>
    /\ UNCHANGED <<script, edits, gate, accepted>>

ProbeNote(i) == IF i \in INSIDE THEN "inside" ELSE "projects"
BackToControls == IF k < Len(MUTANTS) THEN pc' = "control" /\ k' = k + 1 ELSE pc' = "complete" /\ k' = 1

\* The emptied copy elaborated, and no error is at the emptied declaration.
check_inside(sorry, out, decl) == sorry /\ \A e \in out.errors : e[1] # decl

\* The changed copy with the proof of the labelled theorem replaced by sorry:
\* an inside control must now be accepted there, a statement-shape check must
\* still be refused where it was.
Probe ==
    /\ pc = "probe" /\ exit = "none"
    /\ LET i == MUTANTS[k]
           at == IF i \in INSIDE THEN <<C(i).of>> ELSE C(i).at
       IN  IF Edited("skipProbe", i) \/ Edited("inventProbe", i)
           THEN /\ noted' = IF Edited("inventProbe", i) THEN noted \cup {<<ProbeNote(i), i>>} ELSE noted
                /\ BackToControls /\ UNCHANGED <<RUNS, exit, evidence, surprise>>
           ELSE \E out \in Outcomes(at), sorry \in BOOLEAN :
                  /\ run_lean(out)
                  /\ IF (i \in INSIDE /\ check_inside(sorry, out, C(i).of))
                        \/ (i \in STATEMENT_SHAPE /\ Judge(at, out) # "none")
                     THEN /\ noted' = noted \cup {<<ProbeNote(i), i>>}
                          /\ Witness(i \in INSIDE \/ IsRefusal(at, out), <<"probed", i>>)
                          /\ BackToControls /\ UNCHANGED exit
                     ELSE Fail /\ surprise' = TRUE /\ UNCHANGED <<noted, evidence>>
    /\ UNCHANGED <<script, edits, gate, accepted, rejected>>

check_complete_all_refusing(sources) ==
    /\ accepted = sources /\ rejected = ToSet(MUTANTS)
    /\ RUNS.refusing >= Len(MUTANTS) + Cardinality(INSIDE) + Cardinality(STATEMENT_SHAPE)
check_complete_results_only(sources) ==
    /\ accepted = sources
    /\ rejected = ToSet(MUTANTS)
    /\ {i \in rejected : <<"inside", i>> \in noted} = INSIDE
    /\ {i \in rejected : <<"projects", i>> \in noted} = STATEMENT_SHAPE
    /\ {i \in rejected : <<"projection_of", i>> \in noted} = PROJECTION

\* The run did what the script holds, by its results and by run_lean's count.
check_complete(sources) ==
    LET runs == Len(sources) + Len(MUTANTS) + Cardinality(INSIDE) + Cardinality(STATEMENT_SHAPE)
    IN  /\ accepted = sources
        /\ rejected = ToSet(MUTANTS)
        /\ {i \in rejected : <<"inside", i>> \in noted} = INSIDE
        /\ {i \in rejected : <<"projects", i>> \in noted} = STATEMENT_SHAPE
        /\ {i \in rejected : <<"projection_of", i>> \in noted} = PROJECTION
        /\ RUNS.accepting + RUNS.refusing = runs
        /\ RUNS.accepting >= Len(sources)
        /\ RUNS.refusing >= Len(MUTANTS) + Cardinality(STATEMENT_SHAPE)

\* An unlabelled script writes its result when its loop ends.
Complete ==
    /\ pc = "complete" /\ exit = "none"
    /\ exit' = IF ~ S.labelled \/ Edited("return", "main") \/ Edited("rebind", "check_complete")
                  \/ check_complete(IF Edited("narrow", "sources") THEN accepted ELSE Sources)
               THEN "passed" ELSE "failed"
    /\ pc' = "done"
    /\ UNCHANGED <<script, edits, gate, k, accepted, rejected, noted, RUNS, evidence, surprise>>

Init ==
    /\ script \in Chosen /\ edits = {} /\ gate = "none" /\ pc = "edit" /\ k = 1
    /\ accepted = <<>> /\ rejected = {} /\ noted = {} /\ RUNS = [accepting |-> 0, refusing |-> 0]
    /\ exit = "none" /\ evidence = {} /\ surprise = FALSE

Next == Edit \/ Gate \/ StartUp \/ NoVerdict \/ Baseline \/ Control \/ Probe \/ Complete
Spec == Init /\ [][Next]_vars

----------------------------------------------------------------------------

\* A script that passes its gate and its run is evidence for everything the
\* repository records of it: Lean accepted each unmodified copy, refused each
\* control where the table says, and each labelled control's emptied copy was
\* judged by Lean too, whatever the author left out, invented or rebound
\* (check-negatives-control-counts.py, check_complete).
PassIsEvidence ==
    exit = "passed" /\ gate # "refused" =>
        /\ \A c \in ToSet(S.sources) : <<"accepted", c>> \in evidence
        /\ \A i \in Ids : /\ <<"refused", i>> \in evidence
                          /\ C(i).label \in {"inside", "statement_shape"} => <<"probed", i>> \in evidence

\* The script as it is in the repository passes the gate, and its run fails
\* only when Lean did something it should not: its tables satisfy their own
\* start-up checks, the record and check_complete.
NoFalseAlarm == edits = {} => gate # "refused" /\ (exit = "failed" => surprise)

\* A script means what its pass says, and fails for cause.
ControlsHold == PassIsEvidence /\ NoFalseAlarm
=============================================================================
