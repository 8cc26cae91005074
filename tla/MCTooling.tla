----------------------------- MODULE MCTooling ------------------------------
(***************************************************************************)
(* The scripts around the proofs, for TLC: the negative controls, the      *)
(* merge of insertions, the wiring of a new module and the divided run.    *)
(* They share no state.  A behaviour is about one of them; the variables   *)
(* of the others are Nil throughout.                                       *)
(***************************************************************************)
EXTENDS NegativeControls, TLC

CONSTANTS
  Nil,
  SharedFiles, Names, Branches, MaxCommits,   \* the merge
  t1, t2,                               \* the theorems a module pins
  p1, p2, p3                            \* the parts of a divided run

VARIABLES
  trunk, head, base, commits, author, last,
  disk, run, section, wired, pinned,
  tip, dirs, cache, faults, verdict

-----------------------------------------------------------------------------
(* The negative controls: every script as it is, and three small ones edited once *)

MCMaxEdits ==
  [s \in DOMAIN Scripts |->
     IF s \in {"SparseSkipKind", "KdfRealisation", "InitiatorSecondMessage"} THEN 1 ELSE 0]

MCHeldToPlace == LabelledScripts \cup {"DischargeNativeDecide"}

MCAllScripts == DOMAIN Scripts

NoNegatives ==
  /\ script = Nil /\ edits = Nil /\ gate = Nil /\ pc = Nil /\ k = Nil /\ accepted = Nil /\ rejected = Nil
  /\ noted = Nil /\ RUNS = Nil /\ exit = Nil /\ evidence = Nil /\ surprise = Nil

-----------------------------------------------------------------------------
(* The merge of insertions *)

Merge == INSTANCE InsertionMerge WITH FILES <- SharedFiles, None <- Nil

mergeVars == <<trunk, head, base, commits, author, last>>
NoMerge == trunk = Nil /\ head = Nil /\ base = Nil /\ commits = Nil /\ author = Nil /\ last = Nil

-----------------------------------------------------------------------------
(* A new module: two of them scaffolded, with runs interrupted, and one pinned.  The *)
(* lists have two entries, not in their sort order.                                  *)

Two == {1, 5}
One == {3}

Wiring ==
  INSTANCE NewLifecycleModule WITH
    Modules <- Two, Existing <- <<4, 2>>, Parts <- {"decrypt", "encrypt"}, PinNames <- {}, None <- Nil,
    CrashIn <- {"scaffold"}

Pinning ==
  INSTANCE NewLifecycleModule WITH
    Modules <- One, Existing <- <<4, 2>>, Parts <- {"decrypt"}, PinNames <- {t1, t2}, None <- Nil, CrashIn <- {}

moduleVars == <<disk, run, section, wired, pinned>>
NoModule == disk = Nil /\ run = Nil /\ section = Nil /\ wired = Nil /\ pinned = Nil

-----------------------------------------------------------------------------
(* The divided run: every parts file of three parts with up to two entries each, five *)
(* in all, and runs under files that cover one version of the script or both         *)

WholePhase(id) == [phase |-> id, slice |-> Nil, of |-> Nil]
SlicedPhase(id, n, count) == [phase |-> id, slice |-> n, of |-> count]

\* What a line of a parts file can say of the phases in play, well formed or not.
Entries ==
  {WholePhase("audit"), WholePhase("reach"), WholePhase("negatives"), WholePhase("build")}
    \union {SlicedPhase("negatives", n, 2) : n \in 0..2} \union {SlicedPhase("negatives", n, 3) : n \in 0..2}

ThreeParts == {p1, p2, p3}
TwoParts == {p1, p2}

MCFiles ==
  {f \in [ThreeParts -> {e \in SUBSET Entries : Cardinality(e) <= 2}] : \E p \in ThreeParts : Cardinality(f[p]) < 2}

MCCovering ==
  {(p1 :> {WholePhase("audit"), WholePhase("reach")} @@ p2 :> {WholePhase("negatives")}),
   (p1 :> {WholePhase("audit"), SlicedPhase("negatives", 0, 2)} @@ p2 :> {SlicedPhase("negatives", 1, 2)}),
   (p1 :> {WholePhase("audit"), SlicedPhase("negatives", 0, 2)}
      @@ p2 :> {SlicedPhase("negatives", 1, 2), WholePhase("reach")})}

Division ==
  INSTANCE NoSorryParts WITH
    head <- tip, Parts <- ThreeParts, Files <- MCFiles, MaxPushes <- 0, MaxSaves <- 0, MaxFaults <- 0, None <- Nil

Divided ==
  INSTANCE NoSorryParts WITH
    head <- tip, Parts <- TwoParts, Files <- MCCovering, MaxPushes <- 1, MaxSaves <- 1, MaxFaults <- 1, None <- Nil

partVars == <<tip, dirs, cache, faults, verdict>>
NoParts == tip = Nil /\ dirs = Nil /\ cache = Nil /\ faults = Nil /\ verdict = Nil

-----------------------------------------------------------------------------
MCInit ==
  \/ Init /\ NoMerge /\ NoModule /\ NoParts
  \/ Merge!Init /\ NoNegatives /\ NoModule /\ NoParts
  \/ (Wiring!Init \/ Pinning!Init) /\ NoNegatives /\ NoMerge /\ NoParts
  \/ (Division!Init \/ Divided!Init) /\ NoNegatives /\ NoMerge /\ NoModule

MCNext ==
  \/ script # Nil /\ Next /\ UNCHANGED <<mergeVars, moduleVars, partVars>>
  \/ trunk # Nil /\ Merge!Next /\ UNCHANGED <<vars, moduleVars, partVars>>
  \/ /\ disk # Nil
     /\ \/ DOMAIN section = Two /\ Wiring!ScaffoldNext
        \/ DOMAIN section = One /\ Pinning!Next
     /\ UNCHANGED <<vars, mergeVars, partVars>>
  \/ /\ tip # Nil
     /\ \/ DOMAIN dirs = ThreeParts /\ Division!Next
        \/ DOMAIN dirs = TwoParts /\ Divided!Next
     /\ UNCHANGED <<vars, mergeVars, moduleVars>>

MCSpec == MCInit /\ [][MCNext]_<<vars, mergeVars, moduleVars, partVars>>

\* A negatives script that passes its gate and its run saw Lean refuse every control, and
\* fails only when Lean did not (check-*-negatives.py, check-negatives-control-counts.py).
NegativesHold == script # Nil => ControlsHold

\* A merge that is written has what both sides added, each once and wired in every file,
\* and two sides that only insert are merged (resolve-insertion-conflicts.py).
MergesHold == trunk # Nil => Merge!MergesHold


\* An accepted parts file divides the script exactly, and a verdict of pass says every
\* phase came out right, on one commit and one cache (no-sorry-parts.py).
DivisionHolds ==
  tip # Nil => IF DOMAIN dirs = ThreeParts THEN Division!DivisionHolds ELSE Divided!DivisionHolds
=============================================================================
