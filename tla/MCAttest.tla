------------------------------ MODULE MCAttest ------------------------------
(***************************************************************************)
(* The gates of attest.py, for TLC: the pins, the translation record and   *)
(* the readings of Lean text.  They share no state.  A behaviour is about  *)
(* one of them; the variables of the others are None throughout.           *)
(***************************************************************************)
EXTENDS AttestPins, TLC

CONSTANTS
  Zones, MaxHandEdits,
  MaxLength, MaxCommentLength

VARIABLES
  working, history, committed, numbered, handEdits, rebases, honest, judged,
  text

\* The gates tell modules apart by the lists that name them, and the one with the claim.
Floors(mod) ==
  <<mod = "UnitLifecycleT1",
    {i \in 1..4 : NamesOf(<<REQUIRED_PINS, REQUIRED_STATEMENT_PINS, REQUIRED_PRINT_FORM, COMPILER_TRUSTED_PINS>>[i], mod) > 0}>>

MCFollowed == {CHOOSE mod \in Modules : Floors(mod) = f : f \in {Floors(mod) : mod \in Modules}}

MCMaxEdits == [mod \in MCFollowed |-> IF mod = "SessionUnitSpqrT1" THEN 2 ELSE 1]

\* A leaf that is translated on its own, one that is translated only inside a unit,
\* and the unit, with the third leaf it needs.
MCZones == {"ratchet", "spqr", "triple", "triple-unit"}

\* All that can open or close something, and comments only.
MCAll == {"-", "/", "NL", "\"", "\\", "'", "open", "close", "r", "a", "!"}
MCComments == {"-", "/", "NL", "a"}

Translation ==
  INSTANCE AttestTranslation WITH
    tree <- working, commits <- numbered, edits <- handEdits, accepted <- judged, MaxEdits <- MaxHandEdits

Texts == INSTANCE LeanText WITH Alphabet <- MCAll
Comments == INSTANCE LeanText WITH Alphabet <- MCComments, MaxLength <- MaxCommentLength

ASSUME Translation!TranslationAssumption
ASSUME Texts!LeanTextAssumption /\ Comments!LeanTextAssumption

translationVars == <<working, history, committed, numbered, handEdits, rebases, honest, judged>>

NoPins ==
  name = None /\ tree = None /\ commits = None /\ accepted = None /\ edits = None /\ disclosed = None

NoTranslation ==
  /\ working = None /\ history = None /\ committed = None /\ numbered = None
  /\ handEdits = None /\ rebases = None /\ honest = None /\ judged = None

MCInit ==
  \/ Init /\ NoTranslation /\ text = None
  \/ Translation!Init /\ NoPins /\ text = None
  \/ Texts!Init /\ NoPins /\ NoTranslation

MCNext ==
  \/ name # None /\ Next /\ UNCHANGED <<translationVars, text>>
  \/ working # None /\ Translation!Next /\ UNCHANGED <<vars, text>>
  \/ text # None /\ Texts!Next /\ UNCHANGED <<vars, translationVars>>
  \/ /\ text # None /\ \A k \in DOMAIN text : text[k] \in MCComments
     /\ Comments!Next /\ UNCHANGED <<vars, translationVars>>

MCSpec == MCInit /\ [][MCNext]_<<vars, translationVars, text>>

\* Whatever is edited, what the floors hold stays in place, the ledger says so, and a
\* tree that was accepted stays accepted (attest.py, main).
FloorsHold == name # None => PinsHold

\* Whatever is edited, an accepted tree is what its sources and its allowlist say it
\* is (attest.py, check_translation and compare_audit).
TranslationHolds == working # None => Translation!TranslationHolds

\* The readings of Lean text agree where their callers rely on it (attest.py,
\* lean_code and comment_spans; check-lean-constructs.sh).
ReadAlike == text # None => Texts!ReadAlike
=============================================================================
