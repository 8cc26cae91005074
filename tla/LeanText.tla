------------------------------ MODULE LeanText ------------------------------
(***************************************************************************)
(* How the scripts read Lean text: attest.py's lean_code, which copies     *)
(* code in slices, the one-character-at-a-time stripper of                 *)
(* check-lean-constructs.sh it must agree with, and comment_spans, which   *)
(* reads the stretch before a pin.  Checked on every text up to a length:  *)
(* a text is typed one character at a time.                                *)
(*                                                                         *)
(* A character is a string of length one, with "open" and "close" for the  *)
(* guillemets and NL for a newline.  Hash marks of a raw string are left   *)
(* out, as are hexadecimal escapes: what they delimit reads the same.      *)
(***************************************************************************)
EXTENDS Naturals, Sequences, FiniteSets

CONSTANTS Alphabet, MaxLength

VARIABLE text

NL == "NL"
Quote == "\""
Backslash == "\\"
Tick == "'"

\* What the constants must be.
LeanTextAssumption ==
  /\ Alphabet \subseteq {"-", "/", NL, Quote, Backslash, Tick, "open", "close", "r", "a", "!", " "}
  /\ MaxLength \in Nat

-----------------------------------------------------------------------------
(* What both readings use *)

\* Does s stand at position i of t?
StartsAt(t, i, s) == i + Len(s) - 1 <= Len(t) /\ SubSeq(t, i, i + Len(s) - 1) = s

\* The first position from i on where P holds, or one past the end.
First(t, i, P(_)) ==
  LET found == {j \in i..Len(t) : P(j)} IN
    IF found = {} THEN Len(t) + 1 ELSE CHOOSE j \in found : \A k \in found : j <= k

\* Variant: every character becomes a space.
BlankAll(segment) == [k \in DOMAIN segment |-> " "]

_blank(segment) == [k \in DOMAIN segment |-> IF segment[k] = NL THEN NL ELSE " "]

Named(segment) == [k \in DOMAIN segment |-> IF segment[k] \in {"open", "close", NL} THEN segment[k] ELSE "_"]

Least(a, b) == IF a < b THEN a ELSE b

\* A character literal at i ends here, or i when there is none: an escape and one
\* character, or one character that is neither a backslash nor a tick.
CharLiteralEnd(t, i) ==
  IF i + 3 <= Len(t) /\ t[i + 1] = Backslash /\ t[i + 2] # NL /\ t[i + 3] = Tick THEN i + 4
  ELSE IF i + 2 <= Len(t) /\ t[i + 1] \notin {Backslash, Tick} /\ t[i + 2] = Tick THEN i + 3
  ELSE i

Ident(c) == c \in {"a", "r", Tick, "!", "open", "close"}

\* Does the character before i continue an identifier?  A "!" does only where it ends one.
in_ident(t, i) ==
  /\ i > 1 /\ Ident(t[i - 1])
  /\ t[i - 1] = "!" => i > 2 /\ Ident(t[i - 2]) /\ t[i - 2] # "!"

-----------------------------------------------------------------------------
(* attest.py *)

\* Where a plain string that opens at i ends: past its closing quote, or past the end.
_STRING_BODY(t, i) ==
  LET odd(j) == \* backslashes right before j, an odd number of them
        LET run == {k \in i + 1..j - 1 : \A l \in k..j - 1 : t[l] = Backslash}
        IN Cardinality(run) % 2 = 1
  IN Least(First(t, i + 1, LAMBDA j : t[j] = Quote /\ ~odd(j)) + 1, Len(t) + 1)

TopStop(t, j) ==
  \/ StartsAt(t, j, <<"-", "-">>) \/ StartsAt(t, j, <<"/", "-">>)
  \/ t[j] \in {Quote, Tick, "open"} \/ StartsAt(t, j, <<"r", Quote>>)

BlockStop(t, j) == StartsAt(t, j, <<"/", "-">>) \/ StartsAt(t, j, <<"-", "/">>)

\* Variant: a nested opener's two characters at the top level too.
OpenerTakesTwo(t, p) == p + 2

\* At the top level the character after an opener is taken unread.
OpenerTakes(t, p) == Least(p + 3, Len(t) + 1)

RECURSIVE ScanFrom(_, _, _)

\* The scan from position i on, inside depth comments.
ScanFrom(t, i, depth) ==
  IF i > Len(t) THEN <<>>
  ELSE IF depth > 0 THEN
    LET p == First(t, i, LAMBDA j : BlockStop(t, j)) IN
      IF p > Len(t) THEN _blank(SubSeq(t, i, Len(t)))
      ELSE _blank(SubSeq(t, i, p - 1)) \o <<" ", " ">>
             \o ScanFrom(t, p + 2, IF t[p] = "/" THEN depth + 1 ELSE depth - 1)
  ELSE
    LET p == First(t, i, LAMBDA j : TopStop(t, j))
        Blanked(j, d) == _blank(SubSeq(t, p, j - 1)) \o ScanFrom(t, j, d)
    IN SubSeq(t, i, p - 1) \o
       (IF p > Len(t) THEN <<>>
        ELSE IF t[p] = "-" THEN Blanked(First(t, p, LAMBDA j : t[j] = NL), 0)
        ELSE IF t[p] = "/" THEN Blanked(OpenerTakes(t, p), 1)
        ELSE IF t[p] = "open" THEN
          LET j == Least(First(t, p, LAMBDA k : t[k] = "close") + 1, Len(t) + 1)
          IN Named(SubSeq(t, p, j - 1)) \o ScanFrom(t, j, 0)
        ELSE IF t[p] = Quote THEN Blanked(_STRING_BODY(t, p), 0)
        ELSE IF t[p] = "r" /\ ~in_ident(t, p) THEN
          Blanked(Least(First(t, p + 2, LAMBDA k : t[k] = Quote) + 1, Len(t) + 1), 0)
        ELSE IF t[p] = Tick /\ ~in_ident(t, p) /\ CharLiteralEnd(t, p) > p THEN
          Blanked(CharLiteralEnd(t, p), 0)
        ELSE <<t[p]>> \o ScanFrom(t, p + 1, 0))

lean_code(t) == ScanFrom(t, 1, 0)

-----------------------------------------------------------------------------
(* check-lean-constructs.sh *)

RECURSIVE StringEnd(_, _)

\* One past the closing quote, an escape stepping over two characters.
StringEnd(t, j) ==
  IF j > Len(t) THEN Len(t) + 1
  ELSE IF t[j] = Quote THEN j + 1
  ELSE StringEnd(t, IF t[j] = Backslash THEN j + 2 ELSE j + 1)

RECURSIVE StripFrom(_, _, _)

StripFrom(t, i, depth) ==
  LET Blanked(j, d) == _blank(SubSeq(t, i, j - 1)) \o StripFrom(t, j, d) IN
    IF i > Len(t) THEN <<>>
    ELSE IF depth = 0 /\ StartsAt(t, i, <<"-", "-">>) THEN Blanked(First(t, i, LAMBDA j : t[j] = NL), 0)
    ELSE IF StartsAt(t, i, <<"/", "-">>) THEN
      Blanked(IF depth = 0 THEN Least(i + 3, Len(t) + 1) ELSE i + 2, depth + 1)
    ELSE IF depth > 0 THEN
      IF StartsAt(t, i, <<"-", "/">>) THEN Blanked(i + 2, depth - 1) ELSE Blanked(i + 1, depth)
    ELSE IF t[i] = "open" THEN
      LET j == Least(First(t, i, LAMBDA k : t[k] = "close") + 1, Len(t) + 1)
      IN Named(SubSeq(t, i, j - 1)) \o StripFrom(t, j, 0)
    ELSE IF t[i] = Quote THEN Blanked(StringEnd(t, i + 1), 0)
    ELSE IF StartsAt(t, i, <<"r", Quote>>) /\ ~in_ident(t, i) THEN
      Blanked(Least(First(t, i + 2, LAMBDA k : t[k] = Quote) + 1, Len(t) + 1), 0)
    ELSE IF t[i] = Tick /\ ~in_ident(t, i) /\ CharLiteralEnd(t, i) > i THEN
      Blanked(CharLiteralEnd(t, i), 0)
    ELSE <<t[i]>> \o StripFrom(t, i + 1, 0)

strip_lean(t) == StripFrom(t, 1, 0)

-----------------------------------------------------------------------------
(* The stretch before a pin *)

Unread == <<[start |-> 0, end |-> 0, doc |-> FALSE]>>

RECURSIVE CommentEnd(_, _, _)

\* Where the comment that is open at depth ends, or 0 when it does not.
CommentEnd(t, j, depth) ==
  IF depth = 0 THEN j
  ELSE IF j > Len(t) THEN 0
  ELSE IF StartsAt(t, j, <<"/", "-">>) THEN CommentEnd(t, j + 2, depth + 1)
  ELSE IF StartsAt(t, j, <<"-", "/">>) THEN CommentEnd(t, j + 2, depth - 1)
  ELSE CommentEnd(t, j + 1, depth)

\* Variant: every opener is two characters.
OpenerLengthTwo(t, i) == 2

\* A docstring's or a module docstring's opener is three characters.
OpenerLength(t, i) ==
  IF StartsAt(t, i, <<"/", "-", "-">>) \/ StartsAt(t, i, <<"/", "-", "!">>) THEN 3 ELSE 2

RECURSIVE SpansFrom(_, _)

SpansFrom(t, i) ==
  LET Then(end, doc) ==
        LET rest == SpansFrom(t, end) IN
          IF rest = Unread THEN Unread ELSE <<[start |-> i, end |-> end, doc |-> doc]>> \o rest
  IN IF i > Len(t) THEN <<>>
     ELSE IF t[i] \in {" ", NL} THEN SpansFrom(t, i + 1)
     ELSE IF StartsAt(t, i, <<"-", "-">>) THEN Then(First(t, i, LAMBDA j : t[j] = NL), FALSE)
     ELSE IF StartsAt(t, i, <<"/", "-">>) THEN
       LET end == CommentEnd(t, i + OpenerLength(t, i), 1)
       IN IF end = 0 THEN Unread
          ELSE Then(end, StartsAt(t, i, <<"/", "-", "-">>) /\ ~StartsAt(t, i, <<"/", "-", "-", "/">>))
     ELSE Unread

comment_spans(t) == SpansFrom(t, 1)

-----------------------------------------------------------------------------
(* Every text up to a length *)

Init == text = <<>>

Type ==
  /\ Len(text) < MaxLength
  /\ \E c \in Alphabet : text' = Append(text, c)

Next == Type

Spec == Init /\ [][Next]_text

-----------------------------------------------------------------------------
(* Properties *)

\* The two strippers read every text alike, character for character, which
\* lean_code's docstring promises and a differential test samples.
StrippersAgree == lean_code(text) = strip_lean(text)

\* An offset in the stripped text is an offset in the text, and so is a line number:
\* nothing is shortened and no newline is lost (_blank).
OffsetsSurvive ==
  LET code == lean_code(text) IN
    /\ Len(code) = Len(text)
    /\ \A k \in DOMAIN text : (code[k] = NL) = (text[k] = NL)

\* After this much text, is Lean reading code?
ReadsCode(t) == LET code == lean_code(Append(t, "a")) IN code[Len(code)] = "a"

\* A stretch without literals that is blank to lean_code, and over before the pin, is read by comment_spans,
\* and where it ends a comment lean_code ends it too.  Not so for a comment that opens
\* with "/-/", which lean_code reads as Lean does and comment_spans does not.
SpansAreLeans ==
  LET spans == comment_spans(text) IN
    /\ \A i \in DOMAIN text : text[i] \notin {Quote, Tick} /\ ~StartsAt(text, i, <<"/", "-", "/">>)
    /\ \A k \in DOMAIN text : lean_code(text)[k] \in {" ", NL}
    /\ ReadsCode(text)
    => /\ spans # Unread
       /\ \A k \in DOMAIN spans : text[spans[k].start] = "/" => ReadsCode(SubSeq(text, 1, spans[k].end - 1))

\* The three readings of Lean text agree where their callers rely on it.
ReadAlike == StrippersAgree /\ OffsetsSurvive /\ SpansAreLeans
=============================================================================
