--------------------------- MODULE InsertionMerge ---------------------------
(***************************************************************************)
(* The wiring files that every new proof module adds lines to, on branches *)
(* that land one after another, and the resolver of their merge conflicts  *)
(* (tooling/resolve-insertion-conflicts.py).                               *)
(*                                                                         *)
(* A file is a sequence of lines.  A line is an entry (with the name it is *)
(* keyed by), prose, or punctuation that closes an entry's block.  What    *)
(* git does is external: a branch is aligned with its base by a longest    *)
(* common subsequence, with insertions as far down as they go, and regions *)
(* that both sides changed are conflicts.                                  *)
(***************************************************************************)
EXTENDS Naturals, Sequences, SequencesExt, FiniteSets

CONSTANTS
  FILES,     \* the kinds of the shared files: "md", "sh", "json"
  Names,     \* the names of new modules, in their sort order
  Branches,
  None,      \* nobody
  MaxCommits \* bound: commits of a branch

VARIABLES
  trunk,   \* file -> lines
  head,    \* branch -> file -> lines
  base,    \* branch -> file -> lines, the trunk it was last merged with
  commits, \* branch -> commits so far
  author,  \* name -> the branch that adds the module
  last     \* the last merge: the branch's lines, the trunk's, the base's and the result

vars == <<trunk, head, base, commits, author, last>>

Entry(name, text) == [kind |-> "entry", key |-> name, text |-> text]
Prose(text) == [kind |-> "prose", key |-> 0, text |-> text]
Mark == [kind |-> "mark", key |-> 0, text |-> "fi"]

PROSE_FILES == {"md"}

-----------------------------------------------------------------------------
(* The resolver *)

TRIVIAL(line) == line.kind = "mark"

key_of(line) == IF line.kind = "entry" THEN line.key ELSE None

is_entry(rel, line) ==
  /\ ~TRIVIAL(line)
  /\ CASE rel \in PROSE_FILES -> key_of(line) # None
       [] rel = "sh" -> line.kind # "prose"
       [] OTHER -> TRUE

is_prose(rel, line) == rel \in PROSE_FILES /\ ~TRIVIAL(line) /\ ~is_entry(rel, line)

Entries(rel, lines) == {l \in ToSet(lines) : is_entry(rel, l)}
Keys(rel, lines) == {key_of(l) : l \in Entries(rel, lines)} \ {None}

\* Variant: the longer side is kept whatever the shorter holds.
ContainedByLength(rel, ours, theirs) == IF Len(ours) >= Len(theirs) THEN {ours} ELSE {theirs}

\* The longer insertion when the other is its start or its end, else nothing.
contained(rel, ours, theirs) ==
  LET longer  == IF Len(ours) >= Len(theirs) THEN ours ELSE theirs
      shorter == IF Len(ours) >= Len(theirs) THEN theirs ELSE ours
  IN  IF \/ shorter = <<>>
         \/ Entries(rel, shorter) # {} /\ (IsPrefix(shorter, longer) \/ IsSuffix(shorter, longer))
        THEN {longer} ELSE {}

\* Two insertions that may both stand.
Independent(rel, ours, theirs) ==
  LET prose(lines) == \E l \in ToSet(lines) : is_prose(rel, l) IN
    /\ ~(prose(ours) /\ prose(theirs))
    /\ Entries(rel, ours \o theirs) # {}
    /\ Entries(rel, ours) \intersect Entries(rel, theirs) = {}
    /\ rel \in PROSE_FILES => Keys(rel, ours) \intersect Keys(rel, theirs) = {}

\* What a region becomes, or nothing when it is refused.
Region(rel, c) ==
  LET held == contained(rel, c.ours, c.theirs) IN
    IF ~c.conflict THEN {c.ours}
    ELSE IF c.base # <<>> THEN {}
    ELSE IF held # {} THEN held
    ELSE IF Independent(rel, c.ours, c.theirs) THEN {c.ours \o c.theirs} ELSE {}

Count(lines, line) == Cardinality({i \in DOMAIN lines : lines[i] = line})

\* Variant: closing lines count as repeats.
RepeatsAnyLine(rel, out, line) == Count(out, line) > 1

\* An added line that the file holds already, as it is or under its key.
Repeats(rel, out, line) ==
  /\ is_entry(rel, line)
  /\ \/ Count(out, line) > 1
     \/ rel \in PROSE_FILES /\ \E l \in Entries(rel, out) : l # line /\ key_of(l) = key_of(line)

\* The merged lines, or nothing when the file is refused.
resolve(rel, chunks) ==
  LET parts   == [i \in DOMAIN chunks |-> Region(rel, chunks[i])]
      The(i)  == CHOOSE lines \in parts[i] : TRUE
      out     == FlattenSeq([i \in DOMAIN chunks |-> The(i)])
      added   == UNION {ToSet(The(i)) : i \in {j \in DOMAIN chunks : chunks[j].conflict}}
  IN  IF {} \in Range(parts) THEN {}
      ELSE IF \E line \in added : Repeats(rel, out, line) THEN {}
      ELSE {out}

\* Variant: the files that could be resolved are written.
MainFileByFile(b, results) ==
  [f \in FILES |-> IF results[f] = {} THEN head[b][f] ELSE CHOOSE lines \in results[f] : TRUE]

\* The verdict is for the whole run: one refused file and nothing is written.
main(b, results) ==
  IF \E f \in FILES : results[f] = {} THEN head[b]
  ELSE [f \in FILES |-> CHOOSE lines \in results[f] : TRUE]

\* Variant: only neighbours are compared.
RepeatedNext(values) == {values[i] : i \in {j \in 2..Len(values) : values[j] = values[j - 1]}}

repeated(values) == {values[i] : i \in {j \in DOMAIN values : \E k \in 1..(j - 1) : values[k] = values[j]}}

\* --verify: the entries that a list of the tree holds twice.
verify(tree) ==
  UNION {repeated(LET entries == SelectSeq(tree[f], LAMBDA l : is_entry(f, l))
                  IN  [i \in DOMAIN entries |-> key_of(entries[i])]) : f \in FILES}

-----------------------------------------------------------------------------
(* git *)

Longest(matches) == {s \in matches : \A t \in matches : Cardinality(t) <= Cardinality(s)}

\* The matches of a from line i on with b from each of its lines on, given those
\* from line i + 1 on.
MatchesFrom(a, b, i, below) ==
  FoldRight(LAMBDA j, row :
              <<Longest((IF a[i] = b[j] THEN {{<<i, j>>} \union s : s \in below[j + 1]} ELSE {})
                          \union below[j] \union row[1])>> \o row,
            [j \in DOMAIN b |-> j], <<{{}}>>)

\* The longest common subsequence of two versions whose lines stand earliest in the
\* second, as pairs of places.
Align(a, b) ==
  LET all == FoldRight(LAMBDA i, below : MatchesFrom(a, b, i, below),
                       [i \in DOMAIN a |-> i], [j \in 1..(Len(b) + 1) |-> {{}}])[1]
      Depth(s) == MapThenSumSet(LAMBDA p : p[2], s)
  IN  CHOOSE s \in all : \A t \in all : Depth(s) <= Depth(t)

\* Variant: as --zdiff3, a common last line is taken out of a conflict.
Zealous(o, a, b) ==
  IF o # a /\ b # a /\ o # b /\ o # <<>> /\ b # <<>> /\ Last(o) = Last(b)
    THEN <<[ours |-> Front(o), base |-> a, theirs |-> Front(b), conflict |-> TRUE],
           [ours |-> <<Last(o)>>, base |-> <<>>, theirs |-> <<>>, conflict |-> FALSE]>>
    ELSE <<[ours |-> IF o = a THEN b ELSE o, base |-> a, theirs |-> b, conflict |-> o # a /\ b # a /\ o # b]>>

\* merge-file --diff3: the regions between the lines of the base both sides kept.
Chunk(o, a, b) ==
  <<[ours |-> IF o = a THEN b ELSE o, base |-> a, theirs |-> b, conflict |-> o # a /\ b # a /\ o # b]>>

remerge(ours, was, theirs) ==
  LET mine  == Align(was, ours)
      yours == Align(was, theirs)
      both  == {p[1] : p \in mine} \intersect {p[1] : p \in yours}
      kept  == SelectSeq([i \in DOMAIN was |-> i], LAMBDA i : i \in both)
      In(side, i) == (CHOOSE p \in side : p[1] = kept[i])[2]
      Between(lines, At(_), i) ==
        SubSeq(lines, IF i = 0 THEN 1 ELSE At(i) + 1, IF i = Len(kept) THEN Len(lines) ELSE At(i + 1) - 1)
      gap(i) == Chunk(Between(ours, LAMBDA j : In(mine, j), i), Between(was, LAMBDA j : kept[j], i),
                      Between(theirs, LAMBDA j : In(yours, j), i))
      line(i) == <<[ours |-> <<was[kept[i]]>>, base |-> <<>>, theirs |-> <<>>, conflict |-> FALSE]>>
  IN  FlattenSeq([k \in 1..(2 * Len(kept) + 1) |-> IF k % 2 = 1 THEN gap(k \div 2) ELSE line(k \div 2)])

-----------------------------------------------------------------------------
(* Branches *)

First == [f \in FILES |-> IF f \in PROSE_FILES THEN <<Entry(0, "v1")>> ELSE <<Entry(0, "v1"), Mark>>]

NoMerge == [by |-> None, ours |-> First, theirs |-> First, was |-> First, result |-> First]

Init ==
  /\ trunk = First
  /\ head = [b \in Branches |-> First]
  /\ base = [b \in Branches |-> First]
  /\ commits = [b \in Branches |-> 0]
  /\ author = [n \in Names |-> None]
  /\ last = NoMerge

\* A new module's lines go after the block of the entry its name sorts after.
Place(lines, name) ==
  LET before == {i \in DOMAIN lines : lines[i].kind = "entry" /\ lines[i].key < name}
      i == CHOOSE j \in before : \A k \in before : lines[k].key <= lines[j].key
  IN  IF i < Len(lines) /\ lines[i + 1] = Mark THEN i + 1 ELSE i

Added(f, lines, name) ==
  LET at == Place(lines, name) IN
    SubSeq(lines, 1, at) \o (IF f \in PROSE_FILES THEN <<Entry(name, "v1")>> ELSE <<Entry(name, "v1"), Mark>>)
      \o SubSeq(lines, at + 1, Len(lines))

Commit(b, files) ==
  /\ commits[b] < MaxCommits
  /\ commits' = [commits EXCEPT ![b] = @ + 1]
  /\ head' = [head EXCEPT ![b] = files]
  /\ UNCHANGED <<trunk, base>>
  /\ last' = NoMerge

AddModule(b, name) ==
  /\ author[name] = None
  /\ author' = [author EXCEPT ![name] = b]
  /\ Commit(b, [f \in FILES |-> Added(f, head[b][f], name)])

\* One file's text about a module is changed.
EditEntry(b, f, name) ==
  /\ Entry(name, "v1") \in ToSet(head[b][f])
  /\ Commit(b, [head[b] EXCEPT ![f] = [i \in DOMAIN @ |-> IF @[i] = Entry(name, "v1") THEN Entry(name, "v2") ELSE @[i]]])
  /\ UNCHANGED author

WriteProse(b, f) ==
  /\ Prose(b) \notin ToSet(head[b][f])
  /\ Commit(b, [head[b] EXCEPT ![f] = Append(@, Prose(b))])
  /\ UNCHANGED author

\* A branch built on another.
StartOn(b, other) ==
  /\ commits[b] = 0 /\ head[b] = base[b] /\ base[b] = base[other] /\ head[other] # head[b]
  /\ head' = [head EXCEPT ![b] = head[other]]
  /\ last' = NoMerge
  /\ UNCHANGED <<trunk, base, commits, author>>

\* The trunk is merged into a branch; a refusal leaves the branch as it was.
Update(b) ==
  /\ base[b] # trunk
  /\ LET results == [f \in FILES |-> resolve(f, remerge(head[b][f], base[b][f], trunk[f]))]
         new     == main(b, results)
         whole   == \A f \in FILES : results[f] # {}
     IN  /\ head' = [head EXCEPT ![b] = new]
         /\ base' = IF whole THEN [base EXCEPT ![b] = trunk] ELSE base
         /\ last' = [by |-> IF whole THEN b ELSE None, ours |-> head[b], theirs |-> trunk, was |-> base[b],
                     result |-> new]
  /\ UNCHANGED <<trunk, commits, author>>

\* A branch that is up to date, and whose tree has no structural problem, lands.
Land(b) ==
  /\ base[b] = trunk /\ head[b] # trunk /\ verify(head[b]) = {}
  /\ trunk' = head[b]
  /\ base' = [base EXCEPT ![b] = head[b]]
  /\ last' = NoMerge
  /\ UNCHANGED <<head, commits, author>>

Next ==
  \E b \in Branches :
    \/ \E n \in Names : AddModule(b, n)
    \/ \E n \in Names, f \in FILES : EditEntry(b, f, n)
    \/ \E f \in FILES : WriteProse(b, f)
    \/ \E other \in Branches \ {b} : StartOn(b, other)
    \/ Update(b)
    \/ Land(b)

Spec == Init /\ [][Next]_vars

-----------------------------------------------------------------------------
Keyed(tree, f) == {l.key : l \in {k \in ToSet(tree[f]) : k.kind = "entry"}}

\* Whatever git aligned and whoever edited what, no list of the trunk names a module
\* twice (resolve and --verify together).
TrunkNamesOnce ==
  \A f \in FILES : \A i, j \in DOMAIN trunk[f] :
    trunk[f][i].kind = "entry" /\ trunk[f][j].kind = "entry" /\ trunk[f][i].key = trunk[f][j].key => i = j

\* A module is wired in every shared file or in none, on every branch and through
\* every merge that was refused in one file only ("nothing is written").
WiredEverywhere ==
  \A tree \in {trunk} \union Range(head) : \A f, g \in FILES : Keyed(tree, f) = Keyed(tree, g)

\* A merge that is written loses nothing either side added ("keeps both", contained).
NothingLost ==
  last.by # None =>
    \A f \in FILES :
      (ToSet(last.ours[f]) \union ToSet(last.theirs[f])) \ ToSet(last.was[f]) \subseteq
        ToSet(last.result[f]) \union
          {l \in ToSet(last.ours[f]) \union ToSet(last.theirs[f]) : Entry(l.key, "v2") \in ToSet(last.result[f])}

\* Every entry of a written merge keeps a closing line of its own ("leaves one
\* without it", of --zdiff3).
BlocksClose ==
  last.by # None =>
    \A f \in FILES \ PROSE_FILES : Count(last.result[f], Mark) = Cardinality({i \in DOMAIN last.result[f] : last.result[f][i].kind = "entry"})

\* Two sides that only inserted modules, and none in common, are never refused
\* ("it keeps both", Independent and Repeats).
InsertionsResolve ==
  \A b \in Branches :
    LET only(f) == /\ \A side \in {head[b][f], trunk[f]} :
                        /\ ToSet(base[b][f]) \subseteq ToSet(side)
                        /\ \A l \in ToSet(side) \ ToSet(base[b][f]) : l.kind # "prose"
                   /\ Keyed(head[b], f) \intersect Keyed(trunk, f) = Keyed(base[b], f)
    IN  verify(head[b]) = {} /\ (\A f \in FILES : only(f)) =>
          \A f \in FILES : resolve(f, remerge(head[b][f], base[b][f], trunk[f])) # {}

\* What is merged is both sides, whole and once.
MergesHold == TrunkNamesOnce /\ WiredEverywhere /\ NothingLost /\ BlocksClose /\ InsertionsResolve
=============================================================================
