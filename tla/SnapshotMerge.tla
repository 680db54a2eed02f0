------------------------------ MODULE SnapshotMerge ------------------------------
(***************************************************************************)
(* Merge of internal/reconcile/merge.go on whole snapshots of one deck:    *)
(* its deck.yaml (slide_order and a title) and the pair of files of each   *)
(* slide.  The contents of slide files are opaque here, a conflict between *)
(* them goes to the preferred side; how they merge inside is the subject   *)
(* of ElementMerge and SectionMerge.                                       *)
(***************************************************************************)
EXTENDS ReconcileOps

CONSTANTS Slide,          \* slide identifiers: positive, in the order of their names
          NoFile,         \* no file at this path
          Snapshots,      \* the snapshots a writer may submit
          BaseSnapshots   \* those considered as the common base

Deck == <<0, "yaml">>

Pair(s) == {<<s, "html">>, <<s, "md">>}

Path == {Deck} \cup UNION {Pair(s) : s \in Slide}

Slides(snap) == {s \in Slide : snap[<<s, "html">>] # NoFile}

\* ValidateCloudContent, on these paths: paired slides, in a complete deck.
Complete(snap) ==
  /\ \A s \in Slide : snap[<<s, "html">>] = NoFile <=> snap[<<s, "md">>] = NoFile
  /\ Slides(snap) # {} => snap[Deck] # NoFile

ASSUME SlideAssumption == Slide \subseteq Nat \ {0}
ASSUME SnapshotAssumption ==
  \A snap \in Snapshots \cup BaseSnapshots : DOMAIN snap = Path /\ Complete(snap)

(***************************************************************************)
(* normalizeSlideOrder: slide_order names the slides there are, the listed *)
(* ones first and the others after them in the order of their names.       *)
(***************************************************************************)
NormalizeSlideOrder(snap) ==
  IF snap[Deck] = NoFile THEN snap
  ELSE LET listed == SelectSeq(snap[Deck].order, LAMBDA s : s \in Slides(snap))
           others == SetToSortSeq(Slides(snap) \ ToSet(listed), <)
       IN  [snap EXCEPT ![Deck].order = listed \o others]

\* deck.yaml as a YAML map; with no common base the preferred side is kept.
MergeDeck(b, o, t) ==
  IF b = NoFile THEN o
  ELSE [order |-> MergeList(b.order, o.order, t.order),
        title |-> IF o.title = b.title THEN t.title ELSE o.title]

MergePath(p, b, o, t, prefer) ==
  LET side == Sides(o, t, prefer)
  IN  MergeFile(b, o, t, IF p = Deck THEN MergeDeck(b, side.ours, side.theirs) ELSE side.ours)

\* Mutant of Contested: a deletion and an edit are decided file by file.
MutantContested(b, o, t, s) == FALSE

(***************************************************************************)
(* pairChoice: a slide one side deleted (a file of it) and the other       *)
(* changed is decided for both its files at once.                          *)
(***************************************************************************)
Contested(b, o, t, s) ==
  LET Deleted(side) == \E p \in Pair(s) : b[p] # NoFile /\ side[p] = NoFile
      Changed(side) == \E p \in Pair(s) : side[p] # b[p]
  IN  (Deleted(o) /\ Changed(t)) \/ (Deleted(t) /\ Changed(o))

ChosenPaths(b, o, t) == UNION {Pair(s) : s \in {s \in Slide : Contested(b, o, t, s)}}

Chosen(o, t, prefer) == IF prefer THEN t ELSE o

\* Mutant of Conflicts: files both sides created go unnoticed.
MutantConflicts(b, o, t) ==
  {p \in Path : b[p] # NoFile /\ o[p] # b[p] /\ t[p] # b[p] /\ o[p] # t[p]}

\* The paths both sides changed, differently or to nothing.
Conflicts(b, o, t) ==
  {p \in Path : o[p] # b[p] /\ t[p] # b[p] /\ (o[p] # t[p] \/ o[p] = NoFile)}

MergeSnapshots(b, o, t, prefer) ==
  [p \in Path |->
     IF \/ p \in ChosenPaths(b, o, t)
        \/ p \in Conflicts(b, o, t) /\ NoFile \in {o[p], t[p]}
     THEN Chosen(o, t, prefer)[p]
     ELSE MergePath(p, b[p], o[p], t[p], prefer)]

MergeOfSnapshots(base, incoming, current, prefer) ==
  MergeSnapshots(NormalizeSlideOrder(base), NormalizeSlideOrder(incoming),
                 NormalizeSlideOrder(current), prefer)

\* Result.Alternatives: the paths whose other version is to be retained.
Alternatives(base, incoming, current) ==
  LET b == NormalizeSlideOrder(base)
      o == NormalizeSlideOrder(incoming)
      t == NormalizeSlideOrder(current)
  IN  ChosenPaths(b, o, t) \cup Conflicts(b, o, t)

--------------------------------------------------------------------------------
(***************************************************************************)
(* "Never retain an edited fragment while dropping its companion"          *)
(* (merge.go:84): the files of a slide stay paired, and a slide one side   *)
(* deleted while the other changed it is wholly the preferred side's.      *)
(***************************************************************************)
PairsStayWhole(base, incoming, current, prefer, result) ==
  \A s \in Slide :
    /\ result[<<s, "html">>] = NoFile <=> result[<<s, "md">>] = NoFile
    /\ Contested(NormalizeSlideOrder(base), NormalizeSlideOrder(incoming),
                 NormalizeSlideOrder(current), s)
         => \A p \in Pair(s) : result[p] = Chosen(incoming, current, prefer)[p]

(***************************************************************************)
(* No change disappears without a trace: a path where a writer's change is *)
(* not what the merge made visible, and that was not combined with the     *)
(* other's, is listed in "alternatives" (whose snapshots callers retain).  *)
(***************************************************************************)
ChangesReported(base, incoming, current, result, alternatives) ==
  LET b == NormalizeSlideOrder(base)
      o == NormalizeSlideOrder(incoming)
      t == NormalizeSlideOrder(current)
  IN  \A p \in Path \ alternatives :
        /\ o[p] # b[p] => result[p] = o[p]
        /\ t[p] # b[p] => result[p] = t[p]

(***************************************************************************)
(* "Choosing current reverses the priority, without changing the common    *)
(* ancestor" (merge.go:216): exchanging the sides and the preference gives *)
(* the same snapshot, on every path and in the order of the slides.        *)
(***************************************************************************)
SidesExchange(base, incoming, current, prefer, result) ==
  result = MergeOfSnapshots(base, current, incoming, ~prefer)
================================================================================
