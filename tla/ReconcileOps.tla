------------------------------ MODULE ReconcileOps ------------------------------
(***************************************************************************)
(* The three-way merge of internal/reconcile: what a file or an order      *)
(* becomes when two writers changed the same base.  "ours" has priority    *)
(* over "theirs" where both changed the same thing; which of the incoming  *)
(* and the current side is which depends on the preference of the caller.  *)
(***************************************************************************)
EXTENDS SequencesExt

Position(s, k) == CHOOSE i \in DOMAIN s : s[i] = k

\* The elements of s that are in S, in the order s has them.
Only(s, S) == FoldLeft(LAMBDA kept, k : IF k \in S THEN Append(kept, k) ELSE kept, <<>>, s)

\* Mutant of StableKeys: every key is kept that extends the run kept so far.
MutantStableKeys(base, ours) ==
  LET Keep(run, k) ==
        IF k \in ToSet(base) /\ (run = <<>> \/ Position(base, Last(run)) < Position(base, k))
          THEN Append(run, k) ELSE run
  IN  ToSet(FoldLeft(Keep, <<>>, ours))

(***************************************************************************)
(* mergeOrder's first loop: patience sorting over "ours" finds a longest   *)
(* run of keys still in the order of "base"; the other keys of "ours" were *)
(* moved or inserted.  tails[j] is the index in "ours" where the best run  *)
(* of length j ends, prev[i] the index before i in its run (0: none).      *)
(***************************************************************************)
StableKeys(base, ours) ==
  LET pos(i) == Position(base, ours[i])
      Place(acc, i) ==
        IF ours[i] \notin ToSet(base) THEN acc
        ELSE LET shorter == {j \in DOMAIN acc.tails : pos(acc.tails[j]) < pos(i)}
                 at == Cardinality(shorter)
             IN  [tails |-> SubSeq(acc.tails, 1, at) \o <<i>>
                              \o SubSeq(acc.tails, at + 2, Len(acc.tails)),
                  prev  |-> [acc.prev EXCEPT ![i] = IF at > 0 THEN acc.tails[at] ELSE 0]]
      runs == FoldLeftDomain(Place, [tails |-> <<>>, prev |-> [i \in DOMAIN ours |-> 0]], ours)
      Chain[i \in 0..Len(ours)] == IF i = 0 THEN {} ELSE {ours[i]} \cup Chain[runs.prev[i]]
  IN  IF runs.tails = <<>> THEN {} ELSE Chain[Last(runs.tails)]

\* Mutant of Kept: what ours deleted is not dropped.
MutantKept(base, ours, theirs) == theirs

\* "theirs" without what ours deleted.
Kept(base, ours, theirs) ==
  Only(theirs, {k \in ToSet(theirs) : k \in ToSet(base) => k \in ToSet(ours)})

\* Mutant of InsertionPoint: an off-by-one, in front of the predecessor.
MutantInsertionPoint(list, previous) ==
  IF previous = <<>> THEN 1 ELSE Position(list, previous[1])

\* The place of k in the list, 0 if it has none: one more than the code's index.
Index(list, k) == IF k \in ToSet(list) THEN Position(list, k) ELSE 0

\* Right behind the predecessor, if there is one.
InsertionPoint(list, previous) ==
  IF previous = <<>> THEN 1 ELSE Index(list, previous[1]) + 1

\* Mutant of MoveTo: the key also stays where it was.
MutantMoveTo(list, previous, k) == InsertAt(list, InsertionPoint(list, previous), k)

MoveTo(list, previous, k) ==
  LET rest == Only(list, ToSet(list) \ {k}) IN InsertAt(rest, InsertionPoint(rest, previous), k)

(***************************************************************************)
(* mergeOrder: "theirs" without what ours deleted, and every key ours      *)
(* moved or inserted put right after the key it follows in "ours" (after   *)
(* the nearest one still present; in front when there is none).            *)
(***************************************************************************)
MergeOrder(base, ours, theirs) ==
  LET stable == StableKeys(base, ours)
      Reapply(acc, k) ==
        LET list == IF k \in stable THEN acc.list ELSE MoveTo(acc.list, acc.previous, k)
        IN  [list |-> list,
             previous |-> IF k \in ToSet(list) THEN <<k>> ELSE acc.previous]
  IN  FoldLeft(Reapply, [list |-> Kept(base, ours, theirs), previous |-> <<>>], ours).list

(***************************************************************************)
(* mergeValue on the entries of a map, where all are scalars: "theirs" for *)
(* those ours did not change, "ours" (which may be without it) for others. *)
(***************************************************************************)
MergeFields(base, ours, theirs) ==
  [f \in DOMAIN base |-> IF ours[f] = base[f] THEN theirs[f] ELSE ours[f]]

\* Mutant of MergeList: an order both sides changed is ours, not merged.
MutantMergeList(base, ours, theirs) == IF ours = base THEN theirs ELSE ours

\* mergeValue on lists of distinct strings.
MergeList(base, ours, theirs) ==
  IF ours = base THEN theirs
  ELSE IF theirs = base \/ ours = theirs THEN ours
  ELSE MergeOrder(base, ours, theirs)

(***************************************************************************)
(* The split of mergeSections: a companion is a sequence of lines, a line  *)
(* that is a heading opens the section it names, and lines before the      *)
(* first heading belong to "preface".  A section of a document that does   *)
(* not have it is empty.                                                   *)
(***************************************************************************)
Section(doc, heading, key, preface) ==
  LET Read(acc, line) ==
        LET now == IF line \in heading THEN line ELSE acc.now
        IN  [now |-> now, text |-> IF now = key THEN Append(acc.text, line) ELSE acc.text]
  IN  FoldLeft(Read, [now |-> preface, text |-> <<>>], doc).text

SectionOrder(doc, heading, preface) ==
  LET Open(acc, line) ==
        IF line \in heading /\ line \notin ToSet(acc) THEN Append(acc, line) ELSE acc
  IN  FoldLeft(Open, <<preface>>, doc)

\* Mutant of MergeSection: appends are a conflict like any other.
MutantMergeSection(b, o, t) == IF o = b THEN t ELSE o

(***************************************************************************)
(* mergeSections on the text of one section: when both appended, theirs    *)
(* and then what ours appended; otherwise the side that changed it.  The   *)
(* code's last case (deleted by ours, new in theirs) cannot arise: a       *)
(* section missing from both ours and base is unchanged by ours.           *)
(***************************************************************************)
MergeSection(b, o, t) ==
  IF o # b /\ t # b /\ o # t /\ IsPrefix(b, o) /\ IsPrefix(b, t)
    THEN t \o SubSeq(o, Len(b) + 1, Len(o))
  ELSE IF o = b THEN t
  ELSE o

\* Mutant of AddedSections: only the sections ours knows are written.
MutantAddedSections(base, ours, theirs, heading, preface) == <<>>

\* The sections of theirs that neither ours nor the base has.
AddedSections(base, ours, theirs, heading, preface) ==
  Only(SectionOrder(theirs, heading, preface),
       {k \in {preface} \cup ToSet(theirs) : /\ Section(ours, heading, k, preface) = <<>>
                                           /\ Section(base, heading, k, preface) = <<>>})

(***************************************************************************)
(* mergeSections: the sections of ours in its order, then those theirs     *)
(* added.  Both orders start with the preface, whether there is one or not.*)
(***************************************************************************)
MergeSections(base, ours, theirs, heading, preface) ==
  LET Lines(doc, k) == Section(doc, heading, k, preface)
      order == SectionOrder(ours, heading, preface)
                 \o AddedSections(base, ours, theirs, heading, preface)
  IN  FlattenSeq([i \in DOMAIN order |->
        MergeSection(Lines(base, order[i]), Lines(ours, order[i]), Lines(theirs, order[i]))])

\* Mutant of Sides: the preference of the caller is not looked at.
MutantSides(incoming, current, preferCurrent) == [ours |-> incoming, theirs |-> current]

\* Incoming has priority; choosing current reverses it, not the ancestor.
Sides(incoming, current, preferCurrent) ==
  IF preferCurrent THEN [ours |-> current, theirs |-> incoming]
                   ELSE [ours |-> incoming, theirs |-> current]

(***************************************************************************)
(* MergeFile: an untouched side yields to the other; what both touched is  *)
(* merged by its structure, "merged" being the outcome of that.            *)
(***************************************************************************)
MergeFile(base, incoming, current, merged) ==
  IF incoming = base THEN current
  ELSE IF current = base \/ incoming = current THEN incoming
  ELSE merged
================================================================================
