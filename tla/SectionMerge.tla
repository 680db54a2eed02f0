------------------------------ MODULE SectionMerge ------------------------------
(***************************************************************************)
(* mergeSections (internal/reconcile/merge.go) through MergeFile: two      *)
(* writers change the Markdown companion of a slide.  A document is a      *)
(* sequence of lines; it is not empty and names a heading once.            *)
(***************************************************************************)
EXTENDS ReconcileOps

CONSTANTS Heading,   \* lines that start with "#"
          Text,      \* other lines
          Preface,   \* the key of the lines before the first heading
          Docs       \* the documents considered

ASSUME LineAssumption == Heading \cap Text = {} /\ Preface \notin Heading

HeadingsOnce(doc) == \A i, j \in DOMAIN doc : doc[i] \in Heading /\ doc[i] = doc[j] => i = j

ASSUME DocsAssumption ==
  \A doc \in Docs : doc \in Seq(Heading \cup Text) /\ doc # <<>> /\ HeadingsOnce(doc)

Of(doc, k) == Section(doc, Heading, k, Preface)

\* The other writer added lines before the first heading, where there were none.
PrefaceAdded(base, preferred, other) ==
  Of(base, Preface) = <<>> /\ Of(preferred, Preface) = <<>> /\ Of(other, Preface) # <<>>

Appended(base, side, k) == Of(side, k) # Of(base, k) /\ IsPrefix(Of(base, k), Of(side, k))

--------------------------------------------------------------------------------
(***************************************************************************)
(* Both writers' log lines survive (merge_test.go:39): a section to which  *)
(* both appended has the old lines once, and both additions.               *)
(***************************************************************************)
AppendsAreKept(base, preferred, other, result) ==
  ~PrefaceAdded(base, preferred, other) => \A k \in Heading \cup {Preface} :
    Appended(base, preferred, k) /\ Appended(base, other, k) /\ Of(preferred, k) # Of(other, k)
      => Of(result, k) = Of(other, k) \o SubSeq(Of(preferred, k), Len(Of(base, k)) + 1,
                                               Len(Of(preferred, k)))

(***************************************************************************)
(* Changes to different sections are independent, deletions, new sections  *)
(* and moved sections included; where both changed the same text the       *)
(* preferred side is what remains.                                         *)
(***************************************************************************)
SectionMerged(base, preferred, other, result, k) ==
  LET b == Of(base, k)  p == Of(preferred, k)  o == Of(other, k)
  IN  IF p = b THEN Of(result, k) = o
      ELSE (Appended(base, preferred, k) /\ Appended(base, other, k)) \/ Of(result, k) = p

SectionsAreMerged(base, preferred, other, result) ==
  ~PrefaceAdded(base, preferred, other) =>
    \A k \in Heading \cup {Preface} : SectionMerged(base, preferred, other, result, k)
================================================================================
