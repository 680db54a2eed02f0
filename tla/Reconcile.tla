-------------------------------- MODULE Reconcile --------------------------------
(***************************************************************************)
(* The four kinds of content reconcile.Merge handles, as one system: an    *)
(* order of slides or objects, an element of a fragment, a companion, and  *)
(* a whole snapshot.  A behaviour merges one triple of one kind, in one    *)
(* step: what the incoming and the current side made of their common base. *)
(***************************************************************************)
EXTENDS OrderMerge, ElementMerge, SectionMerge, SnapshotMerge

VARIABLES kind, base, incoming, current, preferCurrent,   \* the inputs
          result, alternatives, done                      \* the outcome, once it is there

vars == <<kind, base, incoming, current, preferCurrent, result, alternatives, done>>

Inputs(k, bases, sides) ==
  /\ kind = k
  /\ base \in bases
  /\ incoming \in sides
  /\ current \in sides

Init == /\ \/ Inputs("order", Bases, Lists) /\ preferCurrent = FALSE
           \/ Inputs("element", Ancestors, Element) /\ preferCurrent = TRUE
           \/ Inputs("section", Docs, Docs) /\ preferCurrent \in BOOLEAN
           \/ Inputs("snapshot", BaseSnapshots, Snapshots) /\ preferCurrent \in BOOLEAN
        /\ result = <<>>
        /\ alternatives = {}
        /\ done = FALSE

\* The side with priority is ours for MergeFile, the other one theirs.
preferred == Sides(incoming, current, preferCurrent).ours

other == Sides(incoming, current, preferCurrent).theirs

Outcome(merged) == /\ ~done
                   /\ result' = merged
                   /\ done' = TRUE
                   /\ UNCHANGED <<kind, base, incoming, current, preferCurrent>>

MergeOrders ==
  /\ kind = "order"
  /\ Outcome(MergeList(base, incoming, current))
  /\ UNCHANGED alternatives

\* FinishBranch and a sync of agent work: the agent's change is incoming, and the
\* current (human) side is preferred.
MergeElements ==
  /\ kind = "element"
  /\ Outcome(MergeFile(base, incoming, current, MergeElement(base, preferred, other)))
  /\ UNCHANGED alternatives

MergeCompanions ==
  /\ kind = "section"
  /\ Outcome(MergeFile(base, incoming, current,
                       MergeSections(base, preferred, other, Heading, Preface)))
  /\ UNCHANGED alternatives

MergeDecks ==
  /\ kind = "snapshot"
  /\ Outcome(MergeOfSnapshots(base, incoming, current, preferCurrent))
  /\ alternatives' = Alternatives(base, incoming, current)

Next == \/ MergeOrders
        \/ MergeElements
        \/ MergeCompanions
        \/ MergeDecks

Spec == Init /\ [][Next]_vars

Done(k) == kind = k /\ done

--------------------------------------------------------------------------------
\* The properties of each kind, of the merges of that kind.

\* Only what ours moved is moved.
MinimumMoves == kind = "order" => FewestMoves(base, incoming)

\* What ours left in place keeps the order theirs gave it, and what ours moved
\* follows what it follows in ours.
MovesSurvive == Done("order") => /\ TheirMovesSurvive(base, incoming, current, result)
                                 /\ OurMovesSurvive(base, incoming, current, result)

\* No key of an order is lost, repeated or invented.
ExactKeys == Done("order") => KeysAreExact(base, incoming, current, result)

\* An edit of an object, or of a property, the other writer left alone is rendered;
\* nothing is rendered twice, or with a property neither writer gave it.
EditsAreRendered ==
  Done("element") => /\ IndependentEditsSurvive(base, current, incoming, result)
                     /\ RenderedFromAWriter(current, incoming, result)

\* An uncontested deletion of an object is not undone.
DeletionsSurvive == Done("element") => DeletionsAreKept(base, current, incoming, result)

\* What the accepted decision record says of direct human edits (ADR-20260907): they
\* survive whatever an agent did to the same object, its deletion included.
HumanEditsWin == Done("element") => HumanEditsAreRendered(base, current, result)

\* What both appended to a section is kept, once.
AppendsSurvive == Done("section") => AppendsAreKept(base, preferred, other, result)

\* Changes to different sections of a companion do not disturb each other.
SectionsIndependent == Done("section") => SectionsAreMerged(base, preferred, other, result)

\* A slide keeps both its files or neither, from the side that was chosen; a change
\* that is not visible after the merge is listed.
SnapshotsMerge ==
  Done("snapshot") => /\ PairsStayWhole(base, incoming, current, preferCurrent, result)
                      /\ ChangesReported(base, incoming, current, result, alternatives)

\* Exchanging the sides and the preference changes nothing.
PreferenceSymmetry ==
  Done("snapshot") => SidesExchange(base, incoming, current, preferCurrent, result)
================================================================================
