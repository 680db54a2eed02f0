------------------------------ MODULE ElementMerge ------------------------------
(***************************************************************************)
(* mergeHTML (internal/reconcile/html.go) on one element: a slide fragment *)
(* is a tree, and for each element mergeValue merges the children it has   *)
(* and the order of their identities separately; only children named by    *)
(* the order are rendered again.  What both writers have of a child is     *)
(* merged by the same rule, property by property.  A human and an agent    *)
(* edit the same base; MergeFile is given the priority of the human, on    *)
(* either side.                                                            *)
(***************************************************************************)
EXTENDS ReconcileOps

CONSTANTS Child,    \* identities of child objects (data-vstd-id)
          Property, \* what an object has: its attributes, styles and text
          Value,    \* what a property may be
          Unset,    \* the value of a property that is not there
          Data,     \* objects: the values of their properties
          Absent,   \* the child does not exist
          Orders,   \* sequences of distinct children
          Ancestors \* the common ancestors considered

ASSUME DataAssumption == Data \subseteq [Property -> Value] /\ Unset \in Value
ASSUME ContentAssumption == Absent \notin [Property -> Value]
ASSUME ChildrenAssumption == \A s \in Orders : s \in Seq(Child) /\ IsInjective(s)

\* parseHTML: every child is in the order, and the order names children only.
Element == {[children |-> [c \in Child |-> IF c \in ToSet(s) THEN f[c] ELSE Absent],
             order |-> s] : s \in Orders, f \in [Child -> Data]}

ASSUME AncestorAssumption == Ancestors \subseteq Element

\* html.Render: the children named by the order, those that exist.
Rendered(e) == Only(e.order, {c \in Child : e.children[c] # Absent})

--------------------------------------------------------------------------------
\* The map of an object that is not there is empty.
Properties(object) == IF object = Absent THEN [p \in Property |-> Unset] ELSE object

\* Mutant of MergeObject: an object both changed is taken whole from ours.
MutantMergeObject(b, o, t) == IF o = b THEN t ELSE o

(***************************************************************************)
(* mergeValue on a child both, one or none of the writers have: theirs if  *)
(* ours left it alone; ours if theirs left it alone or deleted it, or if   *)
(* ours deleted it; and their properties merged if both have it.           *)
(***************************************************************************)
MergeObject(b, o, t) ==
  IF o = b THEN t
  ELSE IF o = Absent \/ t \in {Absent, b, o} THEN o
  ELSE MergeFields(Properties(b), o, t)

(***************************************************************************)
(* mergeValue on an HTML element as parseHTML encodes it: its children by  *)
(* identity and, as an entry of its own, the order they are rendered in.   *)
(***************************************************************************)
MergeElement(base, ours, theirs) ==
  IF ours = base THEN theirs
  ELSE IF theirs = base \/ ours = theirs THEN ours
  ELSE [children |-> [c \in Child |-> MergeObject(base.children[c], ours.children[c],
                                                  theirs.children[c])],
        order    |-> MergeList(base.order, ours.order, theirs.order)]

--------------------------------------------------------------------------------
Edited(base, e, c) == e.children[c] \notin {base.children[c], Absent}

\* A writer has the object, with another value of the property.
Set(base, e, c, p) ==
  e.children[c] # Absent /\ e.children[c][p] # Properties(base.children[c])[p]

(***************************************************************************)
(* Independent objects and properties: an edit to a child the other writer *)
(* left as it was is what is rendered, whoever made it and whatever moves, *)
(* insertions and deletions the two made around it; and of a child both    *)
(* still have, each property one of them set is as the human set it, or    *)
(* else as the agent did, whatever they did to the others.                 *)
(***************************************************************************)
IndependentEditsSurvive(base, human, agent, result) ==
  \A c \in Child :
    /\ Edited(base, human, c) /\ agent.children[c] = base.children[c]
         => c \in ToSet(Rendered(result)) /\ result.children[c] = human.children[c]
    /\ Edited(base, agent, c) /\ human.children[c] = base.children[c]
         => c \in ToSet(Rendered(result)) /\ result.children[c] = agent.children[c]
    /\ Absent \notin {human.children[c], agent.children[c]}
         => /\ c \in ToSet(Rendered(result))
            /\ \A p \in Property :
                 /\ Set(base, human, c, p)
                      => result.children[c][p] = human.children[c][p]
                 /\ Set(base, agent, c, p) /\ ~Set(base, human, c, p)
                      => result.children[c][p] = agent.children[c][p]

(***************************************************************************)
(* Nothing is rendered twice, and nothing neither writer has: a rendered   *)
(* child is one's of the two, and so is each of its properties.            *)
(***************************************************************************)
RenderedFromAWriter(human, agent, result) ==
  /\ IsInjective(Rendered(result))
  /\ \A c \in ToSet(Rendered(result)), p \in Property :
       \E e \in {human, agent} :
         e.children[c] # Absent /\ result.children[c][p] = e.children[c][p]

(***************************************************************************)
(* A deletion neither contested nor contradicted is never undone.          *)
(***************************************************************************)
DeletionsAreKept(base, human, agent, result) ==
  \A c \in Child :
    /\ base.children[c] # Absent
    /\ \/ human.children[c] = Absent
       \/ agent.children[c] = Absent /\ human.children[c] = base.children[c]
    => c \notin ToSet(Rendered(result))

(***************************************************************************)
(* What the accepted decision record says: "Direct human edits take        *)
(* precedence over overlapping agent edits" (ADR-20260907-cloud-owned-     *)
(* authoring.md), the deletion of the object by the agent included.        *)
(***************************************************************************)
HumanEditsAreRendered(base, human, result) ==
  \A c \in Child, p \in Property : Set(base, human, c, p) =>
    c \in ToSet(Rendered(result)) /\ result.children[c][p] = human.children[c][p]
================================================================================
