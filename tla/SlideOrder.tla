------------------------------- MODULE SlideOrder -------------------------------
(***************************************************************************)
(* The order of the slides of a deck, as internal/studio/studio.go reads   *)
(* it from the names of the files and from deck.yaml.  Editors move and    *)
(* add slides one at a time under the content lock; the agent's passes add *)
(* and remove files, and a change of the deck's visibility rewrites        *)
(* deck.yaml (syncDeckVisibilityFile), both without it.                    *)
(***************************************************************************)
EXTENDS Integers, SequencesExt

CONSTANTS SlideNumber,  \* slides are numbered as their names sort, from 1
          MaxReorders,  \* bound: slides moved
          MaxMade,      \* bound: files the agent's passes add or remove
          MaxChoices    \* bound: changes of the visibility

ASSUME SlideOrderAssumption ==
  /\ IsFiniteSet(SlideNumber) /\ SlideNumber = 1 .. Cardinality(SlideNumber)
  /\ {MaxReorders, MaxMade, MaxChoices} \subseteq Nat

VARIABLES deckYaml,    \* deck.yaml: the order and the visibility
          htmls,       \* slides that are there
          edit,        \* the request that holds the content lock
          showing,     \* the change of the visibility
          agreed,      \* ghost: the order after the last move
          chosen,      \* ghost: the visibility last asked for
          clashed,     \* ghost: deck.yaml was read, or left, between a writer's steps
          moved, made, choices

orderVars == <<deckYaml, htmls, edit, showing, agreed, chosen, clashed,
               moved, made, choices>>

Top == 0

\* What an emptied file is read as (LoadDeckMeta fills in the visibility).
Emptied == [order |-> <<>>, visibility |-> "private"]

NoEdit == [step |-> "none"]

\* Where the sequence names a slide first.
FirstOf(ids, s) == Min({i \in DOMAIN ids : ids[i] = s})

\* Slides the order names come as it names them first, the others behind as they sort.
Place(order, s) == IF s \in ToSet(order) THEN FirstOf(order, s) ELSE Len(order) + s

\* Mutant of SlideIDs: the slides the order leaves out are not shown.
MutantSlideIDs(order, there) ==
  LET listed == IF order = <<>> THEN there ELSE there \cap ToSet(order)
  IN  CHOOSE ids \in [1 .. Cardinality(listed) -> listed] :
        \A i, j \in DOMAIN ids : i < j => Place(order, ids[i]) < Place(order, ids[j])

\* The slides that are there, each once.
SlideIDs(order, there) ==
  CHOOSE ids \in [1 .. Cardinality(there) -> there] :
    \A i, j \in DOMAIN ids : i < j => Place(order, ids[i]) < Place(order, ids[j])

Shown == SlideIDs(deckYaml.order, htmls)

\* A writer truncates the file and then fills it.
InWrite == edit.step = "truncated" \/ showing.step = "truncated"

\* An order in a file people write may leave slides out, or name them twice.
SlideOrderInit ==
  /\ \E absent \in SlideNumber : htmls = SlideNumber \ {absent}
  /\ \E s \in htmls : \/ deckYaml = Emptied
                       \/ deckYaml = [Emptied EXCEPT !.order = <<s, s>>]
  /\ edit = NoEdit /\ showing = NoEdit
  /\ agreed = SlideIDs(deckYaml.order, ToSet(deckYaml.order))
  /\ chosen = deckYaml.visibility
  /\ clashed = FALSE /\ moved = 0 /\ made = 0 /\ choices = 0

--------------------------------------------------------------------------------
\* Editors.

\* Mutant of MoveSlide: the place is looked up before the slide is taken out.
MutantMoveSlide(ids, s, after) ==
  LET place == IF after = Top THEN 1 ELSE FirstOf(ids, after) + 1
      rest == RemoveAt(ids, FirstOf(ids, s))
      at == IF place > Len(rest) + 1 THEN Len(rest) + 1 ELSE place
  IN  InsertAt(rest, at, s)

MoveSlide(ids, s, after) ==
  LET rest == RemoveAt(ids, FirstOf(ids, s))
      place == IF after = Top THEN 1 ELSE FirstOf(rest, after) + 1
  IN  InsertAt(rest, place, s)

\* SlideIDs, with the lock; a slide that is not there, or moved behind itself,
\* ends the request.
BeginMove(s, after) ==
  /\ edit = NoEdit /\ moved < MaxReorders
  /\ moved' = moved + 1
  /\ s # after /\ s \in htmls /\ after \in htmls \cup {Top}
  /\ edit' = [step |-> "ordered", slide |-> s, after |-> after, seen |-> Shown,
              order |-> MoveSlide(Shown, s, after)]
  /\ clashed' = (clashed \/ InWrite)
  /\ UNCHANGED <<deckYaml, htmls, showing, agreed, chosen, made, choices>>

\* LoadDeckMeta: the rest of the file, to be written back.
LoadMeta ==
  /\ edit.step = "ordered"
  /\ edit' = [step |-> "loaded", meta |-> [deckYaml EXCEPT !.order = edit.order]]
  /\ clashed' = (clashed \/ showing # NoEdit)
  /\ UNCHANGED <<deckYaml, htmls, showing, agreed, chosen, moved, made, choices>>

\* SaveDeckMeta, of the editor or of the change of the visibility.
Truncate(writer) ==
  /\ writer.step = "loaded"
  /\ deckYaml' = Emptied
  /\ UNCHANGED <<htmls, agreed, chosen, clashed, moved, made, choices>>

TruncateForMove ==
  /\ Truncate(edit)
  /\ edit' = [edit EXCEPT !.step = "truncated"] /\ UNCHANGED showing

EndMove ==
  /\ edit.step = "truncated"
  /\ deckYaml' = edit.meta
  /\ agreed' = edit.meta.order
  /\ edit' = NoEdit
  /\ UNCHANGED <<htmls, showing, chosen, clashed, moved, made, choices>>

\* What is there is refused.
NewSlide(s) ==
  /\ edit = NoEdit /\ s \notin htmls
  /\ htmls' = htmls \cup {s}
  /\ UNCHANGED <<deckYaml, edit, showing, agreed, chosen, clashed, moved, made, choices>>

--------------------------------------------------------------------------------
\* Without the lock.

\* Mutant of BeginShow: deck.yaml is written from what the table says.
MutantBeginShow(visibility) ==
  /\ showing = NoEdit /\ choices < MaxChoices
  /\ choices' = choices + 1 /\ chosen' = visibility
  /\ showing' = [step |-> "loaded", meta |-> [order |-> <<>>, visibility |-> visibility]]
  /\ clashed' = (clashed \/ edit.step \in {"loaded", "truncated"})
  /\ UNCHANGED <<deckYaml, htmls, edit, agreed, moved, made>>

\* syncDeckVisibilityFile, after the table.
BeginShow(visibility) ==
  /\ showing = NoEdit /\ choices < MaxChoices
  /\ choices' = choices + 1 /\ chosen' = visibility
  /\ showing' = [step |-> "loaded", meta |-> [deckYaml EXCEPT !.visibility = visibility]]
  /\ clashed' = (clashed \/ edit.step \in {"loaded", "truncated"})
  /\ UNCHANGED <<deckYaml, htmls, edit, agreed, moved, made>>

TruncateForShow ==
  /\ Truncate(showing)
  /\ showing' = [showing EXCEPT !.step = "truncated"] /\ UNCHANGED edit

EndShow ==
  /\ showing.step = "truncated"
  /\ deckYaml' = showing.meta
  /\ showing' = NoEdit
  /\ UNCHANGED <<htmls, edit, agreed, chosen, clashed, moved, made, choices>>

\* The changed files of a pass are renamed into place, the removed ones deleted.
AgentChanges(s) ==
  /\ made < MaxMade
  /\ made' = made + 1
  /\ \/ s \notin htmls /\ htmls' = htmls \cup {s}
     \/ s \in htmls /\ htmls' = htmls \ {s}
  /\ UNCHANGED <<deckYaml, edit, showing, agreed, chosen, clashed, moved, choices>>

\* A file that was truncated stays empty.
OrderCrash ==
  /\ edit # NoEdit \/ showing # NoEdit
  /\ clashed' = (clashed \/ InWrite \/ showing # NoEdit)
  /\ edit' = NoEdit /\ showing' = NoEdit
  /\ UNCHANGED <<deckYaml, htmls, agreed, chosen, moved, made, choices>>

SlideOrderNext ==
  \/ \E s \in SlideNumber :
       \/ \E after \in SlideNumber \cup {Top} : BeginMove(s, after)
       \/ NewSlide(s) \/ AgentChanges(s)
  \/ LoadMeta \/ TruncateForMove \/ EndMove
  \/ \E visibility \in {"private", "workspace"} : BeginShow(visibility)
  \/ TruncateForShow \/ EndShow \/ OrderCrash

SlideOrderSpec == SlideOrderInit /\ [][SlideOrderNext]_orderVars

--------------------------------------------------------------------------------
\* Types of deck.yaml, of the files and of the requests.
SlideOrderTypeOK ==
  /\ deckYaml.order \in Seq(SlideNumber)
  /\ {deckYaml.visibility, chosen} \subseteq {"private", "workspace"}
  /\ htmls \subseteq SlideNumber
  /\ edit.step \in {"none", "ordered", "loaded", "truncated"}
  /\ showing.step \in {"none", "loaded", "truncated"}

AsAsked(move) ==
  LET others(ids) == RemoveAt(ids, FirstOf(ids, move.slide))
  IN  /\ others(move.order) = others(move.seen)
      /\ \E i \in DOMAIN move.order :
           /\ move.order[i] = move.slide
           /\ move.after = IF i = 1 THEN Top ELSE move.order[i - 1]

\* Slides that were agreed on come first, in that order.
AgreedFirst ==
  \A i, j \in DOMAIN Shown :
    i < j /\ Shown[j] \in ToSet(agreed) =>
      Shown[i] \in ToSet(agreed) /\ FirstOf(agreed, Shown[i]) < FirstOf(agreed, Shown[j])

(***************************************************************************)
(* Every slide is shown, once; a move puts the slide where the editor      *)
(* wants it and leaves the others in their order; that order stays,        *)
(* whatever is added and removed, with the new ones behind; and the file   *)
(* says what the deck's owner chose.  (Not after a move and a change of    *)
(* the visibility overlapped in deck.yaml, or a crash interrupted one that *)
(* was to be written.)                                                     *)
(***************************************************************************)
OrderKept ==
  /\ edit.step = "ordered" => AsAsked(edit)
  /\ ToSet(Shown) = htmls /\ Len(Shown) = Cardinality(htmls)
  /\ InWrite \/ clashed
       \/ /\ AgreedFirst
          /\ showing = NoEdit => deckYaml.visibility = chosen
================================================================================
