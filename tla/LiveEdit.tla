--------------------------------- MODULE LiveEdit ---------------------------------
(***************************************************************************)
(* internal/server/server.go: pages of a deck that are open in players,    *)
(* what they save through the edit API, and the reload events that tell    *)
(* the other pages.  A save reads the slide and writes it under the        *)
(* content lock; the agent writes without it.  A slide is a function of    *)
(* its elements; a value is the number of the edit that wrote it.          *)
(***************************************************************************)
EXTENDS Naturals, Sequences, SequencesExt, ReconcileOps

CONSTANTS Page,
          Element,
          QueueSize,   \* of a page's channel of events: 8 in the code
          MaxEdits     \* bound: edits, of pages and of the agent

ASSUME LiveEditAssumption == QueueSize \in Nat \ {0} /\ MaxEdits \in Nat

VARIABLES slide,     \* the fragment on disk
          touched,   \* it was written after the watcher's last scan
          edits,     \* counts the edits
          page,      \* of each page: what it shows, its draft, the save under way
          events,    \* of each page: the channel, or closed
          missed,    \* ghost: pages nobody could tell
          answered,  \* ghost: the last edit of each element that was answered
          overrun    \* ghost: elements written over knowingly, or by the agent's race

liveVars == <<slide, touched, edits, page, events, missed, answered, overrun>>

Closed == <<"closed">>
NoDraft == [e \in {} |-> 0]
Blank == [e \in Element |-> 0]
Showing(content) == [shows |-> content, draft |-> NoDraft, save |-> "no", read |-> Blank]

LiveEditInit ==
  /\ slide = Blank /\ touched = FALSE /\ edits = 0
  /\ page = [p \in Page |-> Showing(Blank)]
  /\ events = [p \in Page |-> Closed]
  /\ missed = {} /\ answered = Blank /\ overrun = {}

With(content, draft) ==
  [e \in Element |-> IF e \in DOMAIN draft THEN draft[e] ELSE content[e]]

(***************************************************************************)
(* Broadcast does not wait for a page whose channel is full.  A reload     *)
(* that is dropped is missed unless another one is waiting.                *)
(***************************************************************************)
Broadcast(event) ==
  LET open(p) == events[p] # Closed
      full(p) == Len(events[p]) >= QueueSize
      untold == {p \in Page : open(p) /\ full(p) /\ "reload" \notin ToSet(events[p])}
  IN  /\ events' = [p \in Page |->
                      IF open(p) /\ ~full(p) THEN Append(events[p], event) ELSE events[p]]
      /\ missed' = IF event = "reload" THEN missed \cup untold ELSE missed

\* The page is served, and asks for the events afterwards (Subscribe).
OpenPage(p) ==
  /\ page[p].draft = NoDraft
  /\ page' = [page EXCEPT ![p] = Showing(slide)]
  /\ events' = [events EXCEPT ![p] = Closed]
  /\ missed' = missed \ {p}
  /\ UNCHANGED <<slide, touched, edits, answered, overrun>>

\* handleEvents; what was written since the page was served, it is not told.
Subscribe(p) ==
  /\ events[p] = Closed
  /\ events' = [events EXCEPT ![p] = <<>>]
  /\ missed' = IF page[p].shows = slide THEN missed ELSE missed \cup {p}
  /\ UNCHANGED <<slide, touched, edits, page, answered, overrun>>

\* The page reloads; one with a draft waits, and saves first.
Receive(p) ==
  /\ events[p] \notin {Closed, <<>>}
  /\ Head(events[p]) = "reload" => page[p].draft = NoDraft
  /\ events' = [events EXCEPT ![p] = Tail(@)]
  /\ page' = IF Head(events[p]) = "reload" THEN [page EXCEPT ![p].shows = slide] ELSE page
  /\ missed' = IF Head(events[p]) = "reload" THEN missed \ {p} ELSE missed
  /\ UNCHANGED <<slide, touched, edits, answered, overrun>>

\* eventVisibleToDeck: the events of other decks are skipped by the receiver.
OtherDeck ==
  /\ \E p \in Page : events[p] # Closed /\ Len(events[p]) < QueueSize
  /\ Broadcast("other")
  /\ UNCHANGED <<slide, touched, edits, page, answered, overrun>>

Edit(p, e) ==
  /\ page[p].save = "no" /\ edits < MaxEdits
  /\ edits' = edits + 1
  /\ page' = [page EXCEPT ![p].draft =
                [d \in DOMAIN @ \cup {e} |-> IF d = e THEN edits + 1 ELSE @[d]]]
  /\ UNCHANGED <<slide, touched, events, missed, answered, overrun>>

--------------------------------------------------------------------------------
\* editOnly holds the content lock from before the handler to after Broadcast.
Unlocked == \A p \in Page : page[p].save = "no"

\* Mutant of Refused: the hash is not compared.
MutantRefused(p, way) == FALSE

\* The hash is of the whole fragment.
Refused(p, way) == way = "hash" /\ slide # page[p].shows

(***************************************************************************)
(* handlePutFragment: a page sends what it started from and what it has;   *)
(* or what it has with the hash it started from, which is refused when the *)
(* slide has changed; or what it has.  handlePutTitle and                  *)
(* handlePutCompanion replace one part of what is there.                   *)
(***************************************************************************)
BeginSave(p, way) ==
  /\ page[p].draft # NoDraft /\ Unlocked
  /\ IF Refused(p, way)
       THEN page' = [page EXCEPT ![p].draft = NoDraft, ![p].shows = slide]
       ELSE page' = [page EXCEPT ![p].save = way, ![p].read = slide]
  /\ UNCHANGED <<slide, touched, edits, events, missed, answered, overrun>>

\* Mutant of Body: the base of the merge is what is on the disk.
MutantBody(p) == With(page[p].shows, page[p].draft)

Body(p) ==
  LET base == page[p].shows
      incoming == With(base, page[p].draft)
      current == page[p].read
  IN  CASE page[p].save = "merge" ->
             MergeFile(base, incoming, current, MergeFields(base, incoming, current))
        [] page[p].save = "part"  -> With(current, page[p].draft)
        [] OTHER                  -> incoming

\* An element that is written over with an older value.
Overwritten(p) ==
  {e \in Element : Body(p)[e] # slide[e] /\ e \notin DOMAIN page[p].draft}

WriteFragment(p) ==
  /\ page[p].save # "no"
  /\ slide' = Body(p)
  /\ touched' = TRUE
  /\ answered' = With(answered, page[p].draft)
  /\ overrun' = (overrun \ DOMAIN page[p].draft)
                  \cup IF page[p].save = "plain" \/ page[p].read # slide
                         THEN Overwritten(p) ELSE {}
  /\ page' = [page EXCEPT ![p] = Showing(slide')]
  /\ Broadcast("reload")
  /\ UNCHANGED edits

\* The agent's pass brings its commit into the worktree, without the lock.
AgentWrites(e) ==
  /\ edits < MaxEdits
  /\ edits' = edits + 1
  /\ slide' = [slide EXCEPT ![e] = edits + 1]
  /\ touched' = TRUE
  /\ answered' = [answered EXCEPT ![e] = edits + 1]
  /\ overrun' = overrun \ {e}
  /\ UNCHANGED <<page, events, missed>>

\* Mutant of Watch: a change that was scanned is not announced.
MutantWatch ==
  /\ touched
  /\ touched' = FALSE
  /\ UNCHANGED <<slide, edits, page, events, missed, answered, overrun>>

\* scan: the times of modification differ from those of the last scan.
Watch ==
  /\ touched
  /\ touched' = FALSE
  /\ Broadcast("reload")
  /\ UNCHANGED <<slide, edits, page, answered, overrun>>

LiveEditNext ==
  \/ \E p \in Page : \/ OpenPage(p) \/ Subscribe(p) \/ Receive(p) \/ WriteFragment(p)
                     \/ \E e \in Element : Edit(p, e)
                     \/ \E way \in {"merge", "hash", "plain", "part"} : BeginSave(p, way)
  \/ \E e \in Element : AgentWrites(e)
  \/ OtherDeck \/ Watch

LiveEditSpec == LiveEditInit /\ [][LiveEditNext]_liveVars

--------------------------------------------------------------------------------
\* Types of the slide, of the pages and of the channels.
LiveEditTypeOK ==
  /\ {slide, answered} \subseteq [Element -> 0 .. MaxEdits]
  /\ \A p \in Page : /\ page[p].save \in {"no", "merge", "hash", "plain", "part"}
                     /\ page[p].shows \in [Element -> 0 .. MaxEdits]
                     /\ events[p] = Closed \/ Len(events[p]) <= QueueSize
  /\ overrun \subseteq Element /\ missed \subseteq Page

(***************************************************************************)
(* An edit that was answered stays on the slide until a later edit of the  *)
(* same element is answered, however old the page that saves something     *)
(* else is.  (A save without a base writes over what it never saw, and so  *)
(* does one the agent overtakes between its reading and its writing.)      *)
(***************************************************************************)
AnsweredEditsStay == \A e \in Element \ overrun : slide[e] = answered[e]

(***************************************************************************)
(* A page that shows an old slide is going to be told: a reload waits in   *)
(* its channel or the watcher has not scanned.  (Not if the slide changed  *)
(* between the page and its subscription, or the channel was full of the   *)
(* events of other decks.)                                                 *)
(***************************************************************************)
PagesAreTold ==
  \A p \in Page \ missed :
    events[p] # Closed /\ page[p].shows # slide
      => touched \/ "reload" \in ToSet(events[p])
================================================================================
