------------------------------- MODULE Observability -------------------------------
(***************************************************************************)
(* The observability of a studio: handlers drop events into a bounded      *)
(* queue, one goroutine writes them in batches (internal/server/           *)
(* observability.go), one statement per batch in which the key of an event *)
(* is stored once, and the owner's dashboard is computed from two reads    *)
(* of the table (internal/collab/observability.go).                        *)
(***************************************************************************)
EXTENDS Integers, Sequences, SequencesExt, FiniteSets, FiniteSetsExt

CONSTANTS Event,        \* each a record: kind, viewer or actor, deck, slide, key
          NoKey,        \* the key of an event that is not deduplicated
          EventQueue,   \* 2048 in the code
          EventBatch,   \* 64
          DetailLimit,  \* 100000
          MaxOutages    \* bound: failing or uncertain writes, and stops

ASSUME ObservabilityAssumption ==
  /\ EventQueue \in Nat \ {0} /\ EventBatch \in Nat \ {0}
  /\ DetailLimit \in Nat /\ MaxOutages \in Nat

VARIABLES recorded,  \* history: events handlers recorded
          queue,     \* of the recorder
          batch,     \* of its goroutine
          rows,      \* the table, oldest first
          dropped,   \* the counter on the dashboard
          unsure,    \* history: events counted as dropped that were stored
          forgotten, \* history: events in memory when the server stopped
          outages,   \* bound
          board      \* the dashboard: what its two reads gave

obsVars == <<recorded, queue, batch, rows, dropped, unsure, forgotten, outages, board>>

NoBoard == [phase |-> "none", viewers |-> 0, views |-> 0, requests |-> 0,
            details |-> <<>>, truncated |-> FALSE]

ObservabilityInit ==
  /\ recorded = {} /\ queue = <<>> /\ batch = <<>> /\ rows = <<>>
  /\ dropped = {} /\ unsure = {} /\ forgotten = {}
  /\ outages = 0 /\ board = NoBoard

Stored == ToSet(rows)
HasKey(e) == e.key # NoKey

Views == {"deck_view", "slide_view"}
Usages == {"openai", "retry"}    \* a retry reports a response that was reported

--------------------------------------------------------------------------------
\* The handler never waits.  (The counter is the set of the events it counted,
\* which makes it comparable.)
Enqueue(e) ==
  IF Len(queue) < EventQueue
    THEN queue' = Append(queue, e) /\ UNCHANGED dropped
    ELSE dropped' = dropped \cup {e} /\ UNCHANGED queue

RecordEvent(e) ==
  /\ e \notin recorded
  /\ recorded' = recorded \cup {e}
  /\ Enqueue(e)
  /\ UNCHANGED <<batch, rows, unsure, forgotten, outages, board>>

\* Of a viewer, by the page; one without a name is given one (visitorID).
RecordView(e) == e.kind \in Views /\ e.viewer # NoKey /\ RecordEvent(e)

\* Of a response of the model, by the presenter's page, which may repeat itself.
RecordUsage(e) == e.kind \in Usages /\ RecordEvent(e)

\* The elements of b at some of its places, in their order.
Among(b, places) ==
  LET at == CHOOSE p \in [1 .. Cardinality(places) -> places] :
              \A i, j \in DOMAIN p : i < j => p[i] < p[j]
  IN  [i \in DOMAIN at |-> b[at[i]]]

Known(e) == HasKey(e) /\ \E r \in Stored : r.key = e.key

\* Mutant of Inserted: ON CONFLICT looks at the rows of earlier statements only.
MutantInserted(b) == Among(b, {i \in DOMAIN b : ~Known(b[i])})

\* RecordObservability: the rows a statement adds; the first event with a key stays.
Inserted(b) ==
  Among(b, {i \in DOMAIN b :
              /\ ~Known(b[i])
              /\ \A j \in 1 .. i - 1 : HasKey(b[i]) => b[j].key # b[i].key})

\* Mutant of Flush: a failing write is only logged.
MutantFlush(b) ==
  /\ batch' = <<>>
  /\ \/ rows' = rows \o Inserted(b) /\ UNCHANGED <<dropped, unsure, outages>>
     \/ /\ outages < MaxOutages /\ outages' = outages + 1
        /\ UNCHANGED <<rows, dropped, unsure>>

\* The statement succeeds, fails as a whole, or is stored and times out.
Flush(b) ==
  /\ batch' = <<>>
  /\ \/ rows' = rows \o Inserted(b) /\ UNCHANGED <<dropped, unsure, outages>>
     \/ /\ outages < MaxOutages /\ outages' = outages + 1
        /\ dropped' = dropped \cup ToSet(b)
        /\ \/ UNCHANGED <<rows, unsure>>
           \/ rows' = rows \o Inserted(b) /\ unsure' = unsure \cup ToSet(b)

\* loop: an event is taken, and the batch written when it is full ...
TakeEvent ==
  /\ queue # <<>>
  /\ queue' = Tail(queue)
  /\ LET b == Append(batch, Head(queue))
     IN  IF Len(b) >= EventBatch THEN Flush(b)
         ELSE batch' = b /\ UNCHANGED <<rows, dropped, unsure, outages>>
  /\ UNCHANGED <<recorded, forgotten, board>>

\* ... or the ticker fires.
TickFlush ==
  /\ batch # <<>>
  /\ Flush(batch)
  /\ UNCHANGED <<recorded, queue, forgotten, board>>

\* Nothing is written when the process ends, and the counter starts again.
StopRecorder ==
  /\ outages < MaxOutages
  /\ outages' = outages + 1
  /\ queue' = <<>> /\ batch' = <<>>
  /\ forgotten' = forgotten \cup ToSet(queue) \cup ToSet(batch) \cup dropped
  /\ dropped' = {}
  /\ UNCHANGED <<recorded, rows, unsure, board>>

--------------------------------------------------------------------------------
(***************************************************************************)
(* ObservabilityDashboard: the totals are counted by one statement, the    *)
(* people, decks and slides from the newest rows that a later one reads.   *)
(***************************************************************************)
ViewsIn(t) == {i \in DOMAIN t : t[i].kind \in Views}
UsagesIn(t) == {i \in DOMAIN t : t[i].kind \in Usages}
VisitorsIn(t) == {e.viewer : e \in ToSet(t)} \ {NoKey}

ReadSummary ==
  /\ board.phase # "summary"
  /\ board' = [NoBoard EXCEPT !.phase = "summary", !.views = Cardinality(ViewsIn(rows)),
                              !.viewers = Cardinality(VisitorsIn(rows)),
                              !.requests = Cardinality(UsagesIn(rows))]
  /\ UNCHANGED <<recorded, queue, batch, rows, dropped, unsure, forgotten, outages>>

NewestRows ==
  LET first == IF Len(rows) > DetailLimit THEN Len(rows) - DetailLimit + 1 ELSE 1
  IN  SubSeq(rows, first, Len(rows))

\* Mutant of Details: exactly the limit is asked for, and never seen to be exceeded.
MutantDetails ==
  [board EXCEPT !.phase = "shown", !.details = NewestRows,
                !.truncated = Len(NewestRows) > DetailLimit]

\* One row more than the limit is asked for.
Details ==
  [board EXCEPT !.phase = "shown", !.details = NewestRows,
                !.truncated = Len(rows) > DetailLimit]

ReadDetails ==
  /\ board.phase = "summary"
  /\ board' = Details
  /\ UNCHANGED <<recorded, queue, batch, rows, dropped, unsure, forgotten, outages>>

\* The numbers of the tables: of a viewer in a deck, and of a deck.
ViewsOfDeck(t, deck) == {i \in ViewsIn(t) : t[i].viewer # NoKey /\ t[i].deck = deck}
ViewsOf(t, v, deck) == {i \in ViewsIn(t) : t[i].viewer = v /\ t[i].deck = deck}
DecksSeen(t) == {t[i].deck : i \in {i \in ViewsIn(t) : t[i].viewer # NoKey}}

ObservabilityNext ==
  \/ \E e \in Event : RecordView(e) \/ RecordUsage(e)
  \/ TakeEvent \/ TickFlush \/ StopRecorder \/ ReadSummary \/ ReadDetails

ObservabilitySpec == ObservabilityInit /\ [][ObservabilityNext]_obsVars

--------------------------------------------------------------------------------
(***************************************************************************)
(* Every event that was recorded is on its way, is a row, is counted as    *)
(* dropped, or repeats the key of a row: it is missing without a trace     *)
(* only if the server stopped with it in memory.  And it is one of these   *)
(* only, but for batches whose answer was lost, which count as both.       *)
(***************************************************************************)
EventsAccounted ==
  /\ \A e \in recorded :
       \/ e \in ToSet(queue) \cup ToSet(batch) \cup Stored \cup dropped \cup forgotten
       \/ HasKey(e) /\ \E r \in Stored : r.key = e.key
  /\ dropped \cap (Stored \cup ToSet(queue) \cup ToSet(batch)) \subseteq unsure

\* A response that is reported again is one row: tokens are not counted twice.
CountedOnce ==
  /\ \A i, j \in DOMAIN rows : HasKey(rows[i]) /\ rows[i].key = rows[j].key => i = j
  /\ \A i, j \in DOMAIN rows : rows[i] = rows[j] => i = j

(***************************************************************************)
(* The tables of the dashboard never show less than its totals (what is    *)
(* written between the two reads is in the tables only), unless it says    *)
(* that they are truncated.                                                *)
(***************************************************************************)
BoardAgrees ==
  board.phase = "shown" /\ ~board.truncated =>
    LET t == board.details
    IN  /\ board.viewers <= Cardinality(VisitorsIn(t))
        /\ board.requests <= Cardinality(UsagesIn(t))
        /\ board.views <= SumFunction([d \in DecksSeen(t) |-> Cardinality(ViewsOfDeck(t, d))])
        /\ \A d \in DecksSeen(t) :
             Cardinality(ViewsOfDeck(t, d))
               = SumFunction([v \in VisitorsIn(t) |-> Cardinality(ViewsOf(t, v, d))])

ObservabilityTypeOK ==
  /\ recorded \subseteq Event /\ Stored \subseteq recorded
  /\ Len(queue) <= EventQueue /\ Len(batch) < EventBatch
  /\ dropped \cup unsure \cup forgotten \subseteq Event
================================================================================
