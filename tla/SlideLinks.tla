-------------------------------- MODULE SlideLinks --------------------------------
(***************************************************************************)
(* A linked slide: a snapshot of a slide of another deck, refreshed when   *)
(* the deck is looked at (refreshDeckLinks of internal/server/catalog.go,  *)
(* RefreshSlideLink of internal/studio/transfer.go), without the content   *)
(* lock, and read-only until it is detached.  Three files: fragment and    *)
(* companion, and the link with the hashes of what they were copied from.  *)
(***************************************************************************)
EXTENDS Naturals

CONSTANTS Refresher,      \* requests that look at the deck
          MaxSource,      \* bound: versions of the source
          MaxOwn          \* bound: edits of the slide once it is detached

ASSUME SlideLinksAssumption == MaxSource \in Nat \ {0} /\ MaxOwn \in Nat

VARIABLES source,      \* the version of each part of the source slide
          granted,     \* the owner of the target may copy from the source
          seen,        \* ghost: the last versions while access was granted
          target,      \* the files of the linked slide; "link" is none or hashes
          own,         \* edits of the detached slide
          refresh,     \* of each request: its progress
          disturbed    \* ghost: two refreshes at a time, or a detach, an edit, a
                       \* revocation or a crash in the middle of one

linkVars == <<source, granted, seen, target, own, refresh, disturbed>>

Part == {"html", "md"}
NotLinked == [linked |-> FALSE]
Hashes(version) == [linked |-> TRUE, of |-> version]
Off == [step |-> "off"]
First == [p \in Part |-> 1]

SlideLinksInit ==
  /\ source = First /\ granted = TRUE /\ seen = First
  /\ target = [files |-> First, link |-> Hashes(First)]
  /\ own = 0
  /\ refresh = [r \in Refresher |-> Off]
  /\ disturbed = FALSE

Linked == target.link.linked
Refreshing == \E r \in Refresher : refresh[r] # Off

\* The content of a file is a version of the source, or an edit of the owner.
Edited(n) == MaxSource + n

EditSource(p) ==
  /\ source[p] < MaxSource
  /\ source' = [source EXCEPT ![p] = @ + 1]
  /\ seen' = IF granted THEN source' ELSE seen
  /\ UNCHANGED <<granted, target, own, refresh, disturbed>>

\* The owner of the source makes it private, or shares it again.
ChangeAccess ==
  /\ granted' = ~granted
  /\ seen' = source
  /\ disturbed' = (disturbed \/ Refreshing)
  /\ UNCHANGED <<source, target, own, refresh>>

--------------------------------------------------------------------------------
SlideLinkCurrent == target.link.of = source

\* Mutant of BeginRefresh: who may see the source is not asked.
MutantBeginRefresh(r) ==
  /\ refresh[r] = Off
  /\ Linked /\ ~SlideLinkCurrent
  /\ refresh' = [refresh EXCEPT ![r] = [step |-> "stage"]]
  /\ disturbed' = (disturbed \/ Refreshing)
  /\ UNCHANGED <<source, granted, seen, target, own>>

\* refreshDeckLinks, handleRefreshSlideLink: linked, authorized, out of date.
BeginRefresh(r) ==
  /\ refresh[r] = Off
  /\ Linked /\ granted /\ ~SlideLinkCurrent
  /\ refresh' = [refresh EXCEPT ![r] = [step |-> "stage"]]
  /\ disturbed' = (disturbed \/ Refreshing)
  /\ UNCHANGED <<source, granted, seen, target, own>>

\* Files and hashes are of the same reading.
StageTransferredSlide(r) ==
  /\ refresh[r].step = "stage"
  /\ refresh' = [refresh EXCEPT ![r] = [step |-> "write", read |-> source,
                                        left |-> Part \cup {"link"}]]
  /\ UNCHANGED <<source, granted, seen, target, own, disturbed>>

\* Each file is replaced whole, in any order.
WriteFile(r, f) ==
  /\ refresh[r].step = "write" /\ f \in refresh[r].left
  /\ target' = IF f = "link" THEN [target EXCEPT !.link = Hashes(refresh[r].read)]
               ELSE [target EXCEPT !.files[f] = refresh[r].read[f]]
  /\ refresh' = [refresh EXCEPT
                   ![r] = IF @.left = {f} THEN Off
                          ELSE [refresh[r] EXCEPT !.left = @ \ {f}]]
  /\ UNCHANGED <<source, granted, seen, own, disturbed>>

\* A file cannot be written, or the server stops.
RefreshBreaks ==
  /\ Refreshing
  /\ \E r \in Refresher : /\ refresh[r] # Off
                          /\ refresh' = [refresh EXCEPT ![r] = Off]
                          /\ disturbed' = (disturbed \/ refresh[r].step = "write")
  /\ UNCHANGED <<source, granted, seen, target, own>>

\* handleDetachSlideLink.
Detach ==
  /\ Linked
  /\ target' = [target EXCEPT !.link = NotLinked]
  /\ disturbed' = (disturbed \/ Refreshing)
  /\ UNCHANGED <<source, granted, seen, own, refresh>>

\* Mutant of EditTarget: a linked slide is edited like any other.
MutantEditTarget(p) ==
  /\ own < MaxOwn
  /\ own' = own + 1
  /\ target' = [target EXCEPT !.files[p] = Edited(own + 1)]
  /\ disturbed' = (disturbed \/ Refreshing)
  /\ UNCHANGED <<source, granted, seen, refresh>>

\* rejectLinkedContentWrite.
EditTarget(p) ==
  /\ ~Linked /\ own < MaxOwn
  /\ own' = own + 1
  /\ target' = [target EXCEPT !.files[p] = Edited(own + 1)]
  /\ disturbed' = (disturbed \/ Refreshing)
  /\ UNCHANGED <<source, granted, seen, refresh>>

SlideLinksNext ==
  \/ \E p \in Part : EditSource(p) \/ EditTarget(p)
  \/ \E r \in Refresher : \/ BeginRefresh(r) \/ StageTransferredSlide(r)
                          \/ \E f \in Part \cup {"link"} : WriteFile(r, f)
  \/ ChangeAccess \/ RefreshBreaks \/ Detach

SlideLinksSpec == SlideLinksInit /\ [][SlideLinksNext]_linkVars

--------------------------------------------------------------------------------
\* Types of the files and of the progress.
SlideLinksTypeOK ==
  /\ source \in [Part -> 1 .. MaxSource] /\ seen \in [Part -> 1 .. MaxSource]
  /\ target.files \in [Part -> 1 .. MaxSource + MaxOwn]
  /\ \A r \in Refresher : refresh[r].step \in {"off", "stage", "write"}

(***************************************************************************)
(* When nobody is refreshing, the files of a linked slide are the versions *)
(* its link names, so that a link that seems current is, and the source    *)
(* never stops being followed.  Nothing newer than what the owner of the   *)
(* deck could see is in it.                                                *)
(***************************************************************************)
SnapshotIsWhatTheLinkSays ==
  ~disturbed /\ ~Refreshing /\ Linked =>
    /\ target.files = target.link.of
    /\ ~granted => \A p \in Part : target.files[p] <= seen[p]
================================================================================
