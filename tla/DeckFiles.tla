-------------------------------- MODULE DeckFiles --------------------------------
(***************************************************************************)
(* A presentation is a record of the store and a directory of the studio:  *)
(* handleCreateDeck, handleForkDeck and handleDeckVisibility of            *)
(* internal/server/collaboration.go with internal/studio/scaffold.go and   *)
(* fork.go, the owner's sign-in and the start of the server, which adopt   *)
(* the directories without a record.  No lock is held across the steps.    *)
(***************************************************************************)
EXTENDS Naturals, FiniteSets

CONSTANTS Maker,         \* people who create and fork
          Boss,          \* the owner of the team
          Key,           \* storage keys: names of directories
          MaxRequests,   \* bound: creations and forks
          MaxToggles,    \* bound: changes of visibility
          MaxStarts      \* bound: starts of the server

ASSUME DeckFilesAssumption == /\ Boss \notin Maker /\ "nobody" \notin Maker
                              /\ {MaxRequests, MaxToggles, MaxStarts} \subseteq Nat

VARIABLES hosted,     \* with a database (VSTD_COLLABORATION=1)
          bound,      \* the owner has signed in
          dir,        \* of each key: what is there, whose, the visibility in deck.yaml
          row,        \* of each key: its owner, visibility, changes; or no record
          making,     \* of each maker: the request
          signin,     \* the directories the owner's sign-in found, or not signing in
          toggle,     \* the requests changing the visibility of a deck
          starts, requests,
          taken,      \* ghost: keys two actors took at the same time
          served,     \* ghost: answered "created"
          unwritten   \* ghost: what a write nobody was told of left out, the files of a
                      \* key or the visibility in its deck.yaml

deckVars == <<hosted, bound, dir, row, making, signin, toggle, starts, requests, taken,
              served, unwritten>>

NoDir == [has |-> "none", of |-> {}, shown |-> "private"]
NoRow == [owner |-> "none"]
NoRequest == [step |-> "none"]
NotSigning == [step |-> "none"]

DeckInit ==
  /\ hosted \in BOOLEAN /\ bound = FALSE
  /\ dir = [k \in Key |-> NoDir]
  /\ row = [k \in Key |-> NoRow]
  /\ making = [p \in Maker |-> NoRequest]
  /\ signin = NotSigning
  /\ toggle = {} /\ starts = 0 /\ requests = 0
  /\ taken = {} /\ served = {} /\ unwritten = {}

\* studio.ListDecks: a directory with deck.yaml is a deck.
Listed == {k \in Key : dir[k].has \in {"part", "whole"}}
Recorded == {k \in Key : row[k] # NoRow}

Record(p) == [owner |-> p, visibility |-> "private"]

MakersOf(k) == {p \in Maker : making[p].step # "none" /\ making[p].key = k}

--------------------------------------------------------------------------------
(***************************************************************************)
(* The key is one no record has, or without a database one no directory    *)
(* has.  What a fork copies is a deck with another key.                    *)
(***************************************************************************)
UniqueStorageKey(p, k) ==
  /\ making[p].step = "none" /\ requests < MaxRequests
  /\ requests' = requests + 1
  /\ IF hosted THEN row[k] = NoRow ELSE dir[k].has = "none"
  /\ \E fork \in BOOLEAN :
       making' = [making EXCEPT ![p] = [step |-> "chosen", key |-> k, fork |-> fork]]
  /\ taken' = IF MakersOf(k) = {} THEN taken ELSE taken \cup {k}
  /\ UNCHANGED <<hosted, bound, dir, row, signin, toggle, starts, served, unwritten>>

EndRequest(p) == making' = [making EXCEPT ![p] = NoRequest]
GoTo(p, step) == making' = [making EXCEPT ![p].step = step]

\* NewDeck and ForkAs refuse a directory that is there.
CheckDirectory(p) ==
  /\ making[p].step = "chosen"
  /\ IF dir[making[p].key].has = "none" THEN GoTo(p, "clear") ELSE EndRequest(p)
  /\ UNCHANGED <<hosted, bound, dir, row, signin, toggle, starts, requests, taken, served,
                 unwritten>>

\* What the directory held remains beside what the request writes.
MakeDirectory(p) ==
  LET k == making[p].key
  IN  /\ making[p].step = "clear"
      /\ dir' = [dir EXCEPT ![k] = [has |-> IF @.has = "none" THEN "bare" ELSE @.has,
                                     of |-> @.of \cup {p}, shown |-> @.shown]]
      /\ GoTo(p, "writing")
      /\ UNCHANGED <<hosted, bound, row, signin, toggle, starts, requests, taken, served,
                     unwritten>>

\* What deck.yaml says when it is first there: a fork's says what its source's does.
FirstSays(p) == IF making[p].fork THEN {"private", "team"} ELSE {"private"}

\* NewDeck writes deck.yaml; ForkAs copies the files of its source.
WriteMeta(p) ==
  LET k == making[p].key
  IN  /\ making[p].step = "writing"
      /\ \E said \in FirstSays(p) :
           dir' = [dir EXCEPT ![k] = [has |-> IF @.has = "whole" THEN "whole" ELSE "part",
                                      of |-> @.of \cup {p}, shown |-> said]]
      /\ unwritten' = IF making[p].fork THEN unwritten \cup {<<k, "visibility">>}
                                        ELSE unwritten \ {<<k, "visibility">>}
      /\ GoTo(p, "listed")
      /\ UNCHANGED <<hosted, bound, row, signin, toggle, starts, requests, taken, served>>

(***************************************************************************)
(* NewDeck writes the style sheet, the cover and its companion, and does   *)
(* not look whether it could.  ForkAs saves deck.yaml as the fork's own.   *)
(***************************************************************************)
WriteFiles(p) ==
  LET k == making[p].key
  IN  /\ making[p].step = "listed"
      /\ \E has \in IF making[p].fork THEN {"whole"} ELSE {"part", "whole"} :
           /\ dir' = [dir EXCEPT ![k] = [has |-> has, of |-> @.of \cup {p},
                                          shown |-> "private"]]
           /\ unwritten' = IF has = "whole" THEN unwritten \ {<<k, "files">>, <<k, "visibility">>}
                            ELSE unwritten \cup {<<k, "files">>}
      /\ IF hosted THEN GoTo(p, "written") /\ served' = served
         ELSE EndRequest(p) /\ served' = served \cup {<<p, k>>}
      /\ UNCHANGED <<hosted, bound, row, signin, toggle, starts, requests, taken>>

(***************************************************************************)
(* NewDeck leaves what it made when deck.yaml cannot be written, ForkAs    *)
(* when the copy fails; after the copy it removes the directory.           *)
(***************************************************************************)
WriteFails(p) ==
  LET k == making[p].key
      cut == [has : {"part"}, of : {dir[k].of}, shown : FirstSays(p) \cup {"torn"}]
  IN  /\ \/ /\ making[p].step = "writing"
            /\ \E left \in cut \cup {dir[k]} : dir' = [dir EXCEPT ![k] = left]
            /\ unwritten' = unwritten \cup {<<k, "visibility">>}
         \/ /\ making[p].step = "listed" /\ making[p].fork
            /\ dir' = [dir EXCEPT ![k] = NoDir]
            /\ unwritten' = unwritten
      /\ EndRequest(p)
      /\ UNCHANGED <<hosted, bound, row, signin, toggle, starts, requests, taken, served>>

\* Mutant of CreateDeck: the files of a refused record stay.
MutantCreateDeck(p) ==
  LET k == making[p].key
  IN  /\ making[p].step = "written"
      /\ \/ /\ row[k] = NoRow
            /\ row' = [row EXCEPT ![k] = Record(p)]
            /\ served' = served \cup {<<p, k>>}
         \/ UNCHANGED <<row, served>>
      /\ EndRequest(p)
      /\ UNCHANGED <<hosted, bound, dir, signin, toggle, starts, requests, taken, unwritten>>

\* storage_key is unique; refused, or with an error, the directory is removed.
CreateDeck(p) ==
  LET k == making[p].key
  IN  /\ making[p].step = "written"
      /\ \/ /\ row[k] = NoRow
            /\ row' = [row EXCEPT ![k] = Record(p)]
            /\ served' = served \cup {<<p, k>>}
            /\ dir' = dir
         \/ /\ dir' = [dir EXCEPT ![k] = NoDir]
            /\ UNCHANGED <<row, served>>
      /\ EndRequest(p)
      /\ UNCHANGED <<hosted, bound, signin, toggle, starts, requests, taken, unwritten>>

--------------------------------------------------------------------------------
\* handleDeckVisibility: the record, the record read again, the file.

SetVisibility(k, v) ==
  /\ hosted /\ row[k] # NoRow /\ row[k].owner # "nobody"
  /\ Cardinality(toggle) < MaxToggles
  /\ row' = [row EXCEPT ![k].visibility = v]
  /\ toggle' = toggle \cup {[id |-> Cardinality(toggle) + 1, key |-> k,
                             step |-> "set", to |-> v,
                             raced |-> \E t \in toggle : t.key = k /\ t.step # "done"]}
  /\ UNCHANGED <<hosted, bound, dir, making, signin, starts, requests, taken, served, unwritten>>

\* The request is answered "ok", and the file left alone, when the record cannot be read.
DeckByID(t) ==
  /\ t.step = "set"
  /\ \/ /\ toggle' = (toggle \ {t}) \cup {[t EXCEPT !.step = "read",
                                           !.to = row[t.key].visibility]}
        /\ unwritten' = unwritten
     \/ /\ toggle' = (toggle \ {t}) \cup {[t EXCEPT !.step = "done"]}
        /\ unwritten' = unwritten \cup {<<t.key, "visibility">>}
  /\ UNCHANGED <<hosted, bound, dir, row, making, signin, starts, requests, taken, served>>

\* Mutant of SyncDeckVisibilityFile: the file keeps what it says.
MutantSyncDeckVisibilityFile(t) ==
  /\ t.step = "read"
  /\ toggle' = (toggle \ {t}) \cup {[t EXCEPT !.step = "done"]}
  /\ UNCHANGED <<hosted, bound, dir, row, making, signin, starts, requests, taken, served,
                 unwritten>>

(***************************************************************************)
(* Nothing is done when deck.yaml cannot be read; when it cannot be        *)
(* written, it stays or is cut off.  The answer is "ok".                   *)
(***************************************************************************)
SyncDeckVisibilityFile(t) ==
  LET k == t.key
  IN  /\ t.step = "read"
      /\ \/ /\ k \in Listed
            /\ dir' = [dir EXCEPT ![k] = [has |-> @.has, of |-> @.of, shown |-> t.to]]
            /\ unwritten' = unwritten \ {<<k, "visibility">>}
         \/ dir' = dir /\ unwritten' = unwritten \cup {<<k, "visibility">>}
         \/ /\ k \in Listed
            /\ dir' = [dir EXCEPT ![k] = [has |-> "part", of |-> @.of, shown |-> "torn"]]
            /\ unwritten' = unwritten \cup {<<k, "files">>, <<k, "visibility">>}
      /\ toggle' = (toggle \ {t}) \cup {[t EXCEPT !.step = "done"]}
      /\ UNCHANGED <<hosted, bound, row, making, signin, starts, requests, taken, served>>

--------------------------------------------------------------------------------
\* handleGitHubPoll: the directories are read, then BootstrapGitHub is one transaction.
ReadDecks ==
  /\ hosted /\ signin.step = "none"
  /\ ~bound \/ Listed # {}
  /\ signin' = [step |-> "read", found |-> Listed]
  /\ UNCHANGED <<hosted, bound, dir, row, making, toggle, starts, requests, taken, served,
                 unwritten>>

Adopted(k, found, owner) ==
  IF k \notin found THEN row[k]
  ELSE IF row[k] = NoRow THEN Record(owner)
  ELSE IF row[k].owner = "nobody" THEN [row[k] EXCEPT !.owner = owner] ELSE row[k]

BootstrapGitHub ==
  /\ signin.step = "read"
  /\ row' = [k \in Key |-> Adopted(k, signin.found, Boss)]
  /\ bound' = TRUE
  /\ signin' = NotSigning
  /\ taken' = taken \cup {k \in signin.found : row[k] = NoRow}
  /\ UNCHANGED <<hosted, dir, making, toggle, starts, requests, served, unwritten>>

(***************************************************************************)
(* StartCollaboration after a crash: whatever was under way is gone, and   *)
(* ReconcileDecks records the directories, for the owner if there is one.  *)
(***************************************************************************)
Start ==
  /\ starts < MaxStarts
  /\ starts' = starts + 1
  /\ making' = [p \in Maker |-> NoRequest]
  /\ signin' = NotSigning
  /\ row' = [k \in Key |-> IF hosted /\ row[k] = NoRow /\ k \in Listed
                              THEN Record(IF bound THEN Boss ELSE "nobody")
                              ELSE row[k]]
  /\ toggle' = {[t EXCEPT !.step = "done", !.raced = @ \/ t.step # "done"] : t \in toggle}
  /\ UNCHANGED <<hosted, bound, dir, requests, taken, served, unwritten>>

DeckNext ==
  \/ \E p \in Maker : \/ \E k \in Key : UniqueStorageKey(p, k)
                      \/ CheckDirectory(p) \/ MakeDirectory(p) \/ WriteMeta(p)
                      \/ WriteFiles(p) \/ WriteFails(p) \/ CreateDeck(p)
  \/ \E k \in Key, v \in {"private", "team"} : SetVisibility(k, v)
  \/ \E t \in toggle : DeckByID(t) \/ SyncDeckVisibilityFile(t)
  \/ ReadDecks \/ BootstrapGitHub \/ Start

DeckSpec == DeckInit /\ [][DeckNext]_deckVars

--------------------------------------------------------------------------------
\* Types of the directories, of the records and of the requests.
DeckTypeOK ==
  /\ dir \in [Key -> [has : {"none", "bare", "part", "whole"}, of : SUBSET Maker,
                      shown : {"private", "team", "torn"}]]
  /\ \A k \in Recorded : /\ row[k].owner \in Maker \cup {Boss} \cup {"nobody"}
                         /\ row[k].visibility \in {"private", "team"}
  /\ \A p \in Maker : making[p].step \in {"none", "chosen", "clear", "writing", "listed", "written"}
  /\ taken \subseteq Key /\ starts \in 0 .. MaxStarts
  /\ unwritten \subseteq Key \X {"files", "visibility"}

(***************************************************************************)
(* Who was told the presentation is created has it and nothing of another, *)
(* and the whole of it, but for the files the program could not write and  *)
(* did not say so.  (Two creations that took the same key, or a sign-in of *)
(* the owner between the files and the record, may lose it.)               *)
(***************************************************************************)
CreatedIsKept ==
  \A pk \in served :
    pk[2] \notin taken =>
      /\ dir[pk[2]].of = {pk[1]} /\ pk[2] \in Listed
      /\ <<pk[2], "files">> \notin unwritten => dir[pk[2]].has = "whole"
      /\ hosted => row[pk[2]] # NoRow /\ row[pk[2]].owner = pk[1]

\* A whole presentation nobody is still making is in the catalogue: no crash
\* and no error leaves files that are never seen again.
NothingOrphaned ==
  hosted => \A k \in Key \ taken :
              dir[k].has = "whole" /\ MakersOf(k) = {} => k \in Recorded

(***************************************************************************)
(* deck.yaml says what the record says when the changes are done, unless   *)
(* the last could not write it, a fork was cut short before it was its     *)
(* own, two changes of the deck overlapped, or the server stopped in one.  *)
(***************************************************************************)
VisibilityInFile ==
  \A k \in Recorded \ taken :
    /\ <<k, "visibility">> \notin unwritten
    /\ \A t \in toggle : t.key = k => t.step = "done" /\ ~t.raced
    => dir[k].shown = row[k].visibility
================================================================================
