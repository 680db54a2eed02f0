-------------------------------- MODULE ExportCache --------------------------------
(***************************************************************************)
(* internal/server/export_cache.go: pictures (or object models) of slides, *)
(* kept under a fingerprint of all that goes into them, for PowerPoint     *)
(* exports and thumbnails.  One export of a deck runs at a time; edits do  *)
(* not wait for it.  A rendering is the content it was made of.            *)
(***************************************************************************)
EXTENDS Naturals, FiniteSets

CONSTANTS Slide,
          Content,      \* a fragment with its styles and assets
          MaxExports    \* bound: exports

ASSUME ExportCacheAssumption == MaxExports \in Nat

VARIABLES deckNow,     \* of each slide: its content
          parked,      \* slides that are not shown
          cached,      \* on disk: the fingerprint each entry has
          pictures,    \* files of the cache: of a slide, under a fingerprint, what it shows
          export,      \* the export that holds the lock of the deck
          exports,
          asked,       \* history: the contents when the export was asked for
          mixed        \* ghost: files made of another content than their fingerprint's

exportVars == <<deckNow, parked, cached, pictures, export, exports, asked, mixed>>

NoExport == [step |-> "none"]
FileName(s, print) == [slide |-> s, print |-> print]
Unasked == <<>>
Entries == DOMAIN cached

ExportCacheInit ==
  /\ deckNow \in [Slide -> Content] /\ parked = {}
  /\ cached = <<>> /\ pictures = <<>>
  /\ export = NoExport /\ exports = 0
  /\ asked = Unasked
  /\ mixed = {}

Add(table, key, value) ==
  [k \in DOMAIN table \cup {key} |-> IF k = key THEN value ELSE table[k]]

Drop(table, keys) == [k \in DOMAIN table \ keys |-> table[k]]

\* Any writer of the deck; an edit may be undone.
ChangeSlide(s, c) ==
  /\ c # deckNow[s]
  /\ deckNow' = [deckNow EXCEPT ![s] = c]
  /\ UNCHANGED <<asked, parked, cached, pictures, export, exports, mixed>>

Park(s) ==
  /\ parked' = IF s \in parked THEN parked \ {s} ELSE parked \cup {s}
  /\ UNCHANGED <<deckNow, cached, pictures, export, exports, asked, mixed>>

--------------------------------------------------------------------------------
\* Mutant of Fingerprint: the styles and assets are left out.
MutantFingerprint(s) == CHOOSE c \in Content : TRUE

\* slidePowerPointFingerprint: of the fragment and of all it refers to.
Fingerprint(s) == deckNow[s]

\* An entry is a hit when its fingerprint is today's and its file can be read.
Hit(s, print) == /\ s \in Entries /\ cached[s] = print
                 /\ FileName(s, print) \in DOMAIN pictures

(***************************************************************************)
(* handleExportPPTX asks for the active slides, or for one; the thumbnail  *)
(* for the first.  Under deckExportLock each slide gets its fingerprint.   *)
(***************************************************************************)
BeginExport(ids) ==
  /\ export = NoExport /\ exports < MaxExports
  /\ ids # {} /\ ids \cap parked = {}
  /\ exports' = exports + 1
  /\ LET print == [s \in ids |-> Fingerprint(s)]
     IN  export' = [step |-> "render", ids |-> ids, print |-> print,
                    misses |-> {s \in ids : ~Hit(s, print[s])}]
  /\ asked' = [s \in ids |-> deckNow[s]]
  /\ UNCHANGED <<deckNow, parked, cached, pictures, mixed>>

\* Of the deck as it is now; one page for each slide that is not parked.
Render ==
  /\ export.step = "render"
  /\ export' = IF export.misses \cap parked # {} THEN NoExport
               ELSE [step |-> "store", ids |-> export.ids, print |-> export.print,
                     misses |-> export.misses,
                     shows |-> [s \in export.misses |-> deckNow[s]], entries |-> cached]
  /\ asked' = IF export' = NoExport THEN Unasked ELSE asked
  /\ UNCHANGED <<deckNow, parked, cached, pictures, exports, mixed>>

\* The new file is written, the entry changed in memory, the old file removed.
StoreEntry(s) ==
  /\ export.step = "store" /\ s \in export.misses
  /\ LET print == export.print[s]
         old == IF s \in DOMAIN export.entries /\ export.entries[s] # print
                  THEN {FileName(s, export.entries[s])} ELSE {}
         file == FileName(s, print)
     IN  /\ pictures' = Drop(Add(pictures, file, export.shows[s]), old)
         /\ export' = [export EXCEPT !.misses = @ \ {s}, !.entries = Add(@, s, print)]
         /\ mixed' = IF export.shows[s] = print THEN mixed \ {file} ELSE mixed \cup {file}
  /\ UNCHANGED <<deckNow, parked, cached, exports, asked>>

\* prunePowerPointManifest, and the manifest is replaced.
WriteManifest ==
  LET gone == parked \cap DOMAIN export.entries
  IN  /\ export.step = "store" /\ export.misses = {}
      /\ pictures' = Drop(pictures, {FileName(s, export.entries[s]) : s \in gone})
      /\ cached' = Drop(export.entries, gone)
      /\ export' = [export EXCEPT !.step = "read"]
      /\ UNCHANGED <<deckNow, parked, exports, asked, mixed>>

\* Every slide from its file; one that was parked meanwhile fails the export.
Deliver ==
  /\ export.step = "read"
  /\ export' = IF export.ids \ Entries # {} THEN NoExport
               ELSE [step |-> "delivered", ids |-> export.ids, print |-> export.print,
                     shows |-> [s \in export.ids |-> pictures[FileName(s, cached[s])]]]
  /\ asked' = IF export' = NoExport THEN Unasked ELSE asked
  /\ UNCHANGED <<deckNow, parked, cached, pictures, exports, mixed>>

EndExport ==
  /\ export.step = "delivered"
  /\ export' = NoExport /\ asked' = Unasked
  /\ UNCHANGED <<deckNow, parked, cached, pictures, exports, mixed>>

\* The browser fails or takes too long, a file cannot be written, the server stops.
ExportFails ==
  /\ export.step \in {"render", "store", "read"}
  /\ export' = NoExport /\ asked' = Unasked
  /\ UNCHANGED <<deckNow, parked, cached, pictures, exports, mixed>>

ExportCacheNext ==
  \/ \E s \in Slide : Park(s) \/ StoreEntry(s) \/ \E c \in Content : ChangeSlide(s, c)
  \/ \E ids \in SUBSET Slide : BeginExport(ids)
  \/ Render \/ WriteManifest \/ Deliver \/ EndExport \/ ExportFails

ExportCacheSpec == ExportCacheInit /\ [][ExportCacheNext]_exportVars

--------------------------------------------------------------------------------
\* Types of the manifest, of the files and of the export.
ExportCacheTypeOK ==
  /\ deckNow \in [Slide -> Content] /\ parked \subseteq Slide
  /\ Entries \subseteq Slide /\ \A s \in Entries : cached[s] \in Content
  /\ \A f \in DOMAIN pictures : f.slide \in Slide /\ pictures[f] \in Content
  /\ export.step \in {"none", "render", "store", "read", "delivered"}

(***************************************************************************)
(* An export shows the deck: each slide as it was when the export was      *)
(* asked for, however old the cache is, whatever earlier exports were cut  *)
(* off, and whatever was parked and undone.  (A slide edited between       *)
(* fingerprint and rendering is kept under the wrong fingerprint: the      *)
(* picture comes back when the edit is undone.)                            *)
(***************************************************************************)
ExportShowsTheDeck ==
  export.step = "delivered" =>
    \A s \in export.ids : \/ export.shows[s] = asked[s]
                          \/ FileName(s, export.print[s]) \in mixed
================================================================================
