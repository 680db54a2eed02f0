-------------------------------- MODULE Catalogue --------------------------------
(***************************************************************************)
(* The folders of the catalogue and the decks in them: internal/catalog    *)
(* (one user: a file, kept in memory under one lock) and internal/collab/  *)
(* catalog.go (each user's rows), behind internal/server/catalog.go.  A    *)
(* request to the database checks first and writes with a later statement. *)
(***************************************************************************)
EXTENDS Integers, FiniteSetsExt

CONSTANTS FolderId,      \* folders users make; "trash" is the system's
          FolderName,    \* names users give; "Trash" is the system's
          Placed,        \* decks
          MaxPosition,   \* bound: position of a folder
          MaxUnsaved     \* bound: changes the memory is ahead of the file

ASSUME CatalogueAssumption == /\ "trash" \notin FolderId /\ "Trash" \notin FolderName
                               /\ {MaxPosition, MaxUnsaved} \subseteq Nat

VARIABLES stored,      \* "file" or "database"
          folders,     \* of each folder that exists: name and position
          placement,   \* of each deck: its folder, or no folder
          file,        \* what the file holds
          unsaved,     \* ghost: changes of the memory the file does not have
          checked      \* the requests to the database between check and write

catalogueVars == <<stored, folders, placement, file, unsaved, checked>>

AllIds == FolderId \cup {"trash"}
AllNames == FolderName \cup {"Trash"}
NoFolder == "none"
Exists == DOMAIN folders
Positions(fs) == {fs[f].position : f \in DOMAIN fs}
After(positions) == IF positions = {} THEN 0 ELSE Max(positions) + 1

\* ensureTrashLocked, ensureTrashFolder: after the folders of the user.
Trash(fs) ==
  LET others == [f \in DOMAIN fs \ {"trash"} |-> fs[f]]
      last == [name |-> "Trash", position |-> After(Positions(others))]
  IN  [f \in DOMAIN fs \cup {"trash"} |-> IF f = "trash" THEN last ELSE fs[f]]

Unplaced == [d \in Placed |-> NoFolder]

NamedTrash(f) == folders[f].name = "Trash"
NameTaken(name, f) == \E g \in Exists \ {f} : folders[g].name = name

\* OpenLocal gives the file a Trash; the table has none until the first view.
CatalogueInit ==
  /\ stored \in {"file", "database"}
  /\ folders = IF stored = "file" THEN Trash(<<>>) ELSE <<>>
  /\ placement = Unplaced
  /\ file = [folders |-> folders, placement |-> placement]
  /\ unsaved = 0
  /\ checked = {}

Local == stored = "file"

Ahead == /\ unsaved' = IF <<folders', placement'>> = <<folders, placement>> THEN unsaved
                      ELSE unsaved + 1
         /\ unsaved' <= MaxUnsaved
         /\ file' = file

(***************************************************************************)
(* saveLocked: the file is replaced, or the save fails and the memory is   *)
(* ahead of it.  Statements have no file.                                  *)
(***************************************************************************)
Save ==
  IF Local
    THEN \/ /\ file' = [folders |-> folders', placement |-> placement']
            /\ unsaved' = 0
         \/ Ahead
    ELSE UNCHANGED <<file, unsaved>>

CreateFolder(f, name) ==
  /\ f \notin Exists /\ f \in FolderId /\ name \in FolderName
  /\ ~NameTaken(name, f)
  /\ After(Positions(folders)) < MaxPosition
  /\ folders' = [g \in Exists \cup {f} |->
                   IF g # f THEN folders[g]
                   ELSE [name |-> name, position |-> IF Local THEN Cardinality(Exists)
                                                     ELSE After(Positions(folders))]]
  /\ UNCHANGED <<stored, placement, checked>>
  /\ Save

Renamed(f, name) == folders' = [folders EXCEPT ![f].name = name]

\* In memory the checks and the change are under one lock.
RenameFolder(f, name) ==
  /\ Local /\ f \in Exists
  /\ ~NamedTrash(f) /\ ~NameTaken(name, f)
  /\ Renamed(f, name)
  /\ UNCHANGED <<stored, placement, checked>>
  /\ Save

Deleted(f) ==
  /\ folders' = [g \in Exists \ {f} |-> folders[g]]
  /\ placement' = [d \in Placed |-> IF placement[d] = f THEN NoFolder ELSE placement[d]]

\* Mutant of DeleteFolder: the decks stay in the folder.
MutantDeleteFolder(f) ==
  /\ Local /\ f \in Exists
  /\ ~NamedTrash(f)
  /\ folders' = [g \in Exists \ {f} |-> folders[g]]
  /\ placement' = placement
  /\ UNCHANGED <<stored, checked>>
  /\ Save

DeleteFolder(f) ==
  /\ Local /\ f \in Exists
  /\ ~NamedTrash(f)
  /\ Deleted(f)
  /\ UNCHANGED <<stored, checked>>
  /\ Save

(***************************************************************************)
(* The new order has as many folders as there are.  In memory positions    *)
(* change before an unknown or repeated one is noticed; the database rolls *)
(* back.                                                                   *)
(***************************************************************************)
Accepted(ids, i) == /\ ids[i] \in Exists
                    /\ \A j \in 1 .. i - 1 : ids[j] # ids[i]

ReorderFolders(ids) ==
  LET good == {n \in 0 .. Cardinality(Exists) : \A i \in 1 .. n : Accepted(ids, i)}
      place(f) == CHOOSE i \in good \ {0} : ids[i] = f
      moved == [f \in Exists |->
                  IF \E i \in good \ {0} : ids[i] = f
                    THEN [folders[f] EXCEPT !.position = place(f) - 1]
                    ELSE folders[f]]
  IN  /\ UNCHANGED <<stored, placement, checked>>
      /\ \/ /\ Cardinality(Exists) \in good
            /\ folders' = moved
            /\ Save
         \/ /\ Cardinality(Exists) \notin good /\ Local
            /\ folders' = moved
            /\ Ahead

MoveDecks(d, f) ==
  /\ Local /\ f \in Exists \cup {NoFolder}
  /\ placement' = [placement EXCEPT ![d] = f]
  /\ UNCHANGED <<stored, folders, checked>>
  /\ Save

\* OpenLocal after a restart.
Reopen ==
  /\ Local
  /\ folders' = Trash(file.folders) /\ placement' = file.placement
  /\ file' = [folders |-> folders', placement |-> placement']
  /\ unsaved' = 0
  /\ UNCHANGED <<stored, checked>>

\* Catalog, and Snapshot which puts the Trash last in memory only.
View ==
  /\ folders' = IF Local \/ ~\E f \in Exists : NamedTrash(f)
                  THEN Trash(folders) ELSE folders
  /\ UNCHANGED <<stored, placement, checked>>
  /\ IF Local THEN Ahead ELSE UNCHANGED <<file, unsaved>>

--------------------------------------------------------------------------------
\* The database: a request of each kind may be between its check and its write.
Check(request) ==
  /\ ~Local
  /\ \A r \in checked : r.kind # request.kind
  /\ \/ request.kind \in {"rename", "delete"} /\ request.folder \in Exists
        /\ ~NamedTrash(request.folder)
     \/ request.kind = "move" /\ request.folder \in Exists
  /\ checked' = checked \cup {request}
  /\ UNCHANGED <<stored, folders, placement, file, unsaved>>

\* Mutant of Write: no foreign key between placements and folders.
MutantWrite(request) ==
  LET f == request.folder
  IN  /\ checked' = checked \ {request}
      /\ UNCHANGED <<stored, file, unsaved>>
      /\ \/ request.kind = "delete" /\ f \in Exists /\ Deleted(f)
         \/ /\ request.kind = "move"
            /\ placement' = [placement EXCEPT ![request.deck] = f]
            /\ folders' = folders
         \/ /\ request.kind = "rename" \/ (request.kind = "delete" /\ f \notin Exists)
            /\ UNCHANGED <<folders, placement>>

(***************************************************************************)
(* Names are unique per user, a placement refers to a folder that exists,  *)
(* and forgets one that is deleted (schema.go); else the statement fails.  *)
(***************************************************************************)
Write(request) ==
  LET f == request.folder
  IN  /\ checked' = checked \ {request}
      /\ UNCHANGED <<stored, file, unsaved>>
      /\ \/ /\ request.kind = "rename" /\ f \in Exists /\ ~NameTaken(request.name, f)
            /\ Renamed(f, request.name)
            /\ placement' = placement
         \/ request.kind = "delete" /\ f \in Exists /\ Deleted(f)
         \/ /\ request.kind = "move" /\ f \in Exists
            /\ placement' = [placement EXCEPT ![request.deck] = f]
            /\ folders' = folders
         \/ /\ f \in Exists => request.kind = "rename" /\ NameTaken(request.name, f)
            /\ UNCHANGED <<folders, placement>>

Requests == [kind : {"rename"}, folder : AllIds, name : AllNames]
              \cup [kind : {"delete"}, folder : AllIds]
              \cup [kind : {"move"}, folder : AllIds, deck : Placed]

Orders == [1 .. Cardinality(Exists) -> AllIds \cup {"unknown"}]

CatalogueNext ==
  \/ \E f \in AllIds, name \in AllNames : CreateFolder(f, name) \/ RenameFolder(f, name)
  \/ \E f \in AllIds : DeleteFolder(f)
  \/ \E ids \in Orders : ReorderFolders(ids)
  \/ \E d \in Placed, f \in AllIds \cup {NoFolder} : MoveDecks(d, f)
  \/ Reopen \/ View
  \/ \E request \in Requests : Check(request)
  \/ \E request \in checked : Write(request)

CatalogueSpec == CatalogueInit /\ [][CatalogueNext]_catalogueVars

--------------------------------------------------------------------------------
\* Types of the folders and of the placements.
CatalogueTypeOK ==
  /\ stored \in {"file", "database"} /\ unsaved \in 0 .. MaxUnsaved
  /\ Exists \subseteq AllIds
  /\ \A f \in Exists : folders[f] \in [name : AllNames, position : Nat]
  /\ placement \in [Placed -> AllIds \cup {NoFolder}]
  /\ checked \subseteq Requests

(***************************************************************************)
(* No deck is lost to view in a folder that is gone, no two folders share  *)
(* a name (so there is one Trash, whoever made it), in memory, in the file *)
(* and in the tables, whatever statements come between check and write.    *)
(***************************************************************************)
FoldersWhole ==
  \A fs \in {<<folders, placement>>, <<file.folders, file.placement>>} :
    /\ \A d \in Placed : fs[2][d] \in DOMAIN fs[1] \cup {NoFolder}
    /\ \A f, g \in DOMAIN fs[1] : fs[1][f].name = fs[1][g].name => f = g

\* What was answered with success is there after a restart: memory and file
\* agree until a save fails or a refused order has moved some of the folders.
SavedIsKept == Local /\ unsaved = 0 => /\ file.folders = folders
                                    /\ file.placement = placement
================================================================================
