------------------------------- MODULE EditorSession -------------------------------
(***************************************************************************)
(* internal/server/editor_session.go and editor_transform.go: the engine   *)
(* edits one deck for a gateway in the Cloud.  A session serves requests   *)
(* one at a time under a lock, so that the snapshot the gateway commits    *)
(* before it acknowledges a save is that of whole edits; a transform has a *)
(* folder of its own and answers with the difference it made.              *)
(***************************************************************************)
EXTENDS Naturals

CONSTANTS Gateway,      \* requests the gateway has under way
          EditedFile,   \* the files of the deck; an edit writes several
          Absence,      \* of a file
          MaxEditions   \* bound: edits

ASSUME EditorAssumption == MaxEditions \in Nat

VARIABLES folder,   \* of each file: the edit that wrote it, or Absence
          editions, \* bound: edits begun
          sessionMu, \* requests that hold the lock: one at most
          gatewayWork,  \* of each: step, number of the edit or files read so far
          snapshots,   \* history: snapshots given, with the edits done when each began
          finished, \* history: edits answered since the last restore
          sessionUp \* until it expires

editorVars == <<folder, editions, sessionMu, gatewayWork, snapshots, finished, sessionUp>>

NoFiles == [f \in EditedFile |-> Absence]
NoEditorRequest ==
  [step |-> "none", edit |-> 0, read |-> NoFiles, todo |-> {}, before |-> {}]

EditorInit ==
  /\ folder = [f \in EditedFile |-> 0] /\ editions = 0 /\ sessionMu = {}
  /\ gatewayWork = [g \in Gateway |-> NoEditorRequest]
  /\ snapshots = {} /\ finished = {} /\ sessionUp = TRUE

\* Mutant of LockSession: the session has no lock.
MutantLockSession(g) == sessionMu' = sessionMu \cup {g}

LockSession(g) == sessionMu = {} /\ sessionMu' = {g}

EndEditorRequest(g) ==
  /\ gatewayWork' = [gatewayWork EXCEPT ![g] = NoEditorRequest]
  /\ sessionMu' = sessionMu \ {g}

\* An edit the session allows; it writes some of the files, one after the other.
BeginEdition(g) ==
  /\ sessionUp /\ gatewayWork[g].step = "none" /\ editions < MaxEditions
  /\ LockSession(g)
  /\ editions' = editions + 1
  /\ gatewayWork' = [gatewayWork EXCEPT ![g] = [NoEditorRequest EXCEPT !.step = "edit",
                                          !.edit = editions + 1, !.todo = EditedFile]]
  /\ UNCHANGED <<folder, snapshots, finished, sessionUp>>

WriteEdition(g) ==
  /\ gatewayWork[g].step = "edit"
  /\ \E f \in gatewayWork[g].todo :
       /\ folder' = [folder EXCEPT ![f] = gatewayWork[g].edit]
       /\ gatewayWork' = [gatewayWork EXCEPT ![g].todo = @ \ {f}]
  /\ UNCHANGED <<editions, sessionMu, snapshots, finished, sessionUp>>

EndEdition(g) ==
  /\ gatewayWork[g].step = "edit" /\ gatewayWork[g].todo = {}
  /\ finished' = finished \cup {gatewayWork[g].edit}
  /\ EndEditorRequest(g)
  /\ UNCHANGED <<folder, editions, snapshots, sessionUp>>

\* GET snapshot (and the exports and thumbnails): the files are read one by one.
BeginSnapshot(g) ==
  /\ sessionUp /\ gatewayWork[g].step = "none"
  /\ LockSession(g)
  /\ gatewayWork' = [gatewayWork EXCEPT ![g] = [NoEditorRequest EXCEPT !.step = "read",
                                          !.todo = EditedFile, !.before = finished]]
  /\ UNCHANGED <<folder, editions, snapshots, finished, sessionUp>>

ReadFiles(g) ==
  /\ gatewayWork[g].step = "read"
  /\ \E f \in gatewayWork[g].todo :
       gatewayWork' = [gatewayWork EXCEPT ![g].todo = @ \ {f}, ![g].read[f] = folder[f]]
  /\ UNCHANGED <<folder, editions, sessionMu, snapshots, finished, sessionUp>>

ServeSnapshot(g) ==
  /\ gatewayWork[g].step = "read" /\ gatewayWork[g].todo = {}
  /\ snapshots' = snapshots \cup {[files |-> gatewayWork[g].read,
                                    before |-> gatewayWork[g].before]}
  /\ EndEditorRequest(g)
  /\ UNCHANGED <<folder, editions, finished, sessionUp>>

\* PUT snapshot: the files are replaced by a transaction (ContentTransaction), to
\* those of a snapshot given earlier; the build after it may fail, the files stay.
RestoreCheckpoint(g) ==
  /\ sessionUp /\ gatewayWork[g].step = "none" /\ sessionMu = {}
  /\ \E s \in snapshots :
       /\ folder' = s.files
       /\ finished' = {e \in finished : e \in {s.files[f] : f \in EditedFile}}
  /\ UNCHANGED <<editions, sessionMu, gatewayWork, snapshots, sessionUp>>

\* The token expires: what is under way is finished, nothing else begins.
Expire ==
  /\ sessionUp /\ sessionUp' = FALSE
  /\ UNCHANGED <<folder, editions, sessionMu, gatewayWork, snapshots, finished>>

EditorNext ==
  \/ \E g \in Gateway :
       \/ BeginEdition(g) \/ WriteEdition(g) \/ EndEdition(g)
       \/ BeginSnapshot(g) \/ ReadFiles(g) \/ ServeSnapshot(g) \/ RestoreCheckpoint(g)
  \/ Expire

EditorSpec == EditorInit /\ [][EditorNext]_editorVars

--------------------------------------------------------------------------------
\* Mutant of Delta: files that are gone are not listed.
MutantDelta(before, after) ==
  [files |-> {f \in EditedFile : after[f] # Absence /\ after[f] # before[f]},
   deleted |-> {}]

\* TransformEditor with delta: what the transform wrote and what it removed.
Delta(before, after) ==
  [files |-> {f \in EditedFile : after[f] # Absence /\ after[f] # before[f]},
   deleted |-> {f \in EditedFile : before[f] # Absence /\ after[f] = Absence}]

\* A gateway that applies an answer to what it sent.
WithDelta(before, after) ==
  LET d == Delta(before, after)
  IN  [f \in EditedFile |-> IF f \in d.files THEN after[f]
                            ELSE IF f \in d.deleted THEN Absence ELSE before[f]]

--------------------------------------------------------------------------------
(***************************************************************************)
(* editor_session.go:30, "a gateway that commits snapshots before          *)
(* acknowledging saves": a snapshot is the work of whole edits, and has    *)
(* every one that was answered before it was asked for (the newest of them *)
(* wrote every file).                                                      *)
(***************************************************************************)
SnapshotsAreWhole ==
  \A s \in snapshots :
    /\ \A f, g \in EditedFile : s.files[f] = s.files[g]
    /\ \A f \in EditedFile, e \in s.before : s.files[f] >= e

(***************************************************************************)
(* The difference a transform answers with is enough to have what it made, *)
(* whatever it wrote and removed.                                          *)
(***************************************************************************)
DeltasAreWhole ==
  \A s, t \in snapshots, gone \in SUBSET EditedFile :
    LET after == [f \in EditedFile |-> IF f \in gone THEN Absence ELSE t.files[f]]
    IN  WithDelta(s.files, after) = after

EditorTypeOK ==
  /\ folder \in [EditedFile -> 0..MaxEditions] /\ editions \in 0..MaxEditions
  /\ sessionMu \subseteq Gateway
  /\ \A g \in Gateway : gatewayWork[g].step \in {"none", "edit", "read"}
================================================================================
