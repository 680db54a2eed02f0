--------------------------- MODULE ContentTransaction ---------------------------
(***************************************************************************)
(* The write-ahead journal of internal/studio/cloud_transaction.go and its *)
(* use by ApplyCloudContent (cloud_content.go): the content projection of  *)
(* a studio is replaced file by file, under the "content" lock, and a      *)
(* journal on disk lets the next sync put the old projection back.         *)
(*                                                                         *)
(* One process at a time holds the lock; "phase" is what that process is   *)
(* doing, and everything but "content" and "journal" is lost when it dies. *)
(* The engine's own saves (editOnly in internal/server/server.go) take the *)
(* same lock, so they happen only in phase "idle".  A file's bytes are one *)
(* member of Data, a projection a function from paths to them.             *)
(***************************************************************************)
EXTENDS Naturals

CONSTANTS Path,       \* paths of the projection (allowedCloudPath)
          Data,       \* contents a file may have
          Absent,     \* no file at this path
          Valid,      \* the projections ValidateCloudContent accepts
          MaxFaults   \* bound: crashes and I/O errors in one behaviour

Content == [Path -> Data \cup {Absent}]

ASSUME DataAssumption == Absent \notin Data
ASSUME ValidAssumption == Valid \subseteq Content
ASSUME FaultAssumption == MaxFaults \in Nat

VARIABLES content,    \* the projected files on disk
          journal,    \* .vstd/cloud-transaction.json on disk
          phase,      \* the lock holder: "idle" | "journal" | "apply" | "recover"
          target,     \* the projection being applied, staged by this process
          removing,   \* paths this process still has to remove
          writing,    \* paths it still has to write, after the removals
          faults      \* crashes and I/O errors so far

disk == <<content, journal>>
memory == <<phase, target, removing, writing>>
vars == <<content, journal, phase, target, removing, writing, faults>>

Present(c) == {p \in Path : c[p] # Absent}

Empty == [p \in Path |-> Absent]

NoJournal == [state |-> "none", before |-> Empty, incoming |-> {}]

\* The file exists but its JSON is not whole: created, and not (all) written.
TornJournal == [state |-> "torn", before |-> Empty, incoming |-> {}]

WholeJournal == [state |-> "whole", before |-> content, incoming |-> Present(target)]

TypeOK == /\ content \in Content
          /\ journal \in [state : {"none", "torn", "whole"}, before : Content,
                          incoming : SUBSET Path]
          /\ phase \in {"idle", "journal", "apply", "recover"}
          /\ target \in Content
          /\ removing \in SUBSET Path
          /\ writing \in SUBSET Path
          /\ faults \in 0..MaxFaults

Init == /\ content \in Valid \cup {Empty}
        /\ journal = NoJournal
        /\ phase = "idle"
        /\ target = Empty
        /\ removing = {}
        /\ writing = {}
        /\ faults = 0

Release == /\ phase' = "idle"
           /\ target' = Empty
           /\ removing' = {}
           /\ writing' = {}

Fault == faults < MaxFaults /\ faults' = faults + 1

(***************************************************************************)
(* A save of the engine: the handlers of a running server write under the  *)
(* lock and never look at the journal, which only studio.Open checks.      *)
(***************************************************************************)
EngineSave(p, d) ==
  /\ phase = "idle"
  /\ d # content[p]
  /\ content' = [content EXCEPT ![p] = d]
  /\ UNCHANGED <<journal, memory, faults>>

(***************************************************************************)
(* ApplyCloudContent up to the O_EXCL creation of the journal.  Reading    *)
(* the current projection needs it valid and no journal pending; an empty  *)
(* root is accepted as it is (the target of a clone).                      *)
(***************************************************************************)
BeginTransaction(new) ==
  /\ phase = "idle"
  /\ journal.state = "none"
  /\ content \in Valid \cup {Empty}
  /\ journal' = TornJournal
  /\ phase' = "journal"
  /\ target' = new
  /\ UNCHANGED <<content, removing, writing, faults>>

\* The journal is written and flushed, and the per-file replacement starts.
WriteJournal ==
  /\ phase = "journal"
  /\ journal' = WholeJournal
  /\ phase' = "apply"
  /\ removing' = Present(content) \ Present(target)
  /\ writing' = Present(target)
  /\ UNCHANGED <<content, target, faults>>

(***************************************************************************)
(* Writing or flushing the journal fails: ApplyCloudContent returns before *)
(* it defers the recovery, and whatever reached the file stays there.      *)
(***************************************************************************)
JournalFails ==
  /\ phase = "journal"
  /\ Fault
  /\ journal' \in {TornJournal, WholeJournal}
  /\ Release
  /\ UNCHANGED content

RemoveStale(p) ==
  /\ phase = "apply"
  /\ p \in removing
  /\ content' = [content EXCEPT ![p] = Absent]
  /\ removing' = removing \ {p}
  /\ UNCHANGED <<journal, phase, target, writing, faults>>

WriteIncoming(p) ==
  /\ phase = "apply"
  /\ removing = {}
  /\ p \in writing
  /\ content' = [content EXCEPT ![p] = target[p]]
  /\ writing' = writing \ {p}
  /\ UNCHANGED <<journal, phase, target, removing, faults>>

\* Mutant of Commit: the journal is removed before the files are written.
MutantCommit ==
  /\ phase = "apply"
  /\ removing = {}
  /\ journal' = NoJournal
  /\ Release
  /\ UNCHANGED <<content, faults>>

\* finishCloudTransaction: the journal is removed when every file is in place.
Commit ==
  /\ phase = "apply"
  /\ removing = {} /\ writing = {}
  /\ journal' = NoJournal
  /\ Release
  /\ UNCHANGED <<content, faults>>

\* Mutant of Rollback: files that were there before are removed as well.
MutantRollback ==
  /\ phase' = "recover"
  /\ removing' = journal.incoming
  /\ writing' = Present(journal.before)
  /\ UNCHANGED <<content, journal>>

(***************************************************************************)
(* RecoverCloudContent, once it has read a whole journal: remove the       *)
(* incoming paths that were not there, then rewrite every file that was.   *)
(***************************************************************************)
Rollback ==
  /\ phase' = "recover"
  /\ removing' = journal.incoming \ Present(journal.before)
  /\ writing' = Present(journal.before)
  /\ UNCHANGED <<content, journal>>

\* A file operation of the replacement fails: the deferred recovery runs.
ApplyFails ==
  /\ phase = "apply"
  /\ Fault
  /\ target' = Empty
  /\ Rollback

\* The next sync, or "vstd cloud workspace recover", finds a whole journal.
\* A torn journal is refused and nothing changes.
StartRecover ==
  /\ phase = "idle"
  /\ journal.state = "whole"
  /\ UNCHANGED <<target, faults>>
  /\ Rollback

RecoverRemove(p) ==
  /\ phase = "recover"
  /\ p \in removing
  /\ content' = [content EXCEPT ![p] = Absent]
  /\ removing' = removing \ {p}
  /\ UNCHANGED <<journal, phase, target, writing, faults>>

RecoverWrite(p) ==
  /\ phase = "recover"
  /\ removing = {}
  /\ p \in writing
  /\ content' = [content EXCEPT ![p] = journal.before[p]]
  /\ writing' = writing \ {p}
  /\ UNCHANGED <<journal, phase, target, removing, faults>>

\* Mutant of FinishRecover: the journal is not removed.
MutantFinishRecover ==
  /\ phase = "recover"
  /\ removing = {} /\ writing = {}
  /\ Release
  /\ UNCHANGED <<content, journal, faults>>

FinishRecover ==
  /\ phase = "recover"
  /\ removing = {} /\ writing = {}
  /\ journal' = NoJournal
  /\ Release
  /\ UNCHANGED <<content, faults>>

\* Recovery fails half-way: the journal stays for the next attempt.
RecoverFails ==
  /\ phase = "recover"
  /\ Fault
  /\ Release
  /\ UNCHANGED disk

\* The process dies; the kernel drops its lock.
Crash ==
  /\ phase # "idle"
  /\ Fault
  /\ Release
  /\ UNCHANGED disk

Step == \/ WriteJournal
        \/ \E p \in Path : RemoveStale(p) \/ WriteIncoming(p)
        \/ Commit
        \/ StartRecover
        \/ \E p \in Path : RecoverRemove(p) \/ RecoverWrite(p)
        \/ FinishRecover

Next == \/ \E p \in Path, d \in Data \cup {Absent} : EngineSave(p, d)
        \/ \E new \in Valid : BeginTransaction(new)
        \/ Step
        \/ JournalFails
        \/ ApplyFails
        \/ RecoverFails
        \/ Crash

Spec == Init /\ [][Next]_vars

(***************************************************************************)
(* A running process goes on, and a pending journal is picked up: "vstd    *)
(* serve" syncs every two seconds and each sync starts with the recovery.  *)
(***************************************************************************)
FairSpec == Spec /\ WF_vars(Step)

--------------------------------------------------------------------------------
\* The projection the next reader gets once a pending journal is rolled back.
RolledBack(c, j) ==
  [p \in Path |-> IF j.before[p] # Absent THEN j.before[p]
                  ELSE IF p \in j.incoming THEN Absent
                  ELSE c[p]]

visible == IF journal.state = "whole" THEN RolledBack(content, journal) ELSE content

Atomic == INSTANCE AtomicContent

(***************************************************************************)
(* Crash atomicity (the comment above cloudTransaction: the journal "makes *)
(* replacement recoverable even when a process dies"): through every       *)
(* interleaving of file operations, crashes, failed and repeated           *)
(* recoveries, what a recovered reader sees changes only by one engine     *)
(* save or to a whole validated projection.                                *)
(***************************************************************************)
AtomicReplacement == Atomic!Spec

(***************************************************************************)
(* No mixture is left behind without a journal: outside a running          *)
(* replacement, either the journal is gone and every file not saved by the *)
(* engine since is as the last whole projection had it, or a whole journal *)
(* can still put it right.  In parts: who may hold which journal, what the *)
(* replacement has done so far, and what the recovery has done so far.     *)
(***************************************************************************)
JournalPhase ==
  /\ phase = "journal" => journal.state = "torn"
  /\ phase \in {"apply", "recover"} => journal.state = "whole"
  /\ phase \in {"journal", "apply"} => target \in Valid

ApplyProgress ==
  phase = "apply" =>
    /\ journal.incoming = Present(target)
    /\ removing \subseteq Present(journal.before) \ Present(target)
    /\ writing \subseteq Present(target)
    /\ \A p \in Path \ (removing \cup writing) : content[p] = target[p]

RecoverProgress ==
  phase = "recover" =>
    /\ removing \subseteq journal.incoming \ Present(journal.before)
    /\ writing \subseteq Present(journal.before)
    /\ \A p \in Path \ (removing \cup writing) :
         content[p] = RolledBack(content, journal)[p]

IInv == TypeOK /\ JournalPhase /\ ApplyProgress /\ RecoverProgress

(***************************************************************************)
(* Every pending journal is rolled back in the end, however often the      *)
(* recovery itself was interrupted (README: "the next sync restores the    *)
(* pre-pull projection"), unless it is torn.                               *)
(***************************************************************************)
PendingJournalResolved == journal.state = "whole" ~> journal.state = "none"

(***************************************************************************)
(* What README.md:275-276 says: an interrupted pull is undone by the next  *)
(* sync, so a journal nobody is writing any more can be recovered from.    *)
(***************************************************************************)
AbandonedJournalIsWhole == journal.state = "torn" => phase = "journal"
================================================================================
