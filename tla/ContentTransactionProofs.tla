------------------------ MODULE ContentTransactionProofs ------------------------
(***************************************************************************)
(* Crash atomicity of the journalled replacement, for every set of paths,  *)
(* contents and valid projections and any number of faults: the invariant  *)
(* IInv is inductive, and under it every step is a step of AtomicContent   *)
(* or invisible to a recovered reader.                                     *)
(***************************************************************************)
EXTENDS ContentTransaction, TLAPS

USE DEF Content

\* A projection stays one when a file is written or removed.
LEMMA ExceptContent ==
  ASSUME NEW c \in Content, NEW p \in Path, NEW d \in Data \cup {Absent}
  PROVE  /\ [c EXCEPT ![p] = d] \in Content
         /\ [c EXCEPT ![p] = d][p] = d
         /\ \A q \in Path \ {p} : [c EXCEPT ![p] = d][q] = c[q]
  OBVIOUS

\* The empty projection, a missing and a torn journal have their types.
LEMMA EmptyTypes ==
  /\ Empty \in Content
  /\ NoJournal \in [state : {"none", "torn", "whole"}, before : Content, incoming : SUBSET Path]
  /\ TornJournal \in [state : {"none", "torn", "whole"}, before : Content, incoming : SUBSET Path]
  BY DEF Empty, NoJournal, TornJournal

\* The journal a transaction writes has its type and records the content.
LEMMA WholeJournalType ==
  ASSUME TypeOK
  PROVE  WholeJournal \in [state : {"none", "torn", "whole"}, before : Content, incoming : SUBSET Path]
  BY DEF TypeOK, WholeJournal, Present

\* Every initial state satisfies the invariant.
LEMMA InitIInv == Init => IInv
<1> SUFFICES ASSUME Init PROVE IInv
  OBVIOUS
<1>1. TypeOK
  BY EmptyTypes, ValidAssumption, FaultAssumption DEF Init, TypeOK
<1>2. QED
  BY <1>1 DEF Init, IInv, JournalPhase, ApplyProgress, RecoverProgress, NoJournal

\* The types are preserved by every step.
LEMMA TypeStep == IInv /\ [Next]_vars => TypeOK'
<1> SUFFICES ASSUME IInv, [Next]_vars PROVE TypeOK'
  OBVIOUS
<1> USE DEF TypeOK
<1>0. TypeOK
  BY DEF IInv
<1>1. ASSUME NEW p \in Path, NEW d \in Data \cup {Absent}, EngineSave(p, d) PROVE TypeOK'
  BY <1>0, <1>1, ExceptContent DEF EngineSave, memory
<1>2. ASSUME NEW new \in Valid, BeginTransaction(new) PROVE TypeOK'
  BY <1>0, <1>2, EmptyTypes, ValidAssumption DEF BeginTransaction
<1>3. CASE WriteJournal
  BY <1>0, <1>3, WholeJournalType DEF WriteJournal, Present
<1>4. CASE JournalFails
  BY <1>0, <1>4, EmptyTypes, WholeJournalType, FaultAssumption DEF JournalFails, Release, Fault
<1>5. ASSUME NEW p \in Path, RemoveStale(p) PROVE TypeOK'
  BY <1>0, <1>5, ExceptContent DEF RemoveStale
<1>6. ASSUME NEW p \in Path, WriteIncoming(p) PROVE TypeOK'
  BY <1>0, <1>6, ExceptContent DEF WriteIncoming
<1>7. CASE Commit
  BY <1>0, <1>7, EmptyTypes DEF Commit, Release
<1>8. CASE ApplyFails
  BY <1>0, <1>8, EmptyTypes, FaultAssumption DEF ApplyFails, Fault, Rollback, Present
<1>9. CASE StartRecover
  BY <1>0, <1>9 DEF StartRecover, Rollback, Present
<1>10. ASSUME NEW p \in Path, RecoverRemove(p) PROVE TypeOK'
  BY <1>0, <1>10, ExceptContent DEF RecoverRemove
<1>11. ASSUME NEW p \in Path, RecoverWrite(p) PROVE TypeOK'
  BY <1>0, <1>11, ExceptContent DEF RecoverWrite
<1>12. CASE FinishRecover
  BY <1>0, <1>12, EmptyTypes DEF FinishRecover, Release
<1>13. CASE RecoverFails
  BY <1>0, <1>13, EmptyTypes, FaultAssumption DEF RecoverFails, Release, Fault, disk
<1>14. CASE Crash
  BY <1>0, <1>14, EmptyTypes, FaultAssumption DEF Crash, Release, Fault, disk
<1>15. CASE UNCHANGED vars
  BY <1>0, <1>15 DEF vars
<1>16. QED
  BY <1>1, <1>2, <1>3, <1>4, <1>5, <1>6, <1>7, <1>8, <1>9, <1>10, <1>11, <1>12,
     <1>13, <1>14, <1>15 DEF Next, Step

\* The parts of the invariant about the journal and the progress of its holder.
LEMMA JournalStep == IInv /\ [Next]_vars => (JournalPhase /\ ApplyProgress /\ RecoverProgress)'
<1> SUFFICES ASSUME IInv, [Next]_vars
             PROVE  (JournalPhase /\ ApplyProgress /\ RecoverProgress)'
  OBVIOUS
<1> DEFINE Goal == (JournalPhase /\ ApplyProgress /\ RecoverProgress)'
<1> USE DEF JournalPhase, ApplyProgress, RecoverProgress
<1>0. TypeOK /\ JournalPhase /\ ApplyProgress /\ RecoverProgress
  BY DEF IInv
<1>1. ASSUME NEW p \in Path, NEW d \in Data \cup {Absent}, EngineSave(p, d) PROVE Goal
  BY <1>0, <1>1 DEF EngineSave, memory, TypeOK
<1>2. ASSUME NEW new \in Valid, BeginTransaction(new) PROVE Goal
  BY <1>0, <1>2 DEF BeginTransaction, TornJournal
<1>3. CASE WriteJournal
  BY <1>0, <1>3 DEF WriteJournal, WholeJournal, Present, TypeOK
<1>4. CASE JournalFails
  BY <1>0, <1>4 DEF JournalFails, Release, TornJournal, WholeJournal
<1>5. ASSUME NEW p \in Path, RemoveStale(p) PROVE Goal
  BY <1>0, <1>5 DEF RemoveStale, Present, TypeOK
<1>6. ASSUME NEW p \in Path, WriteIncoming(p) PROVE Goal
  BY <1>0, <1>6 DEF WriteIncoming, TypeOK
<1>7. CASE Commit
  BY <1>0, <1>7 DEF Commit, Release, NoJournal
<1>8. ASSUME Rollback, journal.state = "whole" PROVE Goal
  BY <1>0, <1>8 DEF Rollback, Present, RolledBack, TypeOK
<1>9. CASE ApplyFails
  BY <1>0, <1>8, <1>9 DEF ApplyFails
<1>10. CASE StartRecover
  BY <1>8, <1>10 DEF StartRecover
<1>11. ASSUME NEW p \in Path, RecoverRemove(p) PROVE Goal
  BY <1>0, <1>11 DEF RecoverRemove, Present, RolledBack, TypeOK
<1>12. ASSUME NEW p \in Path, RecoverWrite(p) PROVE Goal
  BY <1>0, <1>12 DEF RecoverWrite, Present, RolledBack, TypeOK
<1>13. CASE FinishRecover
  BY <1>0, <1>13 DEF FinishRecover, Release, NoJournal
<1>14. CASE RecoverFails
  BY <1>0, <1>14 DEF RecoverFails, Release, disk
<1>15. CASE Crash
  BY <1>0, <1>15 DEF Crash, Release, disk
<1>16. CASE UNCHANGED vars
  BY <1>0, <1>16 DEF vars, RolledBack
<1>17. QED
  BY <1>1, <1>2, <1>3, <1>4, <1>5, <1>6, <1>7, <1>9, <1>10, <1>11, <1>12, <1>13,
     <1>14, <1>15, <1>16 DEF Next, Step

\* The types and the recovery invariant hold in every reachable state.
THEOREM Invariance == Spec => []IInv
<1>1. IInv /\ [Next]_vars => IInv'
  BY TypeStep, JournalStep DEF IInv
<1>2. QED
  BY InitIInv, <1>1, PTL DEF Spec

\* Every variable keeps its type.
COROLLARY TypeCorrect == Spec => []TypeOK
<1>1. IInv => TypeOK
  BY DEF IInv
<1>2. QED
  BY Invariance, <1>1, PTL

--------------------------------------------------------------------------------
\* Rolling back a journal just written gives the content it was written from.
LEMMA FreshRollback ==
  ASSUME TypeOK
  PROVE  RolledBack(content, WholeJournal) = content
  BY DEF TypeOK, RolledBack, WholeJournal, Present

\* A change to a path the journal covers does not change what it restores.
LEMMA CoveredPath ==
  ASSUME TypeOK, NEW p \in Path, NEW d \in Data \cup {Absent},
         p \in Present(journal.before) \cup journal.incoming
  PROVE  RolledBack([content EXCEPT ![p] = d], journal) = RolledBack(content, journal)
  BY DEF TypeOK, RolledBack, Present

\* A change to another path is kept by the recovery, and is the only change.
LEMMA UncoveredPath ==
  ASSUME TypeOK, NEW p \in Path, NEW d \in Data \cup {Absent},
         p \notin Present(journal.before) \cup journal.incoming
  PROVE  RolledBack([content EXCEPT ![p] = d], journal)
           = [RolledBack(content, journal) EXCEPT ![p] = d]
  BY DEF TypeOK, RolledBack, Present

\* The first projection is one an abstract behaviour may start from.
LEMMA AtomicInit == Init => Atomic!Init
  BY DEF Init, Atomic!Init, visible, NoJournal, Empty

\* Every step of a replacement or of a recovery is a step of AtomicContent or
\* invisible: only the removal of the journal of a finished replacement shows.
LEMMA AtomicStep == IInv /\ [Next]_vars => [Atomic!Next]_visible
<1> SUFFICES ASSUME IInv, [Next]_vars PROVE Atomic!Next \/ visible' = visible
  OBVIOUS
<1> USE DEF visible
<1>0. TypeOK /\ JournalPhase /\ ApplyProgress /\ RecoverProgress
  BY DEF IInv
<1>1. ASSUME NEW p \in Path, NEW d \in Data \cup {Absent}, EngineSave(p, d)
      PROVE  Atomic!Next \/ visible' = visible
  <2>1. /\ content' = [content EXCEPT ![p] = d]
        /\ journal' = journal
    BY <1>1 DEF EngineSave
  <2>2. CASE journal.state # "whole"
    BY <2>1, <2>2 DEF Atomic!Next, Atomic!Save
  <2>3. CASE journal.state = "whole" /\ p \in Present(journal.before) \cup journal.incoming
    BY <1>0, <2>1, <2>3, CoveredPath
  <2>4. CASE journal.state = "whole" /\ p \notin Present(journal.before) \cup journal.incoming
    BY <1>0, <2>1, <2>4, UncoveredPath, Zenon DEF Atomic!Next, Atomic!Save
  <2>5. QED
    BY <2>2, <2>3, <2>4
<1>2. ASSUME NEW new \in Valid, BeginTransaction(new) PROVE visible' = visible
  BY <1>2 DEF BeginTransaction, TornJournal
<1>3. ASSUME content' = content, journal.state = "torn", journal' \in {TornJournal, WholeJournal}
      PROVE  visible' = visible
  BY <1>0, <1>3, FreshRollback DEF TornJournal, WholeJournal
<1>4. CASE WriteJournal
  BY <1>0, <1>3, <1>4 DEF WriteJournal, JournalPhase
<1>5. CASE JournalFails
  BY <1>0, <1>3, <1>5 DEF JournalFails, JournalPhase
<1>6. ASSUME NEW p \in Path, NEW d \in Data \cup {Absent}, journal' = journal,
             content' = [content EXCEPT ![p] = d], journal.state = "whole",
             p \in Present(journal.before) \cup journal.incoming
      PROVE  visible' = visible
  BY <1>0, <1>6, CoveredPath
<1>7. ASSUME NEW p \in Path, RemoveStale(p) PROVE visible' = visible
  BY <1>0, <1>6, <1>7 DEF RemoveStale, JournalPhase, ApplyProgress
<1>8. ASSUME NEW p \in Path, WriteIncoming(p) PROVE visible' = visible
  <2>1. target[p] \in Data \cup {Absent}
    BY <1>0 DEF TypeOK
  <2>2. QED
    BY <1>0, <1>6, <1>8, <2>1 DEF WriteIncoming, JournalPhase, ApplyProgress
<1>9. CASE Commit
  <2>1. content = target /\ target \in Valid
    BY <1>0, <1>9 DEF Commit, JournalPhase, ApplyProgress, TypeOK
  <2>2. visible' = target
    BY <1>9, <2>1 DEF Commit, NoJournal
  <2>3. QED
    BY <2>1, <2>2 DEF Atomic!Next, Atomic!Replace
<1>10. ASSUME Rollback PROVE visible' = visible
  BY <1>10 DEF Rollback, RolledBack
<1>11. CASE ApplyFails
  BY <1>10, <1>11 DEF ApplyFails
<1>12. CASE StartRecover
  BY <1>10, <1>12 DEF StartRecover
<1>13. ASSUME NEW p \in Path, RecoverRemove(p) PROVE visible' = visible
  BY <1>0, <1>6, <1>13 DEF RecoverRemove, JournalPhase, RecoverProgress
<1>14. ASSUME NEW p \in Path, RecoverWrite(p) PROVE visible' = visible
  <2>1. journal.before[p] \in Data \cup {Absent}
    BY <1>0 DEF TypeOK
  <2>2. QED
    BY <1>0, <1>6, <1>14, <2>1 DEF RecoverWrite, JournalPhase, RecoverProgress
<1>15. CASE FinishRecover
  <2>1. content = RolledBack(content, journal)
    BY <1>0, <1>15 DEF FinishRecover, RecoverProgress, RolledBack, TypeOK
  <2>2. QED
    BY <1>0, <1>15, <2>1 DEF FinishRecover, JournalPhase, NoJournal
<1>16. CASE RecoverFails \/ Crash
  BY <1>16 DEF RecoverFails, Crash, disk, RolledBack
<1>17. CASE UNCHANGED vars
  BY <1>17 DEF vars, RolledBack
<1>18. QED
  BY <1>1, <1>2, <1>4, <1>5, <1>7, <1>8, <1>9, <1>11, <1>12, <1>13, <1>14, <1>15,
     <1>16, <1>17 DEF Next, Step

\* The journalled replacement implements the atomic one, whatever crashes.
THEOREM Atomicity == Spec => AtomicReplacement
<1>1. QED
  BY Invariance, AtomicInit, AtomicStep, PTL DEF Spec, AtomicReplacement, Atomic!Spec
================================================================================
