--------------------------- MODULE ContentSyncProofs ---------------------------
(***************************************************************************)
(* Theorems about ContentSync, for all sets of changes and conflicts, and  *)
(* any number of failing commands and restarts.  That "synced" is true     *)
(* takes one to follow what was notified when a pass began from the        *)
(* worktree to HEAD and to the branch: PassProgress.                       *)
(***************************************************************************)
EXTENDS ContentSync, TLAPS

(***************************************************************************)
(* A save stays in the worktree while the server that made it runs; and if *)
(* nothing was notified since a pass began, what was notified before is in *)
(* HEAD once the pass has committed, and on the branch once it has pushed. *)
(***************************************************************************)
PassProgress ==
  /\ saving \cup notified \subseteq work
  /\ phase = "boot" => saving = {} /\ notified = {}
  /\ phase \in {"fetch", "integrate", "push"} /\ generation = startGeneration
       => notified \subseteq head
  /\ phase = "finish" /\ generation = startGeneration => notified \subseteq remote

SyncInv == TypeOK /\ PassProgress /\ SyncedMeansPushed

--------------------------------------------------------------------------------
\* The worker starts with nothing saved and nothing reported.
LEMMA SyncInit == Init => SyncInv
<1> SUFFICES ASSUME Init PROVE SyncInv
  OBVIOUS
<1>1. TypeOK
  <2>1. /\ work \in SUBSET Change /\ head \in SUBSET work
        /\ fetched \in SUBSET remote /\ remote \in SUBSET Change
        /\ saving \in SUBSET Save /\ notified \in SUBSET (Save \ saving)
    BY DEF Init
  <2>2. generation \in Nat /\ startGeneration \in 0..generation
    BY DEF Init
  <2>3. faults \in 0..MaxFaults /\ restarts \in 0..MaxRestarts
    BY BoundAssumption DEF Init
  <2>4. wake \in BOOLEAN /\ timer \in BOOLEAN
    BY DEF Init
  <2> QED
    BY <2>1, <2>2, <2>3, <2>4 DEF Init, TypeOK
<1>2. PassProgress /\ SyncedMeansPushed
  BY DEF Init, PassProgress, SyncedMeansPushed
<1> QED
  BY <1>1, <1>2 DEF SyncInv

\* Every action keeps the types: HEAD stays inside the worktree, FETCH_HEAD inside
\* the branch, and a pass began no later than now.
LEMMA SyncTypeStep == TypeOK /\ [Next]_vars => TypeOK'
<1> SUFFICES ASSUME TypeOK, [Next]_vars PROVE TypeOK'
  OBVIOUS
<1> USE ChangeAssumption, BoundAssumption DEF TypeOK, Change
<1>1. ASSUME NEW s \in Save, SaveFiles(s) PROVE TypeOK'
  BY <1>1 DEF SaveFiles, status, worker
<1>2. ASSUME NEW s \in Save, Notify(s) PROVE TypeOK'
  BY <1>2 DEF Notify, content
<1>3. ASSUME NEW x \in Elsewhere, PushElsewhere(x) PROVE TypeOK'
  BY <1>3 DEF PushElsewhere, handlers, status, worker
<1>4. CASE Debounce
  BY <1>4 DEF Debounce, content, handlers, status
<1>5. ASSUME NEW debounced \in BOOLEAN, BeginSync(debounced) PROVE TypeOK'
  BY <1>5 DEF BeginSync, content, handlers, status
<1>6. CASE Commit
  BY <1>6 DEF Commit, Enter, handlers, status
<1>7. CASE Fetch
  BY <1>7 DEF Fetch, Enter, handlers, status
<1>8. CASE Integrate
  BY <1>8 DEF Integrate, Enter, handlers, status
<1>9. CASE Push
  BY <1>9 DEF Push, Accepted, Enter, handlers, status
<1>10. CASE Finish
  BY <1>10 DEF Finish, Enter, content, handlers
<1>11. CASE Refused
  BY <1>11 DEF Refused, RecordError, Enter, content, handlers
<1>12. CASE Bootstrap
  BY <1>12 DEF Bootstrap, Enter, handlers
<1>13. CASE CommandFails
  BY <1>13 DEF CommandFails, Accepted, RecordError, Enter, handlers
<1>14. CASE Die
  <2>1. wake' \in BOOLEAN /\ timer' \in BOOLEAN
    BY <1>14 DEF Die
  <2>2. generation' \in Nat /\ startGeneration' \in 0..generation'
    BY <1>14 DEF Die
  <2>3. restarts' \in 0..MaxRestarts /\ faults' \in 0..MaxFaults
    BY <1>14 DEF Die
  <2>4. saving' \in SUBSET Save /\ notified' \in SUBSET (Save \ saving')
    BY <1>14 DEF Die
  <2> QED
    BY <1>14, <2>1, <2>2, <2>3, <2>4 DEF Die, content
<1>15. CASE UNCHANGED vars
  BY <1>15 DEF vars, content, handlers, status, worker
<1> QED
  BY <1>1, <1>2, <1>3, <1>4, <1>5, <1>6, <1>7, <1>8, <1>9, <1>10, <1>11, <1>12,
     <1>13, <1>14, <1>15 DEF Next, Loop

\* What a pass has done so far is not undone by saves, by others' pushes, by failing
\* commands or by a restart; a notification ends the claim about the pass.
LEMMA SyncPassStep == SyncInv /\ [Next]_vars => PassProgress' /\ SyncedMeansPushed'
<1> SUFFICES ASSUME SyncInv, [Next]_vars PROVE (PassProgress /\ SyncedMeansPushed)'
  OBVIOUS
<1> USE ChangeAssumption, BoundAssumption
    DEF SyncInv, TypeOK, PassProgress, SyncedMeansPushed, Change
<1> DEFINE Goal == (PassProgress /\ SyncedMeansPushed)'
<1>1. ASSUME NEW s \in Save, SaveFiles(s) PROVE Goal
  BY <1>1 DEF SaveFiles, Running, status, worker
<1>2. ASSUME NEW s \in Save, Notify(s) PROVE Goal
  <2>1. generation' # startGeneration' /\ state' # "synced" /\ phase' # "boot"
    BY <1>2 DEF Notify, Running, content
  <2> QED
    BY <1>2, <2>1 DEF Notify, content
<1>3. ASSUME NEW x \in Elsewhere, PushElsewhere(x) PROVE Goal
  BY <1>3 DEF PushElsewhere, handlers, status, worker
<1>4. CASE Debounce
  BY <1>4 DEF Debounce, content, handlers, status
<1>5. ASSUME NEW debounced \in BOOLEAN, BeginSync(debounced) PROVE Goal
  BY <1>5 DEF BeginSync, content, handlers, status
<1>6. CASE Commit
  BY <1>6 DEF Commit, Enter, handlers, status
<1>7. CASE Fetch
  BY <1>7 DEF Fetch, Enter, handlers, status
<1>8. CASE Integrate
  BY <1>8 DEF Integrate, Enter, handlers, status
<1>9. CASE Push
  <2>1. remote \subseteq remote' /\ head \subseteq remote'
    BY <1>9 DEF Push, Accepted
  <2> QED
    BY <1>9, <2>1 DEF Push, Enter, handlers, status
<1>10. CASE Finish
  BY <1>10 DEF Finish, Enter, content, handlers
<1>11. CASE Refused
  BY <1>11 DEF Refused, RecordError, Enter, content, handlers
<1>12. CASE Bootstrap
  BY <1>12 DEF Bootstrap, Enter, handlers
<1>13. CASE CommandFails
  BY <1>13 DEF CommandFails, RecordError, Enter, handlers
<1>14. CASE Die
  BY <1>14 DEF Die, content
<1>15. CASE UNCHANGED vars
  BY <1>15 DEF vars, content, handlers, status, worker
<1> QED
  BY <1>1, <1>2, <1>3, <1>4, <1>5, <1>6, <1>7, <1>8, <1>9, <1>10, <1>11, <1>12,
     <1>13, <1>14, <1>15 DEF Next, Loop

\* The invariant holds in every reachable state.
THEOREM SyncInvariance == Spec => []SyncInv
<1>1. SyncInv /\ [Next]_vars => SyncInv'
  BY SyncTypeStep, SyncPassStep DEF SyncInv
<1> QED
  BY SyncInit, <1>1, PTL DEF Spec

\* The worker's variables keep their types.
THEOREM SyncTypeCorrect == Spec => []TypeOK
<1>1. SyncInv => TypeOK
  BY DEF SyncInv
<1> QED
  BY SyncInvariance, <1>1, PTL

\* Status is "synced" only when every save that was notified is on GitHub.
THEOREM SyncedIsPushed == Spec => []SyncedMeansPushed
<1>1. SyncInv => SyncedMeansPushed
  BY DEF SyncInv
<1> QED
  BY SyncInvariance, <1>1, PTL

\* The worker takes nothing off the branch, whoever pushed it: only a push and a push
\* without an answer write it, and neither is accepted unless it has all that is there.
THEOREM BranchOnlyGrows == Spec => RemoteOnlyGrows
<1>1. [Next]_vars => [remote \subseteq remote']_vars
  <2> SUFFICES ASSUME [Next]_vars PROVE remote \subseteq remote' \/ UNCHANGED vars
    OBVIOUS
  <2>1. CASE Push
    BY <2>1 DEF Push, Accepted
  <2>2. CASE CommandFails
    BY <2>2 DEF CommandFails, Accepted
  <2>3. CASE Next /\ ~Push /\ ~CommandFails
    BY <2>3 DEF Next, Loop, SaveFiles, Notify, PushElsewhere, Debounce, BeginSync, Commit,
       Fetch, Integrate, Finish, Refused, Bootstrap, Die, content
  <2> QED
    BY <2>1, <2>2, <2>3
<1> QED
  BY <1>1, PTL DEF Spec, RemoteOnlyGrows
================================================================================
