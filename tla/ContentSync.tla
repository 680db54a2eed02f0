------------------------------ MODULE ContentSync ------------------------------
(***************************************************************************)
(* internal/server/content_sync.go: the worker of a hosted studio that     *)
(* commits what the edit handlers saved, reconciles with the branch on     *)
(* GitHub and pushes.  Handlers, the worker and other people's pushes      *)
(* interleave between any two Git commands; Git operations take no lock    *)
(* the handlers know.                                                      *)
(*                                                                         *)
(* A version of the content is the set of the changes it includes: saves   *)
(* made here and changes made elsewhere.  Every change edits tracked       *)
(* files, and two of them conflict only when Conflicts says so.  Git is    *)
(* external; its commands are modelled by what syncOnce relies on.         *)
(***************************************************************************)
EXTENDS Naturals

CONSTANTS Save,        \* changes the hosted edit handlers make
          Elsewhere,   \* changes others push to the branch
          Conflicts,   \* the pairs <<s, x>> that change the same lines
          MaxFaults,   \* bound: failing Git commands
          MaxRestarts  \* bound: deaths of the server process

ASSUME ChangeAssumption == Save \cap Elsewhere = {} /\ Conflicts \subseteq Save \X Elsewhere
ASSUME BoundAssumption == MaxFaults \in Nat /\ MaxRestarts \in Nat

VARIABLES work, head, fetched,   \* worktree, HEAD and FETCH_HEAD
          remote,                \* the branch on GitHub
          saving, notified,      \* handlers between write and Notify; saves notified
          generation, state,     \* what Status reports from, under mu
          wake, timer,           \* the wake channel (capacity 1), the debounce timer
          phase, startGeneration,   \* the syncOnce in progress
          faults, restarts

content == <<work, head, fetched, remote>>
handlers == <<saving, notified>>
status == <<generation, state>>
worker == <<wake, timer, phase, startGeneration>>
vars == <<content, handlers, status, worker, faults, restarts>>

Init == /\ work = {} /\ head = {} /\ fetched = {} /\ remote = {}
        /\ saving = {} /\ notified = {}
        /\ generation = 0 /\ state = "ready"
        /\ wake = FALSE /\ timer = FALSE
        /\ phase = "idle" /\ startGeneration = 0
        /\ faults = 0 /\ restarts = 0

Running == phase # "boot"

\* A handler wrote its files; editOnly notifies when the handler returns.
SaveFiles(s) ==
  /\ Running
  /\ s \notin work \cup notified
  /\ work' = work \cup {s}
  /\ saving' = saving \cup {s}
  /\ UNCHANGED <<head, fetched, remote, notified, status, worker, faults, restarts>>

Notify(s) ==
  /\ Running
  /\ s \in saving
  /\ saving' = saving \ {s}
  /\ notified' = notified \cup {s}
  /\ generation' = generation + 1
  /\ state' = "pending"
  /\ wake' = TRUE
  /\ UNCHANGED <<content, timer, phase, startGeneration, faults, restarts>>

PushElsewhere(x) ==
  /\ x \notin remote
  /\ \A s \in Save \cap remote : <<s, x>> \notin Conflicts
  /\ remote' = remote \cup {x}
  /\ UNCHANGED <<work, head, fetched, handlers, status, worker, faults, restarts>>

\* The loop receives a wake-up and restarts the debounce timer.
Debounce ==
  /\ phase = "idle"
  /\ wake
  /\ wake' = FALSE
  /\ timer' = TRUE
  /\ UNCHANGED <<content, handlers, status, phase, startGeneration, faults, restarts>>

\* The debounce timer or the poll ticker fires; a poll leaves the timer running.
BeginSync(debounced) ==
  /\ phase = "idle"
  /\ debounced => timer
  /\ timer' = (timer /\ ~debounced)
  /\ startGeneration' = generation
  /\ phase' = "commit"
  /\ UNCHANGED <<content, handlers, status, wake, faults, restarts>>

Enter(next) == phase' = next /\ UNCHANGED <<wake, timer, startGeneration>>

\* Mutant of Commit: a pass that finds nothing to commit is done.
MutantCommit ==
  /\ phase = "commit"
  /\ head' = work
  /\ Enter(IF work = head THEN "finish" ELSE "fetch")
  /\ UNCHANGED <<work, fetched, remote, handlers, status, faults, restarts>>

\* git status, add, commit: whatever of the content is in the worktree.
Commit ==
  /\ phase = "commit"
  /\ head' = work
  /\ Enter("fetch")
  /\ UNCHANGED <<work, fetched, remote, handlers, status, faults, restarts>>

Fetch ==
  /\ phase = "fetch"
  /\ fetched' = remote
  /\ Enter("integrate")
  /\ UNCHANGED <<work, head, remote, handlers, status, faults, restarts>>

Clash(ours, theirs) == \E s \in ours, x \in theirs : <<s, x>> \in Conflicts

(***************************************************************************)
(* Whether "merge --ff-only" or "rebase" onto FETCH_HEAD works: the first  *)
(* if no file it updates was saved since the commit, the second only in a  *)
(* worktree without such saves at all, and if nothing conflicts.           *)
(***************************************************************************)
Integrable ==
  \/ fetched \subseteq head
  \/ head \subseteq fetched /\ ~Clash(work \ head, fetched \ head)
  \/ work = head /\ ~Clash(head \ fetched, fetched \ head)

Integrate ==
  /\ phase = "integrate"
  /\ Integrable
  /\ head' = head \cup fetched
  /\ work' = work \cup fetched
  /\ Enter("push")
  /\ UNCHANGED <<fetched, remote, handlers, status, faults, restarts>>

\* Mutant of Accepted: the branch is pushed with --force.
MutantAccepted == TRUE

\* GitHub takes a fast-forward only.
Accepted == remote \subseteq head

Push ==
  /\ phase = "push"
  /\ head = fetched \/ Accepted
  /\ remote' = IF head = fetched THEN remote ELSE head
  /\ Enter("finish")
  /\ UNCHANGED <<work, head, fetched, handlers, status, faults, restarts>>

\* Mutant of Finish: saves notified during the pass are taken for pushed.
MutantFinish ==
  /\ phase = "finish"
  /\ state' = "synced"
  /\ Enter("idle")
  /\ UNCHANGED <<content, handlers, generation, faults, restarts>>

Finish ==
  /\ phase = "finish"
  /\ state' = IF generation = startGeneration THEN "synced" ELSE "pending"
  /\ Enter("idle")
  /\ UNCHANGED <<content, handlers, generation, faults, restarts>>

\* Mutant of RecordError: the error is logged only.
MutantRecordError == Enter("idle") /\ UNCHANGED <<handlers, status, restarts>>

\* syncOnce returns an error; an unsuccessful rebase is aborted.
RecordError ==
  /\ state' = "error"
  /\ Enter("idle")
  /\ UNCHANGED <<handlers, generation, restarts>>

Refused ==
  /\ \/ phase = "integrate" /\ ~Integrable
     \/ phase = "push" /\ head # fetched /\ ~Accepted
  /\ UNCHANGED <<content, faults>>
  /\ RecordError

\* A push that fails may have reached GitHub nevertheless.
CommandFails ==
  /\ phase \in {"commit", "fetch", "integrate", "push"}
  /\ faults < MaxFaults
  /\ faults' = faults + 1
  /\ remote' \in {remote} \cup IF phase = "push" /\ Accepted THEN {head} ELSE {}
  /\ UNCHANGED <<work, head, fetched>>
  /\ RecordError

(***************************************************************************)
(* The process dies; its files stay.  The next one does not serve before   *)
(* bootstrap succeeded.                                                    *)
(***************************************************************************)
Die ==
  /\ Running
  /\ restarts < MaxRestarts
  /\ restarts' = restarts + 1
  /\ phase' = "boot"
  /\ saving' = {} /\ notified' = {}
  /\ generation' = 0 /\ state' = "starting"
  /\ wake' = FALSE /\ timer' = FALSE /\ startGeneration' = 0
  /\ UNCHANGED <<content, faults>>

\* Mutant of Bootstrap: the reset leaves the worktree as it is.
MutantBootstrap ==
  /\ phase = "boot"
  /\ work = head
  /\ fetched' = remote /\ head' = remote
  /\ state' = "ready"
  /\ Enter("idle")
  /\ UNCHANGED <<work, remote, handlers, generation, faults, restarts>>

\* A dirty worktree is refused; otherwise fetch, and reset --hard FETCH_HEAD.
Bootstrap ==
  /\ phase = "boot"
  /\ work = head
  /\ fetched' = remote /\ head' = remote /\ work' = remote
  /\ state' = "ready"
  /\ Enter("idle")
  /\ UNCHANGED <<remote, handlers, generation, faults, restarts>>

Loop == \/ Debounce
        \/ \E debounced \in BOOLEAN : BeginSync(debounced)
        \/ Commit
        \/ Fetch
        \/ Integrate
        \/ Push
        \/ Finish
        \/ Refused
        \/ Bootstrap

Next == \/ \E s \in Save : SaveFiles(s) \/ Notify(s)
        \/ \E x \in Elsewhere : PushElsewhere(x)
        \/ Loop
        \/ CommandFails
        \/ Die

Spec == Init /\ [][Next]_vars

\* The worker goroutine goes on and its tickers fire.
FairSpec == Spec /\ WF_vars(Loop)

--------------------------------------------------------------------------------
Change == Save \cup Elsewhere

TypeOK == /\ work \in SUBSET Change /\ head \in SUBSET work
          /\ fetched \in SUBSET remote /\ remote \in SUBSET Change
          /\ saving \in SUBSET Save /\ notified \in SUBSET (Save \ saving)
          /\ generation \in Nat /\ startGeneration \in 0..generation
          /\ state \in {"starting", "ready", "pending", "synced", "error"}
          /\ wake \in BOOLEAN /\ timer \in BOOLEAN
          /\ phase \in {"idle", "commit", "fetch", "integrate", "push", "finish", "boot"}
          /\ faults \in 0..MaxFaults /\ restarts \in 0..MaxRestarts

(***************************************************************************)
(* "A generation counter ensures a save arriving during a push remains     *)
(* queued for the next pass" (content_sync.go:45-46): the status shown to  *)
(* presenters is "synced" only when every save notified is on GitHub.      *)
(***************************************************************************)
SyncedMeansPushed == state = "synced" => notified \subseteq remote

\* What others pushed to the branch, and what was pushed before, stays there.
RemoteOnlyGrows == [][remote \subseteq remote']_vars

(***************************************************************************)
(* As long as nothing conflicts, the worker gets every save to GitHub,     *)
(* whatever is saved between its commands, however its pushes race with    *)
(* others' and whichever commands fail, unless the process dies.           *)
(***************************************************************************)
SavesArePushed ==
  [](~Clash(work, remote)) => \A s \in Save : s \in notified ~> (s \in remote \/ ~Running)

(***************************************************************************)
(* With a conflict, which only a person can resolve, the status says so: a *)
(* save is not reported as merely pending for ever.                        *)
(***************************************************************************)
StuckIsShown == \A s \in Save : s \in notified ~> (s \in remote \/ state = "error" \/ ~Running)

(***************************************************************************)
(* "hosted commit retained for retry" (content_sync.go:301): what the      *)
(* worker committed stays committed until it is pushed.                    *)
(***************************************************************************)
HostedCommitRetained == [][head \cap Save \subseteq head']_vars
================================================================================
