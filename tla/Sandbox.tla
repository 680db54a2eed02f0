-------------------------------- MODULE Sandbox --------------------------------
(***************************************************************************)
(* internal/server/railway_sandbox.go: an agent pass that runs in a remote *)
(* sandbox.  The deck is hashed and copied there by a dispatcher process,  *)
(* which returns the files the agent changed and destroys the sandbox; the *)
(* server compares each file with its hash and renames the new one over    *)
(* it, without the content lock, while people save and other passes end.   *)
(***************************************************************************)
EXTENDS Naturals

CONSTANTS Pass,            \* agent passes, numbers above 2: what a pass writes
          Tree,            \* paths of a deck and of the library
          MaxHandEdits     \* bound: saves by people

ASSUME SandboxAssumption == /\ Pass \subseteq Nat /\ Pass \cap 0..2 = {}
                            /\ MaxHandEdits \in Nat

None == 0
Base == 1
ByHand == 2

VARIABLES disk,       \* the content at each path
          pass,       \* what the server and the dispatcher know of each pass
          remote,     \* the sandbox of each pass: none, alive, gone
          handEdits   \* saves so far

sandboxVars == <<disk, pass, remote, handEdits>>

Verdict == {"clean", "failed", "truncated"}   \* failed: also the one that ran out of time

\* late and raced (history): the paths others changed before and after the check of them.
Fresh == [at |-> "idle", original |-> [p \in Tree |-> None], changes |-> {},
          verdict |-> "failed", destroyed |-> FALSE, cancelled |-> FALSE,
          checked |-> {}, written |-> {}, late |-> {}, raced |-> {}, broken |-> FALSE]

SandboxInit ==
  /\ disk \in [Tree -> {None, Base}]
  /\ pass = [x \in Pass |-> Fresh]
  /\ remote = [x \in Pass |-> "none"]
  /\ handEdits = 0

\* What is left of a pass that failed: whether something may have stayed behind.
Failed(broken) == [Fresh EXCEPT !.at = "failed", !.broken = broken]

Running(x) == pass[x].at \notin {"idle", "done", "failed"}

\* What the others see of a write of content c at p (history, not code).
Noticed(p, c, me) ==
  [x \in Pass |->
     IF x = me \/ pass[x].at \in {"idle", "failed"} THEN pass[x]
     ELSE IF p \in pass[x].checked \/ pass[x].at = "done"
       THEN [pass[x] EXCEPT !.raced = @ \cup {p}]
     ELSE IF c = pass[x].original[p] THEN [pass[x] EXCEPT !.late = @ \ {p}]
     ELSE [pass[x] EXCEPT !.late = @ \cup {p}]]

SaveByHand(p) ==
  /\ handEdits < MaxHandEdits
  /\ \E c \in {None, ByHand} \ {disk[p]} :
        disk' = [disk EXCEPT ![p] = c] /\ pass' = Noticed(p, c, None)
  /\ handEdits' = handEdits + 1
  /\ UNCHANGED remote

--------------------------------------------------------------------------------
\* The dispatcher.

\* Or the input is refused: a link, a path outside, too much of it.
CollectInputs(x) ==
  /\ pass[x].at = "idle"
  /\ \/ pass' = [pass EXCEPT ![x].at = "starting", ![x].original = disk]
     \/ pass' = [pass EXCEPT ![x] = Failed(FALSE)]
  /\ UNCHANGED <<disk, remote, handEdits>>

\* A cancelled dispatcher destroys the sandbox as soon as it has been made.
CreateSandbox(x) ==
  /\ pass[x].at = "starting"
  /\ \/ /\ remote' = [remote EXCEPT ![x] = "alive"]
        /\ pass' = [pass EXCEPT
                      ![x].at = IF pass[x].cancelled THEN "closing" ELSE "working"]
     \/ /\ pass' = [pass EXCEPT ![x].at = "closing"]
        /\ UNCHANGED remote
  /\ UNCHANGED <<disk, handEdits>>

\* The files are only fetched when the agent ended well and in time.
RunAgent(x) ==
  /\ pass[x].at = "working"
  /\ \E verdict \in Verdict, changes \in SUBSET Tree :
        /\ verdict = "failed" => changes = {}
        /\ pass[x].cancelled => verdict = "failed"
        /\ pass' = [pass EXCEPT ![x].at = "closing", ![x].verdict = verdict,
                                ![x].changes = changes]
  /\ UNCHANGED <<disk, remote, handEdits>>

\* The dispatcher destroys the sandbox, or notes that it could not, and reports.
DestroySandbox(x) ==
  /\ pass[x].at = "closing"
  /\ \/ /\ remote[x] = "alive"
        /\ remote' = [remote EXCEPT ![x] = "gone"]
        /\ pass' = [pass EXCEPT ![x].at = "reported", ![x].destroyed = TRUE]
     \/ /\ pass' = [pass EXCEPT ![x].at = "reported", ![x].broken = remote[x] = "alive"]
        /\ UNCHANGED remote
  /\ UNCHANGED <<disk, handEdits>>

\* runSandboxDispatcher: the deadline interrupts, the grace period kills.
Deadline(x) ==
  /\ pass[x].at \in {"starting", "working", "closing"} /\ ~pass[x].cancelled
  /\ pass' = [pass EXCEPT ![x].cancelled = TRUE]
  /\ UNCHANGED <<disk, remote, handEdits>>

KillDispatcher(x) ==
  /\ pass[x].at \in {"starting", "working", "closing"} /\ pass[x].cancelled
  /\ \/ UNCHANGED remote
     \/ pass[x].at = "starting" /\ remote' = [remote EXCEPT ![x] = "alive"]
  /\ pass' = [pass EXCEPT ![x] = Failed(TRUE)]
  /\ UNCHANGED <<disk, handEdits>>

--------------------------------------------------------------------------------
\* The server.

\* Mutant of Accept: the report is taken although the sandbox may still run.
MutantAccept(x) ==
  /\ pass[x].at = "reported"
  /\ pass' = [pass EXCEPT ![x] = IF @.verdict = "clean"
                                   THEN [@ EXCEPT !.at = "checking"]
                                   ELSE Failed(@.broken)]
  /\ UNCHANGED <<disk, remote, handEdits>>

Accept(x) ==
  /\ pass[x].at = "reported"
  /\ pass' = [pass EXCEPT ![x] = IF @.verdict = "clean" /\ @.destroyed /\ ~@.cancelled
                                   THEN [@ EXCEPT !.at = "checking"]
                                   ELSE Failed(@.broken)]
  /\ UNCHANGED <<disk, remote, handEdits>>

\* Mutant of CheckChange: a file that was not there is not looked for.
MutantCheckChange(x, p) ==
  /\ pass[x].at = "checking" /\ p \in pass[x].changes \ pass[x].checked
  /\ pass' = IF disk[p] = pass[x].original[p] \/ pass[x].original[p] = None
               THEN [pass EXCEPT ![x].checked = @ \cup {p}]
               ELSE [pass EXCEPT ![x] = Failed(@.broken)]
  /\ UNCHANGED <<disk, remote, handEdits>>

\* The first loop of applyRailwaySandboxChanges.
CheckChange(x, p) ==
  /\ pass[x].at = "checking" /\ p \in pass[x].changes \ pass[x].checked
  /\ pass' = IF disk[p] = pass[x].original[p]
               THEN [pass EXCEPT ![x].checked = @ \cup {p}]
               ELSE [pass EXCEPT ![x] = Failed(@.broken)]
  /\ UNCHANGED <<disk, remote, handEdits>>

\* The second loop starts when every change has been checked.
WriteChange(x, p) ==
  /\ pass[x].at \in {"checking", "writing"} /\ pass[x].checked = pass[x].changes
  /\ p \in pass[x].changes \ pass[x].written
  /\ \/ /\ disk' = [disk EXCEPT ![p] = x]
        /\ pass' = [Noticed(p, x, x) EXCEPT ![x].at = "writing", ![x].written = @ \cup {p}]
     \/ /\ pass' = [pass EXCEPT ![x] = Failed(TRUE)]
        /\ UNCHANGED disk
  /\ UNCHANGED <<remote, handEdits>>

EndPass(x) ==
  /\ pass[x].at \in {"checking", "writing"}
  /\ pass[x].checked = pass[x].changes /\ pass[x].written = pass[x].changes
  /\ pass' = [pass EXCEPT ![x] = [Fresh EXCEPT !.at = "done", !.changes = pass[x].changes,
                                               !.raced = pass[x].raced]]
  /\ UNCHANGED <<disk, remote, handEdits>>

\* The server dies with its dispatchers; the sandboxes stay.
StopServer ==
  /\ \E x \in Pass : Running(x)
  /\ pass' = [x \in Pass |-> IF Running(x) THEN Failed(TRUE) ELSE pass[x]]
  /\ UNCHANGED <<disk, remote, handEdits>>

\* The service ends a sandbox that has been idle for idleTimeoutMinutes.
IdleTimeout(x) ==
  /\ remote[x] = "alive" /\ ~Running(x)
  /\ remote' = [remote EXCEPT ![x] = "gone"]
  /\ UNCHANGED <<disk, pass, handEdits>>

SandboxNext ==
  \/ StopServer
  \/ \E p \in Tree : SaveByHand(p)
  \/ \E x \in Pass :
       \/ CollectInputs(x) \/ CreateSandbox(x) \/ RunAgent(x) \/ DestroySandbox(x)
       \/ Deadline(x) \/ KillDispatcher(x) \/ Accept(x) \/ EndPass(x) \/ IdleTimeout(x)
       \/ \E p \in Tree : CheckChange(x, p) \/ WriteChange(x, p)

SandboxSpec == SandboxInit /\ [][SandboxNext]_sandboxVars

--------------------------------------------------------------------------------
(***************************************************************************)
(* What a pass brings back replaces files only when the sandbox is gone    *)
(* and the agent ended well, and only if nobody had changed any of those   *)
(* files between the copy and the check: then no file of the pass is       *)
(* written.  A pass that ended well has written all its files, which stay  *)
(* until somebody writes them again.                                       *)
(***************************************************************************)
ResultsFitTheTree ==
  \A x \in Pass :
    /\ pass[x].written # {} => /\ remote[x] = "gone" /\ pass[x].verdict = "clean"
                               /\ pass[x].late \cap pass[x].changes = {}
    /\ pass[x].at = "done" => \A p \in pass[x].changes \ pass[x].raced : disk[p] = x
    /\ pass[x].at = "failed" /\ ~pass[x].broken => \A p \in Tree : disk[p] # x

(***************************************************************************)
(* A pass that has ended has left no sandbox behind, but for a dispatcher  *)
(* that was killed, a sandbox the service refused to destroy, and a server *)
(* that died.                                                              *)
(***************************************************************************)
SandboxesEnd ==
  \A x \in Pass : ~Running(x) /\ remote[x] = "alive" => pass[x].broken

SandboxTypeOK ==
  /\ disk \in [Tree -> {None, Base, ByHand} \cup Pass]
  /\ remote \in [Pass -> {"none", "alive", "gone"}]
  /\ handEdits \in 0..MaxHandEdits
  /\ \A x \in Pass : /\ pass[x].verdict \in Verdict
                     /\ pass[x].written \subseteq pass[x].checked
                     /\ pass[x].checked \subseteq pass[x].changes
                     /\ pass[x].raced \subseteq Tree
================================================================================
