------------------------------- MODULE AgentQueue -------------------------------
(***************************************************************************)
(* internal/server/agent.go: the worker that has a coding agent carry out  *)
(* the notes presenters leave on slides.  The queue is the companion files *)
(* themselves: a note is a bullet under "Edit requests", which also holds  *)
(* the marker of the pass in progress or of its error.  The loop takes     *)
(* slides from a list it read before, passes run in goroutines, the agent  *)
(* works in a branch that is merged back under the content lock, and the   *)
(* worker rewrites markers without that lock.  What the agent makes of a   *)
(* note, and the browsers, are external.                                   *)
(***************************************************************************)
EXTENDS SequencesExt

CONSTANTS Order,        \* the slides in deck order
          Note,         \* notes, each left at most once
          Imagery,      \* notes the agent wants an image for
          Prior,        \* notes on hold from the start, their image queued
          Stuck,        \* notes on hold whose image never becomes usable
          Conc,         \* passes at a time
          MaxPerHour,   \* the rate cap
          MaxSplits,    \* bound: reads others may come after, before their use
          MaxClears,    \* bound: errors cleared
          MaxCrashes    \* bound: deaths of the server process

ASSUME LimitAssumption == /\ Conc \in Nat \ {0} /\ MaxPerHour \in Nat \ {0}
                          /\ MaxSplits \in Nat /\ MaxClears \in Nat /\ MaxCrashes \in Nat
ASSUME OrderAssumption == IsFiniteSet(ToSet(Order))
ASSUME NoteAssumption == /\ Imagery \subseteq Note /\ Prior \subseteq Note
                         /\ Stuck \subseteq Note

Slide == ToSet(Order)

VARIABLES companion,   \* of each slide: marker, notes, notes on hold, log
          imaging,     \* notes with a request in requests/ of the studio
          asked,       \* notes whose image the agent requested in its branch
          left,        \* notes a browser was told are queued, with their slide
          draft,       \* what a browser that submits a note read
          sweep,       \* the candidates the loop has not looked at yet, taken in deck order
          used,        \* runs of the last hour
          pass,        \* the goroutine of each slide
          up, splits, clears, crashes,
          stale        \* whether something read was written back over a change

images == <<imaging, asked>>
loop == <<sweep, used>>
people == <<left, draft, clears>>
process == <<up, crashes>>
vars == <<companion, images, people, loop, pass, process, splits, stale>>

None == [phase |-> "none"]

Empty == [marker |-> "none", open |-> {}, held |-> {}, log |-> {}]

Init == /\ \E at \in [Prior -> Slide] :
             companion = [s \in Slide |-> [Empty EXCEPT !.held = {n \in Prior : at[n] = s}]]
        /\ imaging = Prior /\ asked = {}
        /\ left = {} /\ draft = [n \in Note |-> None]
        /\ sweep = {} /\ used = 0
        /\ pass = [s \in Slide |-> None]
        /\ up = TRUE /\ splits = 0 /\ clears = 0 /\ crashes = 0 /\ stale = FALSE

\* The content lock is taken only to replace the content.
Unlocked == \A s \in Slide : pass[s].phase # "replace"

--------------------------------------------------------------------------------
\* Browsers, through the edit API.

(***************************************************************************)
(* The player reads the section and replaces it with what it read and the  *)
(* note; the write takes the content lock and compares nothing.            *)
(***************************************************************************)
Queued(s, read, n) ==
  [companion EXCEPT ![s] = [@ EXCEPT !.marker = read.marker, !.open = read.open \cup {n},
                                     !.held = read.held]]

New(n) == n \notin Prior /\ draft[n] = None /\ ~\E s \in Slide : <<n, s>> \in left

LeaveNote(n, s) ==
  /\ up /\ Unlocked /\ New(n)
  /\ companion' = Queued(s, companion[s], n)
  /\ left' = left \cup {<<n, s>>}
  /\ UNCHANGED <<images, draft, clears, loop, pass, process, splits, stale>>

ReadSection(n, s) ==
  /\ up /\ New(n)
  /\ splits < MaxSplits
  /\ splits' = splits + 1
  /\ draft' = [draft EXCEPT ![n] = [phase |-> "read", slide |-> s, read |-> companion[s]]]
  /\ UNCHANGED <<companion, images, left, clears, loop, pass, process, stale>>

PutSection(n) ==
  /\ up /\ Unlocked
  /\ draft[n] # None
  /\ LET s == draft[n].slide
         read == draft[n].read
     IN  /\ companion' = Queued(s, read, n)
         /\ left' = left \cup {<<n, s>>}
         /\ stale' = (stale \/ [read EXCEPT !.log = companion[s].log] # companion[s])
  /\ draft' = [draft EXCEPT ![n] = None]
  /\ UNCHANGED <<images, clears, loop, pass, process, splits>>

\* A person deletes the line of an error, to have the slide taken again.
ClearError(s) ==
  /\ up /\ Unlocked
  /\ companion[s].marker = "error"
  /\ clears < MaxClears
  /\ clears' = clears + 1
  /\ companion' = [companion EXCEPT ![s].marker = "none"]
  /\ UNCHANGED <<images, left, draft, loop, pass, process, splits, stale>>

\* An image of requests/ is generated, or given up: its request is archived.
ImageLands(n) ==
  /\ n \in imaging
  /\ imaging' = imaging \ {n}
  /\ UNCHANGED <<companion, asked, people, loop, pass, process, splits, stale>>

--------------------------------------------------------------------------------
\* The loop.

\* A slide with a request in requests/ stays on hold.
OnHold(s) == companion[s].held \cap imaging # {}

\* nextAll
Candidate(s) ==
  /\ companion[s].marker = "none"
  /\ companion[s].open # {} \/ (companion[s].held # {} /\ ~OnHold(s))

Inflight == {s \in Slide : pass[s] # None}

(***************************************************************************)
(* A slide whose pass has not set its marker yet, or has merged what the   *)
(* agent left and not flagged it yet, is listed again; by the time the     *)
(* loop comes to it the pass may be over.                                  *)
(***************************************************************************)
ListQueue ==
  /\ up
  /\ sweep = {}
  /\ sweep' = {s \in Slide : Candidate(s)}
  /\ IF \A s \in Inflight : ~Candidate(s)
       THEN UNCHANGED splits
       ELSE splits < MaxSplits /\ splits' = splits + 1
  /\ UNCHANGED <<companion, images, people, used, pass, process, stale>>

\* Mutant of Allowed: the cap is not looked at.
MutantAllowed == TRUE

Allowed == used < MaxPerHour

First == Order[Min({i \in DOMAIN Order : Order[i] \in sweep})]

\* A slide that has a pass, or finds all places taken, waits for a later sweep.
Skip ==
  /\ sweep # {}
  /\ First \in Inflight \/ Cardinality(Inflight) >= Conc
  /\ sweep' = sweep \ {First}
  /\ UNCHANGED <<companion, images, people, used, pass, process, splits, stale>>

Take ==
  /\ sweep # {}
  /\ First \notin Inflight /\ Cardinality(Inflight) < Conc
  /\ IF Allowed
       THEN /\ sweep' = sweep \ {First}
            /\ used' = used + 1
            /\ pass' = [pass EXCEPT ![First] = [phase |-> "start"]]
       ELSE sweep' = {} /\ UNCHANGED <<used, pass>>
  /\ UNCHANGED <<companion, images, people, process, splits, stale>>

\* An hour after a run it does not count any more.
HourPasses ==
  /\ used > 0
  /\ used' = used - 1
  /\ UNCHANGED <<companion, images, people, sweep, pass, process, splits, stale>>

--------------------------------------------------------------------------------
\* Passes.

Enter(s, next) == pass' = [pass EXCEPT ![s] = next]

(***************************************************************************)
(* mark, as the worker's step from one phase to the next: the file is read *)
(* and written back with another marker, without the content lock.  Either *)
(* nothing comes between (Mark) or other steps do (ReadMark, WriteMark).   *)
(***************************************************************************)
Mark(s, marker, next) ==
  /\ companion' = [companion EXCEPT ![s].marker = marker]
  /\ Enter(s, next)
  /\ UNCHANGED <<splits, stale>>

ReadMark(s, marker, next) ==
  /\ splits < MaxSplits
  /\ splits' = splits + 1
  /\ Enter(s, [phase |-> "marking", read |-> companion[s], marker |-> marker, next |-> next])
  /\ UNCHANGED <<companion, stale>>

WriteMark(s) ==
  /\ pass[s].phase = "marking"
  /\ companion' = [companion EXCEPT ![s] = [pass[s].read EXCEPT !.marker = pass[s].marker]]
  /\ stale' = (stale \/ companion[s] # pass[s].read)
  /\ Enter(s, pass[s].next)
  /\ UNCHANGED <<images, people, loop, process, splits>>

Marking(s, marker, next) ==
  /\ Mark(s, marker, next) \/ ReadMark(s, marker, next)
  /\ UNCHANGED <<images, people, loop, process>>

MarkProgress(s) ==
  /\ pass[s].phase = "start"
  /\ Marking(s, "progress", [phase |-> "branch"])

\* BeginBranch: the agent gets a copy, and the base of the later merge.
Branch(s) ==
  /\ pass[s].phase = "branch"
  /\ Unlocked
  /\ Enter(s, [phase |-> "agent", base |-> companion[s]])
  /\ UNCHANGED <<companion, images, people, loop, process, splits, stale>>

(***************************************************************************)
(* The agent made of the companion in its branch: it resolved some notes,  *)
(* put some on hold for an image it requests, left the rest, and cleared   *)
(* the marker or forgot to.  It resolves a note whose image it can use.    *)
(***************************************************************************)
Work(base, resolved, waiting, marker) ==
  [marker |-> marker,
   open |-> base.open \ (resolved \cup waiting),
   held |-> (base.held \ resolved) \cup waiting,
   log |-> base.log \cup resolved]

\* Mutant of Merge: the agent's section wins over the presenter's.
MutantMerge(base, branch, current) ==
  [(IF branch = [base EXCEPT !.log = branch.log] THEN current ELSE branch)
     EXCEPT !.log = current.log \cup branch.log]

(***************************************************************************)
(* The merge of the companion, current preferred.  The agent never appends *)
(* to "Edit requests", so that section is the agent's only if nobody else  *)
(* changed it; lines appended to the log survive on both sides.            *)
(***************************************************************************)
Merge(base, branch, current) ==
  [(IF current = [base EXCEPT !.log = current.log] THEN branch ELSE current)
     EXCEPT !.log = current.log \cup branch.log]

(***************************************************************************)
(* FinishBranch, under the content lock: the studio is read, merged and    *)
(* replaced, the companions of other slides included.  Requests the agent  *)
(* wrote to requests/ are not part of the content that is merged.          *)
(***************************************************************************)
Return(s, branch, waiting) ==
  /\ asked' = asked \cup waiting
  /\ \/ /\ companion' = [companion EXCEPT ![s] = Merge(pass[s].base, branch, @)]
        /\ Enter(s, [phase |-> "clear"])
        /\ UNCHANGED splits
     \/ /\ splits < MaxSplits
        /\ splits' = splits + 1
        /\ Enter(s, [phase |-> "replace", read |-> companion,
                     merged |-> Merge(pass[s].base, branch, companion[s])])
        /\ UNCHANGED companion

Finish(s) ==
  /\ pass[s].phase = "agent"
  /\ Unlocked
  /\ LET base == pass[s].base
     IN  \E waiting \in SUBSET (base.open \cap Imagery),
            marker \in {base.marker, "none"} :
           \E resolved \in SUBSET ((base.open \cup base.held) \ waiting) :
             /\ base.held \ (imaging \cup Stuck) \subseteq resolved
             /\ Return(s, Work(base, resolved, waiting, marker), waiting)
  /\ UNCHANGED <<imaging, people, loop, process, stale>>

Replace(s) ==
  /\ pass[s].phase = "replace"
  /\ companion' = [pass[s].read EXCEPT ![s] = pass[s].merged]
  /\ stale' = (stale \/ companion # pass[s].read)
  /\ Enter(s, [phase |-> "clear"])
  /\ UNCHANGED <<images, people, loop, process, splits>>

\* The agent fails or times out; its branch is not merged.
Fail(s) ==
  /\ pass[s].phase \in {"branch", "agent"}
  /\ Marking(s, "error", [phase |-> "done"])

\* Mutant of ClearMarker: a marker the agent forgot stays.
MutantClearMarker(s) ==
  /\ pass[s].phase = "clear"
  /\ Enter(s, [phase |-> "check"])
  /\ UNCHANGED <<companion, images, people, loop, process, splits, stale>>

ClearMarker(s) ==
  /\ pass[s].phase = "clear"
  /\ IF companion[s].marker = "progress"
       THEN Marking(s, "none", [phase |-> "check"])
       ELSE /\ Enter(s, [phase |-> "check"])
            /\ UNCHANGED <<companion, images, people, loop, process, splits, stale>>

\* Mutant of CheckResolved: what the agent left is not flagged.
MutantCheckResolved(s) ==
  /\ pass[s].phase = "check"
  /\ Enter(s, [phase |-> "done"])
  /\ UNCHANGED <<companion, images, people, loop, process, splits, stale>>

\* A pass that leaves live bullets is flagged.
CheckResolved(s) ==
  /\ pass[s].phase = "check"
  /\ IF companion[s].open # {}
       THEN Marking(s, "error", [phase |-> "done"])
       ELSE /\ Enter(s, [phase |-> "done"])
            /\ UNCHANGED <<companion, images, people, loop, process, splits, stale>>

End(s) ==
  /\ pass[s].phase = "done"
  /\ Enter(s, None)
  /\ UNCHANGED <<companion, images, people, loop, process, splits, stale>>

--------------------------------------------------------------------------------
\* The process dies; the count of the runs is lost with it.
Die ==
  /\ up
  /\ crashes < MaxCrashes
  /\ crashes' = crashes + 1
  /\ up' = FALSE
  /\ sweep' = {} /\ used' = 0
  /\ pass' = [s \in Slide |-> None]
  /\ UNCHANGED <<companion, images, people, splits, stale>>

\* recoverInterruptedPasses
Recover ==
  /\ ~up
  /\ up' = TRUE
  /\ companion' = [s \in Slide |->
       IF companion[s].marker = "progress" THEN [companion[s] EXCEPT !.marker = "none"]
                                           ELSE companion[s]]
  /\ UNCHANGED <<images, people, loop, pass, crashes, splits, stale>>

LoopStep == ListQueue \/ Skip \/ Take

PassStep(s) ==
  \/ MarkProgress(s)
  \/ WriteMark(s)
  \/ Branch(s)
  \/ Finish(s)
  \/ Replace(s)
  \/ Fail(s)
  \/ ClearMarker(s)
  \/ CheckResolved(s)
  \/ End(s)

Next == \/ \E n \in Note, s \in Slide : LeaveNote(n, s) \/ ReadSection(n, s)
        \/ \E n \in Note : PutSection(n) \/ ImageLands(n)
        \/ \E s \in Slide : ClearError(s) \/ PassStep(s)
        \/ LoopStep
        \/ HourPasses
        \/ Die
        \/ Recover

Spec == Init /\ [][Next]_vars

(***************************************************************************)
(* The loop wakes every 15 seconds, every pass has a deadline, time passes *)
(* and a dead server is started again.  Nobody has to leave notes, clear   *)
(* errors or finish a submission; images may wait for a key for ever.      *)
(***************************************************************************)
FairSpec == /\ Spec
            /\ WF_vars(LoopStep)
            /\ \A s \in Slide : WF_vars(PassStep(s))
            /\ WF_vars(HourPasses)
            /\ WF_vars(Recover)

--------------------------------------------------------------------------------
Companion == [marker: {"none", "progress", "error"},
              open: SUBSET Note, held: SUBSET Note, log: SUBSET Note]

Phase == {"none", "start", "marking", "branch", "agent", "replace", "clear", "check", "done"}

TypeOK == /\ companion \in [Slide -> Companion]
          /\ imaging \in SUBSET Note /\ asked \in SUBSET Imagery
          /\ left \in SUBSET (Note \X Slide)
          /\ \A n \in Note : draft[n] = None \/ draft[n].read \in Companion
          /\ sweep \subseteq Slide
          /\ used \in 0..MaxPerHour
          /\ \A s \in Slide : pass[s].phase \in Phase
          /\ Cardinality(Inflight) <= Conc
          /\ Cardinality({s \in Slide : pass[s].phase = "replace"}) <= 1
          /\ splits \in 0..MaxSplits /\ clears \in 0..MaxClears /\ crashes \in 0..MaxCrashes

(***************************************************************************)
(* "An in-progress marker is only valid while this process owns the        *)
(* corresponding inflight entry" (agent.go:169-170); one that outlives its *)
(* pass hides the slide from the queue.  Agents that forget the marker,    *)
(* presenters who save during a pass, failures and restarts leave none, as *)
(* long as nothing stale is written back.                                  *)
(***************************************************************************)
MarkerHasOwner ==
  up /\ ~stale => \A s \in Slide : companion[s].marker = "progress" => s \in Inflight

(***************************************************************************)
(* "Note queued" (player.html:2516): a note left while an agent works on   *)
(* the slide, or on another, is not lost in the merge of what comes back;  *)
(* it stays in the section until it is in the log.                         *)
(***************************************************************************)
NotesKept ==
  ~stale => \A w \in left :
    LET n == w[1]  c == companion[w[2]] IN n \in c.open \cup c.held \cup c.log

(***************************************************************************)
(* "agent will pick it up" (player.html:2516): a note is resolved or put   *)
(* on hold, or its slide shows an error for a person to clear, whatever    *)
(* the rate cap, the limit of passes, other slides and a restart do.  A    *)
(* note whose image never becomes usable would take every run there is.    *)
(***************************************************************************)
NoteIsHandled ==
  []~stale => \A n \in Note, s \in Slide :
    <<n, s>> \in left ~> (n \in companion[s].held \cup companion[s].log
                            \/ companion[s].marker = "error")

(***************************************************************************)
(* "drop a yaml into requests/ [...] so the queue knows it is on hold"     *)
(* (agent.go:486-488): no pass starts on a slide with nothing but notes on *)
(* hold before the image the agent requested for one of them is there.     *)
(***************************************************************************)
HoldsWait ==
  [][\A s \in Slide :
       pass[s] = None /\ pass'[s] # None /\ companion[s].open = {}
         => companion[s].held \cap asked = {}]_vars
================================================================================
