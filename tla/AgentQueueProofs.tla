---------------------------- MODULE AgentQueueProofs ----------------------------
(***************************************************************************)
(* The notes and markers of the agent's queue, for every deck, every set   *)
(* of notes, every limit of passes and any number of restarts: as long as  *)
(* nothing that was read is written back over a change, a note stays in    *)
(* its companion, and a marker has a pass.                                 *)
(***************************************************************************)
EXTENDS AgentQueue, FiniteSetTheorems, TLAPS

Notes(c) == c.open \cup c.held \cup c.log

(***************************************************************************)
(* What a pass p of slide s, whose companion is c, carries from one step   *)
(* to the next: a merge that keeps the notes of what it was computed from, *)
(* and no marker of a pass once it comes to its end.                       *)
(***************************************************************************)
PassFits(s, p, c) ==
  /\ p.phase = "agent" => p.base \in Companion
  /\ p.phase = "replace" => /\ p.merged \in Companion
                            /\ Notes(p.read[s]) \subseteq Notes(p.merged)
  /\ p.phase = "marking" =>
       /\ p.marker \in {"none", "progress", "error"}
       /\ p.next.phase \in {"branch", "check", "done"}
       /\ p.next.phase \in {"check", "done"} => p.marker # "progress"
  /\ p.phase \in {"check", "done"} => c.marker # "progress"

\* No note is lost, no marker without a pass, and passes carry what they should.
QueueKept ==
  /\ companion \in [Slide -> Companion]
  /\ \A w \in left : w[1] \in Notes(companion[w[2]])
  /\ \A s \in Slide : PassFits(s, pass[s], companion[s])
  /\ up => \A s \in Slide : companion[s].marker = "progress" => pass[s] # None

QueueInv ==
  /\ left \subseteq Note \X Slide
  /\ pass = [s \in Slide |-> pass[s]]
  /\ draft = [n \in Note |-> draft[n]]
  /\ \A n \in Note : draft[n] # None => draft[n].slide \in Slide
  /\ ~stale => QueueKept

--------------------------------------------------------------------------------
\* Nothing was left and nothing is under way at first; notes on hold are in the files.
LEMMA QueueInit == Init => QueueInv
<1> SUFFICES ASSUME Init PROVE QueueInv
  OBVIOUS
<1>1. PICK at \in [Prior -> Slide] :
        companion = [s \in Slide |-> [Empty EXCEPT !.held = {n \in Prior : at[n] = s}]]
  BY DEF Init
<1>2. /\ companion \in [Slide -> Companion]
      /\ \A s \in Slide : companion[s].marker = "none"
  BY <1>1, NoteAssumption DEF Empty, Companion
<1>3. \A s \in Slide : pass[s] = None
  BY DEF Init
<1>4. QueueKept
  BY <1>2, <1>3 DEF Init, QueueKept, PassFits, None
<1> QED
  BY <1>4 DEF Init, QueueInv

(***************************************************************************)
(* A step that gives one slide another companion, with the notes of the    *)
(* one it had, and another pass that fits it, keeps the invariant.         *)
(***************************************************************************)
LEMMA SlideStep ==
  ASSUME QueueInv, ~stale, NEW s \in Slide, NEW c \in Companion, NEW p,
         companion' = [companion EXCEPT ![s] = c],
         pass' = [pass EXCEPT ![s] = p],
         Notes(companion[s]) \subseteq Notes(c),
         PassFits(s, p, c),
         c.marker = "progress" => p # None,
         up' = up,
         left' \subseteq left \cup {<<n, s>> : n \in Notes(c)},
         draft' = [n \in Note |-> draft'[n]],
         \A n \in Note : draft'[n] # None => draft'[n].slide \in Slide
  PROVE  QueueInv'
<1>1. QueueKept
  BY DEF QueueInv
<1>2. /\ companion' \in [Slide -> Companion] /\ companion'[s] = c
      /\ \A t \in Slide \ {s} : companion'[t] = companion[t]
  BY <1>1 DEF QueueKept
<1>3. /\ pass' = [t \in Slide |-> pass'[t]] /\ pass'[s] = p
      /\ \A t \in Slide \ {s} : pass'[t] = pass[t]
  BY DEF QueueInv
<1>4. Notes(c) \subseteq Note
  BY DEF Notes, Companion
<1>5. left' \subseteq Note \X Slide
  BY <1>4 DEF QueueInv
<1>6. \A w \in left' : w[1] \in Notes(companion'[w[2]])
  <2> SUFFICES ASSUME NEW w \in left' PROVE w[1] \in Notes(companion'[w[2]])
    OBVIOUS
  <2>1. CASE w \in left
    <3>1. w[2] \in Slide /\ w[1] \in Notes(companion[w[2]])
      BY <1>1, <2>1 DEF QueueInv, QueueKept
    <3> QED
      BY <1>2, <3>1
  <2>2. CASE w \in {<<n, s>> : n \in Notes(c)}
    BY <1>2, <2>2
  <2> QED
    BY <2>1, <2>2
<1>7. \A t \in Slide : PassFits(t, pass'[t], companion'[t])
  <2>1. \A t \in Slide \ {s} : PassFits(t, pass'[t], companion'[t])
    BY <1>1, <1>2, <1>3 DEF QueueKept
  <2> QED
    BY <1>2, <1>3, <2>1
<1>8. up' => \A t \in Slide : companion'[t].marker = "progress" => pass'[t] # None
  BY <1>1, <1>2, <1>3 DEF QueueKept
<1>9. QueueKept'
  <2>1. (\A w \in left : w[1] \in Notes(companion[w[2]]))'
    BY <1>6 DEF Notes
  <2>2. (\A t \in Slide : PassFits(t, pass[t], companion[t]))'
    BY <1>7 DEF PassFits, Notes
  <2> QED
    BY <1>2, <1>8, <2>1, <2>2 DEF QueueKept
<1> QED
  BY <1>3, <1>5, <1>9 DEF QueueInv

\* A step that changes neither companions nor notes nor passes.
LEMMA IdleStep ==
  ASSUME QueueInv, UNCHANGED <<companion, left, pass, up, stale>>,
         draft' = [n \in Note |-> draft'[n]],
         \A n \in Note : draft'[n] # None => draft'[n].slide \in Slide
  PROVE  QueueInv'
<1>1. QueueKept => QueueKept'
  BY DEF QueueKept, PassFits, Notes
<1> QED
  BY <1>1 DEF QueueInv

\* Once something stale was written back nothing is claimed any more.
LEMMA StaleStep ==
  ASSUME QueueInv, stale', NEW s \in Slide, NEW p,
         pass' = [pass EXCEPT ![s] = p] \/ pass' = pass,
         left' \subseteq left \cup (Note \X Slide),
         draft' = [n \in Note |-> draft'[n]],
         \A n \in Note : draft'[n] # None => draft'[n].slide \in Slide
  PROVE  QueueInv'
BY DEF QueueInv

--------------------------------------------------------------------------------
\* A browser that replaces the section with what it read, if that is still there, adds
\* its note to what is there.
LEMMA QueuedKeeps ==
  ASSUME NEW c \in Companion, NEW n \in Note, NEW read,
         read.marker = c.marker, read.open = c.open, read.held = c.held
  PROVE  LET d == [c EXCEPT !.marker = read.marker, !.open = read.open \cup {n},
                            !.held = read.held]
         IN  /\ d \in Companion /\ n \in Notes(d) /\ Notes(c) \subseteq Notes(d)
             /\ d.marker = c.marker
BY DEF Companion, Notes

\* Presenters add notes and take none away.
LEMMA LeaveNoteStep ==
  ASSUME QueueInv, NEW n \in Note, NEW s \in Slide, LeaveNote(n, s)
  PROVE  QueueInv'
<1>1. CASE stale
  BY <1>1, StaleStep DEF LeaveNote, QueueInv
<1>2. CASE ~stale
  <2> DEFINE c == companion[s]
             d == [c EXCEPT !.marker = c.marker, !.open = c.open \cup {n}, !.held = c.held]
  <2>1. QueueKept /\ c \in Companion
    BY <1>2 DEF QueueInv, QueueKept
  <2>2. /\ d \in Companion /\ n \in Notes(d) /\ Notes(c) \subseteq Notes(d)
        /\ d.marker = c.marker
    BY <2>1, QueuedKeeps
  <2>3. /\ companion' = [companion EXCEPT ![s] = d] /\ left' = left \cup {<<n, s>>}
        /\ UNCHANGED <<draft, pass, up>>
    BY DEF LeaveNote, Queued, process
  <2>4. pass' = [pass EXCEPT ![s] = pass[s]]
    BY <2>3 DEF QueueInv
  <2>5. PassFits(s, pass[s], d) /\ (d.marker = "progress" => pass[s] # None)
    BY <2>1, <2>2 DEF QueueKept, PassFits, LeaveNote
  <2> HIDE DEF c, d
  <2> QED
    BY <1>2, <2>2, <2>3, <2>4, <2>5, SlideStep DEF QueueInv, c
<1> QED
  BY <1>1, <1>2

\* So does one that put the section together before, unless that is stale.
LEMMA PutSectionStep ==
  ASSUME QueueInv, NEW n \in Note, PutSection(n)
  PROVE  QueueInv'
<1>0. PICK s \in Slide : s = draft[n].slide
  BY DEF PutSection, QueueInv
<1> DEFINE read == draft[n].read
<1>1. /\ left' = left \cup {<<n, s>>} /\ UNCHANGED <<pass, up>>
      /\ draft' = [draft EXCEPT ![n] = None]
      /\ companion' = Queued(s, read, n)
      /\ stale' = (stale \/ [read EXCEPT !.log = companion[s].log] # companion[s])
  BY <1>0 DEF PutSection, process, QueueInv
<1>2. /\ draft' = [m \in Note |-> draft'[m]]
      /\ \A m \in Note : draft'[m] # None => draft'[m].slide \in Slide
  BY <1>1 DEF QueueInv
<1>3. CASE stale'
  <2>1. left' \subseteq left \cup (Note \X Slide) /\ pass' = pass
    BY <1>1
  <2> HIDE DEF read
  <2> QED
    BY <1>2, <1>3, <2>1, StaleStep
<1>4. CASE ~stale'
  <2> DEFINE c == companion[s]
             d == [c EXCEPT !.marker = read.marker, !.open = read.open \cup {n},
                            !.held = read.held]
  <2>1. ~stale /\ [read EXCEPT !.log = c.log] = c
    BY <1>1, <1>4
  <2>2. QueueKept /\ c \in Companion
    BY <1>1, <2>1 DEF QueueInv, QueueKept
  <2>3. read.marker = c.marker /\ read.open = c.open /\ read.held = c.held
    <3> HIDE DEF read, c
    <3>1. DOMAIN c = {"marker", "open", "held", "log"}
      BY <2>2 DEF Companion
    <3>2. DOMAIN read = DOMAIN c
      BY <2>1
    <3> QED
      BY <2>1, <3>1, <3>2
  <2>4. /\ d \in Companion /\ n \in Notes(d) /\ Notes(c) \subseteq Notes(d)
        /\ d.marker = c.marker
    <3> HIDE DEF read, c
    <3> QED
      BY <2>2, <2>3, QueuedKeeps
  <2>5. companion' = [companion EXCEPT ![s] = d]
    BY <1>1 DEF Queued
  <2>6. pass' = [pass EXCEPT ![s] = pass[s]]
    BY <1>1 DEF QueueInv
  <2>7. PassFits(s, pass[s], d) /\ (d.marker = "progress" => pass[s] # None)
    BY <1>1, <2>2, <2>4 DEF QueueKept, PassFits, PutSection
  <2>8. left' \subseteq left \cup {<<m, s>> : m \in Notes(d)} /\ up' = up
    BY <1>1, <2>4
  <2> HIDE DEF read, c, d
  <2> QED
    BY <1>2, <2>1, <2>4, <2>5, <2>6, <2>7, <2>8, SlideStep DEF c
<1> QED
  BY <1>3, <1>4

\* A marker is written, at once.
LEMMA WrittenMarker ==
  ASSUME QueueInv, ~stale, NEW s \in Slide, NEW p,
         NEW marker \in {"none", "progress", "error"},
         companion' = [companion EXCEPT ![s].marker = marker],
         pass' = [pass EXCEPT ![s] = p],
         PassFits(s, p, [companion[s] EXCEPT !.marker = marker]),
         marker = "progress" => p # None,
         UNCHANGED <<left, draft, up>>
  PROVE  QueueInv'
<1> DEFINE d == [companion[s] EXCEPT !.marker = marker]
<1>1. companion[s] \in Companion
  BY DEF QueueInv, QueueKept
<1>2. d \in Companion /\ Notes(companion[s]) \subseteq Notes(d) /\ d.marker = marker
  BY <1>1 DEF Companion, Notes
<1>3. companion' = [companion EXCEPT ![s] = d]
  OBVIOUS
<1> HIDE DEF d
<1> QED
  BY <1>2, <1>3, SlideStep DEF QueueInv, d

\* Only the pass of a slide goes on.
LEMMA PassGoesOn ==
  ASSUME QueueInv, NEW s \in Slide, NEW p,
         pass' = [pass EXCEPT ![s] = p],
         ~stale => /\ PassFits(s, p, companion[s])
                   /\ companion[s].marker = "progress" => p # None,
         UNCHANGED <<companion, left, draft, up, stale>>
  PROVE  QueueInv'
<1>1. CASE stale
  BY <1>1, StaleStep DEF QueueInv
<1>2. CASE ~stale
  <2>1. companion[s] \in Companion /\ companion' = [companion EXCEPT ![s] = companion[s]]
    BY <1>2 DEF QueueInv, QueueKept
  <2> QED
    BY <1>2, <2>1, SlideStep DEF QueueInv
<1> QED
  BY <1>1, <1>2

\* A pass that sets a marker, at once or with other steps in between, never ends under a
\* marker of its own.
LEMMA MarkingStep ==
  ASSUME QueueInv, NEW s \in Slide, NEW next,
         NEW marker \in {"none", "progress", "error"},
         next.phase \in {"branch", "check", "done"},
         next.phase \in {"check", "done"} => marker # "progress",
         Marking(s, marker, next)
  PROVE  QueueInv'
<1>1. UNCHANGED <<left, draft, up, stale>> /\ next # None
  BY DEF Marking, Mark, ReadMark, people, process, None
<1>2. CASE Mark(s, marker, next)
  <2>1. /\ companion' = [companion EXCEPT ![s].marker = marker]
        /\ pass' = [pass EXCEPT ![s] = next]
    BY <1>2 DEF Mark, Enter
  <2>2. CASE stale
    BY <1>1, <2>1, <2>2, StaleStep DEF QueueInv
  <2>3. CASE ~stale
    <3>1. companion[s] \in Companion
      BY <2>3 DEF QueueInv, QueueKept
    <3>2. [companion[s] EXCEPT !.marker = marker].marker = marker
      BY <3>1 DEF Companion
    <3>3. PassFits(s, next, [companion[s] EXCEPT !.marker = marker])
      BY <3>2 DEF PassFits
    <3> QED
      BY <1>1, <2>1, <2>3, <3>3, WrittenMarker
  <2> QED
    BY <2>2, <2>3
<1>3. CASE ReadMark(s, marker, next)
  <2> DEFINE p == [phase |-> "marking", read |-> companion[s], marker |-> marker,
                   next |-> next]
  <2>1. pass' = [pass EXCEPT ![s] = p] /\ UNCHANGED companion
    BY <1>3 DEF ReadMark, Enter
  <2>2. PassFits(s, p, companion[s]) /\ p # None
    BY DEF PassFits, None
  <2> QED
    BY <1>1, <2>1, <2>2, PassGoesOn
<1> QED
  BY <1>2, <1>3 DEF Marking

\* The marker read before is written, with what was read, unless that is stale.
LEMMA WriteMarkStep ==
  ASSUME QueueInv, NEW s \in Slide, WriteMark(s)
  PROVE  QueueInv'
<1>1. /\ companion' = [companion EXCEPT ![s] = [pass[s].read EXCEPT !.marker = pass[s].marker]]
      /\ pass' = [pass EXCEPT ![s] = pass[s].next]
      /\ stale' = (stale \/ companion[s] # pass[s].read)
      /\ UNCHANGED <<left, draft, up>>
  BY DEF WriteMark, Enter, people, process
<1>2. CASE stale'
  BY <1>1, <1>2, StaleStep DEF QueueInv
<1>3. CASE ~stale'
  <2>1. ~stale /\ companion[s] = pass[s].read
    BY <1>1, <1>3
  <2>2. /\ companion[s] \in Companion /\ pass[s].phase = "marking"
        /\ PassFits(s, pass[s], companion[s])
    BY <2>1 DEF QueueInv, QueueKept, WriteMark
  <2>3. companion' = [companion EXCEPT ![s].marker = pass[s].marker]
    BY <1>1, <2>1
  <2>4. /\ pass[s].marker \in {"none", "progress", "error"}
        /\ pass[s].next.phase \in {"branch", "check", "done"}
        /\ pass[s].next.phase \in {"check", "done"} => pass[s].marker # "progress"
    BY <2>2 DEF PassFits
  <2>5. [companion[s] EXCEPT !.marker = pass[s].marker].marker = pass[s].marker
    BY <2>2 DEF Companion
  <2>6. /\ PassFits(s, pass[s].next, [companion[s] EXCEPT !.marker = pass[s].marker])
        /\ pass[s].next # None
    BY <2>4, <2>5 DEF PassFits, None
  <2> QED
    BY <1>1, <2>1, <2>3, <2>4, <2>6, WrittenMarker
<1> QED
  BY <1>2, <1>3

\* A person clears an error.
LEMMA ClearErrorStep ==
  ASSUME QueueInv, NEW s \in Slide, ClearError(s)
  PROVE  QueueInv'
<1>1. /\ companion' = [companion EXCEPT ![s].marker = "none"]
      /\ UNCHANGED <<left, draft, pass, up, stale>>
  BY DEF ClearError, process
<1>2. pass' = [pass EXCEPT ![s] = pass[s]]
  BY <1>1 DEF QueueInv
<1>3. CASE stale
  BY <1>1, <1>3, StaleStep DEF QueueInv
<1>4. CASE ~stale
  <2>1. companion[s] \in Companion /\ PassFits(s, pass[s], companion[s])
    BY <1>4 DEF QueueInv, QueueKept
  <2>2. PassFits(s, pass[s], [companion[s] EXCEPT !.marker = "none"])
    BY <2>1 DEF PassFits, Companion
  <2> QED
    BY <1>1, <1>2, <1>4, <2>2, WrittenMarker
<1> QED
  BY <1>3, <1>4

(***************************************************************************)
(* The merge keeps every note of the current companion: what the agent     *)
(* resolved is in its log, what it put on hold is held, and its section    *)
(* replaces the current one only when that is the one it started from.     *)
(***************************************************************************)
LEMMA MergeKeeps ==
  ASSUME NEW base \in Companion, NEW current \in Companion,
         NEW resolved \in SUBSET Note, NEW waiting \in SUBSET Note,
         NEW marker \in {base.marker, "none"}
  PROVE  LET merged == Merge(base, Work(base, resolved, waiting, marker), current)
         IN  merged \in Companion /\ Notes(current) \subseteq Notes(merged)
<1> DEFINE branch == Work(base, resolved, waiting, marker)
           merged == Merge(base, branch, current)
<1>1. branch \in Companion /\ base.log \cup resolved = branch.log
  BY DEF Work, Companion
<1>2. /\ branch.open = base.open \ (resolved \cup waiting)
      /\ branch.held = (base.held \ resolved) \cup waiting
  BY DEF Work
<1>3. CASE current = [base EXCEPT !.log = current.log]
  <2>1. current.open = base.open /\ current.held = base.held
    BY <1>3 DEF Companion
  <2>2. merged = [branch EXCEPT !.log = current.log \cup branch.log]
    BY <1>3 DEF Merge
  <2>3. /\ merged \in Companion /\ merged.open = branch.open /\ merged.held = branch.held
        /\ merged.log = current.log \cup branch.log
    <3> HIDE DEF branch, merged
    <3> QED
      BY <1>1, <2>2 DEF Companion
  <2> HIDE DEF branch, merged
  <2>4. Notes(current) \subseteq Notes(merged)
    BY <1>1, <1>2, <2>1, <2>3 DEF Notes
  <2> QED
    BY <2>3, <2>4 DEF branch, merged
<1>4. CASE current # [base EXCEPT !.log = current.log]
  <2>1. merged = [current EXCEPT !.log = current.log \cup branch.log]
    BY <1>4 DEF Merge
  <2> HIDE DEF branch, merged
  <2>2. merged \in Companion /\ Notes(current) \subseteq Notes(merged)
    BY <1>1, <2>1 DEF Companion, Notes
  <2> QED
    BY <2>2 DEF branch, merged
<1> QED
  BY <1>3, <1>4

\* What the agent made of its branch comes back, or is merged and about to replace what
\* was read.
LEMMA FinishStep ==
  ASSUME QueueInv, NEW s \in Slide, Finish(s)
  PROVE  QueueInv'
<1> DEFINE base == pass[s].base
<1>1. UNCHANGED <<left, draft, up, stale>> /\ pass[s].phase = "agent"
  BY DEF Finish, people, process
<1>2. CASE stale
  <2>1. \E p : pass' = [pass EXCEPT ![s] = p]
    BY DEF Finish, Return, Enter
  <2> QED
    BY <1>1, <1>2, <2>1, StaleStep DEF QueueInv
<1>3. CASE ~stale
  <2>1. /\ base \in Companion /\ companion[s] \in Companion
        /\ companion \in [Slide -> Companion]
    BY <1>1, <1>3 DEF QueueInv, QueueKept, PassFits
  <2>2. PICK waiting \in SUBSET (base.open \cap Imagery), marker \in {base.marker, "none"} :
          \E resolved \in SUBSET ((base.open \cup base.held) \ waiting) :
            Return(s, Work(base, resolved, waiting, marker), waiting)
    BY DEF Finish
  <2>3. PICK resolved \in SUBSET ((base.open \cup base.held) \ waiting) :
          Return(s, Work(base, resolved, waiting, marker), waiting)
    BY <2>2
  <2>4. resolved \in SUBSET Note /\ waiting \in SUBSET Note
    BY <2>1 DEF Companion
  <2> DEFINE merged == Merge(base, Work(base, resolved, waiting, marker), companion[s])
  <2>5. merged \in Companion /\ Notes(companion[s]) \subseteq Notes(merged)
    BY <2>1, <2>4, MergeKeeps
  <2>6. CASE /\ companion' = [companion EXCEPT ![s] = merged]
             /\ pass' = [pass EXCEPT ![s] = [phase |-> "clear"]]
    <3>1. PassFits(s, [phase |-> "clear"], merged) /\ [phase |-> "clear"] # None
      BY DEF PassFits, None
    <3> HIDE DEF merged
    <3> QED
      BY <1>1, <1>3, <2>5, <2>6, <3>1, SlideStep DEF QueueInv
  <2>7. CASE /\ UNCHANGED companion
             /\ pass' = [pass EXCEPT ![s] = [phase |-> "replace", read |-> companion,
                                             merged |-> merged]]
    <3> DEFINE p == [phase |-> "replace", read |-> companion, merged |-> merged]
    <3>1. PassFits(s, p, companion[s]) /\ p # None
      <4> HIDE DEF merged
      <4> QED
        BY <2>5 DEF PassFits, None
    <3> HIDE DEF p
    <3> QED
      BY <1>1, <2>7, <3>1, PassGoesOn DEF p
  <2> QED
    BY <2>3, <2>6, <2>7 DEF Return, Enter
<1> QED
  BY <1>2, <1>3

\* The merged content replaces what was read, unless that is stale.
LEMMA ReplaceStep ==
  ASSUME QueueInv, NEW s \in Slide, Replace(s)
  PROVE  QueueInv'
<1>1. /\ companion' = [pass[s].read EXCEPT ![s] = pass[s].merged]
      /\ pass' = [pass EXCEPT ![s] = [phase |-> "clear"]]
      /\ stale' = (stale \/ companion # pass[s].read)
      /\ UNCHANGED <<left, draft, up>> /\ pass[s].phase = "replace"
  BY DEF Replace, Enter, people, process
<1>2. CASE stale'
  BY <1>1, <1>2, StaleStep DEF QueueInv
<1>3. CASE ~stale'
  <2>1. ~stale /\ companion = pass[s].read
    BY <1>1, <1>3
  <2>2. pass[s].merged \in Companion /\ Notes(companion[s]) \subseteq Notes(pass[s].merged)
    BY <1>1, <2>1 DEF QueueInv, QueueKept, PassFits
  <2>3. /\ PassFits(s, [phase |-> "clear"], pass[s].merged)
        /\ [phase |-> "clear"] # None
    BY DEF PassFits, None
  <2>4. companion' = [companion EXCEPT ![s] = pass[s].merged]
    BY <1>1, <2>1
  <2> QED
    BY <1>1, <2>1, <2>2, <2>3, <2>4, SlideStep DEF QueueInv
<1> QED
  BY <1>2, <1>3

\* The other steps of a pass.
LEMMA PassStepKeeps ==
  ASSUME QueueInv, NEW s \in Slide, PassStep(s)
  PROVE  QueueInv'
<1>1. CASE MarkProgress(s)
  BY <1>1, MarkingStep DEF MarkProgress
<1>2. CASE Branch(s)
  <2>1. /\ pass' = [pass EXCEPT ![s] = [phase |-> "agent", base |-> companion[s]]]
        /\ UNCHANGED <<companion, left, draft, up, stale>>
    BY <1>2 DEF Branch, Enter, people, process
  <2>2. ~stale => PassFits(s, [phase |-> "agent", base |-> companion[s]], companion[s])
    BY DEF QueueInv, QueueKept, PassFits
  <2>3. [phase |-> "agent", base |-> companion[s]] # None
    BY DEF None
  <2> QED
    BY <2>1, <2>2, <2>3, PassGoesOn
<1>3. CASE Fail(s)
  BY <1>3, MarkingStep DEF Fail
<1>4. CASE ClearMarker(s)
  <2>1. CASE companion[s].marker = "progress"
    BY <1>4, <2>1, MarkingStep DEF ClearMarker
  <2>2. CASE companion[s].marker # "progress"
    <3>1. /\ pass' = [pass EXCEPT ![s] = [phase |-> "check"]]
          /\ UNCHANGED <<companion, left, draft, up, stale>>
      BY <1>4, <2>2 DEF ClearMarker, Enter, people, process
    <3>2. PassFits(s, [phase |-> "check"], companion[s])
      BY <2>2 DEF PassFits
    <3> QED
      BY <2>2, <3>1, <3>2, PassGoesOn
  <2> QED
    BY <2>1, <2>2
<1>5. CASE CheckResolved(s)
  <2>1. CASE companion[s].open # {}
    BY <1>5, <2>1, MarkingStep DEF CheckResolved
  <2>2. CASE companion[s].open = {}
    <3>1. /\ pass' = [pass EXCEPT ![s] = [phase |-> "done"]] /\ pass[s].phase = "check"
          /\ UNCHANGED <<companion, left, draft, up, stale>>
      BY <1>5, <2>2 DEF CheckResolved, Enter, people, process
    <3>2. ~stale => PassFits(s, [phase |-> "done"], companion[s])
                    /\ companion[s].marker # "progress"
      BY <3>1 DEF QueueInv, QueueKept, PassFits
    <3> QED
      BY <3>1, <3>2, PassGoesOn
  <2> QED
    BY <2>1, <2>2
<1>6. CASE End(s)
  <2>1. /\ pass' = [pass EXCEPT ![s] = None] /\ pass[s].phase = "done"
        /\ UNCHANGED <<companion, left, draft, up, stale>>
    BY <1>6 DEF End, Enter, people, process
  <2>2. ~stale => PassFits(s, None, companion[s]) /\ companion[s].marker # "progress"
    BY <2>1 DEF QueueInv, QueueKept, PassFits, None
  <2> QED
    BY <2>1, <2>2, PassGoesOn
<1> QED
  BY <1>1, <1>2, <1>3, <1>4, <1>5, <1>6, WriteMarkStep, FinishStep, ReplaceStep DEF PassStep

\* A process that dies takes its passes with it, and none of their notes.
LEMMA DieStep ==
  ASSUME QueueInv, Die
  PROVE  QueueInv'
<1>1. /\ pass' = [s \in Slide |-> None] /\ ~up'
      /\ UNCHANGED <<companion, left, draft, stale>>
  BY DEF Die, people
<1>2. QueueKept => QueueKept'
  BY <1>1 DEF QueueKept, PassFits, Notes, None
<1> QED
  BY <1>1, <1>2 DEF QueueInv

\* The next process removes every marker of a pass.
LEMMA RecoverStep ==
  ASSUME QueueInv, Recover
  PROVE  QueueInv'
<1>1. UNCHANGED <<left, draft, pass, stale>>
  BY DEF Recover, people
<1>2. ASSUME QueueKept PROVE QueueKept'
  <2>1. companion' = [s \in Slide |->
           IF companion[s].marker = "progress" THEN [companion[s] EXCEPT !.marker = "none"]
                                               ELSE companion[s]]
    BY DEF Recover
  <2>2. ASSUME NEW s \in Slide
        PROVE  /\ companion'[s] \in Companion /\ companion'[s].marker # "progress"
               /\ Notes(companion'[s]) = Notes(companion[s])
    <3>1. companion[s] \in Companion
      BY <1>2 DEF QueueKept
    <3> QED
      BY <2>1, <3>1 DEF Companion, Notes
  <2>3. companion' \in [Slide -> Companion]
    BY <2>1, <2>2
  <2>4. (\A w \in left : w[1] \in Notes(companion[w[2]]))'
    <3>1. \A w \in left : w[2] \in Slide
      BY DEF QueueInv
    <3>2. \A w \in left : w[1] \in Notes(companion'[w[2]])
      BY <1>2, <2>2, <3>1 DEF QueueKept
    <3> QED
      BY <1>1, <3>2 DEF Notes
  <2>5. (\A s \in Slide : PassFits(s, pass[s], companion[s]))'
    BY <1>1, <1>2, <2>2 DEF QueueKept, PassFits, Notes
  <2> QED
    BY <2>2, <2>3, <2>4, <2>5 DEF QueueKept
<1> QED
  BY <1>1, <1>2 DEF QueueInv

\* The loop only adds passes, which start without anything read.
LEMMA LoopStepKeeps ==
  ASSUME QueueInv, LoopStep
  PROVE  QueueInv'
<1>1. CASE UNCHANGED pass
  <2>1. UNCHANGED <<companion, left, draft, pass, up, stale>>
    BY <1>1 DEF LoopStep, ListQueue, Skip, Take, people, process
  <2> QED
    BY <2>1, IdleStep DEF QueueInv
<1>2. CASE Take /\ pass' = [pass EXCEPT ![First] = [phase |-> "start"]]
  <2>1. UNCHANGED <<companion, left, draft, up, stale>>
    BY <1>2 DEF Take, people, process
  <2>2. CASE First \in Slide
    <3>1. /\ PassFits(First, [phase |-> "start"], companion[First])
          /\ [phase |-> "start"] # None
      BY DEF PassFits, None
    <3>2. PICK s \in Slide : s = First
      BY <2>2
    <3> QED
      BY <1>2, <2>1, <3>1, <3>2, PassGoesOn
  <2>3. CASE First \notin Slide
    <3>1. pass' = pass
      BY <1>2, <2>3 DEF QueueInv
    <3> QED
      BY <2>1, <3>1, IdleStep DEF QueueInv
  <2> QED
    BY <2>2, <2>3
<1> QED
  BY <1>1, <1>2 DEF LoopStep, ListQueue, Skip, Take

\* Every step of the worker, of the presenters and of the process.
LEMMA QueueStep == QueueInv /\ [Next]_vars => QueueInv'
<1> SUFFICES ASSUME QueueInv, [Next]_vars PROVE QueueInv'
  OBVIOUS
<1>1. ASSUME NEW n \in Note, NEW s \in Slide, ReadSection(n, s) PROVE QueueInv'
  <2>1. /\ UNCHANGED <<companion, left, pass, up, stale>>
        /\ draft' = [draft EXCEPT ![n] = [phase |-> "read", slide |-> s,
                                          read |-> companion[s]]]
    BY <1>1 DEF ReadSection, process
  <2>2. /\ draft' = [m \in Note |-> draft'[m]]
        /\ \A m \in Note : draft'[m] # None => draft'[m].slide \in Slide
    BY <2>1 DEF QueueInv
  <2> QED
    BY <2>1, <2>2, IdleStep
<1>2. ASSUME NEW n \in Note, ImageLands(n) PROVE QueueInv'
  BY <1>2, IdleStep DEF ImageLands, people, process, QueueInv
<1>3. CASE HourPasses
  BY <1>3, IdleStep DEF HourPasses, people, process, QueueInv
<1>4. CASE UNCHANGED vars
  BY <1>4, IdleStep DEF vars, people, process, QueueInv
<1> QED
  BY <1>1, <1>2, <1>3, <1>4, LeaveNoteStep, PutSectionStep, ClearErrorStep, PassStepKeeps,
     DieStep, RecoverStep, LoopStepKeeps DEF Next

\* The invariant holds in every reachable state.
THEOREM QueueInvariance == Spec => []QueueInv
BY QueueInit, QueueStep, PTL DEF Spec

\* A note a presenter was told is queued stays in the companion of its slide, open, on
\* hold or in the log, whatever agents, merges, failures and restarts do, until something
\* stale is written back.
THEOREM QueuedNotesKept == Spec => []NotesKept
<1>1. QueueInv => NotesKept
  BY DEF QueueInv, QueueKept, NotesKept, Notes
<1> QED
  BY QueueInvariance, <1>1, PTL

\* A marker belongs to a pass of this process, so that no slide stays hidden from the
\* queue; under the same condition.
THEOREM MarkersOwned == Spec => []MarkerHasOwner
<1>1. QueueInv => MarkerHasOwner
  BY DEF QueueInv, QueueKept, MarkerHasOwner, Inflight
<1> QED
  BY QueueInvariance, <1>1, PTL

--------------------------------------------------------------------------------
\* What is in the variables, stale or not.
Markers == {"none", "progress", "error"}

\* What a pass carries from one step to the next.
PassTyped(p) ==
  /\ p.phase \in Phase
  /\ p.phase = "marking" => /\ p.read \in Companion /\ p.marker \in Markers
                            /\ p.next.phase \in {"branch", "check", "done"}
  /\ p.phase = "agent" => p.base \in Companion
  /\ p.phase = "replace" => p.read \in [Slide -> Companion] /\ p.merged \in Companion

\* As many passes as there may be, one of which may hold the content lock.
PassesTyped ==
  /\ pass = [s \in Slide |-> pass[s]]
  /\ \A s \in Slide : PassTyped(pass[s])
  /\ Cardinality(Inflight) <= Conc
  /\ \A r, s \in Slide : pass[r].phase = "replace" /\ pass[s].phase = "replace" => r = s

\* What presenters and the agent left, and what they are about to.
NotesTyped ==
  /\ companion \in [Slide -> Companion]
  /\ imaging \in SUBSET Note /\ asked \in SUBSET Imagery
  /\ left \in SUBSET (Note \X Slide)
  /\ draft = [n \in Note |-> draft[n]]
  /\ \A n \in Note : draft[n] # None => draft[n].slide \in Slide /\ draft[n].read \in Companion

\* The loop and the bounds.
LoopTyped ==
  /\ sweep \subseteq Slide
  /\ used \in 0 .. MaxPerHour
  /\ splits \in 0 .. MaxSplits /\ clears \in 0 .. MaxClears /\ crashes \in 0 .. MaxCrashes

QueueTyped == PassesTyped /\ NotesTyped /\ LoopTyped

\* The slides are finitely many, and so are those with a pass.
LEMMA FewSlides ==
  /\ IsFiniteSet(Slide)
  /\ \A S \in SUBSET Slide : IsFiniteSet(S) /\ Cardinality(S) \in Nat
BY OrderAssumption, FS_Subset, FS_CardinalityType DEF Slide

\* A slide that has a pass goes on with it, or ends it.
LEMMA PassTypeGoesOn ==
  ASSUME PassesTyped, NEW s \in Slide, pass[s] # None, NEW p, PassTyped(p),
         p.phase = "replace" => Unlocked,
         pass' = [pass EXCEPT ![s] = p]
  PROVE  PassesTyped'
<1>1. /\ pass' = [r \in Slide |-> pass'[r]] /\ pass'[s] = p
      /\ \A r \in Slide \ {s} : pass'[r] = pass[r]
  BY DEF PassesTyped
<1>2. \A r \in Slide : PassTyped(pass'[r])
  BY <1>1 DEF PassesTyped
<1>3. Inflight' \subseteq Inflight
  BY <1>1 DEF Inflight
<1>4. Cardinality(Inflight') <= Conc
  <2>1. Inflight' \in SUBSET Slide /\ Inflight \in SUBSET Slide
    BY DEF Inflight
  <2>2. Cardinality(Inflight') <= Cardinality(Inflight)
    BY <1>3, <2>1, FewSlides, FS_Subset
  <2>3. Cardinality(Inflight') \in Nat /\ Cardinality(Inflight) \in Nat /\ Conc \in Nat
    BY <2>1, FewSlides, LimitAssumption
  <2> QED
    BY <2>2, <2>3 DEF PassesTyped
<1>5. ASSUME NEW q \in Slide, NEW r \in Slide,
             pass'[q].phase = "replace", pass'[r].phase = "replace"
      PROVE  q = r
  BY <1>1, <1>5 DEF PassesTyped, Unlocked
<1>6. (\A r \in Slide : PassTyped(pass[r]))'
  BY <1>2 DEF PassTyped, Companion, Phase
<1> QED
  BY <1>1, <1>4, <1>5, <1>6 DEF PassesTyped

\* At first there is no pass.
LEMMA TypedStart == Init => QueueTyped
<1> SUFFICES ASSUME Init PROVE QueueTyped
  OBVIOUS
<1>1. PICK at \in [Prior -> Slide] :
        companion = [s \in Slide |-> [Empty EXCEPT !.held = {n \in Prior : at[n] = s}]]
  BY DEF Init
<1>2. companion \in [Slide -> Companion]
  BY <1>1, NoteAssumption DEF Empty, Companion
<1>3. NotesTyped
  BY <1>2, NoteAssumption DEF Init, NotesTyped
<1>4. LoopTyped
  BY LimitAssumption DEF Init, LoopTyped
<1>5. PassesTyped
  <2>1. Inflight = {}
    BY DEF Init, Inflight
  <2>2. Cardinality(Inflight) <= Conc
    BY <2>1, FS_EmptySet, LimitAssumption
  <2> QED
    BY <2>2 DEF Init, PassesTyped, PassTyped, None, Phase
<1> QED
  BY <1>3, <1>4, <1>5 DEF QueueTyped

\* A browser that adds a note to what it read, and one that reads.
LEMMA NotesGrow ==
  ASSUME QueueTyped, NEW n \in Note, NEW s \in Slide,
         LeaveNote(n, s) \/ ReadSection(n, s) \/ (PutSection(n) /\ s = draft[n].slide)
  PROVE  QueueTyped'
<1>1. UNCHANGED pass /\ (PassesTyped => PassesTyped')
  BY DEF LeaveNote, ReadSection, PutSection, PassesTyped, PassTyped, Inflight
<1>2. UNCHANGED <<sweep, used, clears, crashes>> /\ splits' \in 0 .. MaxSplits
  BY LimitAssumption
  DEF LeaveNote, ReadSection, PutSection, loop, process, people, QueueTyped, LoopTyped
<1>3. LoopTyped'
  BY <1>2 DEF QueueTyped, LoopTyped
<1>4. ASSUME NEW read \in Companion, companion' = Queued(s, read, n)
      PROVE  companion' \in [Slide -> Companion]
  <2>1. companion[s] \in Companion
    BY DEF QueueTyped, NotesTyped
  <2>2. [companion[s] EXCEPT !.marker = read.marker, !.open = read.open \cup {n},
                             !.held = read.held] \in Companion
    BY <2>1 DEF Companion
  <2> QED
    BY <1>4, <2>2 DEF Queued, QueueTyped, NotesTyped
<1>5. companion' \in [Slide -> Companion]
  <2>1. CASE LeaveNote(n, s)
    <3>1. companion[s] \in Companion
      BY DEF QueueTyped, NotesTyped
    <3> QED
      BY <1>4, <2>1, <3>1 DEF LeaveNote
  <2>2. CASE ReadSection(n, s)
    BY <2>2 DEF ReadSection, QueueTyped, NotesTyped
  <2>3. CASE PutSection(n) /\ s = draft[n].slide
    <3>1. draft[n].read \in Companion
      BY <2>3 DEF PutSection, QueueTyped, NotesTyped
    <3> QED
      BY <1>4, <2>3, <3>1 DEF PutSection
  <2> QED
    BY <2>1, <2>2, <2>3
<1>6. /\ UNCHANGED <<imaging, asked>> /\ left' \subseteq left \cup {<<n, s>>}
      /\ \/ draft' = draft
         \/ draft' = [draft EXCEPT ![n] = None]
         \/ draft' = [draft EXCEPT ![n] = [phase |-> "read", slide |-> s, read |-> companion[s]]]
  BY DEF LeaveNote, ReadSection, PutSection, images
<1>7. /\ draft' = [m \in Note |-> draft'[m]]
      /\ \A m \in Note :
           draft'[m] # None => draft'[m].slide \in Slide /\ draft'[m].read \in Companion
  <2>1. companion[s] \in Companion
    BY DEF QueueTyped, NotesTyped
  <2> QED
    BY <1>6, <2>1 DEF QueueTyped, NotesTyped
<1>8. NotesTyped'
  BY <1>5, <1>6, <1>7 DEF QueueTyped, NotesTyped
<1> QED
  BY <1>1, <1>3, <1>8 DEF QueueTyped

\* What a marker is written to stays a companion.
LEMMA MarkedCompanion ==
  ASSUME NEW c \in Companion, NEW marker \in Markers
  PROVE  [c EXCEPT !.marker = marker] \in Companion
BY DEF Companion, Markers

LEMMA MarkingTyped ==
  ASSUME QueueTyped, NEW s \in Slide, pass[s] # None, NEW marker \in Markers, NEW next,
         next.phase \in {"branch", "check", "done"}, Marking(s, marker, next)
  PROVE  QueueTyped'
<1>1. UNCHANGED <<images, people, loop, process>>
  BY DEF Marking
<1>2. companion[s] \in Companion
  BY DEF QueueTyped, NotesTyped
<1>3. companion' \in [Slide -> Companion]
  BY <1>2, MarkedCompanion DEF Marking, Mark, ReadMark, QueueTyped, NotesTyped
<1>4. splits' \in 0 .. MaxSplits
  BY LimitAssumption DEF Marking, Mark, ReadMark, QueueTyped, LoopTyped
<1>5. PassesTyped'
  <2>1. CASE Mark(s, marker, next)
    BY <2>1, PassTypeGoesOn DEF Mark, Enter, PassTyped, Phase, QueueTyped
  <2>2. CASE ReadMark(s, marker, next)
    <3> DEFINE p == [phase |-> "marking", read |-> companion[s], marker |-> marker, next |-> next]
    <3>1. PassTyped(p) /\ p.phase # "replace"
      BY <1>2 DEF PassTyped, Phase
    <3>2. pass' = [pass EXCEPT ![s] = p]
      BY <2>2 DEF ReadMark, Enter
    <3> HIDE DEF p
    <3> QED
      BY <3>1, <3>2, PassTypeGoesOn DEF QueueTyped
  <2> QED
    BY <2>1, <2>2 DEF Marking
<1>6. NotesTyped'
  BY <1>1, <1>3 DEF QueueTyped, NotesTyped, images, people
<1>7. LoopTyped'
  BY <1>1, <1>4 DEF QueueTyped, LoopTyped, loop, people, process
<1> QED
  BY <1>5, <1>6, <1>7 DEF QueueTyped

\* A step that changes a companion and goes on with the pass of its slide.
LEMMA PassMoves ==
  ASSUME QueueTyped, NEW s \in Slide, pass[s] # None, NEW p, PassTyped(p),
         p.phase = "replace" => Unlocked, pass' = [pass EXCEPT ![s] = p],
         companion' \in [Slide -> Companion], asked' \in SUBSET Imagery,
         splits' \in 0 .. MaxSplits, UNCHANGED <<imaging, people, loop, process>>
  PROVE  QueueTyped'
<1>1. PassesTyped'
  BY PassTypeGoesOn DEF QueueTyped
<1>2. NotesTyped'
  BY DEF QueueTyped, NotesTyped, people
<1>3. LoopTyped'
  BY DEF QueueTyped, LoopTyped, loop, people, process
<1> QED
  BY <1>1, <1>2, <1>3 DEF QueueTyped

\* What comes back from the agent is a companion, at once or read and about to be written.
LEMMA FinishTyped ==
  ASSUME QueueTyped, NEW s \in Slide, Finish(s)
  PROVE  QueueTyped'
<1> DEFINE base == pass[s].base
<1>1. /\ pass[s].phase = "agent" /\ Unlocked /\ UNCHANGED <<imaging, people, loop, process>>
      /\ \E waiting \in SUBSET (base.open \cap Imagery), marker \in {base.marker, "none"} :
           \E resolved \in SUBSET ((base.open \cup base.held) \ waiting) :
             Return(s, Work(base, resolved, waiting, marker), waiting)
  BY DEF Finish
<1>2. base \in Companion
  BY <1>1 DEF QueueTyped, PassesTyped, PassTyped
<1> HIDE DEF base
<1>3. PICK waiting \in SUBSET Imagery, marker \in {base.marker, "none"},
           resolved \in SUBSET Note : Return(s, Work(base, resolved, waiting, marker), waiting)
  BY <1>1, <1>2 DEF Companion
<1>4. waiting \in SUBSET Note
  BY NoteAssumption
<1> DEFINE merged == Merge(base, Work(base, resolved, waiting, marker), companion[s])
<1>5. companion \in [Slide -> Companion] /\ companion[s] \in Companion
  BY DEF QueueTyped, NotesTyped
<1>6. merged \in Companion
  BY <1>2, <1>4, <1>5, MergeKeeps
<1>7. /\ asked' = asked \cup waiting
      /\ \/ /\ companion' = [companion EXCEPT ![s] = merged]
            /\ pass' = [pass EXCEPT ![s] = [phase |-> "clear"]]
            /\ UNCHANGED splits
         \/ /\ splits < MaxSplits /\ splits' = splits + 1
            /\ pass' = [pass EXCEPT ![s] = [phase |-> "replace", read |-> companion,
                                            merged |-> merged]]
            /\ UNCHANGED companion
  BY <1>3, <1>5 DEF Return, Enter, base
<1> HIDE DEF merged
<1>8. asked' \in SUBSET Imagery /\ splits' \in 0 .. MaxSplits /\ pass[s] # None
  BY <1>1, <1>7, LimitAssumption DEF QueueTyped, NotesTyped, LoopTyped, None
<1>9. companion' \in [Slide -> Companion]
  BY <1>5, <1>6, <1>7
<1>10. CASE pass' = [pass EXCEPT ![s] = [phase |-> "clear"]]
  <2>1. PassTyped([phase |-> "clear"])
    BY DEF PassTyped, Phase
  <2> QED
    BY <1>1, <1>8, <1>9, <1>10, <2>1, PassMoves
<1>11. CASE pass' = [pass EXCEPT ![s] = [phase |-> "replace", read |-> companion,
                                         merged |-> merged]]
  <2> DEFINE p == [phase |-> "replace", read |-> companion, merged |-> merged]
  <2>1. PassTyped(p)
    BY <1>5, <1>6 DEF PassTyped, Phase
  <2> HIDE DEF p
  <2>2. pass' = [pass EXCEPT ![s] = p]
    BY <1>11 DEF p
  <2> QED
    BY <1>1, <1>8, <1>9, <2>1, <2>2, PassMoves
<1> QED
  BY <1>7, <1>10, <1>11

LEMMA PassStepTyped ==
  ASSUME QueueTyped, NEW s \in Slide, PassStep(s)
  PROVE  QueueTyped'
<1>1. /\ companion \in [Slide -> Companion] /\ companion[s] \in Companion
      /\ asked \in SUBSET Imagery /\ splits \in 0 .. MaxSplits /\ PassTyped(pass[s])
  BY DEF QueueTyped, NotesTyped, LoopTyped, PassesTyped
<1>2. CASE MarkProgress(s)
  BY <1>2, MarkingTyped DEF MarkProgress, None, Markers
<1>3. CASE WriteMark(s)
  <2>1. /\ pass[s].phase = "marking" /\ pass[s].read \in Companion /\ pass[s].marker \in Markers
        /\ PassTyped(pass[s].next) /\ pass[s].next.phase # "replace" /\ pass[s] # None
    BY <1>1, <1>3 DEF WriteMark, PassTyped, Phase, None
  <2>2. [pass[s].read EXCEPT !.marker = pass[s].marker] \in Companion
    BY <2>1, MarkedCompanion
  <2>3. companion' \in [Slide -> Companion]
    BY <1>1, <1>3, <2>2 DEF WriteMark
  <2>4. /\ pass' = [pass EXCEPT ![s] = pass[s].next]
        /\ UNCHANGED <<images, people, loop, process, splits>>
    BY <1>3 DEF WriteMark, Enter
  <2> QED
    BY <1>1, <2>1, <2>3, <2>4, PassMoves DEF images
<1>4. CASE Branch(s)
  <2> DEFINE p == [phase |-> "agent", base |-> companion[s]]
  <2>1. PassTyped(p) /\ p.phase # "replace"
    BY <1>1 DEF PassTyped, Phase
  <2> HIDE DEF p
  <2>2. pass' = [pass EXCEPT ![s] = p] /\ pass[s] # None
    BY <1>4 DEF Branch, Enter, None, p
  <2> QED
    BY <1>1, <1>4, <2>1, <2>2, PassMoves DEF Branch, images
<1>5. CASE Finish(s)
  BY <1>5, FinishTyped
<1>6. CASE Replace(s)
  <2>1. pass[s].read \in [Slide -> Companion] /\ pass[s].merged \in Companion /\ pass[s] # None
    BY <1>1, <1>6 DEF Replace, PassTyped, None
  <2>2. companion' \in [Slide -> Companion]
    BY <1>6, <2>1 DEF Replace
  <2>3. PassTyped([phase |-> "clear"]) /\ pass' = [pass EXCEPT ![s] = [phase |-> "clear"]]
    BY <1>6 DEF Replace, Enter, PassTyped, Phase
  <2> QED
    BY <1>1, <1>6, <2>1, <2>2, <2>3, PassMoves DEF Replace, images
<1>7. CASE Fail(s)
  BY <1>7, MarkingTyped DEF Fail, None, Markers
<1>8. ASSUME NEW p, p.phase \in {"none", "check", "done"}, pass' = [pass EXCEPT ![s] = p],
             pass[s] # None,
             UNCHANGED <<companion, images, people, loop, process, splits, stale>>
      PROVE  QueueTyped'
  <2>1. PassTyped(p) /\ p.phase # "replace"
    BY <1>8 DEF PassTyped, Phase
  <2> QED
    BY <1>1, <1>8, <2>1, PassMoves DEF images
<1>9. CASE ClearMarker(s)
  <2>1. CASE companion[s].marker = "progress"
    BY <1>9, <2>1, MarkingTyped DEF ClearMarker, None, Markers
  <2>2. CASE companion[s].marker # "progress"
    BY <1>8, <1>9, <2>2 DEF ClearMarker, Enter, None
  <2> QED
    BY <2>1, <2>2
<1>10. CASE CheckResolved(s)
  <2>1. CASE companion[s].open # {}
    BY <1>10, <2>1, MarkingTyped DEF CheckResolved, None, Markers
  <2>2. CASE companion[s].open = {}
    BY <1>8, <1>10, <2>2 DEF CheckResolved, Enter, None
  <2> QED
    BY <2>1, <2>2
<1>11. CASE End(s)
  <2>1. pass' = [pass EXCEPT ![s] = None] /\ pass[s] # None
    BY <1>11 DEF End, Enter, None
  <2>2. PassTyped(None) /\ None.phase # "replace"
    BY DEF None, PassTyped, Phase
  <2>3. UNCHANGED <<companion, images, people, loop, process, splits, stale>>
    BY <1>11 DEF End
  <2> QED
    BY <1>1, <2>1, <2>2, <2>3, PassMoves DEF images
<1> QED
  BY <1>2, <1>3, <1>4, <1>5, <1>6, <1>7, <1>9, <1>10, <1>11 DEF PassStep

\* A pass starts only where there is a place for it.
LEMMA TakeTyped ==
  ASSUME QueueTyped, Take
  PROVE  QueueTyped'
<1>1. NotesTyped'
  BY DEF Take, QueueTyped, NotesTyped, images, people
<1>2. LoopTyped'
  BY LimitAssumption DEF Take, Allowed, QueueTyped, LoopTyped, people, process
<1>3. ASSUME pass' = pass PROVE PassesTyped'
  BY <1>3 DEF QueueTyped, PassesTyped, PassTyped, Inflight
<1>4. CASE pass' = [pass EXCEPT ![First] = [phase |-> "start"]]
  <2> DEFINE p == [phase |-> "start"]
  <2>1. /\ pass' = [s \in Slide |-> pass'[s]]
        /\ \A s \in Slide : pass'[s] = IF s = First THEN p ELSE pass[s]
    BY <1>4 DEF QueueTyped, PassesTyped
  <2>2. PassTyped(p) /\ p.phase # "replace"
    BY DEF PassTyped, Phase
  <2> HIDE DEF p
  <2>3. (\A s \in Slide : PassTyped(pass[s]))'
    <3>1. \A s \in Slide : PassTyped(pass'[s])
      BY <2>1, <2>2 DEF QueueTyped, PassesTyped
    <3> QED
      BY <3>1 DEF PassTyped
  <2>4. Cardinality(Inflight') <= Conc
    <3>1. /\ Inflight' \in SUBSET Slide /\ Inflight \in SUBSET Slide
          /\ Inflight' \subseteq Inflight \cup {First}
      BY <2>1 DEF Inflight
    <3>2. CASE First \notin Slide
      <4>1. Inflight' = Inflight
        BY <2>1, <3>2 DEF Inflight
      <4> QED
        BY <4>1 DEF QueueTyped, PassesTyped
    <3>3. CASE First \in Slide
      <4>1. /\ Inflight \cup {First} \in SUBSET Slide
            /\ First \notin Inflight /\ Cardinality(Inflight) < Conc
        BY <3>1, <3>3 DEF Take
      <4>2. Cardinality(Inflight \cup {First}) = Cardinality(Inflight) + 1
        BY <3>1, <4>1, FewSlides, FS_AddElement
      <4>3. Cardinality(Inflight') <= Cardinality(Inflight \cup {First})
        BY <3>1, <4>1, FewSlides, FS_Subset
      <4>4. Cardinality(Inflight) \in Nat /\ Cardinality(Inflight') \in Nat /\ Conc \in Nat
        BY <3>1, FewSlides, LimitAssumption
      <4> QED
        BY <4>1, <4>2, <4>3, <4>4
    <3> QED
      BY <3>2, <3>3
  <2>5. \A r, s \in Slide : pass'[r].phase = "replace" /\ pass'[s].phase = "replace" => r = s
    BY <2>1, <2>2 DEF QueueTyped, PassesTyped
  <2> QED
    BY <1>1, <1>2, <2>1, <2>3, <2>4, <2>5 DEF PassesTyped, QueueTyped
<1> QED
  BY <1>1, <1>2, <1>3, <1>4 DEF QueueTyped, Take

\* Every step keeps the types.
LEMMA TypedStep == QueueTyped /\ [Next]_vars => QueueTyped'
<1> SUFFICES ASSUME QueueTyped, [Next]_vars PROVE QueueTyped'
  OBVIOUS
<1>1. UNCHANGED pass => PassesTyped'
  BY DEF QueueTyped, PassesTyped, PassTyped, Inflight
<1>2. ASSUME NEW n \in Note, NEW s \in Slide, LeaveNote(n, s) \/ ReadSection(n, s)
      PROVE  QueueTyped'
  BY <1>2, NotesGrow
<1>3. ASSUME NEW n \in Note, PutSection(n) PROVE QueueTyped'
  <2>1. draft[n].slide \in Slide
    BY <1>3 DEF PutSection, QueueTyped, NotesTyped
  <2> QED
    BY <1>3, <2>1, NotesGrow
<1>4. ASSUME NEW n \in Note, ImageLands(n) PROVE QueueTyped'
  BY <1>1, <1>4 DEF ImageLands, people, loop, process, QueueTyped, NotesTyped, LoopTyped
<1>5. ASSUME NEW s \in Slide, ClearError(s) PROVE QueueTyped'
  <2>1. companion[s] \in Companion
    BY DEF QueueTyped, NotesTyped
  <2>2. companion' = [companion EXCEPT ![s] = [companion[s] EXCEPT !.marker = "none"]]
    BY <1>5 DEF ClearError
  <2>3. [companion[s] EXCEPT !.marker = "none"] \in Companion
    BY <2>1, MarkedCompanion DEF Markers
  <2>4. companion' \in [Slide -> Companion]
    BY <2>2, <2>3 DEF QueueTyped, NotesTyped
  <2>5. UNCHANGED <<images, left, draft, loop, pass, process, splits>> /\ clears' \in 0 .. MaxClears
    BY <1>5, LimitAssumption DEF ClearError, QueueTyped, LoopTyped
  <2> QED
    BY <1>1, <2>4, <2>5 DEF images, loop, process, QueueTyped, NotesTyped, LoopTyped
<1>6. CASE ListQueue \/ Skip \/ HourPasses
  <2>1. UNCHANGED <<companion, images, left, draft, clears, pass, crashes>>
    BY <1>6 DEF ListQueue, Skip, HourPasses, people, process
  <2>2. sweep' \subseteq Slide /\ used' \in 0 .. MaxPerHour /\ splits' \in 0 .. MaxSplits
    BY <1>6, LimitAssumption DEF ListQueue, Skip, HourPasses, QueueTyped, LoopTyped
  <2> QED
    BY <1>1, <2>1, <2>2 DEF images, QueueTyped, NotesTyped, LoopTyped
<1>7. CASE Die
  <2>1. Inflight' = {}
    BY <1>7 DEF Die, Inflight
  <2>2. Cardinality(Inflight') <= Conc
    BY <2>1, FS_EmptySet, LimitAssumption
  <2>3. PassesTyped'
    BY <1>7, <2>2 DEF Die, PassesTyped, PassTyped, None, Phase
  <2> QED
    BY <1>7, <2>3, LimitAssumption DEF Die, images, people, QueueTyped, NotesTyped, LoopTyped
<1>8. CASE Recover
  <2>1. \A s \in Slide : companion[s] \in Companion
                         /\ [companion[s] EXCEPT !.marker = "none"] \in Companion
    BY MarkedCompanion DEF QueueTyped, NotesTyped, Markers
  <2>2. companion' \in [Slide -> Companion]
    BY <1>8, <2>1 DEF Recover
  <2> QED
    BY <1>1, <1>8, <2>2 DEF Recover, images, people, loop, QueueTyped, NotesTyped, LoopTyped
<1>9. CASE UNCHANGED vars
  BY <1>1, <1>9 DEF vars, images, people, loop, process, QueueTyped, NotesTyped, LoopTyped
<1> QED
  BY <1>2, <1>3, <1>4, <1>5, <1>6, <1>7, <1>8, <1>9, PassStepTyped, TakeTyped DEF Next, LoopStep

(***************************************************************************)
(* Every variable of the queue keeps its type, whatever is stale: no more  *)
(* passes than places run at a time, no more start in an hour than the cap *)
(* allows, and one at most replaces the content.                           *)
(***************************************************************************)
THEOREM QueueTypes == Spec => []TypeOK
<1>1. QueueTyped => TypeOK
  <2> SUFFICES ASSUME QueueTyped PROVE TypeOK
    OBVIOUS
  <2> DEFINE R == {s \in Slide : pass[s].phase = "replace"}
  <2>1. Cardinality(R) <= 1
    <3>1. CASE R = {}
      BY <3>1, FS_EmptySet
    <3>2. CASE R # {}
      <4>1. PICK r \in Slide : R = {r}
        BY <3>2 DEF QueueTyped, PassesTyped
      <4>2. Cardinality({r}) = 1
        BY FS_Singleton
      <4> QED
        BY <4>1, <4>2
    <3> QED
      BY <3>1, <3>2
  <2> QED
    BY <2>1 DEF QueueTyped, PassesTyped, NotesTyped, LoopTyped, PassTyped, TypeOK
<1> QED
  BY TypedStart, TypedStep, <1>1, PTL DEF Spec
================================================================================
