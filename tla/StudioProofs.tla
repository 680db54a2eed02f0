------------------------------ MODULE StudioProofs ------------------------------
(***************************************************************************)
(* The parts of the studio, whatever the number of people, decks, paths,   *)
(* passes and requests: the guard of the agent's passes and its remote     *)
(* sandboxes, the library, the catalogue, the order of slides, those that  *)
(* are copied and linked from other decks, and exports.  A behaviour of    *)
(* the studio is one of each of its parts.                                 *)
(***************************************************************************)
EXTENDS Studio, StageProofs, CloudProofs, FiniteSetTheorems, TLAPS

--------------------------------------------------------------------------------
\* The scope of the agent's passes (AgentScope).

SweepType == [step : {"none", "agent", "ran", "critic", "criticRan", "push", "pushing"},
              before : SUBSET (Inside \cup Outside)]

PathState == {"clean", "person"} \cup Sweeper

ScopeTyped ==
  /\ isolated \in BOOLEAN
  /\ tree \in [Inside \cup Outside -> PathState]
  /\ sweeps \in [Sweeper -> SweepType]
  /\ \A w \in Sweeper : sweeps[w].step = "none" => sweeps[w] = Resting
  /\ raced \cup reverted \cup unreverted \subseteq Inside \cup Outside

(***************************************************************************)
(* What people have changed was there before every pass that is running,   *)
(* or was changed during one.                                              *)
(***************************************************************************)
ScopeInv ==
  /\ ScopeTyped
  /\ ScopeIsKept
  /\ \A w \in Passing, p \in Inside \cup Outside :
       tree[p] = "person" => p \in raced \/ p \in sweeps[w].before

\* Nothing is modified at first.
LEMMA ScopeStart == AgentScopeInit => ScopeInv
  BY AgentScopeAssumption
     DEF AgentScopeInit, ScopeInv, ScopeTyped, SweepType, ScopeIsKept, Passing, Resting, PathState

\* What a step of pass w says of it and of the others.
LEMMA OnePassMoves ==
  ASSUME ScopeTyped, NEW w \in Sweeper,
         NEW next \in {"agent", "ran", "critic", "criticRan", "push", "pushing"},
         Step(w, next)
  PROVE  /\ sweeps' \in [Sweeper -> SweepType]
         /\ sweeps'[w] = [step |-> next, before |-> sweeps[w].before]
         /\ \A v \in Sweeper \ {w} : sweeps'[v] = sweeps[v]
         /\ sweeps[w].step # "none" => Passing' = Passing
         /\ \A v \in Sweeper : sweeps'[v].step = "none" => sweeps'[v] = Resting
<1>1. /\ sweeps'[w] = [sweeps[w] EXCEPT !.step = next]
      /\ \A v \in Sweeper \ {w} : sweeps'[v] = sweeps[v]
      /\ DOMAIN sweeps' = Sweeper /\ sweeps' = [v \in Sweeper |-> sweeps'[v]]
  BY DEF ScopeTyped, Step
<1>2. sweeps'[w] = [step |-> next, before |-> sweeps[w].before]
  BY <1>1 DEF ScopeTyped, SweepType
<1>3. sweeps' \in [Sweeper -> SweepType]
  BY <1>1, <1>2 DEF ScopeTyped, SweepType
<1>4. sweeps[w].step # "none" => Passing' = Passing
  <2>1. sweeps'[w] # Resting
    BY <1>2 DEF Resting
  <2>2. sweeps[w].step # "none" => sweeps[w] # Resting
    BY DEF Resting
  <2> QED
    BY <1>1, <2>1, <2>2 DEF Passing
<1>5. ASSUME NEW v \in Sweeper, sweeps'[v].step = "none" PROVE sweeps'[v] = Resting
  <2>1. v # w
    BY <1>2, <1>5
  <2> QED
    BY <1>1, <1>5, <2>1 DEF ScopeTyped
<1> QED
  BY <1>1, <1>2, <1>3, <1>4, <1>5, Zenon

\* An agent that comes back has written what it wanted, and is checked next.
LEMMA AgentRunsInv ==
  ASSUME ScopeInv, NEW w \in Sweeper, RunPass(w) \/ RunSourceCritic(w)
  PROVE  ScopeInv'
<1> USE DEF ScopeInv
<1>1. PICK next \in {"ran", "criticRan"} :
        /\ Step(w, next) /\ ExecuteAgent(w)
        /\ sweeps[w].step \in {"agent", "critic"}
        /\ UNCHANGED <<isolated, commits, upstream, raced, reverted>>
  BY DEF RunPass, RunSourceCritic
<1>2. /\ sweeps' \in [Sweeper -> SweepType]
      /\ sweeps'[w] = [step |-> next, before |-> sweeps[w].before]
      /\ \A v \in Sweeper \ {w} : sweeps'[v] = sweeps[v]
      /\ Passing' = Passing /\ w \in Passing
      /\ \A v \in Sweeper : sweeps'[v].step = "none" => sweeps'[v] = Resting
  <2>1. sweeps[w].step # "none" /\ w \in Passing
    BY <1>1 DEF Passing, Resting
  <2> QED
    BY <1>1, <2>1, OnePassMoves
<1>3. PICK paths \in SUBSET DOMAIN tree :
        tree' = Written(paths, w) /\ unreverted' = unreverted \ paths
  BY <1>1 DEF ExecuteAgent
<1>4. /\ tree' \in [Inside \cup Outside -> PathState]
      /\ \A p \in Inside \cup Outside :
           tree'[p] = IF p \in paths THEN w ELSE tree[p]
  BY <1>3 DEF Written, ScopeTyped, PathState
<1>5. ScopeTyped'
  BY <1>1, <1>2, <1>3, <1>4 DEF ScopeTyped
<1>6. \A v \in Passing, p \in Inside \cup Outside :
        tree'[p] = "person" => p \in raced \/ p \in sweeps'[v].before
  BY <1>2, <1>4, AgentScopeAssumption DEF Passing
<1>7. ScopeIsKept'
  <2>1. reverted' = {} /\ (commits' \cup upstream') \cap Outside = {}
    BY <1>1 DEF ScopeIsKept
  <2>2. ASSUME NEW p \in Outside, NEW v \in Sweeper, tree'[p] = v,
               sweeps'[v].step \in {"critic", "push", "pushing"}
        PROVE  p \in sweeps'[v].before \cup unreverted'
    <3>1. v # w
      BY <1>2, <2>2
    <3>2. p \notin paths /\ tree[p] = v /\ sweeps'[v] = sweeps[v]
      BY <1>2, <1>4, <2>2, <3>1
    <3>3. p \in sweeps[v].before \cup unreverted
      BY <2>2, <3>2 DEF ScopeIsKept
    <3> QED
      BY <1>3, <3>2, <3>3
  <2> QED
    BY <2>1, <2>2 DEF ScopeIsKept
<1> QED
  BY <1>1, <1>2, <1>5, <1>6, <1>7

\* What is put back is nobody's but the agent's, or was changed during the pass.
LEMMA EnforceScopeInv ==
  ASSUME ScopeInv, NEW w \in Sweeper, EnforceScope(w)
  PROVE  ScopeInv'
<1> USE DEF ScopeInv
<1>1. /\ sweeps[w].step \in {"ran", "criticRan"} /\ w \in Passing
      /\ UNCHANGED <<isolated, commits, upstream>>
  BY DEF EnforceScope, Passing, Resting
<1>2. /\ sweeps' \in [Sweeper -> SweepType]
      /\ sweeps'[w] = Resting \/ sweeps'[w].before = sweeps[w].before
      /\ \A v \in Sweeper \ {w} : sweeps'[v] = sweeps[v]
      /\ Passing' \subseteq Passing
      /\ \A v \in Sweeper : sweeps'[v].step = "none" => sweeps'[v] = Resting
  <2>1. ASSUME NEW next \in {"critic", "push"}, Step(w, next)
        PROVE  /\ sweeps' \in [Sweeper -> SweepType]
               /\ sweeps'[w].before = sweeps[w].before
               /\ \A v \in Sweeper \ {w} : sweeps'[v] = sweeps[v]
               /\ Passing' = Passing
               /\ \A v \in Sweeper : sweeps'[v].step = "none" => sweeps'[v] = Resting
    <3>1. sweeps[w].step # "none"
      BY <1>1
    <3>2. /\ sweeps' \in [Sweeper -> SweepType]
          /\ sweeps'[w] = [step |-> next, before |-> sweeps[w].before]
          /\ \A v \in Sweeper \ {w} : sweeps'[v] = sweeps[v]
          /\ Passing' = Passing
          /\ \A v \in Sweeper : sweeps'[v].step = "none" => sweeps'[v] = Resting
      BY <2>1, <3>1, OnePassMoves
    <3> QED
      BY <3>2
  <2>2. CASE sweeps' = [sweeps EXCEPT ![w] = Resting]
    BY <2>2 DEF ScopeTyped, SweepType, Passing, Resting
  <2> QED
    BY <2>1, <2>2 DEF EnforceScope
<1>3. PICK rest \in SUBSET OutOfScope(w) :
        /\ tree' = Written(OutOfScope(w) \ rest, "clean")
        /\ reverted' = reverted \cup
             {p \in OutOfScope(w) \ rest : tree[p] = "person" /\ p \notin raced}
        /\ raced' = raced \ (OutOfScope(w) \ rest)
        /\ unreverted' = (unreverted \ OutOfScope(w)) \cup rest
  BY DEF EnforceScope
<1>4. /\ OutOfScope(w) \subseteq Inside \cup Outside
      /\ \A p \in OutOfScope(w) : p \notin sweeps[w].before
      /\ \A p \in Outside : p \notin OutOfScope(w) /\ tree[p] # "clean" => p \in sweeps[w].before
  BY AgentScopeAssumption DEF OutOfScope, Modified, ScopeTyped
<1>5. /\ tree' \in [Inside \cup Outside -> PathState]
      /\ \A p \in Inside \cup Outside :
           tree'[p] = IF p \in OutOfScope(w) \ rest THEN "clean" ELSE tree[p]
  BY <1>3 DEF Written, ScopeTyped, PathState
<1>6. reverted' = {}
  BY <1>1, <1>3, <1>4 DEF ScopeIsKept
<1>7. ScopeTyped'
  BY <1>1, <1>2, <1>3, <1>4, <1>5 DEF ScopeTyped
<1>8. \A v \in Passing', p \in Inside \cup Outside :
        tree'[p] = "person" => p \in raced' \/ p \in sweeps'[v].before
  <2> SUFFICES ASSUME NEW v \in Passing', NEW p \in Inside \cup Outside, tree'[p] = "person"
               PROVE  p \in raced' \/ p \in sweeps'[v].before
    OBVIOUS
  <2>1. tree[p] = "person" /\ p \notin OutOfScope(w) \ rest
    BY <1>5
  <2>2. v \in Passing /\ sweeps'[v] # Resting /\ v \in Sweeper
    BY <1>2 DEF Passing
  <2>3. p \in raced \/ p \in sweeps[v].before
    BY <2>1, <2>2
  <2>4. sweeps'[v].before = sweeps[v].before
    BY <1>2, <2>2
  <2> QED
    BY <1>3, <2>1, <2>3, <2>4
<1>9. ScopeIsKept'
  <2>1. (commits' \cup upstream') \cap Outside = {}
    BY <1>1 DEF ScopeIsKept
  <2>2. ASSUME NEW p \in Outside, NEW v \in Sweeper, tree'[p] = v,
               sweeps'[v].step \in {"critic", "push", "pushing"}
        PROVE  p \in sweeps'[v].before \cup unreverted'
    <3>1. tree[p] = v /\ tree[p] # "clean" /\ p \notin OutOfScope(w) \ rest
      BY <1>5, <2>2, AgentScopeAssumption
    <3>2. CASE v = w
      <4>1. sweeps'[w].before = sweeps[w].before
        BY <1>2, <2>2, <3>2 DEF Resting
      <4> QED
        BY <1>3, <1>4, <3>1, <3>2, <4>1
    <3>3. CASE v # w
      <4>1. p \in sweeps'[v].before \cup unreverted
        BY <1>2, <2>2, <3>1, <3>3 DEF ScopeIsKept
      <4> QED
        BY <1>3, <3>1, <4>1
    <3> QED
      BY <3>2, <3>3
  <2> QED
    BY <1>6, <2>1, <2>2 DEF ScopeIsKept
<1> QED
  BY <1>7, <1>8, <1>9

\* Only what is inside is committed.
LEMMA PushInv ==
  ASSUME ScopeInv, NEW w \in Sweeper, GitPush(w) \/ EndPush(w)
  PROVE  ScopeInv'
<1> USE DEF ScopeInv
<1>1. /\ isolated' = isolated /\ raced' = raced /\ reverted' = reverted
      /\ unreverted' = unreverted /\ sweeps[w].step \in {"push", "pushing"}
  BY DEF GitPush, EndPush
<1>2. /\ tree' \in [Inside \cup Outside -> PathState]
      /\ \A p \in Inside \cup Outside : tree'[p] = tree[p] \/ tree'[p] = "clean"
  BY DEF GitPush, EndPush, Written, ScopeTyped, PathState
<1>3. /\ sweeps' \in [Sweeper -> SweepType]
      /\ \/ sweeps'[w] = Resting
         \/ sweeps'[w].before = sweeps[w].before /\ sweeps[w].step = "push"
      /\ \A v \in Sweeper \ {w} : sweeps'[v] = sweeps[v]
      /\ Passing' \subseteq Passing
      /\ \A v \in Sweeper : sweeps'[v].step = "none" => sweeps'[v] = Resting
  <2>1. CASE GitPush(w)
    <3>1. Step(w, "pushing") /\ sweeps[w].step = "push"
      BY <2>1 DEF GitPush
    <3>2. /\ sweeps' \in [Sweeper -> SweepType]
          /\ sweeps'[w] = [step |-> "pushing", before |-> sweeps[w].before]
          /\ \A v \in Sweeper \ {w} : sweeps'[v] = sweeps[v]
          /\ Passing' = Passing
          /\ \A v \in Sweeper : sweeps'[v].step = "none" => sweeps'[v] = Resting
      BY <3>1, OnePassMoves
    <3> QED
      BY <3>1, <3>2
  <2>2. CASE EndPush(w)
    <3>1. sweeps' = [sweeps EXCEPT ![w] = Resting]
      BY <2>2 DEF EndPush
    <3>2. /\ sweeps'[w] = Resting
          /\ \A v \in Sweeper \ {w} : sweeps'[v] = sweeps[v]
      BY <3>1 DEF ScopeTyped
    <3>3. Resting \in SweepType
      BY DEF Resting, SweepType
    <3>4. sweeps' \in [Sweeper -> SweepType]
      BY <3>1, <3>3 DEF ScopeTyped
    <3>5. Passing' \subseteq Passing
      BY <3>2 DEF Passing
    <3>6. \A v \in Sweeper : sweeps'[v].step = "none" => sweeps'[v] = Resting
      BY <3>2 DEF ScopeTyped
    <3> QED
      BY <3>2, <3>4, <3>5, <3>6
  <2> QED
    BY <2>1, <2>2
<1>4. (commits' \cup upstream') \cap Outside = {}
  BY AgentScopeAssumption DEF GitPush, EndPush, ScopeIsKept
<1>5. ScopeTyped'
  BY <1>1, <1>2, <1>3 DEF ScopeTyped
<1>6. \A v \in Passing', p \in Inside \cup Outside :
        tree'[p] = "person" => p \in raced' \/ p \in sweeps'[v].before
  BY <1>1, <1>2, <1>3 DEF Passing
<1>7. ASSUME NEW p \in Outside, NEW v \in Sweeper, tree'[p] = v,
             sweeps'[v].step \in {"critic", "push", "pushing"}
      PROVE  p \in sweeps'[v].before \cup unreverted'
  <2>1. tree[p] = v
    BY <1>2, <1>7, AgentScopeAssumption
  <2>2. CASE v = w
    BY <1>1, <1>3, <1>7, <2>1, <2>2 DEF ScopeIsKept, Resting
  <2>3. CASE v # w
    BY <1>1, <1>3, <1>7, <2>1, <2>3 DEF ScopeIsKept
  <2> QED
    BY <2>2, <2>3
<1>8. ScopeIsKept'
  BY <1>1, <1>4, <1>7 DEF ScopeIsKept
<1> QED
  BY <1>5, <1>6, <1>8

\* A pass that begins knows what people have changed, or it counts as raced.
LEMMA DirtyPathsInv ==
  ASSUME ScopeInv, NEW w \in Sweeper, DirtyPaths(w)
  PROVE  ScopeInv'
<1> USE DEF ScopeInv, DirtyPaths
<1>1. PICK before \in {Modified, {}} :
        /\ sweeps' = [sweeps EXCEPT ![w] = [step |-> "agent", before |-> before]]
        /\ Passing # {} => raced \subseteq raced'
        /\ \A p \in Modified : p \in raced' \/ p \in before
        /\ raced' \subseteq raced \cup Modified
  OBVIOUS
<1>2. Modified \in SUBSET (Inside \cup Outside)
  BY DEF Modified, ScopeTyped
<1>3. /\ sweeps' \in [Sweeper -> SweepType]
      /\ sweeps'[w] = [step |-> "agent", before |-> before]
      /\ \A v \in Sweeper \ {w} : sweeps'[v] = sweeps[v]
      /\ Passing' \subseteq Passing \cup {w}
      /\ \A v \in Sweeper : sweeps'[v].step = "none" => sweeps'[v] = Resting
  BY <1>1, <1>2 DEF ScopeTyped, SweepType, Passing
<1>4. ScopeTyped'
  BY <1>1, <1>2, <1>3 DEF ScopeTyped
<1>5. ScopeIsKept'
  <2>1. \A v \in Sweeper : sweeps'[v].step \in {"critic", "push", "pushing"} => v # w
    BY <1>3
  <2> QED
    BY <1>1, <1>3, <2>1 DEF ScopeIsKept
<1>6. ASSUME NEW v \in Passing', NEW p \in Inside \cup Outside, tree'[p] = "person"
      PROVE  p \in raced' \/ p \in sweeps'[v].before
  <2>1. p \in Modified
    BY <1>6 DEF Modified, ScopeTyped
  <2>2. CASE v = w
    BY <1>1, <1>3, <2>1, <2>2
  <2>3. CASE v # w
    <3>1. v \in Passing /\ sweeps'[v] = sweeps[v]
      BY <1>3, <2>3 DEF Passing
    <3> QED
      BY <1>1, <1>6, <3>1
  <2> QED
    BY <2>2, <2>3
<1> QED
  BY <1>4, <1>5, <1>6

\* Every step of people, passes and Git keeps the invariant.
LEMMA ScopeStep == ScopeInv /\ [AgentScopeNext]_scopeVars => ScopeInv'
<1> SUFFICES ASSUME ScopeInv, [AgentScopeNext]_scopeVars PROVE ScopeInv'
  OBVIOUS
<1> USE DEF ScopeInv
<1>1. CASE UNCHANGED scopeVars
  BY <1>1 DEF scopeVars, ScopeTyped, ScopeIsKept, Passing
<1>2. ASSUME NEW p \in Inside \cup Outside, EditByHand(p) PROVE ScopeInv'
  <2> USE <1>2 DEF EditByHand
  <2>1. /\ tree' \in [Inside \cup Outside -> PathState]
        /\ tree'[p] = "person"
        /\ \A q \in (Inside \cup Outside) \ {p} : tree'[q] = tree[q]
    BY DEF ScopeTyped, PathState
  <2>2. /\ Passing' = Passing /\ raced' \subseteq raced \cup {p}
        /\ Passing # {} => raced' = raced \cup {p}
    BY DEF Passing
  <2>3. ScopeTyped'
    BY <2>1, <2>2 DEF ScopeTyped
  <2>4. ScopeIsKept'
    BY <2>1, AgentScopeAssumption DEF ScopeIsKept
  <2>5. ASSUME NEW v \in Passing', NEW q \in Inside \cup Outside, tree'[q] = "person"
        PROVE  q \in raced' \/ q \in sweeps'[v].before
    BY <2>1, <2>2, <2>5
  <2> QED
    BY <2>3, <2>4, <2>5
<1> QED
  BY <1>1, <1>2, DirtyPathsInv, AgentRunsInv, EnforceScopeInv, PushInv DEF AgentScopeNext

(***************************************************************************)
(* Whatever agents, people and Git do, the guard reverts no edit that was  *)
(* there before, nothing outside is committed, and what an agent did       *)
(* outside is gone when its pass is pushed, unless it could not be undone. *)
(***************************************************************************)
THEOREM ScopeKept == AgentScopeSpec => []ScopeIsKept
<1>1. ScopeInv => ScopeIsKept
  BY DEF ScopeInv
<1> QED
  BY <1>1, ScopeStart, ScopeStep, PTL DEF AgentScopeSpec

--------------------------------------------------------------------------------
\* Passes in remote sandboxes (Sandbox).

AnyFile == {None, Base, ByHand} \cup Pass

PassType ==
  [at : {"idle", "starting", "working", "closing", "reported", "checking", "writing",
         "done", "failed"},
   original : [Tree -> AnyFile], changes : SUBSET Tree, verdict : Verdict,
   destroyed : BOOLEAN, cancelled : BOOLEAN, checked : SUBSET Tree,
   written : SUBSET Tree, late : SUBSET Tree, raced : SUBSET Tree, broken : BOOLEAN]

\* A report that may be applied comes from a sandbox that is gone; one that is
\* alive belongs to a pass that runs, or broke.
SandboxGone(q, sandbox) ==
  /\ q.at \in {"idle", "starting"} => sandbox = "none"
  /\ q.destroyed => sandbox = "gone" /\ q.at \in {"reported", "checking", "writing"}
  /\ q.at \in {"checking", "writing"} => q.destroyed /\ q.verdict = "clean"
  /\ q.at = "done" => sandbox = "gone"
  /\ q.at \in {"reported", "failed"} /\ sandbox = "alive" => q.broken

\* What differs from the copy is known until it is checked, and all is checked before
\* anything is written.
ChecksBeforeWrites(q, paths) ==
  /\ q.at \notin {"checking", "writing"} => q.checked = {}
  /\ q.at \in {"idle", "done", "failed"} => q.late = {}
  /\ q.written \subseteq q.checked /\ q.checked \subseteq q.changes
  /\ q.written # {} => q.at = "writing" /\ q.checked = q.changes
  /\ q.late \cap q.checked = {}
  /\ \A p \in q.late : paths[p] # q.original[p]

\* A pass that has written nothing is nowhere; what one wrote is there unless it raced.
WritesAreThere(x, q, paths) ==
  /\ \A p \in Tree : paths[p] = x => \/ q.at \in {"writing", "done"}
                                     \/ q.at = "failed" /\ q.broken
  /\ \A p \in q.written \ q.raced : paths[p] = x
  /\ q.at = "done" => \A p \in q.changes \ q.raced : paths[p] = x

PassFits(x, q, paths, sandbox) ==
  /\ q \in PassType
  /\ SandboxGone(q, sandbox)
  /\ ChecksBeforeWrites(q, paths)
  /\ WritesAreThere(x, q, paths)

SandboxInv ==
  /\ disk \in [Tree -> AnyFile]
  /\ remote \in [Pass -> {"none", "alive", "gone"}]
  /\ pass = [x \in Pass |-> pass[x]]
  /\ \A x \in Pass : PassFits(x, pass[x], disk, remote[x])

\* A pass that has failed has nothing but, maybe, something left behind.
LEMMA FailedFits ==
  ASSUME NEW x \in Pass, NEW left \in BOOLEAN, NEW paths, NEW sandbox,
         sandbox = "alive" => left,
         ~left => \A p \in Tree : paths[p] # x
  PROVE  PassFits(x, Failed(left), paths, sandbox)
<1> DEFINE q == Failed(left)
<1>1. q \in PassType
  BY DEF Failed, Fresh, PassType, Verdict, AnyFile
<1>2. /\ q.at = "failed" /\ q.broken = left /\ q.destroyed = FALSE
      /\ q.checked = {} /\ q.written = {} /\ q.late = {} /\ q.changes = {}
  BY DEF Failed, Fresh
<1> HIDE DEF q
<1>3. SandboxGone(q, sandbox)
  BY <1>2 DEF SandboxGone
<1>4. ChecksBeforeWrites(q, paths)
  BY <1>2 DEF ChecksBeforeWrites
<1>5. WritesAreThere(x, q, paths)
  BY <1>2 DEF WritesAreThere
<1> QED
  BY <1>1, <1>3, <1>4, <1>5 DEF PassFits, q

\* A step of one pass, which has to fit, and maybe of its sandbox.
LEMMA OnePassSteps ==
  ASSUME SandboxInv, NEW x \in Pass, NEW q,
         pass' = [pass EXCEPT ![x] = q], disk' = disk,
         remote' \in [Pass -> {"none", "alive", "gone"}],
         \A y \in Pass \ {x} : remote'[y] = remote[y],
         PassFits(x, q, disk, remote'[x])
  PROVE  SandboxInv'
<1>1. /\ pass'[x] = q /\ \A y \in Pass \ {x} : pass'[y] = pass[y]
      /\ pass' = [y \in Pass |-> pass'[y]]
  BY DEF SandboxInv
<1>2. ASSUME NEW y \in Pass PROVE PassFits(y, pass'[y], disk', remote'[y])
  <2>1. CASE y = x
    BY <1>1, <2>1
  <2>2. CASE y # x
    BY <1>1, <2>2 DEF SandboxInv
  <2> QED
    BY <2>1, <2>2
<1> QED
  BY <1>1, <1>2 DEF SandboxInv

\* At first there is nothing of any pass.
LEMMA SandboxStart == SandboxInit => SandboxInv
<1> SUFFICES ASSUME SandboxInit PROVE SandboxInv
  OBVIOUS
<1> USE DEF SandboxInit
<1>1. disk \in [Tree -> AnyFile] /\ \A p \in Tree : disk[p] \in {None, Base}
  BY DEF AnyFile
<1>2. ASSUME NEW x \in Pass PROVE PassFits(x, pass[x], disk, remote[x])
  <2>1. pass[x] = Fresh /\ remote[x] = "none"
    OBVIOUS
  <2>2. Fresh \in PassType
    BY DEF Fresh, PassType, Verdict, AnyFile
  <2>3. /\ Fresh.at = "idle" /\ Fresh.destroyed = FALSE /\ Fresh.checked = {}
        /\ Fresh.written = {} /\ Fresh.late = {} /\ Fresh.changes = {}
    BY DEF Fresh
  <2>4. \A p \in Tree : disk[p] # x
    BY <1>1, SandboxAssumption DEF None, Base
  <2>5. SandboxGone(Fresh, "none") /\ ChecksBeforeWrites(Fresh, disk)
    BY <2>3 DEF SandboxGone, ChecksBeforeWrites
  <2>6. WritesAreThere(x, Fresh, disk)
    BY <2>3, <2>4 DEF WritesAreThere
  <2> QED
    BY <2>1, <2>2, <2>5, <2>6 DEF PassFits
<1> QED
  BY <1>1, <1>2 DEF SandboxInv

\* The dispatcher, and the report of it.
LEMMA DispatcherInv ==
  ASSUME SandboxInv, NEW x \in Pass,
         \/ CollectInputs(x) \/ CreateSandbox(x) \/ RunAgent(x) \/ DestroySandbox(x)
         \/ Deadline(x) \/ KillDispatcher(x) \/ Accept(x)
  PROVE  SandboxInv'
<1> DEFINE q == pass[x]
<1>1. /\ q \in PassType /\ SandboxGone(q, remote[x])
      /\ ChecksBeforeWrites(q, disk) /\ WritesAreThere(x, q, disk)
      /\ disk \in [Tree -> AnyFile] /\ remote[x] \in {"none", "alive", "gone"}
      /\ remote \in [Pass -> {"none", "alive", "gone"}]
      /\ DOMAIN pass = Pass
  BY DEF SandboxInv, PassFits
<1>2. CASE CollectInputs(x)
  <2>1. remote' = remote /\ disk' = disk /\ q.at = "idle"
    BY <1>2 DEF CollectInputs
  <2>2. CASE pass' = [pass EXCEPT ![x] = Failed(FALSE)]
    <3>1. PassFits(x, Failed(FALSE), disk, remote[x])
      <4>1. remote[x] # "alive" /\ \A p \in Tree : disk[p] # x
        BY <1>1, <2>1 DEF SandboxGone, WritesAreThere
      <4> QED
        BY ONLY x \in Pass, <4>1, FailedFits
    <3> QED
      BY <1>1, <2>1, <2>2, <3>1, OnePassSteps
  <2>3. CASE pass' = [pass EXCEPT ![x].at = "starting", ![x].original = disk]
    <3> DEFINE r == [q EXCEPT !.at = "starting", !.original = disk]
    <3>1. pass' = [pass EXCEPT ![x] = r]
      BY <1>1, <2>3
    <3>2. PassFits(x, r, disk, remote[x])
      BY <1>1, <2>1
      DEF PassType, PassFits, SandboxGone, ChecksBeforeWrites, WritesAreThere
    <3> QED
      BY <1>1, <2>1, <3>1, <3>2, OnePassSteps
  <2> QED
    BY <1>2, <2>2, <2>3 DEF CollectInputs
<1>3. CASE CreateSandbox(x)
  <2>1. disk' = disk /\ q.at = "starting"
    BY <1>3 DEF CreateSandbox
  <2>2. PICK at \in {"working", "closing"} : pass' = [pass EXCEPT ![x].at = at]
    BY <1>3 DEF CreateSandbox
  <2> DEFINE r == [q EXCEPT !.at = at]
  <2>3. pass' = [pass EXCEPT ![x] = r]
    BY <1>1, <2>2
  <2>4. /\ remote' \in [Pass -> {"none", "alive", "gone"}]
        /\ \A y \in Pass \ {x} : remote'[y] = remote[y]
    BY <1>1, <1>3 DEF CreateSandbox
  <2>5. PassFits(x, r, disk, remote'[x])
    BY <1>1, <2>1
    DEF PassType, PassFits, SandboxGone, ChecksBeforeWrites, WritesAreThere
  <2> QED
    BY <2>1, <2>3, <2>4, <2>5, OnePassSteps
<1>4. CASE RunAgent(x)
  <2>1. disk' = disk /\ remote' = remote /\ q.at = "working"
    BY <1>4 DEF RunAgent
  <2>2. PICK verdict \in Verdict, differing \in SUBSET Tree :
          pass' = [pass EXCEPT ![x].at = "closing", ![x].verdict = verdict,
                               ![x].changes = differing]
    BY <1>4 DEF RunAgent
  <2> DEFINE r == [q EXCEPT !.at = "closing", !.verdict = verdict, !.changes = differing]
  <2>3. pass' = [pass EXCEPT ![x] = r]
    BY <1>1, <2>2
  <2>4. PassFits(x, r, disk, remote[x])
    BY <1>1, <2>1
    DEF PassType, PassFits, SandboxGone, ChecksBeforeWrites, WritesAreThere
  <2> QED
    BY <1>1, <2>1, <2>3, <2>4, OnePassSteps
<1>5. CASE DestroySandbox(x)
  <2>1. disk' = disk /\ q.at = "closing"
    BY <1>5 DEF DestroySandbox
  <2>2. CASE /\ remote[x] = "alive" /\ remote' = [remote EXCEPT ![x] = "gone"]
             /\ pass' = [pass EXCEPT ![x].at = "reported", ![x].destroyed = TRUE]
    <3> DEFINE r == [q EXCEPT !.at = "reported", !.destroyed = TRUE]
    <3>1. pass' = [pass EXCEPT ![x] = r]
      BY <1>1, <2>2
    <3>2. /\ remote' \in [Pass -> {"none", "alive", "gone"}] /\ remote'[x] = "gone"
          /\ \A y \in Pass \ {x} : remote'[y] = remote[y]
      BY <1>1, <2>2
    <3>3. PassFits(x, r, disk, remote'[x])
      BY <1>1, <2>1, <3>2
      DEF PassType, PassFits, SandboxGone, ChecksBeforeWrites, WritesAreThere
    <3> QED
      BY <2>1, <3>1, <3>2, <3>3, OnePassSteps
  <2>3. CASE /\ pass' = [pass EXCEPT ![x].at = "reported",
                                     ![x].broken = remote[x] = "alive"]
             /\ UNCHANGED remote
    <3> DEFINE r == [q EXCEPT !.at = "reported", !.broken = (remote[x] = "alive")]
    <3>1. pass' = [pass EXCEPT ![x] = r]
      BY <1>1, <2>3
    <3>2. PassFits(x, r, disk, remote[x])
      BY <1>1, <2>1
      DEF PassType, PassFits, SandboxGone, ChecksBeforeWrites, WritesAreThere
    <3> HIDE DEF r
    <3>3. remote' = remote
      BY <2>3
    <3> QED
      BY <1>1, <2>1, <3>1, <3>2, <3>3, OnePassSteps
  <2> QED
    BY <1>5, <2>2, <2>3 DEF DestroySandbox
<1>6. CASE Deadline(x)
  <2>1. /\ disk' = disk /\ remote' = remote /\ q.at \in {"starting", "working", "closing"}
        /\ pass' = [pass EXCEPT ![x].cancelled = TRUE]
    BY <1>6 DEF Deadline
  <2> DEFINE r == [q EXCEPT !.cancelled = TRUE]
  <2>2. pass' = [pass EXCEPT ![x] = r]
    BY <1>1, <2>1
  <2>3. PassFits(x, r, disk, remote[x])
    BY <1>1, <2>1
    DEF PassType, PassFits, SandboxGone, ChecksBeforeWrites, WritesAreThere
  <2> QED
    BY <1>1, <2>1, <2>2, <2>3, OnePassSteps
<1>7. CASE KillDispatcher(x)
  <2>1. disk' = disk /\ pass' = [pass EXCEPT ![x] = Failed(TRUE)]
    BY <1>7 DEF KillDispatcher
  <2>2. /\ remote' \in [Pass -> {"none", "alive", "gone"}]
        /\ \A y \in Pass \ {x} : remote'[y] = remote[y]
    BY <1>1, <1>7 DEF KillDispatcher
  <2>3. PassFits(x, Failed(TRUE), disk, remote'[x])
    BY ONLY x \in Pass, FailedFits
  <2> QED
    BY <2>1, <2>2, <2>3, OnePassSteps
<1>8. CASE Accept(x)
  <2>1. disk' = disk /\ remote' = remote /\ q.at = "reported"
    BY <1>8 DEF Accept
  <2>2. CASE q.verdict = "clean" /\ q.destroyed /\ ~q.cancelled
    <3> DEFINE r == [q EXCEPT !.at = "checking"]
    <3>1. pass' = [pass EXCEPT ![x] = r]
      BY <1>1, <1>8, <2>2 DEF Accept
    <3>2. PassFits(x, r, disk, remote[x])
      BY <1>1, <2>1, <2>2
      DEF PassType, PassFits, SandboxGone, ChecksBeforeWrites, WritesAreThere
    <3> QED
      BY <1>1, <2>1, <3>1, <3>2, OnePassSteps
  <2>3. CASE ~(q.verdict = "clean" /\ q.destroyed /\ ~q.cancelled)
    <3>1. pass' = [pass EXCEPT ![x] = Failed(q.broken)]
      BY <1>1, <1>8, <2>3 DEF Accept
    <3>2. /\ q.broken \in BOOLEAN /\ (remote[x] = "alive" => q.broken)
          /\ \A p \in Tree : disk[p] # x
      BY <1>1, <2>1
      DEF PassType, PassFits, SandboxGone, ChecksBeforeWrites, WritesAreThere
    <3> HIDE DEF q
    <3>3. PassFits(x, Failed(q.broken), disk, remote[x])
      BY ONLY x \in Pass, <3>2, FailedFits
    <3> QED
      BY <1>1, <2>1, <3>1, <3>3, OnePassSteps
  <2> QED
    BY <2>2, <2>3
<1> QED
  BY <1>2, <1>3, <1>4, <1>5, <1>6, <1>7, <1>8

\* Whoever else writes, a pass still knows what differs, or that it raced.
LEMMA NoticedFits ==
  ASSUME SandboxInv, NEW p \in Tree, NEW c \in AnyFile, NEW me, NEW y \in Pass,
         y # me, y # c, disk' = [disk EXCEPT ![p] = c]
  PROVE  PassFits(y, Noticed(p, c, me)[y], disk', remote[y])
<1> DEFINE q == pass[y]
           r == Noticed(p, c, me)[y]
<1>1. /\ q \in PassType /\ SandboxGone(q, remote[y])
      /\ ChecksBeforeWrites(q, disk) /\ WritesAreThere(y, q, disk)
  BY DEF SandboxInv, PassFits
<1>2. /\ disk'[p] = c /\ \A t \in Tree \ {p} : disk'[t] = disk[t]
  BY DEF SandboxInv
<1>3. q.late \subseteq Tree /\ q.written \subseteq Tree /\ q.changes \subseteq Tree
  BY <1>1 DEF PassType
<1>4. CASE q.at \in {"idle", "failed"}
  <2>1. r = q
    BY <1>4 DEF Noticed
  <2>2. ChecksBeforeWrites(q, disk')
    BY <1>1, <1>4 DEF ChecksBeforeWrites
  <2>3. WritesAreThere(y, q, disk')
    BY <1>1, <1>2, <1>3, <1>4 DEF WritesAreThere, ChecksBeforeWrites
  <2> QED
    BY <1>1, <2>1, <2>2, <2>3 DEF PassFits
<1>5. CASE q.at \notin {"idle", "failed"} /\ (p \in q.checked \/ q.at = "done")
  <2>1. r = [q EXCEPT !.raced = @ \cup {p}]
    BY <1>5 DEF Noticed
  <2>2. /\ r \in PassType /\ r.at = q.at /\ r.raced = q.raced \cup {p}
        /\ r.original = q.original /\ r.changes = q.changes /\ r.verdict = q.verdict
        /\ r.destroyed = q.destroyed /\ r.checked = q.checked /\ r.written = q.written
        /\ r.late = q.late /\ r.broken = q.broken
    BY <1>1, <2>1 DEF PassType
  <2> HIDE DEF q, r
  <2>3. SandboxGone(r, remote[y])
    BY <1>1, <2>2 DEF SandboxGone
  <2>4. ChecksBeforeWrites(r, disk')
    BY <1>1, <1>2, <1>3, <1>5, <2>2 DEF ChecksBeforeWrites
  <2>5. WritesAreThere(y, r, disk')
    BY <1>1, <1>2, <1>3, <2>2 DEF WritesAreThere
  <2> QED
    BY <2>2, <2>3, <2>4, <2>5 DEF PassFits, r
<1>6. CASE q.at \notin {"idle", "failed", "done"} /\ p \notin q.checked
  <2>1. PICK seenNow \in {q.late \ {p}, q.late \cup {p}} :
          /\ r = [q EXCEPT !.late = seenNow]
          /\ p \in seenNow => c # q.original[p]
    <3>1. CASE c = q.original[p]
      BY <1>6, <3>1 DEF Noticed
    <3>2. CASE c # q.original[p]
      BY <1>6, <3>2 DEF Noticed
    <3> QED
      BY <3>1, <3>2
  <2>2. /\ r \in PassType /\ r.at = q.at /\ r.raced = q.raced
        /\ r.original = q.original /\ r.changes = q.changes /\ r.verdict = q.verdict
        /\ r.destroyed = q.destroyed /\ r.checked = q.checked /\ r.written = q.written
        /\ r.late = seenNow /\ r.broken = q.broken
    BY <1>1, <2>1 DEF PassType
  <2> HIDE DEF q, r
  <2>3. SandboxGone(r, remote[y])
    BY <1>1, <2>2 DEF SandboxGone
  <2>4. ChecksBeforeWrites(r, disk')
    BY <1>1, <1>2, <1>3, <1>6, <2>1, <2>2 DEF ChecksBeforeWrites
  <2>5. WritesAreThere(y, r, disk')
    BY <1>1, <1>2, <1>3, <1>6, <2>2 DEF WritesAreThere, ChecksBeforeWrites
  <2> QED
    BY <2>2, <2>3, <2>4, <2>5 DEF PassFits, r
<1> QED
  BY <1>4, <1>5, <1>6

\* Every change of a report has been compared before one is written.
LEMMA WriteChangeInv ==
  ASSUME SandboxInv, NEW x \in Pass, NEW p \in Tree, WriteChange(x, p)
  PROVE  SandboxInv'
<1> DEFINE q == pass[x]
<1>1. /\ q \in PassType /\ SandboxGone(q, remote[x])
      /\ ChecksBeforeWrites(q, disk) /\ WritesAreThere(x, q, disk)
      /\ disk \in [Tree -> AnyFile] /\ DOMAIN pass = Pass
      /\ remote \in [Pass -> {"none", "alive", "gone"}]
  BY DEF SandboxInv, PassFits
<1>2. /\ q.at \in {"checking", "writing"} /\ q.checked = q.changes
      /\ p \in q.changes \ q.written /\ remote' = remote
  BY DEF WriteChange
<1>3. CASE disk' = disk /\ pass' = [pass EXCEPT ![x] = Failed(TRUE)]
  <2>1. PassFits(x, Failed(TRUE), disk, remote[x])
    BY FailedFits
  <2> QED
    BY <1>1, <1>2, <1>3, <2>1, OnePassSteps
<1>4. CASE /\ disk' = [disk EXCEPT ![p] = x]
           /\ pass' = [Noticed(p, x, x) EXCEPT ![x].at = "writing", ![x].written = @ \cup {p}]
  <2> DEFINE r == [q EXCEPT !.at = "writing", !.written = @ \cup {p}]
  <2>1. Noticed(p, x, x)[x] = q /\ DOMAIN Noticed(p, x, x) = Pass
    BY DEF Noticed
  <2>2. /\ pass'[x] = r
        /\ \A y \in Pass \ {x} : pass'[y] = Noticed(p, x, x)[y]
        /\ pass' = [y \in Pass |-> pass'[y]]
    BY <1>4, <2>1
  <2>3. x \in AnyFile /\ disk' \in [Tree -> AnyFile]
    BY <1>1, <1>4 DEF AnyFile
  <2>4. /\ r \in PassType /\ r.at = "writing" /\ r.raced = q.raced
        /\ r.original = q.original /\ r.changes = q.changes /\ r.verdict = q.verdict
        /\ r.destroyed = q.destroyed /\ r.checked = q.checked
        /\ r.written = q.written \cup {p} /\ r.late = q.late /\ r.broken = q.broken
    BY <1>1 DEF PassType
  <2>5. /\ disk'[p] = x /\ \A t \in Tree \ {p} : disk'[t] = disk[t]
        /\ q.late \subseteq Tree /\ q.written \subseteq Tree
    BY <1>1, <1>4 DEF PassType
  <2> HIDE DEF q, r
  <2>6. SandboxGone(r, remote'[x])
    BY <1>1, <1>2, <2>4 DEF SandboxGone
  <2>7. ChecksBeforeWrites(r, disk')
    BY <1>1, <1>2, <2>4, <2>5 DEF ChecksBeforeWrites
  <2>8. WritesAreThere(x, r, disk')
    BY <1>1, <2>4, <2>5 DEF WritesAreThere
  <2>9. ASSUME NEW y \in Pass PROVE PassFits(y, pass'[y], disk', remote'[y])
    <3>1. CASE y = x
      BY <2>2, <2>4, <2>6, <2>7, <2>8, <3>1 DEF PassFits
    <3>2. CASE y # x
      <4>1. PassFits(y, Noticed(p, x, x)[y], disk', remote[y])
        BY <1>4, <2>3, <3>2, NoticedFits
      <4> QED
        BY <1>2, <2>2, <3>2, <4>1
    <3> QED
      BY <3>1, <3>2
  <2> QED
    BY <1>1, <1>2, <2>2, <2>3, <2>9 DEF SandboxInv
<1> QED
  BY <1>3, <1>4 DEF WriteChange

\* A change is compared, or the pass ends.
LEMMA ServerInv ==
  ASSUME SandboxInv, NEW x \in Pass,
         (\E p \in Tree : CheckChange(x, p)) \/ EndPass(x) \/ IdleTimeout(x)
  PROVE  SandboxInv'
<1> DEFINE q == pass[x]
<1>1. /\ q \in PassType /\ SandboxGone(q, remote[x])
      /\ ChecksBeforeWrites(q, disk) /\ WritesAreThere(x, q, disk)
      /\ DOMAIN pass = Pass /\ pass = [y \in Pass |-> pass[y]]
      /\ remote \in [Pass -> {"none", "alive", "gone"}]
  BY DEF SandboxInv, PassFits
<1>2. ASSUME NEW p \in Tree, CheckChange(x, p) PROVE SandboxInv'
  <2>1. /\ q.at = "checking" /\ p \in q.changes \ q.checked
        /\ disk' = disk /\ remote' = remote
    BY <1>2 DEF CheckChange
  <2>2. CASE disk[p] = q.original[p]
    <3> DEFINE r == [q EXCEPT !.checked = @ \cup {p}]
    <3>1. pass' = [pass EXCEPT ![x] = r]
      BY <1>1, <1>2, <2>2 DEF CheckChange
    <3>2. PassFits(x, r, disk, remote[x])
      BY <1>1, <2>1, <2>2
      DEF PassType, PassFits, SandboxGone, ChecksBeforeWrites, WritesAreThere
    <3> HIDE DEF r
    <3> QED
      BY <1>1, <2>1, <3>1, <3>2, OnePassSteps
  <2>3. CASE disk[p] # q.original[p]
    <3>1. pass' = [pass EXCEPT ![x] = Failed(q.broken)]
      BY <1>1, <1>2, <2>3 DEF CheckChange
    <3>2. /\ q.broken \in BOOLEAN /\ remote[x] # "alive"
          /\ \A t \in Tree : disk[t] # x
      BY <1>1, <2>1 DEF PassType, SandboxGone, WritesAreThere
    <3> HIDE DEF q
    <3>3. PassFits(x, Failed(q.broken), disk, remote[x])
      BY ONLY x \in Pass, <3>2, FailedFits
    <3> QED
      BY <1>1, <2>1, <3>1, <3>3, OnePassSteps
  <2> QED
    BY <2>2, <2>3
<1>3. CASE EndPass(x)
  <2> DEFINE r == [Fresh EXCEPT !.at = "done", !.changes = q.changes, !.raced = q.raced]
  <2>1. /\ q.at \in {"checking", "writing"} /\ q.written = q.changes
        /\ disk' = disk /\ remote' = remote /\ pass' = [pass EXCEPT ![x] = r]
    BY <1>3 DEF EndPass
  <2>2. /\ r \in PassType /\ r.at = "done" /\ r.changes = q.changes /\ r.raced = q.raced
        /\ r.destroyed = FALSE /\ r.checked = {} /\ r.written = {} /\ r.late = {}
    BY <1>1 DEF Fresh, PassType, Verdict, AnyFile
  <2> HIDE DEF r
  <2>3. PassFits(x, r, disk, remote[x])
    BY <1>1, <2>1, <2>2 DEF PassFits, SandboxGone, ChecksBeforeWrites, WritesAreThere
  <2> QED
    BY <1>1, <2>1, <2>3, OnePassSteps
<1>4. CASE IdleTimeout(x)
  <2>1. /\ remote[x] = "alive" /\ remote' = [remote EXCEPT ![x] = "gone"]
        /\ disk' = disk /\ pass' = pass /\ q.at \in {"idle", "done", "failed"}
    BY <1>4 DEF IdleTimeout, Running
  <2>2. pass' = [pass EXCEPT ![x] = q]
    BY <1>1, <2>1
  <2>3. /\ remote'[x] = "gone" /\ remote' \in [Pass -> {"none", "alive", "gone"}]
        /\ \A y \in Pass \ {x} : remote'[y] = remote[y]
    BY <1>1, <2>1
  <2>4. PassFits(x, q, disk, remote'[x])
    BY <1>1, <2>1, <2>3 DEF PassFits, SandboxGone
  <2> HIDE DEF q
  <2> QED
    BY <2>1, <2>2, <2>3, <2>4, OnePassSteps
<1> QED
  BY <1>2, <1>3, <1>4

\* Every step of people, dispatchers, the service and the server keeps the invariant.
LEMMA SandboxStep == SandboxInv /\ [SandboxNext]_sandboxVars => SandboxInv'
<1> SUFFICES ASSUME SandboxInv, [SandboxNext]_sandboxVars PROVE SandboxInv'
  OBVIOUS
<1>1. CASE UNCHANGED sandboxVars
  BY <1>1 DEF sandboxVars, SandboxInv
<1>2. ASSUME NEW p \in Tree, SaveByHand(p) PROVE SandboxInv'
  <2>1. PICK c \in {None, ByHand} :
          disk' = [disk EXCEPT ![p] = c] /\ pass' = Noticed(p, c, None)
    BY <1>2 DEF SaveByHand
  <2>2. /\ c \in AnyFile /\ disk' \in [Tree -> AnyFile] /\ remote' = remote
        /\ pass' = [y \in Pass |-> pass'[y]]
    BY <1>2, <2>1 DEF SaveByHand, SandboxInv, AnyFile, Noticed
  <2>3. ASSUME NEW y \in Pass PROVE PassFits(y, pass'[y], disk', remote'[y])
    <3>1. y # None /\ y # c
      BY SandboxAssumption DEF None, ByHand
    <3>2. PassFits(y, Noticed(p, c, None)[y], disk', remote[y])
      BY <2>1, <2>2, <3>1, NoticedFits
    <3> QED
      BY <2>1, <2>2, <3>2
  <2> QED
    BY <2>2, <2>3 DEF SandboxInv
<1>3. CASE StopServer
  <2>1. /\ disk' = disk /\ remote' = remote
        /\ pass' = [y \in Pass |-> IF Running(y) THEN Failed(TRUE) ELSE pass[y]]
    BY <1>3 DEF StopServer
  <2>2. ASSUME NEW y \in Pass PROVE PassFits(y, pass'[y], disk', remote'[y])
    <3>1. PassFits(y, Failed(TRUE), disk, remote[y])
      BY FailedFits
    <3>2. PassFits(y, pass[y], disk, remote[y])
      BY DEF SandboxInv
    <3> QED
      BY <2>1, <3>1, <3>2
  <2> QED
    BY <2>1, <2>2 DEF SandboxInv
<1> QED
  BY <1>1, <1>2, <1>3, DispatcherInv, WriteChangeInv, ServerInv DEF SandboxNext

(***************************************************************************)
(* However people save and passes overlap, fail and are cut off, results   *)
(* fit what they replace, and sandboxes end.                               *)
(***************************************************************************)
THEOREM PassesKept == SandboxSpec => [](ResultsFitTheTree /\ SandboxesEnd)
<1>1. SandboxInv => ResultsFitTheTree /\ SandboxesEnd
  <2> SUFFICES ASSUME SandboxInv, NEW x \in Pass
               PROVE  /\ pass[x].written # {} =>
                           /\ remote[x] = "gone" /\ pass[x].verdict = "clean"
                           /\ pass[x].late \cap pass[x].changes = {}
                      /\ pass[x].at = "done" =>
                           \A p \in pass[x].changes \ pass[x].raced : disk[p] = x
                      /\ pass[x].at = "failed" /\ ~pass[x].broken =>
                           \A p \in Tree : disk[p] # x
                      /\ ~Running(x) /\ remote[x] = "alive" => pass[x].broken
    BY DEF ResultsFitTheTree, SandboxesEnd
  <2>1. PassFits(x, pass[x], disk, remote[x])
    BY DEF SandboxInv
  <2> QED
    BY <2>1 DEF PassFits, SandboxGone, ChecksBeforeWrites, WritesAreThere, Running
<1> QED
  BY <1>1, SandboxStart, SandboxStep, PTL DEF SandboxSpec

--------------------------------------------------------------------------------
\* The library (MediaLibrary).

Seeing == {"loaded", "drawn", "kept", "ready", "dropped", "saving", "clashing"}
Filming == {"clip", "ready", "dropped"}

Item == Wanted \cup Picture \cup VideoId

ManifestType == [images : SUBSET (Wanted \cup Picture),
                 videos : [VideoId -> Clip \cup {NoClip}]]

JobType == [at : {"idle", "clip", "archive"} \cup Seeing, item : Item \cup {NoClip},
            clip : Clip \cup {NoClip}, seen : ManifestType, missed : SUBSET Item]

LibraryTyped ==
  /\ manifest \in ManifestType
  /\ queued \subseteq Wanted /\ paid \in [Wanted -> Nat]
  /\ job \in [Worker -> JobType]

\* A worker has a picture, or a video, and uploads have no request.
WorkFits(a) ==
  /\ job[a].at = "idle" => job[a] = NoJob
  /\ job[a].at \in {"loaded", "archive"} => a # "upload"
  /\ job[a].at # "idle" /\ job[a].clip = NoClip =>
       /\ job[a].at \notin Filming
       /\ job[a].item \in (IF a = "upload" THEN Picture ELSE Wanted)
  /\ job[a].clip # NoClip =>
       job[a].at \in Filming \cup {"saving", "clashing"} /\ job[a].item \in VideoId

(***************************************************************************)
(* A worker that has read the manifest has seen what is in it, but for     *)
(* what it missed, and the images it has seen have bytes.                  *)
(***************************************************************************)
SeenFits(a) ==
  job[a].at \in Seeing =>
    /\ Differing(job[a].seen) \subseteq job[a].missed
    /\ job[a].seen.images \subseteq media

\* What a worker is about to register has its bytes, and what it has is in the manifest.
ItemFits(a) ==
  /\ job[a].at \in {"kept", "saving", "clashing"} /\ job[a].clip = NoClip
       => job[a].item \in media
  /\ job[a].clip # NoClip => job[a].clip \in media \/ job[a].item \in excused
  /\ job[a].at = "archive" => job[a].item \in manifest.images \cup excused

(***************************************************************************)
(* A request is with one worker, which has not paid before it has loaded   *)
(* the manifest, and one nobody works on is not paid, or is archived.      *)
(***************************************************************************)
RequestFits(q) ==
  /\ \A a, b \in Worker : job[a].item = q /\ job[b].item = q => a = b
  /\ \A a \in Worker : job[a].at = "loaded" /\ job[a].item = q => paid[q] = 0
  /\ q \in queued /\ (\A a \in Worker : job[a].item # q) => paid[q] = 0
  /\ paid[q] <= 1

LibraryInv ==
  /\ LibraryTyped
  /\ RegistrationsStay
  /\ \A a \in Worker : WorkFits(a) /\ SeenFits(a) /\ ItemFits(a)
  /\ \A q \in Wanted \ excused : RequestFits(q)

\* At first the manifest has the videos there were.
LEMMA LibraryStart == MediaInit => LibraryInv
<1> SUFFICES ASSUME MediaInit PROVE LibraryInv
  OBVIOUS
<1> USE DEF MediaInit
<1>1. Empty \in ManifestType /\ Empty.images = {}
  BY DEF Empty, ManifestType
<1>2. /\ manifest \in ManifestType /\ manifest.images = {}
      /\ \A v \in VideoId : manifest.videos[v] = OldClip
  BY MediaAssumption DEF Empty, ManifestType
<1>3. NoJob \in JobType /\ NoJob.at = "idle" /\ NoJob.clip = NoClip /\ NoJob.item = NoClip
  BY <1>1 DEF NoJob, JobType, Item
<1>4. LibraryTyped
  BY <1>2, <1>3 DEF LibraryTyped
<1>5. RegistrationsStay
  BY <1>2 DEF RegistrationsStay
<1>6. \A a \in Worker : job[a] = NoJob
  BY DEF MediaInit
<1>7. \A a \in Worker : WorkFits(a) /\ SeenFits(a) /\ ItemFits(a)
  BY <1>3, <1>6 DEF WorkFits, SeenFits, ItemFits, Seeing, Filming
<1>8. \A q \in Wanted : RequestFits(q)
  BY <1>3, <1>6, MediaAssumption DEF RequestFits
<1> QED
  BY <1>4, <1>5, <1>7, <1>8 DEF LibraryInv

\* Pictures are never taken away; a clip that is leaves the workers who have it excused.
BytesStay(a) ==
  \A p \in media \ media' :
    p \in Clip /\ \A b \in Worker \ {a} : job[b].clip = p => job[b].item \in excused'

\* While the manifest stays, a worker that moves leaves the others as they were.
LEMMA OthersStay ==
  ASSUME LibraryInv, NEW a \in Worker, NEW j \in JobType, job' = [job EXCEPT ![a] = j],
         manifest' = manifest, excused \subseteq excused', BytesStay(a),
         WorkFits(a)', SeenFits(a)', ItemFits(a)'
  PROVE  /\ job' \in [Worker -> JobType]
         /\ \A b \in Worker : WorkFits(b)' /\ SeenFits(b)' /\ ItemFits(b)'
<1>1. job'[a] = j /\ (\A b \in Worker \ {a} : job'[b] = job[b]) /\ job' \in [Worker -> JobType]
  BY DEF LibraryInv, LibraryTyped
<1>2. ASSUME NEW b \in Worker, b # a PROVE WorkFits(b)' /\ SeenFits(b)' /\ ItemFits(b)'
  <2>1. /\ job'[b] = job[b] /\ job[b] \in JobType
        /\ WorkFits(b) /\ SeenFits(b) /\ ItemFits(b)
    BY <1>1, <1>2 DEF LibraryInv, LibraryTyped
  <2>2. WorkFits(b)'
    BY <2>1 DEF WorkFits, NoJob, Empty
  <2>3. Differing(job[b].seen)' = Differing(job[b].seen)
    BY <2>1 DEF Differing
  <2>4. \A p \in media \cap (Wanted \cup Picture) : p \in media'
    BY MediaAssumption DEF BytesStay
  <2>5. job[b].seen.images \subseteq Wanted \cup Picture
    BY <2>1 DEF JobType, ManifestType
  <2>6. SeenFits(b)'
    BY <2>1, <2>3, <2>4, <2>5 DEF SeenFits
  <2>7. ASSUME job[b].at \in {"kept", "saving", "clashing"}, job[b].clip = NoClip
        PROVE  job[b].item \in media'
    <3>1. job[b].item \in Wanted \cup Picture /\ job[b].item \in media
      BY <2>1, <2>7 DEF WorkFits, ItemFits
    <3> QED
      BY <2>4, <3>1
  <2>8. job[b].clip # NoClip => job[b].clip \in media' \/ job[b].item \in excused'
    BY <1>2, <2>1 DEF ItemFits, BytesStay
  <2>9. ItemFits(b)'
    BY <2>1, <2>7, <2>8 DEF ItemFits
  <2> QED
    BY <2>2, <2>6, <2>9
<1> QED
  BY <1>1, <1>2

\* A request nobody takes or pays in this step still fits.
LEMMA RequestStays ==
  ASSUME NEW q \in Wanted, RequestFits(q), NEW a \in Worker,
         \A b \in Worker \ {a} : /\ job'[b].item = job[b].item
                                 /\ job'[b].at = "loaded" => job[b].at = "loaded",
         job'[a].item = q => job[a].item = q,
         job'[a].at = "loaded" /\ job'[a].item = q => job[a].at = "loaded",
         job[a].item = q /\ job'[a].item # q => q \notin queued',
         paid'[q] = paid[q], queued' \subseteq queued
  PROVE  RequestFits(q)'
<1>1. ASSUME NEW b \in Worker, job'[b].item = q PROVE job[b].item = q
  BY <1>1
<1>2. \A b, c \in Worker : job'[b].item = q /\ job'[c].item = q => b = c
  BY <1>1 DEF RequestFits
<1>3. \A b \in Worker : job'[b].at = "loaded" /\ job'[b].item = q => paid'[q] = 0
  BY DEF RequestFits
<1>4. q \in queued' /\ (\A b \in Worker : job'[b].item # q) => paid'[q] = 0
  BY DEF RequestFits
<1> QED
  BY <1>2, <1>3, <1>4 DEF RequestFits

\* What is announced and listed stays so while the manifest does.
LEMMA ListedStays ==
  ASSUME RegistrationsStay, manifest' = manifest,
         announced' \subseteq manifest.images \cup excused',
         excused \subseteq excused', manifest.images \subseteq media',
         \A v \in VideoId \ excused' : manifest.videos[v] \in media => manifest.videos[v] \in media'
                                        \/ \E b \in Worker : Replacing(b, v)',
         \A b \in Worker, v \in VideoId \ excused' : Replacing(b, v) => Replacing(b, v)'
  PROVE  RegistrationsStay'
<1> SUFFICES ASSUME NEW v \in VideoId \ excused'
             PROVE  \/ manifest.videos[v] \in media' \cup {NoClip}
                    \/ \E b \in Worker : Replacing(b, v)'
  BY DEF RegistrationsStay
<1>1. \/ manifest.videos[v] \in media \cup {NoClip}
      \/ \E b \in Worker : Replacing(b, v)
  BY DEF RegistrationsStay
<1> QED
  BY <1>1

\* The manifest that is read: who could not knows that it missed everything.
LEMMA ReadFits ==
  ASSUME LibraryInv, NEW a \in Worker, NEW item \in Item, NEW clip \in Clip \cup {NoClip},
         NEW phase \in Seeing, ReadManifest(a, item, clip, phase)
  PROVE  \E j \in JobType :
           /\ job' = [job EXCEPT ![a] = j]
           /\ j.at = phase /\ j.item = item /\ j.clip = clip
           /\ Differing(j.seen) \subseteq j.missed /\ j.seen.images \subseteq media
<1> DEFINE Read(s, m) == [at |-> phase, item |-> item, clip |-> clip, seen |-> s, missed |-> m]
<1>1. /\ manifest \in ManifestType /\ manifest.images \subseteq media
      /\ Empty \in ManifestType /\ Empty.images = {}
  BY DEF LibraryInv, LibraryTyped, RegistrationsStay, Empty, ManifestType
<1>2. Differing(manifest) = {}
  BY DEF Differing
<1>3. Differing(Empty) \in SUBSET Item
  BY DEF Differing, Item
<1>4. Read(manifest, {}) \in JobType
  BY <1>1 DEF JobType
<1>5. Read(Empty, Differing(Empty)) \in JobType
  BY <1>1, <1>3 DEF JobType
<1>6. CASE job' = [job EXCEPT ![a] = Read(manifest, {})]
  BY <1>1, <1>2, <1>4, <1>6
<1>7. CASE job' = [job EXCEPT ![a] = Read(Empty, Differing(Empty))]
  BY <1>1, <1>5, <1>7
<1> QED
  BY <1>6, <1>7 DEF ReadManifest

\* A worker that rests has nothing in hand.
LEMMA RestingFits ==
  ASSUME NEW a \in Worker, job'[a] = NoJob
  PROVE  /\ NoJob \in JobType /\ NoJob.at = "idle" /\ NoJob.item = NoClip /\ NoJob.clip = NoClip
         /\ WorkFits(a)' /\ SeenFits(a)' /\ ItemFits(a)'
<1>1. NoJob \in JobType /\ NoJob.at = "idle" /\ NoJob.item = NoClip /\ NoJob.clip = NoClip
  BY DEF NoJob, Empty, JobType, ManifestType, Item
<1>2. NoJob' = NoJob
  BY DEF NoJob, Empty
<1> QED
  BY <1>1, <1>2 DEF WorkFits, SeenFits, ItemFits, Seeing, Filming

\* A request is taken with the manifest as it is read.
LEMMA TakeRequestInv ==
  ASSUME LibraryInv, NEW a \in Worker, NEW q \in Wanted, TakeRequest(a, q)
  PROVE  LibraryInv'
<1>1. /\ a # "upload" /\ job[a].at = "idle" /\ q \in queued
      /\ UNCHANGED <<manifest, whole, media, paid, announced>>
  BY DEF TakeRequest, At
<1>2. CASE /\ ReadManifest(a, q, NoClip, "loaded") /\ UNCHANGED queued
           /\ excused' = IF \E b \in Worker : job[b].item = q THEN excused \cup {q} ELSE excused
  <2>1. "loaded" \in Seeing /\ q \in Item
    BY DEF Seeing, Item
  <2>2. PICK j \in JobType :
          /\ job' = [job EXCEPT ![a] = j]
          /\ j.at = "loaded" /\ j.item = q /\ j.clip = NoClip
          /\ Differing(j.seen) \subseteq j.missed /\ j.seen.images \subseteq media
    BY <1>2, <2>1, ReadFits
  <2>3. job'[a] = j /\ \A b \in Worker \ {a} : job'[b] = job[b]
    BY <2>2 DEF LibraryInv, LibraryTyped
  <2>4. WorkFits(a)' /\ ItemFits(a)'
    BY <1>1, <2>2, <2>3 DEF WorkFits, ItemFits, Filming
  <2>5. SeenFits(a)'
    BY <1>1, <2>2, <2>3 DEF SeenFits, Differing
  <2>6. excused \subseteq excused' /\ BytesStay(a)
    BY <1>1, <1>2 DEF BytesStay
  <2>7. /\ job' \in [Worker -> JobType]
        /\ \A b \in Worker : WorkFits(b)' /\ SeenFits(b)' /\ ItemFits(b)'
    BY <1>1, <2>2, <2>4, <2>5, <2>6, OthersStay
  <2>8. LibraryTyped'
    BY <1>1, <1>2, <2>7 DEF LibraryInv, LibraryTyped
  <2>9. RegistrationsStay'
    <3>1. \A b \in Worker, v \in VideoId : Replacing(b, v) => Replacing(b, v)'
      BY <1>1, <2>3 DEF Replacing, At
    <3> QED
      BY <1>1, <2>6, <3>1, ListedStays DEF LibraryInv, RegistrationsStay
  <2>10. ASSUME NEW r \in Wanted \ excused' PROVE RequestFits(r)'
    <3>1. RequestFits(r) /\ r \in Wanted
      BY <2>6, <2>10 DEF LibraryInv
    <3>2. CASE r = q
      <4>1. \A b \in Worker : job[b].item # q
        BY <1>2, <2>10, <3>2
      <4>2. paid[q] = 0
        BY <1>1, <3>1, <3>2, <4>1 DEF RequestFits
      <4>3. \A b \in Worker : job'[b].item = q => b = a
        BY <2>3, <4>1
      <4> QED
        BY <1>1, <2>2, <2>3, <3>2, <4>2, <4>3 DEF RequestFits
    <3>3. CASE r # q
      <4>1. job[a].item = NoClip /\ NoClip # r
        BY <1>1, MediaAssumption DEF LibraryInv, WorkFits, NoJob
      <4> QED
        BY <1>1, <1>2, <2>2, <2>3, <3>1, <3>3, <4>1, RequestStays
    <3> QED
      BY <3>2, <3>3
  <2> QED
    BY <2>7, <2>8, <2>9, <2>10 DEF LibraryInv
<1>3. CASE queued' = queued \ {q} /\ UNCHANGED <<job, excused>>
  <2>1. LibraryTyped'
    BY <1>1, <1>3 DEF LibraryInv, LibraryTyped
  <2>2. RegistrationsStay'
    BY <1>1, <1>3 DEF LibraryInv, RegistrationsStay, Replacing, At
  <2>3. \A b \in Worker : WorkFits(b)' /\ SeenFits(b)' /\ ItemFits(b)'
    BY <1>1, <1>3 DEF LibraryInv, WorkFits, SeenFits, ItemFits, Differing
  <2>4. \A r \in Wanted \ excused' : RequestFits(r)'
    BY <1>1, <1>3 DEF LibraryInv, RequestFits
  <2> QED
    BY <2>1, <2>2, <2>3, <2>4 DEF LibraryInv
<1> QED
  BY <1>2, <1>3 DEF TakeRequest

\* The one worker that has a request pays it once.
LEMMA AskProviderInv ==
  ASSUME LibraryInv, NEW a \in Worker, AskProvider(a)
  PROVE  LibraryInv'
<1> DEFINE q == job[a].item
<1>1. /\ job[a].at = "loaded" /\ q \in Wanted
      /\ UNCHANGED <<manifest, media, announced, excused>>
  BY DEF AskProvider, At
<1>2. job[a] \in JobType /\ WorkFits(a) /\ SeenFits(a) /\ ItemFits(a) /\ job[a].clip = NoClip
  BY <1>1 DEF LibraryInv, LibraryTyped, WorkFits, Filming
<1>3. BytesStay(a)
  BY <1>1 DEF BytesStay
<1>4. PICK j \in JobType :
        /\ job' = [job EXCEPT ![a] = j]
        /\ WorkFits(a)' /\ SeenFits(a)' /\ ItemFits(a)'
        /\ \/ /\ j.at = "drawn" /\ j.item = q
              /\ paid' = [paid EXCEPT ![q] = @ + 1] /\ queued' = queued
           \/ /\ j.item = NoClip /\ paid' = paid /\ queued' \subseteq queued
  <2>1. CASE /\ job' = Move(a, "drawn") /\ UNCHANGED queued
             /\ paid' = [paid EXCEPT ![q] = @ + 1]
    <3> DEFINE j == [job[a] EXCEPT !.at = "drawn"]
    <3>1. /\ j \in JobType /\ j.at = "drawn" /\ j.item = q /\ j.clip = NoClip
          /\ j.seen = job[a].seen /\ j.missed = job[a].missed
      BY <1>2 DEF JobType, Seeing
    <3>2. job' = [job EXCEPT ![a] = j] /\ job'[a] = j
      BY <2>1 DEF Move, LibraryInv, LibraryTyped
    <3> HIDE DEF j
    <3>3. WorkFits(a)' /\ ItemFits(a)'
      BY <1>1, <1>2, <3>1, <3>2 DEF WorkFits, ItemFits, Filming
    <3>4. SeenFits(a)'
      BY <1>1, <1>2, <3>1, <3>2 DEF SeenFits, Differing, Seeing
    <3> QED
      BY <2>1, <3>1, <3>2, <3>3, <3>4
  <2>2. CASE /\ job' = Free(a) /\ paid' = paid
             /\ queued' = IF a = "server" THEN queued \ {q} ELSE queued
    <3>1. job' = [job EXCEPT ![a] = NoJob] /\ job'[a] = NoJob /\ queued' \subseteq queued
      BY <2>2 DEF Free, LibraryInv, LibraryTyped
    <3> QED
      BY <2>2, <3>1, RestingFits
  <2> QED
    BY <2>1, <2>2 DEF AskProvider
<1>5. job'[a] = j /\ \A b \in Worker \ {a} : job'[b] = job[b]
  BY <1>4 DEF LibraryInv, LibraryTyped
<1>6. /\ job' \in [Worker -> JobType]
      /\ \A b \in Worker : WorkFits(b)' /\ SeenFits(b)' /\ ItemFits(b)'
  BY <1>1, <1>3, <1>4, OthersStay
<1>7. LibraryTyped'
  <2>1. paid' \in [Wanted -> Nat]
    BY <1>1, <1>4 DEF LibraryInv, LibraryTyped
  <2> QED
    BY <1>1, <1>4, <1>6, <2>1 DEF LibraryInv, LibraryTyped
<1>8. RegistrationsStay'
  <2>1. \A b \in Worker, v \in VideoId : Replacing(b, v) => Replacing(b, v)'
    BY <1>1, <1>5 DEF Replacing, At
  <2> QED
    BY <1>1, <2>1, ListedStays DEF LibraryInv, RegistrationsStay
<1>9. ASSUME NEW r \in Wanted \ excused' PROVE RequestFits(r)'
  <2>1. RequestFits(r) /\ r \in Wanted
    BY <1>1, <1>9 DEF LibraryInv
  <2>2. CASE r = q
    <3>1. paid[r] = 0 /\ \A b \in Worker : job[b].item = r => b = a
      BY <1>1, <2>1, <2>2 DEF RequestFits
    <3>2. \A b \in Worker : job'[b].item = r => b = a
      BY <1>5, <3>1
    <3>3. paid'[r] \in {0, 1} /\ (job'[a].item # r => paid'[r] = 0)
      BY <1>4, <1>5, <2>1, <2>2, <3>1 DEF LibraryInv, LibraryTyped
    <3>4. job'[a].item = r => job'[a].at # "loaded"
      BY <1>4, <1>5, <2>1, MediaAssumption
    <3> QED
      BY <1>1, <3>2, <3>3, <3>4 DEF RequestFits
  <2>3. CASE r # q
    <3>1. job'[a].item # r /\ paid'[r] = paid[r] /\ queued' \subseteq queued
      BY <1>4, <1>5, <2>1, <2>3, MediaAssumption DEF LibraryInv, LibraryTyped
    <3> QED
      BY <1>5, <2>1, <2>3, <3>1, RequestStays
  <2> QED
    BY <2>2, <2>3
<1> QED
  BY <1>6, <1>7, <1>8, <1>9 DEF LibraryInv

\* A worker keeps what it has in hand, or has done with it.
KeepsOrLeaves(a, j) ==
  \/ j.item = job[a].item /\ j.at # "loaded"
  \/ j.item \notin Wanted /\ (job[a].item \in queued' => job[a].item \in excused')

\* A worker that moves on, pays nothing and saves nothing keeps the invariant.
LEMMA OneWorks ==
  ASSUME LibraryInv, NEW a \in Worker, NEW j \in JobType, job' = [job EXCEPT ![a] = j],
         UNCHANGED <<manifest, paid>>, queued' \subseteq queued, excused \subseteq excused',
         BytesStay(a), WorkFits(a)', SeenFits(a)', ItemFits(a)', RegistrationsStay',
         KeepsOrLeaves(a, j)
  PROVE  LibraryInv'
<1>1. job'[a] = j /\ \A b \in Worker \ {a} : job'[b] = job[b]
  BY DEF LibraryInv, LibraryTyped
<1>2. /\ job' \in [Worker -> JobType]
      /\ \A b \in Worker : WorkFits(b)' /\ SeenFits(b)' /\ ItemFits(b)'
  BY OthersStay
<1>3. LibraryTyped'
  BY <1>2 DEF LibraryInv, LibraryTyped
<1>4. ASSUME NEW r \in Wanted \ excused' PROVE RequestFits(r)'
  <2>1. RequestFits(r) /\ r \in Wanted
    BY <1>4 DEF LibraryInv
  <2>2. /\ job'[a].item = r => job[a].item = r
        /\ job'[a].item = r => job'[a].at # "loaded"
        /\ job[a].item = r /\ job'[a].item # r => r \notin queued'
    BY <1>1, <1>4 DEF KeepsOrLeaves
  <2> QED
    BY <1>1, <2>1, <2>2, RequestStays
<1> QED
  BY <1>2, <1>3, <1>4 DEF LibraryInv

\* A worker that moves on with what it has: what it needs for that.
LEMMA MoveFits ==
  ASSUME LibraryInv, NEW a \in Worker, NEW phase \in Seeing, job' = Move(a, phase),
         manifest' = manifest, job[a].at \in Seeing \ {"saving", "clashing"}, phase # "loaded",
         phase \in Filming => job[a].at \in Filming,
         job[a].at \in Filming => phase \in Filming \cup {"saving", "clashing"},
         \A p \in media \ media' : p \in Clip /\ p # job[a].clip, excused \subseteq excused',
         phase \in {"kept", "saving", "clashing"} /\ job[a].clip = NoClip => job[a].item \in media'
  PROVE  \E j \in JobType :
           /\ job' = [job EXCEPT ![a] = j] /\ j.at = phase /\ j.item = job[a].item
           /\ job'[a] = j /\ \A b \in Worker \ {a} : job'[b] = job[b]
           /\ j.clip = job[a].clip /\ WorkFits(a)' /\ SeenFits(a)' /\ ItemFits(a)'
<1> DEFINE j == [job[a] EXCEPT !.at = phase]
<1>1. /\ job[a] \in JobType /\ WorkFits(a) /\ SeenFits(a) /\ ItemFits(a)
      /\ job' = [job EXCEPT ![a] = j] /\ job'[a] = j
      /\ \A b \in Worker \ {a} : job'[b] = job[b]
  BY DEF Move, LibraryInv, LibraryTyped
<1>2. /\ j \in JobType /\ j.at = phase /\ j.item = job[a].item /\ j.clip = job[a].clip
      /\ j.seen = job[a].seen /\ j.missed = job[a].missed
  BY <1>1 DEF JobType
<1> HIDE DEF j
<1>3. job[a].at # "idle" /\ phase \notin {"idle", "archive"}
  BY DEF Seeing
<1>4. WorkFits(a)'
  BY <1>1, <1>2, <1>3 DEF WorkFits, Filming
<1>5. SeenFits(a)'
  <2>1. job[a].seen.images \subseteq media'
    BY <1>1, MediaAssumption DEF SeenFits, JobType, ManifestType
  <2> QED
    BY <1>1, <1>2, <2>1 DEF SeenFits, Differing
<1>6. ItemFits(a)'
  BY <1>1, <1>2, <1>3 DEF ItemFits
<1> QED
  BY <1>1, <1>2, <1>4, <1>5, <1>6

\* What fails is archived, or excused.
LEMMA FailInv ==
  ASSUME LibraryInv, NEW a \in Worker, Fail(a)
  PROVE  LibraryInv'
<1>1. /\ job[a].at \in {"drawn", "dropped", "saving", "clashing"}
      /\ job' = [job EXCEPT ![a] = NoJob] /\ job'[a] = NoJob
      /\ \A b \in Worker \ {a} : job'[b] = job[b]
      /\ UNCHANGED <<manifest, media, paid, announced>>
      /\ \/ job[a].item \in queued /\ queued' = queued \ {job[a].item} /\ excused' = excused
         \/ excused' = excused \cup {job[a].item} /\ queued' = queued
  BY DEF Fail, At, Free, LibraryInv, LibraryTyped
<1>2. NoJob \in JobType /\ WorkFits(a)' /\ SeenFits(a)' /\ ItemFits(a)' /\ KeepsOrLeaves(a, NoJob)
  BY <1>1, RestingFits, MediaAssumption DEF KeepsOrLeaves
<1>3. RegistrationsStay'
  <2>1. ASSUME NEW b \in Worker, NEW v \in VideoId \ excused', Replacing(b, v)
        PROVE  Replacing(b, v)'
    <3>1. CASE b = a
      <4>1. job[a].item = v /\ v \in queued /\ queued \subseteq Wanted
        BY <1>1, <2>1, <3>1 DEF Replacing, LibraryInv, LibraryTyped
      <4> QED
        BY <4>1, MediaAssumption
    <3>2. CASE b # a
      BY <1>1, <2>1, <3>2 DEF Replacing, At
    <3> QED
      BY <3>1, <3>2
  <2>2. excused \subseteq excused'
    BY <1>1
  <2>3. announced' \subseteq manifest.images \cup excused' /\ manifest.images \subseteq media'
    BY <1>1, <2>2 DEF LibraryInv, RegistrationsStay
  <2>4. RegistrationsStay
    BY DEF LibraryInv
  <2> QED
    BY <1>1, <2>1, <2>2, <2>3, <2>4, ListedStays
<1>4. BytesStay(a)
  BY <1>1 DEF BytesStay
<1> QED
  BY <1>1, <1>2, <1>3, <1>4, OneWorks

\* An upload starts with the manifest as it is read.
LEMMA ReceivePictureInv ==
  ASSUME LibraryInv, NEW h \in Picture, ReceivePicture(h)
  PROVE  LibraryInv'
<1>1. /\ "upload" \in Worker /\ job["upload"].at = "idle" /\ job["upload"] = NoJob
      /\ UNCHANGED <<manifest, media, queued, paid, excused>>
  BY DEF ReceivePicture, At, Worker, LibraryInv, WorkFits
<1>2. CASE h \in manifest.images /\ announced' = announced \cup {h} /\ UNCHANGED job
  <2>1. RegistrationsStay'
    BY <1>1, <1>2 DEF LibraryInv, RegistrationsStay, Replacing, At
  <2> QED
    BY <1>1, <1>2, <2>1
       DEF LibraryInv, LibraryTyped, WorkFits, SeenFits, ItemFits, RequestFits, Differing
<1>3. CASE ReadManifest("upload", h, NoClip, "drawn") /\ UNCHANGED announced
  <2>1. "drawn" \in Seeing /\ h \in Item
    BY DEF Seeing, Item
  <2>2. PICK j \in JobType :
          /\ job' = [job EXCEPT !["upload"] = j]
          /\ j.at = "drawn" /\ j.item = h /\ j.clip = NoClip
          /\ Differing(j.seen) \subseteq j.missed /\ j.seen.images \subseteq media
    BY <1>1, <1>3, <2>1, ReadFits
  <2>3. job'["upload"] = j /\ \A b \in Worker \ {"upload"} : job'[b] = job[b]
    BY <1>1, <2>2 DEF LibraryInv, LibraryTyped
  <2>4. WorkFits("upload")' /\ ItemFits("upload")'
    BY <1>1, <2>2, <2>3 DEF WorkFits, ItemFits, Filming
  <2>5. SeenFits("upload")'
    BY <1>1, <2>2, <2>3 DEF SeenFits, Differing
  <2>6. RegistrationsStay'
    <3>1. \A b \in Worker, v \in VideoId : Replacing(b, v) => Replacing(b, v)'
      BY <1>1, <2>3 DEF Replacing, At
    <3> QED
      BY <1>1, <1>3, <3>1, ListedStays DEF LibraryInv, RegistrationsStay
  <2>7. KeepsOrLeaves("upload", j) /\ BytesStay("upload")
    BY <1>1, <2>2, MediaAssumption DEF KeepsOrLeaves, BytesStay, LibraryInv, LibraryTyped, NoJob
  <2> QED
    BY <1>1, <2>2, <2>4, <2>5, <2>6, <2>7, OneWorks
<1> QED
  BY <1>2, <1>3 DEF ReceivePicture

\* Bytes are kept before the manifest is cut off for them.
LEMMA KeepPictureInv ==
  ASSUME LibraryInv, NEW a \in Worker, KeepPicture(a) \/ CutManifest(a)
  PROVE  LibraryInv'
<1>1. /\ media \subseteq media' /\ UNCHANGED <<manifest, queued, paid, announced, excused>>
      /\ \/ job[a].at = "drawn" /\ job' = Move(a, "kept") /\ job[a].item \in media'
         \/ job[a].at \in {"kept", "dropped"} /\ job' = Move(a, "saving") /\ media' = media
  BY DEF KeepPicture, CutManifest, At
<1>2. WorkFits(a) /\ ItemFits(a)
  BY DEF LibraryInv
<1>3. PICK phase \in {"kept", "saving"} :
        job' = Move(a, phase) /\ phase = IF job[a].at = "drawn" THEN "kept" ELSE "saving"
  BY <1>1
<1>4. /\ phase \in Seeing /\ phase # "loaded" /\ phase \notin Filming
      /\ job[a].at \in Seeing \ {"saving", "clashing"}
      /\ job[a].at \in Filming => phase \in Filming \cup {"saving", "clashing"}
      /\ job[a].clip = NoClip => job[a].item \in media'
  BY <1>1, <1>2, <1>3 DEF Seeing, Filming, WorkFits, ItemFits
<1>5. PICK j \in JobType :
        /\ job' = [job EXCEPT ![a] = j] /\ j.at = phase /\ j.item = job[a].item
        /\ job'[a] = j /\ \A b \in Worker \ {a} : job'[b] = job[b]
        /\ j.clip = job[a].clip /\ WorkFits(a)' /\ SeenFits(a)' /\ ItemFits(a)'
  BY <1>1, <1>3, <1>4, MoveFits
<1>6. RegistrationsStay'
  <2>1. ASSUME NEW b \in Worker, NEW v \in VideoId, Replacing(b, v) PROVE Replacing(b, v)'
    BY <1>1, <1>3, <1>5, <2>1 DEF Replacing, At
  <2> QED
    BY <1>1, <2>1, ListedStays DEF LibraryInv, RegistrationsStay
<1>7. KeepsOrLeaves(a, j) /\ BytesStay(a)
  BY <1>1, <1>4, <1>5 DEF KeepsOrLeaves, BytesStay
<1> QED
  BY <1>1, <1>5, <1>6, <1>7, OneWorks

\* Clips that are taken away excuse their other names, and those that other workers use.
LEMMA ClipGoes ==
  ASSUME LibraryInv, NEW a \in Worker, NEW v, NEW c \in Clip, media' = media \ {c},
         excused' = excused \cup OtherNames(a, v, c)
  PROVE  /\ BytesStay(a) /\ excused \subseteq excused'
         /\ manifest.images \subseteq media'
         /\ \A w \in VideoId \ excused' :
              w # v /\ manifest.videos[w] \in media => manifest.videos[w] \in media'
<1>1. BytesStay(a) /\ excused \subseteq excused'
  BY DEF BytesStay, OtherNames
<1>2. manifest.images \subseteq media'
  BY MediaAssumption DEF LibraryInv, LibraryTyped, ManifestType, RegistrationsStay
<1>3. \A w \in VideoId \ excused' :
        w # v /\ manifest.videos[w] \in media => manifest.videos[w] \in media'
  BY DEF OtherNames
<1> QED
  BY <1>1, <1>2, <1>3

\* A request is archived, or its renaming fails.
LEMMA ArchiveRequestInv ==
  ASSUME LibraryInv, NEW a \in Worker, ArchiveRequest(a)
  PROVE  LibraryInv'
<1>1. /\ job[a].at = "archive" /\ UNCHANGED <<manifest, media, paid>>
      /\ announced' = announced \cup {job[a].item}
      /\ job' = [job EXCEPT ![a] = NoJob] /\ job'[a] = NoJob
      /\ \A b \in Worker \ {a} : job'[b] = job[b]
      /\ \/ queued' = queued \ {job[a].item} /\ excused' = excused
         \/ queued' = queued /\ excused' = excused \cup {job[a].item}
  BY DEF ArchiveRequest, At, Free, LibraryInv, LibraryTyped
<1>2. NoJob \in JobType /\ WorkFits(a)' /\ SeenFits(a)' /\ ItemFits(a)' /\ KeepsOrLeaves(a, NoJob)
  BY <1>1, RestingFits, MediaAssumption DEF KeepsOrLeaves
<1>3. RegistrationsStay'
  <2>1. \A b \in Worker, v \in VideoId : Replacing(b, v) => Replacing(b, v)'
    BY <1>1 DEF Replacing, At
  <2>2. job[a].item \in manifest.images \cup excused
    BY <1>1 DEF LibraryInv, ItemFits
  <2> QED
    BY <1>1, <2>1, <2>2, ListedStays DEF LibraryInv, RegistrationsStay
<1>4. BytesStay(a)
  BY <1>1 DEF BytesStay
<1> QED
  BY <1>1, <1>2, <1>3, <1>4, OneWorks

\* The bytes of a video come first; a copy that fails takes away those there were.
LEMMA KeepClipInv ==
  ASSUME LibraryInv, NEW a \in Worker, NEW v \in VideoId, NEW c \in Clip, KeepClip(a, v, c)
  PROVE  LibraryInv'
<1>1. /\ job[a].at = "idle" /\ job[a] = NoJob
      /\ UNCHANGED <<manifest, queued, paid, announced>>
  BY DEF KeepClip, At, LibraryInv, WorkFits
<1>2. CASE /\ media' = media \cup {c} /\ UNCHANGED excused
           /\ job' = [job EXCEPT ![a] = [NoJob EXCEPT !.at = "clip", !.item = v, !.clip = c]]
  <2> DEFINE j == [NoJob EXCEPT !.at = "clip", !.item = v, !.clip = c]
  <2>1. j \in JobType /\ j.at = "clip" /\ j.item = v /\ j.clip = c /\ c # NoClip
    BY MediaAssumption DEF NoJob, Empty, JobType, ManifestType, Item
  <2>2. job' = [job EXCEPT ![a] = j]
    BY <1>2
  <2> HIDE DEF j
  <2>3. job'[a] = j /\ \A b \in Worker \ {a} : job'[b] = job[b]
    BY <2>2 DEF LibraryInv, LibraryTyped
  <2>4. WorkFits(a)' /\ SeenFits(a)' /\ ItemFits(a)'
    BY <1>2, <2>1, <2>3 DEF WorkFits, SeenFits, ItemFits, Seeing, Filming
  <2>5. RegistrationsStay'
    <3>1. \A b \in Worker, w \in VideoId : Replacing(b, w) => Replacing(b, w)'
      BY <1>1, <2>3 DEF Replacing, At
    <3> QED
      BY <1>1, <1>2, <3>1, ListedStays DEF LibraryInv, RegistrationsStay
  <2>6. KeepsOrLeaves(a, j) /\ BytesStay(a)
    BY <1>1, <1>2, <2>1, MediaAssumption
       DEF KeepsOrLeaves, BytesStay, LibraryInv, LibraryTyped, NoJob
  <2> QED
    BY <1>1, <1>2, <2>1, <2>2, <2>4, <2>5, <2>6, OneWorks
<1>3. CASE /\ media' = media \ {c} /\ excused' = excused \cup OtherNames(a, NoClip, c)
           /\ UNCHANGED job
  <2>1. /\ BytesStay(a) /\ excused \subseteq excused' /\ manifest.images \subseteq media'
        /\ \A w \in VideoId \ excused' :
             manifest.videos[w] \in media => manifest.videos[w] \in media'
    BY <1>3, ClipGoes, MediaAssumption
  <2>2. RegistrationsStay'
    <3>1. \A b \in Worker, w \in VideoId : Replacing(b, w) => Replacing(b, w)'
      BY <1>3 DEF Replacing, At
    <3> QED
      BY <1>1, <2>1, <3>1, ListedStays DEF LibraryInv, RegistrationsStay
  <2>3. NoJob \in JobType /\ job' = [job EXCEPT ![a] = NoJob] /\ job'[a] = NoJob
    BY <1>1, <1>3, RestingFits DEF LibraryInv, LibraryTyped
  <2>4. WorkFits(a)' /\ SeenFits(a)' /\ ItemFits(a)' /\ KeepsOrLeaves(a, NoJob)
    BY <1>1, <2>3, RestingFits, MediaAssumption
       DEF KeepsOrLeaves, LibraryInv, LibraryTyped, NoJob
  <2> QED
    BY <1>1, <2>1, <2>2, <2>3, <2>4, OneWorks
<1> QED
  BY <1>2, <1>3 DEF KeepClip

\* A video that was kept is registered with the manifest as it is read.
LEMMA LoadManifestInv ==
  ASSUME LibraryInv, NEW a \in Worker, LoadManifest(a)
  PROVE  LibraryInv'
<1>1. /\ job[a].at = "clip" /\ job[a] \in JobType /\ WorkFits(a) /\ ItemFits(a)
      /\ UNCHANGED <<manifest, media, queued, paid, announced, excused>>
  BY DEF LoadManifest, At, LibraryInv, LibraryTyped
<1>2. /\ job[a].clip # NoClip /\ job[a].item \in VideoId /\ job[a].item \in Item
      /\ job[a].clip \in Clip \cup {NoClip} /\ job[a].item \notin Wanted
  BY <1>1, MediaAssumption DEF WorkFits, Filming, JobType, Item
<1>3. BytesStay(a)
  BY <1>1 DEF BytesStay
<1>4. PICK j \in JobType :
        /\ job' = [job EXCEPT ![a] = j] /\ KeepsOrLeaves(a, j)
        /\ WorkFits(a)' /\ SeenFits(a)' /\ ItemFits(a)'
  <2>1. CASE ReadManifest(a, job[a].item, job[a].clip, "ready")
    <3> DEFINE item == job[a].item
               clip == job[a].clip
    <3>1. /\ "ready" \in Seeing /\ item \in Item /\ clip \in Clip \cup {NoClip}
          /\ ReadManifest(a, item, clip, "ready")
      BY <1>2, <2>1 DEF Seeing
    <3> HIDE DEF item, clip
    <3>a. PICK j \in JobType :
            /\ job' = [job EXCEPT ![a] = j]
            /\ j.at = "ready" /\ j.item = item /\ j.clip = clip
            /\ Differing(j.seen) \subseteq j.missed /\ j.seen.images \subseteq media
      BY <3>1, ReadFits
    <3>2. /\ job' = [job EXCEPT ![a] = j]
          /\ j.at = "ready" /\ j.item = job[a].item /\ j.clip = job[a].clip
          /\ Differing(j.seen) \subseteq j.missed /\ j.seen.images \subseteq media
      BY <3>a DEF item, clip
    <3>3. job'[a] = j
      BY <3>2 DEF LibraryInv, LibraryTyped
    <3>4. WorkFits(a)' /\ ItemFits(a)'
      BY <1>1, <1>2, <3>2, <3>3 DEF WorkFits, ItemFits, Filming
    <3>5. SeenFits(a)'
      BY <1>1, <3>2, <3>3 DEF SeenFits, Differing
    <3>6. KeepsOrLeaves(a, j)
      BY <3>2 DEF KeepsOrLeaves
    <3> QED
      BY <3>2, <3>4, <3>5, <3>6
  <2>2. CASE job' = Free(a)
    <3>1. job' = [job EXCEPT ![a] = NoJob] /\ job'[a] = NoJob
      BY <2>2 DEF Free, LibraryInv, LibraryTyped
    <3>2. KeepsOrLeaves(a, NoJob)
      BY <1>1, <1>2, MediaAssumption DEF KeepsOrLeaves, NoJob, LibraryInv, LibraryTyped
    <3> QED
      BY <3>1, <3>2, RestingFits
  <2> QED
    BY <2>1, <2>2 DEF LoadManifest
<1>5. RegistrationsStay'
  <2>1. \A b \in Worker \ {a} : job'[b] = job[b]
    BY <1>4 DEF LibraryInv, LibraryTyped
  <2>2. \A b \in Worker, v \in VideoId : Replacing(b, v) => Replacing(b, v)'
    BY <1>1, <2>1 DEF Replacing, At
  <2> QED
    BY <1>1, <2>2, ListedStays DEF LibraryInv, RegistrationsStay
<1> QED
  BY <1>1, <1>3, <1>4, <1>5, OneWorks

\* The bytes a name had are dropped by the worker that replaces them.
LEMMA DropClipInv ==
  ASSUME LibraryInv, NEW a \in Worker, DropClip(a)
  PROVE  LibraryInv'
<1> DEFINE v == job[a].item
           old == job[a].seen.videos[v]
<1>1. /\ job[a].at = "ready" /\ job' = Move(a, "dropped") /\ job[a] \in JobType
      /\ WorkFits(a) /\ ItemFits(a)
      /\ UNCHANGED <<manifest, queued, paid, announced>>
      /\ IF old \in {NoClip, job[a].clip}
           THEN UNCHANGED <<media, excused>>
           ELSE media' = media \ {old} /\ excused' = excused \cup OtherNames(a, v, old)
  BY DEF DropClip, At, LibraryInv, LibraryTyped
<1>2. job[a].clip # NoClip /\ v \in VideoId /\ old \in Clip \cup {NoClip}
  BY <1>1 DEF WorkFits, Filming, JobType, ManifestType
<1>3. /\ BytesStay(a) /\ excused \subseteq excused' /\ manifest.images \subseteq media'
      /\ \A p \in media \ media' : p \in Clip /\ p # job[a].clip
      /\ \A w \in VideoId \ excused' :
           w # v /\ manifest.videos[w] \in media => manifest.videos[w] \in media'
  <2>1. CASE old \in {NoClip, job[a].clip}
    BY <1>1, <2>1 DEF BytesStay, LibraryInv, RegistrationsStay
  <2>2. CASE old \notin {NoClip, job[a].clip}
    <3>1. /\ media' = media \ {old} /\ excused' = excused \cup OtherNames(a, v, old)
          /\ old \in Clip
      BY <1>1, <1>2, <2>2
    <3> HIDE DEF old, v
    <3> QED
      BY <2>2, <3>1, ClipGoes
  <2> QED
    BY <2>1, <2>2
<1>4. /\ "dropped" \in Seeing /\ job[a].at \in Seeing \ {"saving", "clashing"}
      /\ "dropped" \in Filming => job[a].at \in Filming
      /\ job[a].at \in Filming => "dropped" \in Filming \cup {"saving", "clashing"}
  BY <1>1 DEF Seeing, Filming
<1>5. PICK j \in JobType :
        /\ job' = [job EXCEPT ![a] = j] /\ j.at = "dropped" /\ j.item = job[a].item
        /\ job'[a] = j /\ \A b \in Worker \ {a} : job'[b] = job[b]
        /\ j.clip = job[a].clip /\ WorkFits(a)' /\ SeenFits(a)' /\ ItemFits(a)'
  BY <1>1, <1>3, <1>4, MoveFits
<1>6. RegistrationsStay'
  <2>1. ASSUME NEW b \in Worker, NEW w \in VideoId, Replacing(b, w) PROVE Replacing(b, w)'
    BY <1>1, <1>5, <2>1 DEF Replacing, At
  <2>2. Replacing(a, v)'
    BY <1>5 DEF Replacing, At
  <2>3. \A w \in VideoId \ excused' : manifest.videos[w] \in media =>
          manifest.videos[w] \in media' \/ \E b \in Worker : Replacing(b, w)'
    <3> SUFFICES ASSUME NEW w \in VideoId \ excused', manifest.videos[w] \in media,
                        manifest.videos[w] \notin media'
                 PROVE  \E b \in Worker : Replacing(b, w)'
      OBVIOUS
    <3>1. w = v
      BY <1>3
    <3>2. job'[a].item = w /\ job'[a].at = "dropped"
      BY <1>5, <3>1
    <3> QED
      BY <3>2 DEF Replacing, At
  <2>4. announced' \subseteq manifest.images \cup excused' /\ RegistrationsStay
    BY <1>1, <1>3 DEF LibraryInv, RegistrationsStay
  <2> QED
    BY <1>1, <1>3, <2>1, <2>3, <2>4, ListedStays
<1>7. KeepsOrLeaves(a, j)
  BY <1>5 DEF KeepsOrLeaves
<1> QED
  BY <1>1, <1>3, <1>5, <1>6, <1>7, OneWorks

\* A manifest that is saved has what its writer has read and its item, and nothing else:
\* what the writer missed is excused, and the others miss what is new.
LEMMA SaveManifestInv ==
  ASSUME LibraryInv, NEW a \in Worker, SaveManifest(a)
  PROVE  LibraryInv'
<1> DEFINE m == WithItem(a)
           read == job[a].seen
           requested == a # "upload" /\ job[a].clip = NoClip
           next == IF requested THEN [NoJob EXCEPT !.at = "archive", !.item = job[a].item]
                                ELSE NoJob
           J(b) == [job[b] EXCEPT !.missed = @ \cup Differing(m),
                                  !.at = IF @ = "saving" THEN "clashing" ELSE @]
<1>1. /\ job[a].at \in {"saving", "clashing"} /\ manifest' = m
      /\ excused' = excused \cup job[a].missed
      /\ job' = Missing([job EXCEPT ![a] = next], a, m)
      /\ announced' = IF a = "upload" /\ job[a].clip = NoClip
                        THEN announced \cup {job[a].item} ELSE announced
      /\ UNCHANGED <<media, queued, paid>>
  BY DEF SaveManifest, At
<1>2. /\ job \in [Worker -> JobType] /\ job[a] \in JobType /\ manifest \in ManifestType
      /\ WorkFits(a) /\ SeenFits(a) /\ ItemFits(a) /\ RegistrationsStay
  BY DEF LibraryInv, LibraryTyped
<1>3. /\ read \in ManifestType /\ Differing(read) \subseteq job[a].missed
      /\ read.images \subseteq media /\ job[a].at \in Seeing
  BY <1>1, <1>2 DEF JobType, SeenFits, Seeing
<1>4. IF job[a].clip = NoClip
        THEN /\ job[a].item \in (IF a = "upload" THEN Picture ELSE Wanted)
             /\ job[a].item \in media /\ job[a].item \notin VideoId
             /\ m = [images |-> read.images \cup {job[a].item}, videos |-> read.videos]
        ELSE /\ job[a].item \in VideoId /\ job[a].clip \in Clip
             /\ job[a].item \notin Wanted
             /\ job[a].clip \in media \/ job[a].item \in excused
             /\ m = [images |-> read.images,
                     videos |-> [read.videos EXCEPT ![job[a].item] = job[a].clip]]
  <2>1. read = [images |-> read.images, videos |-> read.videos]
    BY <1>3 DEF ManifestType
  <2>2. CASE job[a].clip = NoClip
    <3>1. m = [images |-> read.images \cup {job[a].item}, videos |-> read.videos]
      BY <2>1, <2>2 DEF WithItem
    <3> QED
      BY <1>1, <1>2, <2>2, <3>1, MediaAssumption DEF WorkFits, ItemFits
  <2>3. CASE job[a].clip # NoClip
    <3>1. m = [images |-> read.images,
               videos |-> [read.videos EXCEPT ![job[a].item] = job[a].clip]]
      BY <2>1, <2>3 DEF WithItem
    <3> QED
      BY <1>1, <1>2, <2>3, <3>1, MediaAssumption DEF WorkFits, ItemFits, JobType
  <2> QED
    BY <2>2, <2>3
<1>5. /\ m \in ManifestType /\ m.images \subseteq media /\ read.images \subseteq m.images
      /\ \A v \in VideoId \ {job[a].item} : m.videos[v] = read.videos[v]
  <2>1. read.videos \in [VideoId -> Clip \cup {NoClip}] /\ read.images \subseteq Wanted \cup Picture
    BY <1>3 DEF ManifestType
  <2>2. CASE job[a].clip = NoClip
    BY <1>3, <1>4, <2>1, <2>2 DEF ManifestType
  <2>3. CASE job[a].clip # NoClip
    BY <1>3, <1>4, <2>1, <2>3 DEF ManifestType
  <2> QED
    BY <2>2, <2>3
<1>6. /\ next \in JobType /\ next.clip = NoClip /\ next.at \in {"idle", "archive"}
      /\ next.item \in Wanted => next.item = job[a].item
      /\ ~requested => next = NoJob /\ job[a].item \notin Wanted
      /\ requested => /\ next.at = "archive" /\ next.item = job[a].item
                  /\ job[a].item \in Wanted
  <2>0. NoJob \in JobType /\ NoJob.at = "idle" /\ NoJob.item = NoClip /\ NoJob.clip = NoClip
    BY DEF NoJob, Empty, JobType, ManifestType, Item
  <2>1. CASE requested
    <3>1. job[a].item \in Wanted
      BY <1>4, <2>1
    <3>2. next = [NoJob EXCEPT !.at = "archive", !.item = job[a].item]
      BY <2>1
    <3>3. /\ next \in JobType /\ next.at = "archive" /\ next.item = job[a].item
          /\ next.clip = NoClip
      BY <2>0, <3>1, <3>2 DEF JobType, Item
    <3> QED
      BY <2>1, <3>1, <3>3
  <2>2. CASE ~requested
    <3>1. next = NoJob /\ job[a].item \notin Wanted
      BY <1>4, <2>2, MediaAssumption
    <3> QED
      BY <2>0, <2>2, <3>1, MediaAssumption
  <2> QED
    BY <2>1, <2>2
<1>7. Differing(m) \in SUBSET Item
  BY DEF Differing, Item
<1> HIDE DEF m, next, requested
<1>8. /\ job'[a] = next
      /\ \A b \in Worker \ {a} : IF job[b].at \in Seeing THEN job'[b] = J(b) ELSE job'[b] = job[b]
      /\ DOMAIN job' = Worker /\ job' = [b \in Worker |-> job'[b]]
  BY <1>1, <1>2 DEF Missing, At, Seeing
<1>9. ASSUME NEW b \in Worker \ {a}
      PROVE  /\ job'[b] \in JobType /\ job'[b].item = job[b].item /\ job'[b].clip = job[b].clip
             /\ job'[b].seen = job[b].seen /\ job[b].missed \subseteq job'[b].missed
             /\ \/ job'[b].at = job[b].at
                \/ job[b].at = "saving" /\ job'[b].at = "clashing"
             /\ job[b].at \in Seeing => Differing(m) \subseteq job'[b].missed
             /\ job[b].at \notin Seeing => job'[b] = job[b]
  <2>1. job[b] \in JobType
    BY <1>2
  <2>2. CASE job[b].at \in Seeing
    <3> DEFINE at == IF job[b].at = "saving" THEN "clashing" ELSE job[b].at
               unseen == job[b].missed \cup Differing(m)
    <3>1. job'[b] = J(b)
      BY <1>8, <2>2
    <3>2. job'[b] = [at |-> at, item |-> job[b].item, clip |-> job[b].clip,
                     seen |-> job[b].seen, missed |-> unseen]
      BY <2>1, <3>1 DEF JobType
    <3>3. at \in Seeing /\ unseen \in SUBSET Item
      BY <1>7, <2>1, <2>2 DEF JobType, Seeing
    <3> QED
      BY <2>1, <2>2, <3>2, <3>3 DEF JobType
  <2>3. CASE job[b].at \notin Seeing
    BY <1>8, <2>1, <2>3
  <2> QED
    BY <2>2, <2>3
<1> HIDE DEF J
<1>10. job' \in [Worker -> JobType]
  BY <1>6, <1>8, <1>9
<1>11. LibraryTyped'
  BY <1>1, <1>5, <1>10 DEF LibraryInv, LibraryTyped
<1>12. manifest.images \subseteq m.images \cup excused'
  <2> SUFFICES ASSUME NEW p \in manifest.images, p \notin job[a].missed PROVE p \in m.images
    BY <1>1
  <2>1. p \in Wanted \cup Picture
    BY <1>2 DEF ManifestType
  <2>2. p \in read.images
    BY <1>3, <2>1 DEF Differing
  <2> QED
    BY <1>5, <2>2
<1>13. ASSUME NEW b \in Worker PROVE WorkFits(b)' /\ SeenFits(b)' /\ ItemFits(b)'
  <2>1. CASE b = a /\ job'[a] = NoJob
    BY <2>1, RestingFits
  <2>2. CASE b = a /\ job'[a] # NoJob
    <3>1. /\ requested /\ job'[a].at = "archive" /\ job'[a].item = job[a].item
          /\ job'[a].clip = NoClip /\ job[a].item \in Wanted
      BY <1>6, <1>8, <2>2
    <3>2. a # "upload" /\ job[a].item \in manifest'.images
      BY <1>1, <1>4, <3>1 DEF requested
    <3> QED
      BY <2>2, <3>1, <3>2 DEF WorkFits, SeenFits, ItemFits, Seeing, Filming
  <2>3. CASE b # a
    <3>1. job[b] \in JobType /\ WorkFits(b) /\ SeenFits(b) /\ ItemFits(b)
      BY DEF LibraryInv, LibraryTyped
    <3>2. /\ job'[b].at = "idle" => job[b].at = "idle" /\ job'[b] = job[b]
      BY <1>9, <2>3 DEF Seeing
    <3>3. NoJob' = NoJob
      BY DEF NoJob, Empty
    <3>4. WorkFits(b)'
      BY <1>9, <2>3, <3>1, <3>2, <3>3 DEF WorkFits, Filming
    <3>5. SeenFits(b)'
      <4> SUFFICES ASSUME job'[b].at \in Seeing
                   PROVE  /\ Differing(job[b].seen)' \subseteq job'[b].missed
                          /\ job[b].seen.images \subseteq media
        BY <1>1, <1>9, <2>3 DEF SeenFits
      <4>1. job[b].at \in Seeing
        BY <1>9, <2>3 DEF Seeing
      <4>2. Differing(job[b].seen) \cup Differing(m) \subseteq job'[b].missed
        BY <1>9, <2>3, <3>1, <4>1 DEF SeenFits
      <4>3. job'[b].seen = job[b].seen
        BY <1>9, <2>3
      <4>4. Differing(job[b].seen)' \subseteq Differing(job[b].seen) \cup Differing(m)
        BY <1>1, <4>3 DEF Differing
      <4> QED
        BY <3>1, <4>1, <4>2, <4>4 DEF SeenFits
    <3>6. ItemFits(b)'
      <4>1. job[b].at = "archive" => job[b].item \in manifest'.images \cup excused'
        BY <1>1, <1>12, <3>1 DEF ItemFits
      <4> QED
        BY <1>1, <1>9, <2>3, <3>1, <4>1 DEF ItemFits
    <3> QED
      BY <3>4, <3>5, <3>6
  <2> QED
    BY <2>1, <2>2, <2>3
<1>14. RegistrationsStay'
  <2>1. announced' \subseteq manifest'.images \cup excused'
    <3>1. a = "upload" /\ job[a].clip = NoClip => job[a].item \in m.images
      BY <1>4
    <3> QED
      BY <1>1, <1>2, <1>12, <3>1 DEF RegistrationsStay
  <2>2. manifest'.images \subseteq media'
    BY <1>1, <1>5
  <2>3. ASSUME NEW v \in VideoId \ excused'
        PROVE  manifest'.videos[v] \in media' \cup {NoClip} \/ \E b \in Worker : Replacing(b, v)'
    <3>1. v \notin job[a].missed /\ v \notin excused
      BY <1>1, <2>3
    <3>2. CASE job[a].clip # NoClip /\ v = job[a].item
      BY <1>1, <1>3, <1>4, <3>1, <3>2 DEF ManifestType
    <3>3. CASE ~(job[a].clip # NoClip /\ v = job[a].item)
      <4>1. v # job[a].item
        BY <1>4, <3>3
      <4>2. manifest'.videos[v] = manifest.videos[v]
        BY <1>1, <1>3, <1>5, <3>1, <4>1 DEF Differing
      <4>3. \A b \in Worker : Replacing(b, v) => Replacing(b, v)'
        BY <1>9, <4>1 DEF Replacing, At
      <4>4. manifest.videos[v] \in media \cup {NoClip} \/ \E b \in Worker : Replacing(b, v)
        BY <1>2, <3>1 DEF RegistrationsStay
      <4> QED
        BY <1>1, <4>2, <4>3, <4>4
    <3> QED
      BY <3>2, <3>3
  <2> QED
    BY <2>1, <2>2, <2>3 DEF RegistrationsStay
<1>15. ASSUME NEW r \in Wanted \ excused' PROVE RequestFits(r)'
  <2>1. RequestFits(r) /\ r \in Wanted
    BY <1>1, <1>15 DEF LibraryInv
  <2>2. job'[a].item = r => job[a].item = r
    BY <1>6, <1>8, <2>1
  <2>3. job'[a].at # "loaded" /\ (job[a].item = r => job'[a].item = r)
    BY <1>6, <1>8, <2>1
  <2>4. \A b \in Worker \ {a} : /\ job'[b].item = job[b].item
                                /\ job'[b].at = "loaded" => job[b].at = "loaded"
    BY <1>9
  <2>5. paid'[r] = paid[r] /\ queued' \subseteq queued
    BY <1>1
  <2>6. /\ job'[a].at = "loaded" /\ job'[a].item = r => job[a].at = "loaded"
        /\ job[a].item = r /\ job'[a].item # r => r \notin queued'
    BY <2>3
  <2> QED
    BY <2>1, <2>2, <2>4, <2>5, <2>6, RequestStays
<1> QED
  BY <1>11, <1>13, <1>14, <1>15 DEF LibraryInv

\* What a process that dies had paid or kept is excused.
LEMMA InterruptInv ==
  ASSUME LibraryInv, NEW who \in SUBSET Worker, Interrupt(who)
  PROVE  LibraryInv'
<1> DEFINE Lost == {job[a].item :
        a \in {b \in who : At(b, {"drawn", "kept", "archive", "dropped", "saving", "clashing"})}}
<1>1. /\ job' = [a \in Worker |-> IF a \in who THEN NoJob ELSE job[a]]
      /\ excused' = excused \cup Lost
      /\ UNCHANGED <<manifest, media, queued, paid, announced>>
  BY DEF Interrupt
<1>2. \A a \in who : job[a].at \in {"drawn", "kept", "archive", "dropped", "saving", "clashing"}
                     => job[a].item \in Lost
  BY DEF At
<1> HIDE DEF Lost
<1>3. NoJob \in JobType /\ NoJob.at = "idle" /\ NoJob.item = NoClip
  BY DEF NoJob, Empty, JobType, ManifestType, Item
<1>4. /\ job' \in [Worker -> JobType]
      /\ \A a \in who : job'[a] = NoJob
      /\ \A a \in Worker \ who : job'[a] = job[a]
  BY <1>1, <1>3 DEF LibraryInv, LibraryTyped
<1>5. LibraryTyped'
  BY <1>1, <1>4 DEF LibraryInv, LibraryTyped
<1>6. ASSUME NEW b \in Worker PROVE WorkFits(b)' /\ SeenFits(b)' /\ ItemFits(b)'
  <2>1. CASE b \in who
    BY <1>4, <2>1, RestingFits
  <2>2. CASE b \notin who
    <3>1. job'[b] = job[b] /\ WorkFits(b) /\ SeenFits(b) /\ ItemFits(b) /\ NoJob' = NoJob
      BY <1>4, <2>2 DEF LibraryInv, NoJob, Empty
    <3>2. WorkFits(b)' /\ ItemFits(b)'
      BY <1>1, <3>1 DEF WorkFits, ItemFits
    <3>3. SeenFits(b)'
      BY <1>1, <3>1 DEF SeenFits, Differing
    <3> QED
      BY <3>2, <3>3
  <2> QED
    BY <2>1, <2>2
<1>7. RegistrationsStay'
  <2>1. ASSUME NEW b \in Worker, NEW v \in VideoId \ excused', Replacing(b, v)
        PROVE  Replacing(b, v)'
    <3>1. b \notin who
      BY <1>1, <1>2, <2>1 DEF Replacing, At
    <3> QED
      BY <1>4, <2>1, <3>1 DEF Replacing, At
  <2> QED
    BY <1>1, <2>1, ListedStays DEF LibraryInv, RegistrationsStay
<1>8. ASSUME NEW r \in Wanted \ excused' PROVE RequestFits(r)'
  <2>1. RequestFits(r) /\ r \in Wanted
    BY <1>1, <1>8 DEF LibraryInv
  <2>2. ASSUME NEW b \in Worker, job'[b].item = r PROVE job'[b] = job[b] /\ job[b].item = r
    BY <1>3, <1>4, <2>1, <2>2, MediaAssumption
  <2>3. ASSUME r \in queued', \A b \in Worker : job'[b].item # r PROVE paid[r] = 0
    <3>1. CASE \A b \in Worker : job[b].item # r
      BY <1>1, <2>1, <2>3, <3>1 DEF RequestFits
    <3>2. ASSUME NEW b \in Worker, job[b].item = r PROVE paid[r] = 0
      <4>1. b \in who
        BY <1>4, <2>3, <3>2
      <4>2. job[b].at \notin {"drawn", "kept", "archive", "dropped", "saving", "clashing"}
        BY <1>1, <1>2, <1>8, <3>2, <4>1
      <4>3. job[b] \in JobType /\ WorkFits(b)
        BY DEF LibraryInv, LibraryTyped
      <4>4. job[b].at # "idle"
        BY <1>3, <2>1, <3>2, <4>3, MediaAssumption DEF WorkFits
      <4>5. job[b].at \notin {"clip", "ready"}
        BY <2>1, <3>2, <4>3, MediaAssumption DEF WorkFits, Filming
      <4>6. job[b].at = "loaded"
        BY <4>2, <4>3, <4>4, <4>5 DEF JobType, Seeing
      <4> QED
        BY <2>1, <3>2, <4>6 DEF RequestFits
    <3> QED
      BY <3>1, <3>2
  <2>4. \A b, c \in Worker : job'[b].item = r /\ job'[c].item = r => b = c
    BY <2>1, <2>2 DEF RequestFits
  <2>5. \A b \in Worker : job'[b].at = "loaded" /\ job'[b].item = r => paid[r] = 0
    BY <2>1, <2>2 DEF RequestFits
  <2>6. paid[r] <= 1
    BY <2>1 DEF RequestFits
  <2> QED
    BY <1>1, <2>3, <2>4, <2>5, <2>6 DEF RequestFits
<1> QED
  BY <1>5, <1>6, <1>7, <1>8 DEF LibraryInv

\* Every step of the workers keeps the invariant.
LEMMA LibraryStep == LibraryInv /\ [MediaNext]_mediaVars => LibraryInv'
<1> SUFFICES ASSUME LibraryInv, [MediaNext]_mediaVars PROVE LibraryInv'
  OBVIOUS
<1>1. CASE UNCHANGED mediaVars
  BY <1>1 DEF mediaVars, LibraryInv, LibraryTyped, RegistrationsStay, WorkFits, SeenFits, ItemFits,
              RequestFits, Replacing, At, Differing
<1>2. {"server", "upload"} \in SUBSET Worker /\ {"command"} \in SUBSET Worker
  BY DEF Worker
<1>3. CASE Interrupt({"server", "upload"}) \/ Interrupt({"command"})
  BY <1>2, <1>3, InterruptInv
<1>4. ASSUME NEW a \in Worker,
             \/ AskProvider(a) \/ KeepPicture(a) \/ CutManifest(a) \/ SaveManifest(a)
             \/ ArchiveRequest(a) \/ LoadManifest(a) \/ DropClip(a) \/ Fail(a)
      PROVE  LibraryInv'
  BY <1>4, AskProviderInv, KeepPictureInv, SaveManifestInv, ArchiveRequestInv, LoadManifestInv,
     DropClipInv, FailInv
<1> QED
  BY <1>1, <1>3, <1>4, TakeRequestInv, ReceivePictureInv, KeepClipInv DEF MediaNext

(***************************************************************************)
(* However many processes use the manifest, fail and die: what users were  *)
(* told is in the library stays, with its bytes, and is paid once, unless  *)
(* they overlapped, or one of them failed or died after it had paid or     *)
(* while it replaced a video.                                              *)
(***************************************************************************)
THEOREM LibraryIsKept == MediaSpec => [](RegistrationsStay /\ PaidOnce)
<1>1. LibraryInv => RegistrationsStay /\ PaidOnce
  BY DEF LibraryInv, RequestFits, PaidOnce
<1> QED
  BY <1>1, LibraryStart, LibraryStep, PTL DEF MediaSpec

--------------------------------------------------------------------------------
\* The catalogue (Catalogue).

Folder(r) == r = [name |-> r.name, position |-> r.position]

\* Folders and placements that fit: what FoldersWhole says, and who is called Trash.
Fits(fs, pl) ==
  /\ DOMAIN fs \subseteq AllIds /\ fs = [f \in DOMAIN fs |-> fs[f]]
  /\ \A f \in DOMAIN fs : Folder(fs[f])
  /\ \A f, g \in DOMAIN fs : fs[f].name = fs[g].name => f = g
  /\ "trash" \in DOMAIN fs => fs["trash"].name = "Trash"
  /\ pl \in [Placed -> AllIds \cup {NoFolder}]
  /\ \A d \in Placed : pl[d] \in DOMAIN fs \cup {NoFolder}

(***************************************************************************)
(* The Trash is never named in a request that was checked, so that it      *)
(* keeps its name; in the file it is always there, so that no other folder *)
(* gets it.                                                                *)
(***************************************************************************)
CatalogueInv ==
  /\ Fits(folders, placement) /\ Fits(file.folders, file.placement)
  /\ Local => "trash" \in DOMAIN folders /\ "trash" \in DOMAIN file.folders
  /\ unsaved \in Nat /\ SavedIsKept
  /\ checked \subseteq Requests /\ (Local => checked = {})
  /\ \A r \in checked : r.kind \in {"rename", "delete"} => r.folder # "trash"

\* The Trash comes last, once, and is called so.
LEMMA TrashFits ==
  ASSUME NEW fs, NEW pl, Fits(fs, pl),
         "trash" \in DOMAIN fs \/ \A f \in DOMAIN fs : fs[f].name # "Trash"
  PROVE  Fits(Trash(fs), pl) /\ "trash" \in DOMAIN Trash(fs)
<1> DEFINE new == Trash(fs)
<1>1. PICK last : /\ last.name = "Trash" /\ Folder(last)
                  /\ new = [f \in DOMAIN fs \cup {"trash"} |-> IF f = "trash" THEN last ELSE fs[f]]
  BY DEF Trash, Folder
<1> HIDE DEF new
<1>2. /\ DOMAIN new = DOMAIN fs \cup {"trash"} /\ new["trash"] = last
      /\ \A f \in DOMAIN fs \ {"trash"} : new[f] = fs[f]
  BY <1>1
<1>3. DOMAIN new \subseteq AllIds /\ new = [f \in DOMAIN new |-> new[f]]
  BY <1>1, <1>2 DEF Fits, AllIds, Exists
<1>4. \A f \in DOMAIN fs \ {"trash"} : fs[f].name # "Trash"
  BY DEF Fits, Exists
<1>5. \A f, g \in DOMAIN new : new[f].name = new[g].name => f = g
  BY <1>1, <1>2, <1>4 DEF Fits, Exists
<1>6. \A f \in DOMAIN new : Folder(new[f])
  BY <1>1, <1>2 DEF Fits, Exists
<1>7. Fits(new, pl)
  BY <1>1, <1>2, <1>3, <1>5, <1>6 DEF Fits, Exists
<1> QED
  BY <1>2, <1>7 DEF new

\* At first there is the Trash, or no folder.
LEMMA CatalogueStart == CatalogueInit => CatalogueInv
<1> SUFFICES ASSUME CatalogueInit PROVE CatalogueInv
  OBVIOUS
<1>1. Fits(<<>>, Unplaced)
  BY DEF Fits, Unplaced, Exists
<1>2. Fits(Trash(<<>>), Unplaced) /\ "trash" \in DOMAIN Trash(<<>>)
  BY <1>1, TrashFits
<1>3. Fits(folders, placement) /\ (Local => "trash" \in DOMAIN folders)
  BY <1>1, <1>2 DEF CatalogueInit, Local
<1>4. file.folders = folders /\ file.placement = placement /\ unsaved = 0 /\ checked = {}
  BY DEF CatalogueInit
<1> QED
  BY <1>3, <1>4 DEF CatalogueInv, SavedIsKept

(***************************************************************************)
(* A change of the memory that fits is saved or not; one of the tables has *)
(* no file.                                                                *)
(***************************************************************************)
LEMMA SaveFits ==
  ASSUME CatalogueInv, Fits(folders', placement'), stored' = stored,
         Local => "trash" \in DOMAIN folders', Save \/ (Local /\ Ahead),
         checked' \subseteq Requests, Local => checked' = {},
         \A r \in checked' : r.kind \in {"rename", "delete"} => r.folder # "trash"
  PROVE  CatalogueInv'
<1>1. CASE ~Local
  <2>1. file' = file /\ unsaved' = unsaved /\ ~Local'
    BY <1>1 DEF Save, Local
  <2> QED
    BY <2>1 DEF CatalogueInv, SavedIsKept
<1>2. CASE Local /\ file' = [folders |-> folders', placement |-> placement'] /\ unsaved' = 0
  <2>1. file'.folders = folders' /\ file'.placement = placement' /\ Local'
    BY <1>2 DEF Local
  <2> QED
    BY <1>2, <2>1 DEF CatalogueInv, SavedIsKept
<1>3. CASE Local /\ Ahead
  <2>1. file' = file /\ unsaved' \in Nat /\ Local'
    BY <1>3 DEF Ahead, CatalogueInv, Local
  <2>2. unsaved' = 0 => unsaved = 0 /\ <<folders', placement'>> = <<folders, placement>>
    BY <1>3 DEF Ahead, CatalogueInv
  <2>3. unsaved' = 0 => unsaved = 0 /\ folders' = folders /\ placement' = placement
    BY <2>2
  <2> QED
    BY <1>3, <2>1, <2>3 DEF CatalogueInv, SavedIsKept
<1> QED
  BY <1>1, <1>2, <1>3 DEF Save

\* A folder that is renamed has a name of its own, and is not the Trash.
LEMMA RenamedFits ==
  ASSUME Fits(folders, placement), NEW f \in Exists, NEW name, f # "trash",
         ~NameTaken(name, f), Renamed(f, name), placement' = placement
  PROVE  Fits(folders', placement') /\ DOMAIN folders' = DOMAIN folders
<1> DEFINE r == [folders[f] EXCEPT !.name = name]
<1> DEFINE old == folders[f]
<1>1. r.name = name /\ Folder(r)
  <2>1. old = [name |-> old.name, position |-> old.position]
    BY DEF Fits, Folder, Exists
  <2> HIDE DEF old
  <2>2. [old EXCEPT !.name = name] = [name |-> name, position |-> old.position]
    BY <2>1
  <2> QED
    BY <2>2 DEF Folder, old
<1>2. folders' = [g \in Exists |-> IF g = f THEN r ELSE folders[g]]
  BY DEF Fits, Renamed, Exists
<1> HIDE DEF r
<1>3. /\ DOMAIN folders' = Exists /\ folders'[f] = r
      /\ \A g \in Exists \ {f} : folders'[g] = folders[g]
  BY <1>2
<1>4. \A g \in Exists : Folder(folders'[g])
  BY <1>1, <1>3 DEF Fits, Exists
<1>5. \A g, h \in Exists : folders'[g].name = folders'[h].name => g = h
  BY <1>1, <1>3 DEF Fits, NameTaken, Exists
<1>6. folders' = [g \in DOMAIN folders' |-> folders'[g]]
  BY <1>2
<1> QED
  BY <1>3, <1>4, <1>5, <1>6 DEF Fits, Exists

\* The decks of a folder that is deleted are in no folder.
LEMMA DeletedFits ==
  ASSUME Fits(folders, placement), NEW f \in Exists, f # "trash", Deleted(f)
  PROVE  /\ Fits(folders', placement')
         /\ "trash" \in DOMAIN folders => "trash" \in DOMAIN folders'
<1>1. /\ DOMAIN folders' = Exists \ {f}
      /\ \A g \in Exists \ {f} : folders'[g] = folders[g]
      /\ folders' = [g \in DOMAIN folders' |-> folders'[g]]
  BY DEF Deleted
<1>2. placement' \in [Placed -> AllIds \cup {NoFolder}]
  BY DEF Deleted, Fits, Exists
<1>3. \A d \in Placed : placement'[d] \in (Exists \ {f}) \cup {NoFolder}
  BY DEF Deleted, Fits, Exists
<1> QED
  BY <1>1, <1>2, <1>3 DEF Fits, Exists

\* A new order changes positions only.
LEMMA ReorderedFits ==
  ASSUME Fits(folders, placement), NEW ids, ReorderFolders(ids)
  PROVE  Fits(folders', placement') /\ DOMAIN folders' = DOMAIN folders
<1>1. PICK P, h : folders' = [f \in Exists |-> IF f \in P
                                THEN [folders[f] EXCEPT !.position = h[f]] ELSE folders[f]]
  <2> DEFINE good == {n \in 0 .. Cardinality(Exists) : \A i \in 1 .. n : Accepted(ids, i)}
             place(f) == CHOOSE i \in good \ {0} : ids[i] = f
             Q == {f \in Exists : \E i \in good \ {0} : ids[i] = f}
             k == [f \in Exists |-> place(f) - 1]
  <2>1. folders' = [f \in Exists |-> IF \E i \in good \ {0} : ids[i] = f
                                       THEN [folders[f] EXCEPT !.position = place(f) - 1]
                                       ELSE folders[f]]
    BY Zenon DEF ReorderFolders
  <2> HIDE DEF good, place
  <2>2. folders' = [f \in Exists |-> IF f \in Q
                                       THEN [folders[f] EXCEPT !.position = k[f]]
                                       ELSE folders[f]]
    BY <2>1
  <2> HIDE DEF Q, k
  <2> QED
    BY <2>2, Zenon
<1>2. DOMAIN folders' = Exists /\ folders' = [f \in DOMAIN folders' |-> folders'[f]]
  BY <1>1
<1>3. ASSUME NEW f \in Exists
      PROVE  Folder(folders'[f]) /\ folders'[f].name = folders[f].name
  <2> DEFINE old == folders[f]
  <2>1. old = [name |-> old.name, position |-> old.position]
    BY DEF Fits, Folder, Exists
  <2>2. folders'[f] = old \/ folders'[f] = [old EXCEPT !.position = h[f]]
    BY <1>1
  <2> HIDE DEF old
  <2>3. [old EXCEPT !.position = h[f]] = [name |-> old.name, position |-> h[f]]
    BY <2>1
  <2> QED
    BY <2>1, <2>2, <2>3 DEF Folder, old
<1>4. placement' = placement
  BY Zenon DEF ReorderFolders
<1> QED
  BY <1>2, <1>3, <1>4 DEF Fits, Exists

\* No request breaks the catalogue, whatever comes between its check and its write.
LEMMA CatalogueStep == CatalogueInv /\ [CatalogueNext]_catalogueVars => CatalogueInv'
<1> SUFFICES ASSUME CatalogueInv, [CatalogueNext]_catalogueVars PROVE CatalogueInv'
  OBVIOUS
<1>1. /\ Fits(folders, placement) /\ Fits(file.folders, file.placement)
      /\ Local => "trash" \in DOMAIN folders /\ "trash" \in DOMAIN file.folders
  BY DEF CatalogueInv
<1>2. /\ checked \subseteq Requests /\ (Local => checked = {})
      /\ \A r \in checked : r.kind \in {"rename", "delete"} => r.folder # "trash"
  BY DEF CatalogueInv
<1>3. ASSUME NEW f \in AllIds, NEW name \in AllNames, CreateFolder(f, name)
      PROVE  CatalogueInv'
  <2> DEFINE p == IF Local THEN Cardinality(Exists) ELSE After(Positions(folders))
             r == [name |-> name, position |-> p]
  <2>1. /\ f \notin Exists /\ f # "trash" /\ ~NameTaken(name, f)
        /\ folders' = [g \in Exists \cup {f} |-> IF g # f THEN folders[g] ELSE r]
        /\ UNCHANGED <<stored, placement, checked>> /\ Save
    BY <1>3, CatalogueAssumption DEF CreateFolder
  <2>2. r.name = name /\ Folder(r)
    BY DEF Folder
  <2> HIDE DEF r
  <2>3. /\ DOMAIN folders' = Exists \cup {f} /\ folders'[f] = r
        /\ \A g \in Exists : folders'[g] = folders[g]
        /\ folders' = [g \in DOMAIN folders' |-> folders'[g]]
    BY <2>1
  <2>4. \A g, h \in DOMAIN folders' : folders'[g].name = folders'[h].name => g = h
    BY <1>1, <2>1, <2>2, <2>3 DEF Fits, NameTaken, Exists
  <2>5. Fits(folders', placement')
    BY <1>1, <2>1, <2>2, <2>3, <2>4 DEF Fits, Exists
  <2> QED
    BY <1>1, <1>2, <2>1, <2>3, <2>5, SaveFits DEF Exists
<1>4. ASSUME NEW f \in AllIds, NEW name \in AllNames, RenameFolder(f, name)
      PROVE  CatalogueInv'
  <2>1. /\ f \in Exists /\ f # "trash" /\ ~NameTaken(name, f) /\ Renamed(f, name)
        /\ UNCHANGED <<stored, placement, checked>> /\ Save
    BY <1>1, <1>4 DEF RenameFolder, NamedTrash, Fits, Exists
  <2>2. Fits(folders', placement') /\ DOMAIN folders' = DOMAIN folders
    BY <1>1, <2>1, RenamedFits
  <2> QED
    BY <1>1, <1>2, <2>1, <2>2, SaveFits
<1>5. ASSUME NEW f \in AllIds, DeleteFolder(f)
      PROVE  CatalogueInv'
  <2>1. /\ f \in Exists /\ f # "trash" /\ Deleted(f)
        /\ UNCHANGED <<stored, checked>> /\ Save
    BY <1>1, <1>5 DEF DeleteFolder, NamedTrash, Fits, Exists
  <2>2. Fits(folders', placement') /\ ("trash" \in DOMAIN folders => "trash" \in DOMAIN folders')
    BY <1>1, <2>1, DeletedFits
  <2> QED
    BY <1>1, <1>2, <2>1, <2>2, SaveFits
<1>6. ASSUME NEW ids, ReorderFolders(ids)
      PROVE  CatalogueInv'
  <2>1. Fits(folders', placement') /\ DOMAIN folders' = DOMAIN folders
    BY <1>1, <1>6, ReorderedFits
  <2>2. UNCHANGED <<stored, checked>> /\ (Save \/ (Local /\ Ahead))
    BY <1>6, Zenon DEF ReorderFolders
  <2> QED
    BY <1>1, <1>2, <2>1, <2>2, SaveFits
<1>7. ASSUME NEW d \in Placed, NEW f \in AllIds \cup {NoFolder}, MoveDecks(d, f)
      PROVE  CatalogueInv'
  <2>1. /\ f \in Exists \cup {NoFolder} /\ placement' = [placement EXCEPT ![d] = f]
        /\ UNCHANGED <<stored, folders, checked>> /\ Save
    BY <1>7 DEF MoveDecks
  <2>2. Fits(folders', placement')
    BY <1>1, <2>1 DEF Fits, Exists
  <2> QED
    BY <1>1, <1>2, <2>1, <2>2, SaveFits
<1>8. CASE Reopen
  <2>1. Fits(Trash(file.folders), file.placement) /\ "trash" \in DOMAIN Trash(file.folders)
    BY <1>1, <1>8, TrashFits DEF Reopen
  <2>2. /\ folders' = Trash(file.folders) /\ placement' = file.placement
        /\ file'.folders = folders' /\ file'.placement = placement' /\ unsaved' = 0
        /\ UNCHANGED checked
    BY <1>8 DEF Reopen
  <2> QED
    BY <1>2, <1>8, <2>1, <2>2 DEF CatalogueInv, SavedIsKept, Reopen
<1>9. CASE View
  <2>1. UNCHANGED <<stored, placement, checked>> /\ (Save \/ (Local /\ Ahead))
    BY <1>9 DEF View, Save
  <2>2. CASE folders' = folders
    BY <1>1, <1>2, <2>1, <2>2, SaveFits
  <2>3. CASE folders' # folders
    <3>1. folders' = Trash(folders) /\ (Local \/ ~\E f \in Exists : NamedTrash(f))
      BY <1>9, <2>3 DEF View
    <3>2. "trash" \in DOMAIN folders \/ \A f \in DOMAIN folders : folders[f].name # "Trash"
      BY <1>1, <3>1 DEF NamedTrash, Exists
    <3>3. Fits(folders', placement') /\ "trash" \in DOMAIN folders'
      BY <1>1, <2>1, <3>1, <3>2, TrashFits
    <3> QED
      BY <1>2, <2>1, <3>3, SaveFits
  <2> QED
    BY <2>2, <2>3
<1>10. ASSUME NEW req \in Requests, Check(req)
       PROVE  CatalogueInv'
  <2>1. UNCHANGED <<stored, folders, placement, file, unsaved>>
    BY <1>10 DEF Check
  <2>2. req.kind \in {"rename", "delete"} => req.folder # "trash"
    BY <1>1, <1>10 DEF Check, NamedTrash, Fits, Exists
  <2>3. /\ checked' \subseteq Requests /\ ~Local
        /\ \A r \in checked' : r.kind \in {"rename", "delete"} => r.folder # "trash"
    BY <1>2, <1>10, <2>2 DEF Check
  <2> QED
    BY <2>1, <2>3 DEF CatalogueInv, SavedIsKept, Local
<1>11. ASSUME NEW req \in checked, Write(req)
       PROVE  CatalogueInv'
  <2>1. /\ UNCHANGED <<stored, file, unsaved>> /\ checked' \subseteq checked
    BY <1>11 DEF Write
  <2> DEFINE f == req.folder
  <2>2. Fits(folders', placement') /\ ("trash" \in DOMAIN folders => "trash" \in DOMAIN folders')
    <3>1. CASE /\ req.kind = "rename" /\ f \in Exists /\ ~NameTaken(req.name, f)
               /\ Renamed(f, req.name) /\ placement' = placement
      <4>1. f # "trash"
        BY <1>2, <3>1
      <4> HIDE DEF f
      <4> QED
        BY <1>1, <3>1, <4>1, RenamedFits
    <3>2. CASE req.kind = "delete" /\ f \in Exists /\ Deleted(f)
      <4>1. f # "trash"
        BY <1>2, <3>2
      <4> HIDE DEF f
      <4> QED
        BY <1>1, <3>2, <4>1, DeletedFits
    <3>3. CASE /\ req.kind = "move" /\ f \in Exists /\ folders' = folders
               /\ placement' = [placement EXCEPT ![req.deck] = f]
      <4> HIDE DEF f
      <4>1. placement' \in [Placed -> AllIds \cup {NoFolder}]
        BY <1>1, <3>3 DEF Fits, Exists
      <4>2. \A d \in Placed : placement'[d] \in {placement[d], f}
        BY <1>1, <3>3 DEF Fits, Exists
      <4> QED
        BY <1>1, <3>3, <4>1, <4>2 DEF Fits, Exists
    <3>4. CASE UNCHANGED <<folders, placement>>
      BY <1>1, <3>4
    <3> QED
      BY <1>11, <3>1, <3>2, <3>3, <3>4, Zenon DEF Write
  <2> QED
    <3>1. ~Local
      BY <1>2, <1>11
    <3> QED
      BY <1>1, <1>2, <2>1, <2>2, <3>1 DEF CatalogueInv, SavedIsKept, Local
<1>12. CASE UNCHANGED catalogueVars
  <2>1. UNCHANGED <<stored, folders, placement, file, unsaved, checked>>
    BY <1>12 DEF catalogueVars
  <2> QED
    BY <2>1 DEF CatalogueInv, SavedIsKept, Local
<1> QED
  BY <1>3, <1>4, <1>5, <1>6, <1>7, <1>8, <1>9, <1>10, <1>11, <1>12, Zenon DEF CatalogueNext

(***************************************************************************)
(* No deck is lost in a folder that is gone, no two folders share a name,  *)
(* in memory, file and tables; and memory and file agree unless a save     *)
(* failed or an order was refused: for every set of folders and decks.     *)
(***************************************************************************)
THEOREM CataloguePartKept == CatalogueSpec => [](FoldersWhole /\ SavedIsKept)
<1>1. CatalogueSpec => []CatalogueInv
  BY CatalogueStart, CatalogueStep, PTL DEF CatalogueSpec
<1>2. CatalogueInv => FoldersWhole /\ SavedIsKept
  <2> SUFFICES ASSUME CatalogueInv PROVE FoldersWhole
    BY DEF CatalogueInv
  <2>1. ASSUME NEW fs \in {<<folders, placement>>, <<file.folders, file.placement>>}
        PROVE  Fits(fs[1], fs[2])
    BY <2>1 DEF CatalogueInv
  <2> QED
    BY <2>1 DEF FoldersWhole, Fits, Exists
<1> QED
  BY <1>1, <1>2, PTL

--------------------------------------------------------------------------------
\* Linked slides (SlideLinks).

Version == [Part -> Nat]
LinkRefresh == [step : {"write"}, read : Version, left : SUBSET (Part \cup {"link"})]

(***************************************************************************)
(* While somebody refreshes: the source may be read, the files not written *)
(* yet are what the old link says, and the others what was read.           *)
(***************************************************************************)
RefreshFits(r) ==
  /\ Linked /\ granted
  /\ refresh[r].step = "stage" => target.files = target.link.of
  /\ refresh[r].step = "write" =>
       /\ \A p \in Part : refresh[r].read[p] <= source[p]
       /\ \A p \in Part \ refresh[r].left : target.files[p] = refresh[r].read[p]
       /\ "link" \notin refresh[r].left => target.link.of = refresh[r].read

LinkTypes ==
  /\ source \in Version /\ seen \in Version /\ granted \in BOOLEAN /\ disturbed \in BOOLEAN
  /\ target \in [files : Version, link : [linked : {TRUE}, of : Version] \cup {NotLinked}]
  /\ refresh \in [Refresher -> {Off, [step |-> "stage"]} \cup LinkRefresh]
  /\ own \in Nat
  /\ \A p \in Part : seen[p] <= source[p]
  /\ granted => seen = source

LinkSound ==
  ~disturbed =>
       /\ \A r, q \in Refresher : refresh[r] # Off /\ refresh[q] # Off => r = q
       /\ \A r \in Refresher : refresh[r] # Off => RefreshFits(r)
       /\ Linked => \A p \in Part : target.files[p] <= seen[p]
       /\ Linked /\ ~Refreshing => target.files = target.link.of

LinkInv == LinkTypes /\ LinkSound

\* At first the slide is what it was copied from.
LEMMA LinkStart == SlideLinksInit => LinkInv
<1> SUFFICES ASSUME SlideLinksInit PROVE LinkInv
  OBVIOUS
<1>1. First \in Version /\ \A p \in Part : First[p] = 1
  BY DEF First, Version
<1>2. /\ target = [files |-> First, link |-> [linked |-> TRUE, of |-> First]]
      /\ source = First /\ seen = First /\ granted = TRUE
      /\ disturbed = FALSE /\ own = 0 /\ refresh = [r \in Refresher |-> Off]
  BY DEF SlideLinksInit, Hashes
<1>3. /\ target \in [files : Version, link : [linked : {TRUE}, of : Version] \cup {NotLinked}]
      /\ target.files = First /\ target.link.of = First
  BY <1>1, <1>2
<1>4. \A r \in Refresher : refresh[r] = Off
  BY <1>2
<1>5. refresh \in [Refresher -> {Off, [step |-> "stage"]} \cup LinkRefresh]
  BY <1>2
<1>6. LinkTypes
  <2>1. source \in Version /\ seen \in Version /\ \A p \in Part : seen[p] <= source[p]
    BY <1>1, <1>2
  <2>2. own \in Nat /\ granted \in BOOLEAN /\ disturbed \in BOOLEAN /\ (granted => seen = source)
    BY <1>2
  <2> QED
    BY <1>3, <1>5, <2>1, <2>2, Zenon DEF LinkTypes
<1>7. LinkSound
  BY <1>1, <1>2, <1>3, <1>4 DEF LinkSound
<1> QED
  BY <1>6, <1>7 DEF LinkInv

\* A step that disturbs has only the types to keep.
LEMMA LinkDisturbed == LinkTypes' /\ disturbed' => LinkInv'
BY DEF LinkInv, LinkSound

\* Every step keeps what the files and the link say of each other.
LEMMA LinkStep == LinkInv /\ [SlideLinksNext]_linkVars => LinkInv'
<1> SUFFICES ASSUME LinkInv, [SlideLinksNext]_linkVars PROVE LinkInv'
  OBVIOUS
<1> USE SlideLinksAssumption
<1>1. /\ source \in Version /\ seen \in Version /\ granted \in BOOLEAN /\ disturbed \in BOOLEAN
      /\ target \in [files : Version, link : [linked : {TRUE}, of : Version] \cup {NotLinked}]
      /\ refresh \in [Refresher -> {Off, [step |-> "stage"]} \cup LinkRefresh]
      /\ own \in Nat /\ (granted => seen = source)
      /\ \A p \in Part : seen[p] <= source[p]
  BY DEF LinkInv, LinkTypes
<1>2. ASSUME ~disturbed
      PROVE  /\ \A r, q \in Refresher : refresh[r] # Off /\ refresh[q] # Off => r = q
             /\ \A r \in Refresher : refresh[r] # Off => RefreshFits(r)
             /\ Linked => \A p \in Part : target.files[p] <= seen[p]
             /\ Linked /\ ~Refreshing => target.files = target.link.of
  BY <1>2 DEF LinkInv, LinkSound
<1>3. CASE UNCHANGED linkVars
  BY <1>3 DEF linkVars, LinkInv, LinkTypes, LinkSound, RefreshFits, Linked, Refreshing
<1>4. ASSUME NEW p \in Part, EditSource(p) PROVE LinkInv'
  <2>1. /\ UNCHANGED <<granted, target, own, refresh, disturbed>>
        /\ source' = [source EXCEPT ![p] = source[p] + 1]
        /\ seen' = IF granted THEN source' ELSE seen
    BY <1>4 DEF EditSource
  <2>2. /\ source' \in Version /\ seen' \in Version
        /\ \A q \in Part : source[q] <= source'[q] /\ seen'[q] <= source'[q] /\ seen[q] <= seen'[q]
    BY <1>1, <2>1 DEF Version
  <2>3. /\ granted => seen' = source' /\ seen = source
        /\ \A q \in Part : /\ source[q] \in Nat /\ source'[q] \in Nat /\ seen[q] \in Nat
                           /\ seen'[q] \in Nat /\ target.files[q] \in Nat
    BY <1>1, <2>1, <2>2, Zenon DEF Version
  <2>4. ASSUME ~disturbed, NEW r \in Refresher, refresh[r] # Off
        PROVE  RefreshFits(r)'
    <3>1. RefreshFits(r)
      BY <1>2, <2>4
    <3>2. refresh[r].step = "write" => \A q \in Part : refresh[r].read[q] \in Nat
      BY <1>1, <2>4 DEF LinkRefresh, Version, Off
    <3> QED
      BY <2>1, <2>2, <2>3, <3>1, <3>2 DEF RefreshFits, Linked
  <2>5. ASSUME ~disturbed, Linked PROVE \A q \in Part : target.files[q] <= seen'[q]
    BY <1>2, <2>2, <2>3, <2>5
  <2> QED
    BY <1>1, <1>2, <2>1, <2>2, <2>3, <2>4, <2>5
       DEF LinkInv, LinkTypes, LinkSound, Linked, Refreshing
<1>5. CASE ChangeAccess
  <2>1. /\ UNCHANGED <<source, target, own, refresh>> /\ granted' = ~granted /\ seen' = source
        /\ disturbed' = (disturbed \/ Refreshing)
    BY <1>5 DEF ChangeAccess
  <2>2. /\ seen' \in Version /\ granted' \in BOOLEAN
        /\ \A p \in Part : /\ source[p] \in Nat /\ seen[p] \in Nat /\ target.files[p] \in Nat
                           /\ seen[p] <= source[p]
    BY <1>1, <2>1 DEF Version
  <2>a. disturbed' \in BOOLEAN
    BY <1>1, <2>1 DEF Refreshing
  <2>s. (\A p \in Part : seen'[p] <= source'[p]) /\ (granted' => seen' = source')
    BY <1>1, <2>1, <2>2
  <2>t. LinkTypes'
    BY <1>1, <2>1, <2>2, <2>a, <2>s, Zenon DEF LinkTypes
  <2>3. CASE disturbed'
    BY <2>3, <2>t, LinkDisturbed
  <2>4. CASE ~disturbed'
    <3>1. ~disturbed /\ \A r \in Refresher : refresh[r] = Off
      BY <2>1, <2>4 DEF Refreshing
    <3>2. Linked => \A p \in Part : target.files[p] <= source[p]
      BY <1>2, <2>2, <3>1
    <3>3. Linked /\ ~Refreshing => target.files = target.link.of
      BY <1>2, <3>1
    <3>4. LinkSound'
      BY <2>1, <3>1, <3>2, <3>3 DEF LinkSound, Linked, Refreshing
    <3> QED
      BY <2>t, <3>4 DEF LinkInv
  <2> QED
    BY <2>3, <2>4
<1>6. ASSUME NEW r \in Refresher, BeginRefresh(r) PROVE LinkInv'
  <2>1. /\ UNCHANGED <<source, granted, seen, target, own>> /\ refresh[r] = Off
        /\ Linked /\ granted /\ refresh' = [refresh EXCEPT ![r] = [step |-> "stage"]]
        /\ disturbed' = (disturbed \/ Refreshing)
    BY <1>6 DEF BeginRefresh
  <2>2. refresh' \in [Refresher -> {Off, [step |-> "stage"]} \cup LinkRefresh]
    BY <1>1, <2>1
  <2>a. disturbed' \in BOOLEAN
    BY <1>1, <2>1 DEF Refreshing
  <2>s. (\A p \in Part : seen'[p] <= source'[p]) /\ (granted' => seen' = source')
    BY <1>1, <2>1, <2>2
  <2>t. LinkTypes'
    BY <1>1, <2>1, <2>2, <2>a, <2>s, Zenon DEF LinkTypes
  <2>3. CASE disturbed'
    BY <2>3, <2>t, LinkDisturbed
  <2>4. CASE ~disturbed'
    <3>1. ~disturbed /\ ~Refreshing /\ \A q \in Refresher : refresh[q] = Off
      BY <2>1, <2>4 DEF Refreshing
    <3>2. /\ refresh'[r] = [step |-> "stage"]
          /\ \A q \in Refresher \ {r} : refresh'[q] = Off
      BY <1>1, <2>1, <3>1
    <3>3. Refreshing'
      BY <3>2 DEF Refreshing, Off
    <3>4. RefreshFits(r)'
      BY <1>2, <2>1, <3>1, <3>2 DEF RefreshFits, Linked
    <3> QED
      BY <1>1, <1>2, <2>1, <2>2, <3>1, <3>2, <3>3, <3>4 DEF LinkInv, LinkTypes, LinkSound, Linked
  <2> QED
    BY <2>3, <2>4
<1>7. ASSUME NEW r \in Refresher, StageTransferredSlide(r) PROVE LinkInv'
  <2> DEFINE new == [step |-> "write", read |-> source, left |-> Part \cup {"link"}]
  <2>1. /\ UNCHANGED <<source, granted, seen, target, own, disturbed>>
        /\ refresh[r].step = "stage" /\ refresh' = [refresh EXCEPT ![r] = new]
    BY <1>7 DEF StageTransferredSlide
  <2>2. new \in LinkRefresh /\ new.step = "write" /\ new.read = source
        /\ new.left = Part \cup {"link"} /\ new # Off
    BY <1>1 DEF LinkRefresh, Off
  <2> HIDE DEF new
  <2>3. /\ refresh' \in [Refresher -> {Off, [step |-> "stage"]} \cup LinkRefresh]
        /\ refresh'[r] = new /\ \A q \in Refresher \ {r} : refresh'[q] = refresh[q]
    BY <1>1, <2>1, <2>2
  <2>4. refresh[r] # Off
    BY <2>1 DEF Off
  <2>5. ASSUME ~disturbed PROVE RefreshFits(r)'
    <3>1. RefreshFits(r)
      BY <1>2, <2>4, <2>5
    <3>2. \A p \in Part : source[p] <= source[p]
      BY <1>1 DEF Version
    <3> QED
      BY <2>1, <2>2, <2>3, <3>1, <3>2 DEF RefreshFits, Linked
  <2>6. ASSUME ~disturbed, NEW q \in Refresher, refresh'[q] # Off PROVE q = r
    BY <1>2, <2>3, <2>4, <2>6
  <2>7. Refreshing'
    BY <2>2, <2>3 DEF Refreshing
  <2> QED
    BY <1>1, <1>2, <2>1, <2>3, <2>5, <2>6, <2>7 DEF LinkInv, LinkTypes, LinkSound, Linked
<1>8. ASSUME NEW r \in Refresher, NEW f \in Part \cup {"link"}, WriteFile(r, f) PROVE LinkInv'
  <2> DEFINE old == refresh[r]
             rest == old.left \ {f}
             next == [step |-> "write", read |-> old.read, left |-> rest]
             done == old.left = {f}
  <2>1. /\ UNCHANGED <<source, granted, seen, own, disturbed>>
        /\ old.step = "write" /\ f \in old.left
        /\ target' = IF f = "link" THEN [target EXCEPT !.link = Hashes(old.read)]
                                   ELSE [target EXCEPT !.files[f] = old.read[f]]
        /\ refresh' = [refresh EXCEPT ![r] = IF done THEN Off
                                            ELSE [refresh[r] EXCEPT !.left = @ \ {f}]]
    BY <1>8 DEF WriteFile
  <2>2. old \in LinkRefresh /\ old # Off /\ old.read \in Version
        /\ old.left \subseteq Part \cup {"link"}
    BY <1>1, <2>1 DEF LinkRefresh, Off
  <2>3. /\ next = [old EXCEPT !.left = rest] /\ next \in LinkRefresh /\ next # Off
        /\ next.step = "write" /\ next.read = old.read /\ next.left = rest
    BY <2>2 DEF LinkRefresh, Off
  <2>0. [refresh[r] EXCEPT !.left = @ \ {f}] = next
    BY <2>2 DEF LinkRefresh
  <2>4. refresh' = [refresh EXCEPT ![r] = IF done THEN Off ELSE next]
    BY <2>0, <2>1
  <2> HIDE DEF next
  <2>5. /\ refresh' \in [Refresher -> {Off, [step |-> "stage"]} \cup LinkRefresh]
        /\ refresh'[r] = (IF done THEN Off ELSE next)
        /\ \A q \in Refresher \ {r} : refresh'[q] = refresh[q]
    BY <1>1, <2>3, <2>4
  <2>6. /\ target.files \in Version
        /\ target = [files |-> target.files, link |-> target.link]
    BY <1>1
  <2>7. /\ target'.files = IF f = "link" THEN target.files
                           ELSE [target.files EXCEPT ![f] = old.read[f]]
        /\ target'.link = IF f = "link" THEN [linked |-> TRUE, of |-> old.read] ELSE target.link
        /\ target' = [files |-> target'.files, link |-> target'.link]
    BY <2>1, <2>6 DEF Hashes
  <2>b. target'.files \in Version
    BY <2>2, <2>6, <2>7 DEF Version
  <2>c. target'.link \in [linked : {TRUE}, of : Version] \cup {NotLinked}
    <3>1. target.link \in [linked : {TRUE}, of : Version] \cup {NotLinked}
      BY <1>1
    <3>2. [linked |-> TRUE, of |-> old.read] \in [linked : {TRUE}, of : Version]
      BY <2>2
    <3> QED
      BY <2>7, <3>1, <3>2
  <2>8. target' \in [files : Version, link : [linked : {TRUE}, of : Version] \cup {NotLinked}]
    BY <2>7, <2>b, <2>c
  <2>9. ASSUME ~disturbed
        PROVE  /\ \A q \in Refresher : refresh'[q] # Off => q = r
               /\ ~done => RefreshFits(r)'
               /\ Linked' /\ \A p \in Part : target'.files[p] <= seen[p]
               /\ done => target'.files = target'.link.of
    <3>1. RefreshFits(r)
      BY <1>2, <2>2, <2>9
    <3>2. /\ \A q \in Refresher : refresh'[q] # Off => q = r
      BY <1>2, <2>2, <2>5, <2>9
    <3>3. Linked' /\ Linked
      BY <2>7, <3>1 DEF Linked, RefreshFits
    <3>4. \A p \in Part : target'.files[p] \in {target.files[p], old.read[p]}
      BY <2>2, <2>6, <2>7 DEF Version
    <3>5. /\ \A p \in Part : old.read[p] <= seen[p] /\ target.files[p] <= seen[p]
      BY <1>1, <1>2, <2>1, <2>9, <3>1, <3>3 DEF RefreshFits
    <3>6. ASSUME NEW p \in Part \ rest PROVE target'.files[p] = old.read[p]
      <4>1. CASE p # f
        BY <2>1, <2>6, <2>7, <3>1, <4>1 DEF RefreshFits, Version
      <4>2. CASE p = f
        <5>1. f # "link"
          BY <4>2 DEF Part
        <5> QED
          BY <2>6, <2>7, <4>2, <5>1 DEF Version
      <4> QED
        BY <4>1, <4>2
    <3>7. "link" \notin rest => target'.link.of = old.read
      BY <2>1, <2>7, <3>1 DEF RefreshFits
    <3>a. refresh[r].step = "write" /\ \A p \in Part : old.read[p] <= source[p]
      BY <2>1, <3>1 DEF RefreshFits
    <3>8. ASSUME ~done PROVE RefreshFits(r)'
      <4>1. refresh'[r] = next
        BY <2>5, <3>8
      <4>2. ~(refresh'[r].step = "stage")
        BY <2>3, <4>1
      <4>3. \A p \in Part : refresh'[r].read[p] <= source'[p]
        BY <2>1, <2>3, <3>a, <4>1
      <4>4. refresh'[r].left = rest /\ refresh'[r].read = old.read
        BY <2>3, <4>1
      <4>5. Linked' /\ granted'
        BY <2>1, <3>1, <3>3 DEF RefreshFits
      <4> HIDE DEF next
      <4> QED
        BY <3>6, <3>7, <4>2, <4>3, <4>4, <4>5 DEF RefreshFits
    <3>9. ASSUME done PROVE target'.files = target'.link.of
      <4>1. rest = {}
        BY <3>9
      <4>2. /\ target'.link.of = old.read /\ \A p \in Part : target'.files[p] = old.read[p]
        BY <3>6, <3>7, <4>1
      <4> QED
        BY <2>2, <2>8, <4>2 DEF Version
    <3> QED
      BY <3>2, <3>3, <3>4, <3>5, <3>8, <3>9
  <2>10. ~done => Refreshing'
    BY <2>3, <2>5 DEF Refreshing
  <2> HIDE DEF done
  <2> QED
    BY <1>1, <2>1, <2>3, <2>5, <2>8, <2>9, <2>10 DEF LinkInv, LinkTypes, LinkSound
<1>9. CASE RefreshBreaks
  <2>1. PICK r \in Refresher : /\ refresh[r] # Off /\ refresh' = [refresh EXCEPT ![r] = Off]
                               /\ disturbed' = (disturbed \/ refresh[r].step = "write")
    BY <1>9 DEF RefreshBreaks
  <2>2. /\ UNCHANGED <<source, granted, seen, target, own>>
        /\ refresh' \in [Refresher -> {Off, [step |-> "stage"]} \cup LinkRefresh]
    BY <1>1, <1>9, <2>1 DEF RefreshBreaks
  <2>a. disturbed' \in BOOLEAN
    BY <1>1, <2>1 DEF Refreshing
  <2>s. (\A p \in Part : seen'[p] <= source'[p]) /\ (granted' => seen' = source')
    BY <1>1, <2>1, <2>2
  <2>t. LinkTypes'
    BY <1>1, <2>1, <2>2, <2>a, <2>s, Zenon DEF LinkTypes
  <2>3. CASE disturbed'
    BY <2>3, <2>t, LinkDisturbed
  <2>4. CASE ~disturbed'
    <3>1. ~disturbed /\ refresh[r].step = "stage" /\ RefreshFits(r)
      <4>1. ~disturbed /\ refresh[r].step # "write"
        BY <1>1, <2>1, <2>4
      <4>2. refresh[r].step = "stage" /\ RefreshFits(r)
        BY <1>1, <1>2, <2>1, <4>1 DEF LinkRefresh
      <4> QED
        BY <4>1, <4>2
    <3>2. \A q \in Refresher : refresh'[q] = Off
      BY <1>1, <1>2, <2>1, <3>1
    <3> QED
      BY <1>1, <1>2, <2>1, <2>2, <2>4, <3>1, <3>2
         DEF LinkInv, LinkTypes, LinkSound, Linked, Refreshing, RefreshFits
  <2> QED
    BY <1>1, <2>1, <2>3, <2>4
<1>10. CASE Detach
  <2>1. /\ UNCHANGED <<source, granted, seen, own, refresh>>
        /\ target' = [target EXCEPT !.link = NotLinked]
        /\ disturbed' = (disturbed \/ Refreshing)
    BY <1>10 DEF Detach
  <2>2. /\ target' \in [files : Version, link : [linked : {TRUE}, of : Version] \cup {NotLinked}]
        /\ target'.link = NotLinked
    BY <1>1, <2>1
  <2>3. ~Linked'
    BY <2>2 DEF Linked, NotLinked
  <2>4. ~disturbed' => ~disturbed /\ \A r \in Refresher : refresh[r] = Off
    BY <2>1 DEF Refreshing
  <2>5. disturbed' \in BOOLEAN
    BY <1>1, <2>1 DEF Refreshing
  <2> QED
    BY <1>1, <2>1, <2>2, <2>3, <2>4, <2>5 DEF LinkInv, LinkTypes, LinkSound
<1>11. ASSUME NEW p \in Part, EditTarget(p) PROVE LinkInv'
  <2>1. /\ UNCHANGED <<source, granted, seen, refresh>> /\ ~Linked /\ own' = own + 1
        /\ target' = [target EXCEPT !.files[p] = Edited(own + 1)]
        /\ disturbed' = (disturbed \/ Refreshing)
    BY <1>11 DEF EditTarget
  <2>2. Edited(own + 1) \in Nat /\ own' \in Nat /\ disturbed' \in BOOLEAN
    BY <1>1, <2>1 DEF Edited, Refreshing
  <2>3. /\ target' \in [files : Version, link : [linked : {TRUE}, of : Version] \cup {NotLinked}]
        /\ target'.link = target.link
    <3>1. target = [files |-> target.files, link |-> target.link] /\ target.files \in Version
          /\ target.link \in [linked : {TRUE}, of : Version] \cup {NotLinked}
      BY <1>1
    <3>2. target' = [files |-> [target.files EXCEPT ![p] = Edited(own + 1)], link |-> target.link]
      BY <2>1, <3>1
    <3>3. [target.files EXCEPT ![p] = Edited(own + 1)] \in Version
      BY <2>2, <3>1 DEF Version
    <3> QED
      BY <3>1, <3>2, <3>3
  <2>4. ~Linked'
    BY <2>1, <2>3 DEF Linked
  <2>5. ~disturbed' => ~disturbed /\ \A r \in Refresher : refresh[r] = Off
    BY <2>1 DEF Refreshing
  <2> QED
    BY <1>1, <2>1, <2>2, <2>3, <2>4, <2>5 DEF LinkInv, LinkTypes, LinkSound
<1> QED
  BY <1>3, <1>4, <1>5, <1>6, <1>7, <1>8, <1>9, <1>10, <1>11, Zenon DEF SlideLinksNext

\* The files of a linked slide are what its link says, whatever the number of refreshes.
THEOREM LinksAreTrue == SlideLinksSpec => []SnapshotIsWhatTheLinkSays
<1>1. SlideLinksSpec => []LinkInv
  BY LinkStart, LinkStep, PTL DEF SlideLinksSpec
<1>2. LinkInv => SnapshotIsWhatTheLinkSays
  BY DEF LinkInv, LinkTypes, LinkSound, SnapshotIsWhatTheLinkSays
<1> QED
  BY <1>1, <1>2, PTL

--------------------------------------------------------------------------------
\* Exports (ExportCache).

\* The entry of a slide is of this fingerprint, and there is a picture.
KeptIn(entries, names, s, print) ==
  s \in DOMAIN entries /\ entries[s] = print /\ FileName(s, print) \in names

PicturesTrue == \A f \in DOMAIN pictures : pictures[f] = f.print \/ f \in mixed

RenderingHits ==
  /\ export.step = "render" /\ asked = export.print
  /\ \A s \in export.ids \ export.misses : KeptIn(cached, DOMAIN pictures, s, export.print[s])

StoringHits ==
  /\ export.step = "store"
  /\ export = [step |-> "store", ids |-> export.ids, print |-> export.print,
               misses |-> export.misses, shows |-> export.shows, entries |-> export.entries]
  /\ asked = export.print
  /\ \A s \in export.ids \ export.misses :
       KeptIn(export.entries, DOMAIN pictures, s, export.print[s])

ReadingHits ==
  /\ export.step = "read" /\ asked = export.print
  /\ \A s \in export.ids \cap Entries : KeptIn(cached, DOMAIN pictures, s, export.print[s])

DeliveredTrue ==
  /\ export.step = "delivered"
  /\ \A s \in export.ids : \/ export.shows[s] = asked[s]
                           \/ FileName(s, export.print[s]) \in mixed

(***************************************************************************)
(* A picture shows what it is kept for, but for the mixed ones; an export  *)
(* finds those it counts on until it is through.                           *)
(***************************************************************************)
ExportInv ==
  /\ PicturesTrue
  /\ export = NoExport \/ RenderingHits \/ StoringHits \/ ReadingHits \/ DeliveredTrue

\* What an export counts on does not depend on what it leaves alone.
LEMMA ExportRests ==
  ASSUME ExportInv, UNCHANGED <<cached, pictures, export, asked, mixed>>
  PROVE  ExportInv'
BY DEF ExportInv, PicturesTrue, RenderingHits, StoringHits, ReadingHits, DeliveredTrue, KeptIn,
       Entries

\* An export that ends leaves the pictures.
LEMMA ExportEnds ==
  ASSUME ExportInv, UNCHANGED <<pictures, mixed>>, export' = NoExport
  PROVE  ExportInv'
BY DEF ExportInv, PicturesTrue

\* The step of an export says which part of the invariant holds.
LEMMA ExportAt ==
  ASSUME ExportInv
  PROVE  /\ PicturesTrue
         /\ export.step = "render" => RenderingHits
         /\ export.step = "store" => StoringHits
         /\ export.step = "read" => ReadingHits
         /\ export.step = "delivered" => DeliveredTrue
<1>1. export = NoExport => export.step = "none"
  BY DEF NoExport
<1>2. /\ RenderingHits => export.step = "render"
      /\ ReadingHits => export.step = "read"
      /\ DeliveredTrue => export.step = "delivered"
  BY DEF RenderingHits, ReadingHits, DeliveredTrue
<1>3. StoringHits => export.step = "store"
  BY DEF StoringHits
<1> QED
  BY <1>1, <1>2, <1>3 DEF ExportInv

LEMMA FileNames ==
  ASSUME NEW s, NEW t, NEW print, NEW other, FileName(s, print) = FileName(t, other)
  PROVE  s = t /\ print = other
BY DEF FileName

LEMMA ExportBegins ==
  ASSUME NEW ids \in SUBSET Slide, ExportInv, BeginExport(ids)
  PROVE  ExportInv'
<1> DEFINE print == [s \in ids |-> Fingerprint(s)]
           misses == {s \in ids : ~Hit(s, print[s])}
<1>1. /\ export' = [step |-> "render", ids |-> ids, print |-> print, misses |-> misses]
      /\ asked' = print /\ UNCHANGED <<cached, pictures, mixed>>
  BY DEF BeginExport, Fingerprint
<1>2. \A s \in ids \ misses : KeptIn(cached, DOMAIN pictures, s, print[s])
  BY DEF Hit, KeptIn, Entries
<1> HIDE DEF print, misses
<1>3. /\ export'.step = "render" /\ export'.print = print /\ export'.ids = ids
      /\ export'.misses = misses
  BY <1>1
<1>5. RenderingHits'
  BY <1>1, <1>2, <1>3 DEF RenderingHits
<1>6. PicturesTrue'
  BY <1>1 DEF ExportInv, PicturesTrue
<1> QED
  BY <1>5, <1>6 DEF ExportInv

LEMMA ExportRenders ==
  ASSUME ExportInv, Render
  PROVE  ExportInv'
<1>1. UNCHANGED <<cached, pictures, mixed>> /\ RenderingHits
  BY ExportAt DEF Render
<1>2. CASE export.misses \cap parked # {}
  BY <1>1, <1>2, ExportEnds DEF Render
<1>3. CASE ~(export.misses \cap parked # {})
  <2>1. PICK shows : export' = [step |-> "store", ids |-> export.ids, print |-> export.print,
                                misses |-> export.misses, shows |-> shows, entries |-> cached]
    BY <1>3 DEF Render
  <2>2. /\ export'.ids = export.ids /\ export'.print = export.print
        /\ export'.misses = export.misses /\ export'.entries = cached /\ export'.shows = shows
        /\ export'.step = "store"
    BY <2>1
  <2>3. asked' = asked
    <3>1. export' # NoExport
      BY <2>2 DEF NoExport
    <3> QED
      BY <3>1 DEF Render
  <2>4. StoringHits'
    BY <1>1, <2>1, <2>2, <2>3 DEF StoringHits, RenderingHits, KeptIn
  <2>5. PicturesTrue'
    BY <1>1 DEF ExportInv, PicturesTrue
  <2> QED
    BY <2>4, <2>5 DEF ExportInv
<1> QED
  BY <1>2, <1>3

\* The picture of one slide is replaced, those of the others stay.
LEMMA ExportStores ==
  ASSUME NEW s \in Slide, ExportInv, StoreEntry(s)
  PROVE  ExportInv'
<1> DEFINE print == export.print[s]
           old == IF s \in DOMAIN export.entries /\ export.entries[s] # print
                    THEN {FileName(s, export.entries[s])} ELSE {}
           name == FileName(s, print)
           more == Add(pictures, name, export.shows[s])
           entries == Add(export.entries, s, print)
<1>1. /\ StoringHits /\ PicturesTrue /\ s \in export.misses /\ UNCHANGED <<cached, asked>>
      /\ pictures' = Drop(more, old)
      /\ mixed' = IF export.shows[s] = print THEN mixed \ {name} ELSE mixed \cup {name}
  BY ExportAt DEF StoreEntry
<1>2. export' = [step |-> "store", ids |-> export.ids, print |-> export.print,
                 misses |-> export.misses \ {s}, shows |-> export.shows, entries |-> entries]
  BY <1>1 DEF StoreEntry, StoringHits
<1>3. /\ export'.ids = export.ids /\ export'.print = export.print /\ export'.entries = entries
      /\ export'.misses = export.misses \ {s} /\ export'.shows = export.shows
  BY <1>2
<1>4. name \notin old
  BY FileNames
<1>5. /\ DOMAIN pictures' = (DOMAIN pictures \cup {name}) \ old
      /\ pictures'[name] = export.shows[s]
      /\ \A f \in DOMAIN pictures' \ {name} : f \in DOMAIN pictures /\ pictures'[f] = pictures[f]
  <2>1. /\ DOMAIN more = DOMAIN pictures \cup {name} /\ more[name] = export.shows[s]
        /\ \A f \in DOMAIN pictures \ {name} : more[f] = pictures[f]
    BY DEF Add
  <2>2. /\ DOMAIN pictures' = DOMAIN more \ old
        /\ \A f \in DOMAIN more \ old : pictures'[f] = more[f]
    BY <1>1 DEF Drop
  <2> HIDE DEF more, old, name
  <2> QED
    BY <1>4, <2>1, <2>2
<1>6. /\ DOMAIN entries = DOMAIN export.entries \cup {s} /\ entries[s] = print
      /\ \A t \in DOMAIN export.entries \ {s} : entries[t] = export.entries[t]
  BY DEF Add
<1>7. name.print = print
  BY DEF FileName
<1>8. PicturesTrue'
  <2> HIDE DEF name, print, old
  <2> QED
    BY <1>1, <1>5, <1>7 DEF PicturesTrue
<1>9. ASSUME NEW t \in export.ids \ (export.misses \ {s})
      PROVE  KeptIn(entries, DOMAIN pictures', t, export.print[t])
  <2>1. CASE t = s
    <3>1. name \in DOMAIN pictures'
      BY <1>4, <1>5
    <3> QED
      BY <1>3, <1>6, <2>1, <3>1 DEF KeptIn
  <2>2. CASE t # s
    <3>1. KeptIn(export.entries, DOMAIN pictures, t, export.print[t])
      BY <1>1, <2>2 DEF StoringHits
    <3>2. FileName(t, export.print[t]) \notin old
      BY <2>2, FileNames
    <3>3. FileName(t, export.print[t]) \in DOMAIN pictures'
      BY <1>5, <3>1, <3>2 DEF KeptIn
    <3> QED
      BY <1>3, <1>6, <2>2, <3>1, <3>3 DEF KeptIn
  <2> QED
    BY <2>1, <2>2
<1> HIDE DEF entries, old, name, more, print
<1>10. StoringHits'
  BY <1>1, <1>2, <1>3, <1>9 DEF StoringHits
<1> QED
  BY <1>8, <1>10 DEF ExportInv

\* What is pruned is of slides that are not in the manifest any more.
LEMMA ManifestWritten ==
  ASSUME ExportInv, WriteManifest
  PROVE  ExportInv'
<1> DEFINE gone == parked \cap DOMAIN export.entries
           pruned == {FileName(s, export.entries[s]) : s \in gone}
<1>1. /\ StoringHits /\ PicturesTrue /\ export.misses = {} /\ UNCHANGED <<asked, mixed>>
      /\ pictures' = Drop(pictures, pruned) /\ cached' = Drop(export.entries, gone)
      /\ export' = [export EXCEPT !.step = "read"]
  BY ExportAt DEF WriteManifest
<1>2. export'.step = "read" /\ export'.print = export.print /\ export'.ids = export.ids
  BY <1>1 DEF StoringHits
<1>3. /\ DOMAIN pictures' = DOMAIN pictures \ pruned
      /\ \A f \in DOMAIN pictures \ pruned : pictures'[f] = pictures[f]
  BY <1>1 DEF Drop
<1>4. /\ DOMAIN cached' = DOMAIN export.entries \ gone
      /\ \A s \in DOMAIN export.entries \ gone : cached'[s] = export.entries[s]
  BY <1>1 DEF Drop
<1>5. PicturesTrue'
  <2> HIDE DEF pruned
  <2> QED
    BY <1>1, <1>3 DEF PicturesTrue
<1>6. ASSUME NEW s \in export.ids \cap DOMAIN cached'
      PROVE  KeptIn(cached', DOMAIN pictures', s, export.print[s])
  <2>1. KeptIn(export.entries, DOMAIN pictures, s, export.print[s]) /\ s \notin gone
    BY <1>1, <1>4 DEF StoringHits
  <2>2. FileName(s, export.print[s]) \notin pruned
    BY <2>1, FileNames
  <2>3. FileName(s, export.print[s]) \in DOMAIN pictures'
    BY <1>3, <2>1, <2>2 DEF KeptIn
  <2> QED
    BY <1>2, <1>4, <2>1, <2>3 DEF KeptIn
<1>7. ReadingHits'
  <2>1. export'.ids \cap Entries' = export.ids \cap DOMAIN cached'
    BY <1>2 DEF Entries
  <2> HIDE DEF pruned, gone
  <2> QED
    BY <1>1, <1>2, <1>6, <2>1 DEF ReadingHits, StoringHits
<1> QED
  BY <1>5, <1>7 DEF ExportInv

LEMMA ExportDelivers ==
  ASSUME ExportInv, Deliver
  PROVE  ExportInv'
<1>1. ReadingHits /\ PicturesTrue /\ UNCHANGED <<cached, pictures, mixed>>
  BY ExportAt DEF Deliver
<1>2. CASE export.ids \ Entries # {}
  BY <1>1, <1>2, ExportEnds DEF Deliver
<1>3. CASE ~(export.ids \ Entries # {})
  <2> DEFINE shows == [s \in export.ids |-> pictures[FileName(s, cached[s])]]
  <2>1. export' = [step |-> "delivered", ids |-> export.ids, print |-> export.print,
                   shows |-> shows]
    BY <1>3 DEF Deliver
  <2>2. /\ export'.ids = export.ids /\ export'.print = export.print /\ export'.shows = shows
        /\ export'.step = "delivered"
    BY <2>1
  <2>3. asked' = asked
    <3>1. export' # NoExport
      BY <2>2 DEF NoExport
    <3> QED
      BY <3>1 DEF Deliver
  <2>4. ASSUME NEW s \in export.ids
        PROVE  shows[s] = asked[s] \/ FileName(s, export.print[s]) \in mixed
    <3>1. KeptIn(cached, DOMAIN pictures, s, export.print[s])
      BY <1>1, <1>3 DEF ReadingHits
    <3>2. shows[s] = pictures[FileName(s, export.print[s])]
      BY <3>1 DEF KeptIn
    <3>3. FileName(s, export.print[s]).print = export.print[s]
      BY DEF FileName
    <3> QED
      BY <1>1, <3>1, <3>2, <3>3 DEF PicturesTrue, KeptIn, ReadingHits
  <2> HIDE DEF shows
  <2>5. DeliveredTrue'
    BY <1>1, <2>2, <2>3, <2>4 DEF DeliveredTrue
  <2>6. PicturesTrue'
    BY <1>1 DEF PicturesTrue
  <2> QED
    BY <2>5, <2>6 DEF ExportInv
<1> QED
  BY <1>2, <1>3

\* Exports show the slides there are, whatever the number of slides, edits and exports.
THEOREM ExportsAreTrue == ExportCacheSpec => []ExportShowsTheDeck
<1>1. ExportCacheInit => ExportInv
  BY DEF ExportCacheInit, ExportInv, PicturesTrue
<1>2. ExportInv /\ [ExportCacheNext]_exportVars => ExportInv'
  <2> SUFFICES ASSUME ExportInv, [ExportCacheNext]_exportVars PROVE ExportInv'
    OBVIOUS
  <2>1. CASE UNCHANGED exportVars
    BY <2>1, ExportRests DEF exportVars
  <2>2. ASSUME NEW s \in Slide, Park(s) \/ \E c \in Content : ChangeSlide(s, c)
        PROVE  ExportInv'
    BY <2>2, ExportRests DEF Park, ChangeSlide
  <2>3. CASE EndExport \/ ExportFails
    BY <2>3, ExportEnds DEF EndExport, ExportFails
  <2> QED
    BY <2>1, <2>2, <2>3, ExportBegins, ExportRenders, ExportStores, ManifestWritten,
       ExportDelivers, Zenon DEF ExportCacheNext
<1>3. ExportInv => ExportShowsTheDeck
  BY ExportAt DEF DeliveredTrue, ExportShowsTheDeck
<1> QED
  BY <1>1, <1>2, <1>3, PTL DEF ExportCacheSpec

--------------------------------------------------------------------------------
\* Slides transferred into a deck (SlideTransfer).

DeckPath == [number : 0 .. MaxSlides, slug : Slug \cup {"attachment"},
             ext : {"source", "html", "md", "link"}]

\* What a transfer places: the attachment, and files of slides that have a page each.
PathsFit(paths) ==
  /\ paths \in Seq(DeckPath) /\ Len(paths) > 0
  /\ \A i \in 1 .. Len(paths) :
       paths[i] # Attachment =>
         \E j \in 1 .. Len(paths) : /\ paths[j].ext = "html"
                                    /\ paths[j].number = paths[i].number

TransferProgress ==
  [step : {"running", "done", "failed"}, paths : {paths \in Seq(DeckPath) : PathsFit(paths)},
   made : SUBSET DeckPath, at : Nat \ {0}]

TransferTyped ==
  /\ token \in [Transfer -> {"none", "open", "used", "lost"}]
  /\ work \in [Transfer -> {Waiting} \cup TransferProgress]
  /\ files = [f \in DOMAIN files |-> files[f]]
  /\ DOMAIN files \subseteq DeckPath
  /\ \A f \in DOMAIN files : files[f] \in Transfer
  /\ crossed \subseteq Transfer /\ broken \subseteq Transfer /\ cut \in BOOLEAN

Excused(t) == t \in crossed \cup broken

\* The first n files of a transfer are in the deck, and its own but for the attachment.
InDeck(t, n) ==
  \A i \in 1 .. Len(work[t].paths) :
    i <= n => /\ work[t].paths[i] \in DOMAIN files
              /\ work[t].paths[i] # Attachment => files[work[t].paths[i]] = t

\* A transfer that never overlapped with another is alone while it runs,
RunsAlone ==
  \A t, u \in Transfer : TransferRuns(t) /\ TransferRuns(u) /\ t # u => t \in crossed

\* and has what it placed, to the end.
RunnersHaveTheirs ==
  \A t \in Transfer : TransferRuns(t) /\ ~Excused(t) => InDeck(t, work[t].at - 1)

DoneHaveTheirs ==
  \A t \in Transfer :
    work[t].step = "done" /\ ~Excused(t) => InDeck(t, Len(work[t].paths))

\* What one that ended placed is in the way of none that runs now: it began later,
\* with higher numbers, and found the attachment.
RunnersKeepAway ==
  \A t, u \in Transfer :
    TransferRuns(t) /\ work[u].step = "done" /\ ~Excused(u) =>
      \A i \in 1 .. Len(work[u].paths) :
        /\ work[u].paths[i] \notin work[t].made
        /\ \A j \in 1 .. Len(work[t].paths) :
             work[t].paths[j] = work[u].paths[i] => work[u].paths[i] = Attachment

\* A file is of a transfer that can still remove it, or does not have to.
FilesHaveOwners ==
  \A f \in DOMAIN files :
    LET t == files[f]
    IN  \/ Excused(t) \/ work[t].step = "done" \/ (TransferRuns(t) /\ f \in work[t].made)
        \/ f = Attachment /\ cut

\* An attachment that is cut off is of a transfer that failed, and one that was written
\* of the only one that can remove it.
AttachmentFits ==
  /\ cut => Attachment \in DOMAIN files /\ work[files[Attachment]].step = "failed"
  /\ \A u \in Transfer :
       TransferRuns(u) /\ Attachment \in work[u].made =>
         Attachment \in DOMAIN files /\ files[Attachment] = u

TransferInv == /\ TransferTyped
               /\ RunsAlone /\ RunnersHaveTheirs /\ DoneHaveTheirs
               /\ RunnersKeepAway /\ FilesHaveOwners /\ AttachmentFits

\* A set of numbers up to a bound has a greatest one.
LEMMA GreatestNumber ==
  ASSUME NEW N \in Nat, NEW S \in SUBSET (0 .. N), S # {}
  PROVE  Max(S) \in S /\ \A n \in S : n <= Max(S)
<1>1. PICK d \in {N - n : n \in S} : \A e \in {N - n : n \in S} : ~(<<e, d>> \in OpToRel(<, Nat))
  <2> DEFINE rest == {N - n : n \in S}
  <2>1. rest \subseteq Nat
    <3>1. \A n \in S : n \in Nat /\ n <= N
      OBVIOUS
    <3>2. \A n \in S : N - n \in Nat
      BY <3>1
    <3> QED
      BY <3>2
  <2>2. rest # {}
    <3>1. PICK n \in S : TRUE
      OBVIOUS
    <3>2. N - n \in rest
      OBVIOUS
    <3> QED
      BY <3>2
  <2> HIDE DEF rest
  <2>3. \E d \in rest : \A e \in rest : ~(<<e, d>> \in OpToRel(<, Nat))
    BY <2>1, <2>2, NatLessThanWellFounded, WFMin
  <2> QED
    BY <2>3 DEF rest
<1>2. PICK m \in S : d = N - m
  BY <1>1
<1>3. \A n \in S : m >= n
  <2> SUFFICES ASSUME NEW n \in S, n > m PROVE FALSE
    OBVIOUS
  <2>1. N - n \in Nat /\ N - m \in Nat /\ N - n < N - m
    OBVIOUS
  <2>2. <<N - n, N - m>> \in OpToRel(<, Nat)
    BY <2>1 DEF OpToRel
  <2> QED
    BY <1>1, <1>2, <2>2
<1> QED
  BY <1>2, <1>3 DEF Max

\* The number before the first free one.
LEMMA PrefixBounds ==
  ASSUME TransferTyped
  PROVE  /\ MaxPrefix \in 0 .. MaxSlides
         /\ \A f \in DOMAIN files : f.ext = "html" => f.number <= MaxPrefix
<1>1. Numbers \in SUBSET (0 .. MaxSlides)
  BY DEF Numbers, TransferTyped, DeckPath
<1>2. MaxSlides \in Nat
  BY SlideTransferAssumption
<1>3. \A f \in DOMAIN files : f.ext = "html" => f.number \in Numbers
  BY DEF Numbers
<1>4. CASE Numbers = {}
  BY <1>2, <1>3, <1>4 DEF MaxPrefix
<1>5. CASE Numbers # {}
  <2>1. Max(Numbers) \in Numbers /\ \A n \in Numbers : n <= Max(Numbers)
    BY <1>1, <1>2, <1>5, GreatestNumber
  <2> QED
    BY <1>1, <1>3, <1>5, <2>1 DEF MaxPrefix
<1> QED
  BY <1>4, <1>5

\* What a transfer is to place has numbers nothing in the deck has yet.
LEMMA PathsAreNew ==
  ASSUME TransferTyped, NEW mode \in {Copy, Link},
         NEW slugs \in {<<s>> : s \in Slug} \cup (Slug \X Slug),
         MaxPrefix + Len(slugs) <= MaxSlides
  PROVE  /\ PathsFit(Paths(slugs, mode))
         /\ \A i \in 1 .. Len(Paths(slugs, mode)) :
              Paths(slugs, mode)[i] # Attachment => Paths(slugs, mode)[i].number > MaxPrefix
<1>1. MaxPrefix \in Nat /\ MaxSlides \in Nat
  BY PrefixBounds, SlideTransferAssumption
<1>2. /\ Len(mode) \in {3, 4} /\ mode[2] = "html" /\ mode[1] = "source"
      /\ \A i \in 1 .. Len(mode) : mode[i] \in {"source", "html", "md", "link"}
  BY DEF Copy, Link
<1>3. Len(slugs) \in {1, 2} /\ \A i \in 1 .. Len(slugs) : slugs[i] \in Slug
  OBVIOUS
<1> DEFINE size == Len(slugs) * Len(mode)
           nth(k) == ((k - 1) \div Len(mode)) + 1
           kind(k) == mode[((k - 1) % Len(mode)) + 1]
           paths == Paths(slugs, mode)
<1>4. size \in Nat /\ size > 0
  <2>1. CASE Len(slugs) = 1
    BY <1>2, <2>1
  <2>2. CASE Len(slugs) = 2
    BY <1>2, <2>2
  <2> QED
    BY <1>3, <2>1, <2>2
<1>5. \A k \in 1 .. size :
        nth(k) \in 1 .. Len(slugs) /\ ((k - 1) % Len(mode)) + 1 \in 1 .. Len(mode)
  <2>1. CASE Len(mode) = 3
    BY <1>3, <2>1
  <2>2. CASE Len(mode) = 4
    BY <1>3, <2>2
  <2> QED
    BY <1>2, <2>1, <2>2
<1>6. \A k \in 1 .. size : \E j \in 1 .. size : nth(j) = nth(k) /\ kind(j) = "html"
  <2> SUFFICES ASSUME NEW k \in 1 .. size
               PROVE  \E j \in 1 .. size : nth(j) = nth(k) /\ kind(j) = "html"
    OBVIOUS
  <2>1. CASE nth(k) = 1
    <3>1. 2 \in 1 .. size /\ nth(2) = 1 /\ ((2 - 1) % Len(mode)) + 1 = 2
      BY <1>2, <1>3
    <3>2. kind(2) = "html"
      BY <1>2, <3>1
    <3> QED
      BY <2>1, <3>1, <3>2
  <2>2. CASE nth(k) = 2
    <3>1. Len(slugs) = 2
      <4>1. nth(k) \in 1 .. Len(slugs)
        BY <1>5
      <4> HIDE DEF nth
      <4> QED
        BY <1>3, <2>2, <4>1
    <3>2. CASE Len(mode) = 3
      <4>1. 5 \in 1 .. size /\ nth(5) = 2 /\ ((5 - 1) % Len(mode)) + 1 = 2
        BY <3>1, <3>2
      <4>2. kind(5) = "html"
        BY <1>2, <4>1
      <4> QED
        BY <2>2, <4>1, <4>2
    <3>3. CASE Len(mode) = 4
      <4>1. 6 \in 1 .. size /\ nth(6) = 2 /\ ((6 - 1) % Len(mode)) + 1 = 2
        BY <3>1, <3>3
      <4>2. kind(6) = "html"
        BY <1>2, <4>1
      <4> QED
        BY <2>2, <4>1, <4>2
    <3> QED
      BY <1>2, <3>2, <3>3
  <2> QED
    BY <1>3, <1>5, <2>1, <2>2
<1>7. /\ Len(paths) = size /\ DOMAIN paths = 1 .. size
      /\ \A k \in 1 .. size :
           paths[k] = IF kind(k) = "source" THEN Attachment
                                            ELSE Path(MaxPrefix + nth(k), slugs[nth(k)], kind(k))
      /\ paths = [k \in 1 .. size |-> paths[k]]
  BY <1>4 DEF Paths
<1>8. ASSUME NEW k \in 1 .. size
      PROVE  /\ paths[k] \in DeckPath
             /\ kind(k) # "source" => /\ paths[k].number = MaxPrefix + nth(k)
                                      /\ paths[k].number > MaxPrefix
                                      /\ paths[k].ext = kind(k)
  <2>1. nth(k) \in 1 .. Len(slugs) /\ kind(k) \in {"source", "html", "md", "link"}
    BY <1>2, <1>5
  <2>2. MaxPrefix + nth(k) \in 0 .. MaxSlides /\ MaxPrefix + nth(k) > MaxPrefix
    <3> HIDE DEF nth
    <3> QED
      BY <1>1, <1>3, <2>1
  <2>3. slugs[nth(k)] \in Slug
    BY <1>3, <2>1
  <2>4. Attachment \in DeckPath
    BY <1>1 DEF Attachment, Path, DeckPath
  <2>5. paths[k] = IF kind(k) = "source" THEN Attachment
                     ELSE Path(MaxPrefix + nth(k), slugs[nth(k)], kind(k))
    BY <1>7
  <2> HIDE DEF nth, kind, paths
  <2> QED
    BY <2>1, <2>2, <2>3, <2>4, <2>5 DEF Path, DeckPath
<1>9. \A k \in 1 .. size : kind(k) = "source" => paths[k] = Attachment
  BY <1>7
<1> HIDE DEF size, nth, kind, paths
<1>10. paths \in Seq(DeckPath)
  BY <1>4, <1>7, <1>8
<1>11. ASSUME NEW i \in 1 .. size, paths[i] # Attachment
       PROVE  \E j \in 1 .. size : paths[j].ext = "html" /\ paths[j].number = paths[i].number
  <2>1. PICK j \in 1 .. size : nth(j) = nth(i) /\ kind(j) = "html"
    BY <1>6
  <2> QED
    BY <1>8, <1>9, <1>11, <2>1
<1>12. PathsFit(paths)
  BY <1>4, <1>7, <1>10, <1>11 DEF PathsFit
<1>13. \A i \in 1 .. Len(paths) : paths[i] # Attachment => paths[i].number > MaxPrefix
  BY <1>7, <1>8, <1>9
<1> QED
  BY <1>12, <1>13 DEF paths

\* What the progress of a transfer is made of, and that of another that did not move.
LEMMA ProgressParts ==
  ASSUME TransferTyped, NEW t \in Transfer, work[t].step # "waiting"
  PROVE  /\ work[t].step \in {"running", "done", "failed"}
         /\ PathsFit(work[t].paths) /\ work[t].paths \in Seq(DeckPath)
         /\ work[t].made \subseteq DeckPath
         /\ work[t].at \in Nat \ {0}
         /\ work[t] = [step |-> work[t].step, paths |-> work[t].paths,
                       made |-> work[t].made, at |-> work[t].at]
<1>1. work[t] \in TransferProgress
  BY DEF TransferTyped, Waiting
<1> QED
  BY <1>1 DEF TransferProgress

\* A transfer that begins takes numbers above those in the deck.
LEMMA BeginKeeps ==
  ASSUME TransferInv, NEW t \in Transfer, Begin(t)
  PROVE  TransferInv'
<1> USE DEF TransferInv
<1>1. PICK paths : /\ PathsFit(paths)
                   /\ \A i \in 1 .. Len(paths) :
                        paths[i] # Attachment => paths[i].number > MaxPrefix
                   /\ work' = [work EXCEPT ![t] = [step |-> "running", paths |-> paths,
                                                   made |-> {}, at |-> 1]]
  <2>1. \E slugs \in {<<s>> : s \in Slug} \cup (Slug \X Slug), mode \in {Copy, Link} :
          /\ \A i, j \in DOMAIN slugs : slugs[i] = slugs[j] => i = j
          /\ MaxPrefix + Len(slugs) <= MaxSlides
          /\ work' = [work EXCEPT ![t] = [step |-> "running", paths |-> Paths(slugs, mode),
                                          made |-> {}, at |-> 1]]
    BY Zenon DEF Begin
  <2>2. PICK slugs \in {<<s>> : s \in Slug} \cup (Slug \X Slug), mode \in {Copy, Link} :
          /\ MaxPrefix + Len(slugs) <= MaxSlides
          /\ work' = [work EXCEPT ![t] = [step |-> "running", paths |-> Paths(slugs, mode),
                                          made |-> {}, at |-> 1]]
    BY <2>1, Zenon
  <2>3. /\ PathsFit(Paths(slugs, mode))
        /\ \A i \in 1 .. Len(Paths(slugs, mode)) :
             Paths(slugs, mode)[i] # Attachment => Paths(slugs, mode)[i].number > MaxPrefix
    BY <2>2, PathsAreNew
  <2> QED
    BY <2>2, <2>3, Zenon
<1>2. /\ work[t].step = "waiting" /\ files' = files /\ token' = token /\ broken' = broken
      /\ cut' = cut
      /\ crossed \subseteq crossed' /\ crossed' \subseteq Transfer
      /\ \A u \in Transfer : TransferRuns(u) => t \in crossed' /\ u \in crossed'
  BY DEF Begin, Waiting, TransferTyped
<1>3. /\ work'[t] = [step |-> "running", paths |-> paths, made |-> {}, at |-> 1]
      /\ \A u \in Transfer \ {t} : work'[u] = work[u]
  BY <1>1 DEF TransferTyped
<1>4. \A u \in Transfer : Excused(u) => Excused(u)'
  BY <1>2 DEF Excused
<1>5. TransferTyped'
  <2>1. work'[t] \in TransferProgress
    BY <1>1, <1>3 DEF TransferProgress, PathsFit
  <2> QED
    BY <1>1, <1>2, <2>1 DEF TransferTyped
<1>6. RunsAlone'
  BY <1>2, <1>3 DEF RunsAlone, TransferRuns
<1>7. RunnersHaveTheirs'
  BY <1>2, <1>3, <1>4 DEF RunnersHaveTheirs, TransferRuns, InDeck
<1>8. DoneHaveTheirs'
  BY <1>2, <1>3, <1>4 DEF DoneHaveTheirs, InDeck
<1>9. RunnersKeepAway'
  <2> SUFFICES ASSUME NEW v \in Transfer, NEW u \in Transfer, TransferRuns(v)',
                      work'[u].step = "done", ~Excused(u)',
                      NEW i \in 1 .. Len(work'[u].paths)
               PROVE  /\ work'[u].paths[i] \notin work'[v].made
                      /\ \A j \in 1 .. Len(work'[v].paths) :
                           work'[v].paths[j] = work'[u].paths[i] => work'[u].paths[i] = Attachment
    BY DEF RunnersKeepAway
  <2>1. u # t /\ work'[u] = work[u] /\ ~Excused(u)
    BY <1>3, <1>4
  <2>2. CASE v # t
    BY <1>3, <2>1, <2>2 DEF RunnersKeepAway, TransferRuns
  <2>3. CASE v = t
    <3>1. work'[v].made = {} /\ work'[v].paths = paths
      BY <1>3, <2>3
    <3>2. work[u].paths[i] # Attachment => work[u].paths[i].number <= MaxPrefix
      <4> SUFFICES ASSUME work[u].paths[i] # Attachment PROVE work[u].paths[i].number <= MaxPrefix
        OBVIOUS
      <4>1. PathsFit(work[u].paths)
        BY <2>1, ProgressParts
      <4>2. PICK k \in 1 .. Len(work[u].paths) :
              work[u].paths[k].ext = "html" /\ work[u].paths[k].number = work[u].paths[i].number
        BY <2>1, <4>1 DEF PathsFit
      <4>3. work[u].paths[k] \in DOMAIN files
        <5>1. k <= Len(work[u].paths)
          BY <4>1 DEF PathsFit
        <5> QED
          BY <2>1, <5>1 DEF DoneHaveTheirs, InDeck
      <4> QED
        BY <4>2, <4>3, PrefixBounds
    <3>3. work[u].paths[i] \in DeckPath
      <4>1. work[u].paths \in Seq(DeckPath) /\ i \in 1 .. Len(work[u].paths)
        BY <2>1, ProgressParts
      <4> QED
        BY <4>1
    <3>4. MaxPrefix \in Nat /\ work[u].paths[i].number \in Nat
      BY <3>3, PrefixBounds, SlideTransferAssumption DEF DeckPath
    <3> QED
      BY <1>1, <2>1, <3>1, <3>2, <3>4
  <2> QED
    BY <2>2, <2>3
<1>10. FilesHaveOwners'
  <2> SUFFICES ASSUME NEW f \in DOMAIN files
               PROVE  \/ Excused(files[f])' \/ work'[files[f]].step = "done"
                      \/ TransferRuns(files[f])' /\ f \in work'[files[f]].made
                      \/ f = Attachment /\ cut
    BY <1>2 DEF FilesHaveOwners, Excused, TransferRuns
  <2>1. files[f] \in Transfer
    BY DEF TransferTyped
  <2>2. files[f] = t => Excused(files[f]) \/ (f = Attachment /\ cut)
    BY <1>2 DEF FilesHaveOwners, TransferRuns
  <2> QED
    BY <1>2, <1>3, <2>1, <2>2 DEF FilesHaveOwners, TransferRuns, Excused
<1>11. AttachmentFits'
  <2>1. Attachment \in DOMAIN files => files[Attachment] \in Transfer
    BY DEF TransferTyped
  <2> QED
    BY <1>2, <1>3, <2>1 DEF AttachmentFits, TransferRuns
<1> QED
  BY <1>5, <1>6, <1>7, <1>8, <1>9, <1>10, <1>11

\* A transfer replaces no file of one that ended, which an older one could.
LEMMA PromoteKeeps ==
  ASSUME TransferInv, NEW t \in Transfer, Promote(t)
  PROVE  TransferInv'
<1> USE DEF TransferInv
<1> DEFINE path == work[t].paths[work[t].at]
<1>1. /\ TransferRuns(t) /\ work[t].at \in 1 .. Len(work[t].paths)
      /\ UNCHANGED <<token, cut, crossed, broken>>
  <2>1. /\ TransferRuns(t) /\ work[t].at <= Len(work[t].paths)
        /\ UNCHANGED <<token, cut, crossed, broken>>
    BY DEF Promote
  <2>2. work[t].at \in Nat \ {0} /\ work[t].paths \in Seq(DeckPath)
    BY <2>1, ProgressParts DEF TransferRuns
  <2> QED
    BY <2>1, <2>2
<1>2. path \in DeckPath
  <2>1. work[t].paths \in Seq(DeckPath)
    BY <1>1, ProgressParts DEF TransferRuns
  <2> QED
    BY <1>1, <2>1
<1>3. files' = IF path = Attachment /\ path \in DOMAIN files
                 THEN files ELSE [f \in DOMAIN files \cup {path} |->
                                    IF f = path THEN t ELSE files[f]]
  BY DEF Promote, WithOne
<1>4. /\ work'[t] = [step |-> "running", paths |-> work[t].paths,
                     made |-> Made(t, path), at |-> work[t].at + 1]
      /\ \A u \in Transfer \ {t} : work'[u] = work[u]
      /\ DOMAIN work' = Transfer
  <2>1. PICK p, m, a : work[t] = [step |-> "running", paths |-> p, made |-> m, at |-> a]
    BY <1>1, ProgressParts DEF TransferRuns
  <2>2. work' = [work EXCEPT ![t].made = Made(t, path), ![t].at = work[t].at + 1]
    BY DEF Promote
  <2> DEFINE placed == Made(t, path)
  <2> HIDE DEF path, placed
  <2>3. /\ work'[t] = [work[t] EXCEPT !.made = placed, !.at = work[t].at + 1]
        /\ \A u \in Transfer \ {t} : work'[u] = work[u]
        /\ DOMAIN work' = Transfer
    BY <2>2 DEF TransferTyped, placed
  <2>4. work[t].paths = p /\ work[t].at = a
    BY <2>1
  <2>5. work'[t] = [step |-> "running", paths |-> p, made |-> placed, at |-> a + 1]
    <3>1. work'[t] = [[step |-> "running", paths |-> p, made |-> m, at |-> a]
                        EXCEPT !.made = placed, !.at = a + 1]
      BY <2>1, <2>3, <2>4
    <3> QED
      BY <3>1
  <2> QED
    BY <2>3, <2>4, <2>5 DEF placed
<1>5. /\ Made(t, path) \subseteq work[t].made \cup {path}
      /\ work[t].made \subseteq Made(t, path)
      /\ path \in Made(t, path) \/ (path = Attachment /\ path \in DOMAIN files)
      /\ path \in Made(t, path)
            => path \in work[t].made \/ ~(path = Attachment /\ path \in DOMAIN files)
  BY DEF Made
<1> HIDE DEF path
<1>6. /\ DOMAIN files' = DOMAIN files \cup {path}
      /\ files' = [f \in DOMAIN files' |-> files'[f]]
      /\ \A f \in DOMAIN files : (f = path /\ f # Attachment) \/ files'[f] = files[f]
      /\ path # Attachment \/ path \notin DOMAIN files => files'[path] = t
  BY <1>3 DEF TransferTyped
<1>7. TransferTyped'
  <2>1. work'[t] \in TransferProgress
    <3>1. /\ Made(t, path) \in SUBSET DeckPath
          /\ PathsFit(work[t].paths) /\ work[t].paths \in Seq(DeckPath)
      BY <1>1, <1>2, <1>5, ProgressParts DEF TransferRuns
    <3>2. work[t].at + 1 \in Nat \ {0}
      BY <1>1
    <3> QED
      BY <1>4, <3>1, <3>2 DEF TransferProgress
  <2>2. work' \in [Transfer -> {Waiting} \cup TransferProgress]
    <3>1. work' = [u \in Transfer |-> work'[u]]
      BY DEF Promote, TransferTyped
    <3>2. \A u \in Transfer : work'[u] \in {Waiting} \cup TransferProgress
      BY <1>4, <2>1 DEF TransferTyped
    <3> QED
      BY <3>1, <3>2
  <2>3. \A f \in DOMAIN files' : files'[f] \in Transfer
    BY <1>6 DEF TransferTyped
  <2> QED
    BY <1>1, <1>2, <1>6, <2>2, <2>3 DEF TransferTyped
<1>8. /\ \A u \in Transfer : TransferRuns(u)' <=> TransferRuns(u)
      /\ \A u \in Transfer : Excused(u)' <=> Excused(u)
      /\ \A u \in Transfer : work'[u].step = work[u].step /\ work'[u].paths = work[u].paths
  BY <1>1, <1>4 DEF TransferRuns, Excused
<1>9. RunsAlone'
  BY <1>1, <1>8 DEF RunsAlone
<1>10. RunnersHaveTheirs'
  <2> SUFFICES ASSUME NEW u \in Transfer, TransferRuns(u), ~Excused(u),
                      NEW i \in 1 .. Len(work[u].paths), i <= work'[u].at - 1
               PROVE  /\ work[u].paths[i] \in DOMAIN files'
                      /\ work[u].paths[i] # Attachment => files'[work[u].paths[i]] = u
    BY <1>8 DEF RunnersHaveTheirs, InDeck
  <2>1. u = t
    BY <1>1 DEF RunsAlone, Excused
  <2>2. i <= work[t].at
    BY <1>1, <1>4, <2>1
  <2>3. CASE i = work[t].at
    <3>1. work[u].paths[i] = path
      BY <2>1, <2>3 DEF path
    <3> QED
      BY <1>6, <2>1, <3>1
  <2>4. CASE i <= work[t].at - 1
    <3>1. /\ work[u].paths[i] \in DOMAIN files
          /\ work[u].paths[i] # Attachment => files[work[u].paths[i]] = u
      BY <2>1, <2>4 DEF RunnersHaveTheirs, InDeck
    <3> QED
      BY <1>6, <2>1, <3>1
  <2> QED
    BY <1>1, <2>2, <2>3, <2>4
<1>11. ASSUME NEW u \in Transfer, work[u].step = "done", ~Excused(u),
              NEW i \in 1 .. Len(work[u].paths)
       PROVE  /\ work[u].paths[i] \in DOMAIN files
              /\ work[u].paths[i] # Attachment => files[work[u].paths[i]] = u
              /\ work[u].paths[i] = path => path = Attachment
  <2>1. i <= Len(work[u].paths)
    BY <1>11, ProgressParts DEF PathsFit
  <2>2. /\ work[u].paths[i] \in DOMAIN files
        /\ work[u].paths[i] # Attachment => files[work[u].paths[i]] = u
    BY <1>11, <2>1 DEF DoneHaveTheirs, InDeck
  <2> QED
    BY <1>1, <1>11, <2>2 DEF RunnersKeepAway, path
<1>12. DoneHaveTheirs'
  <2> SUFFICES ASSUME NEW u \in Transfer, work[u].step = "done", ~Excused(u),
                      NEW i \in 1 .. Len(work[u].paths)
               PROVE  /\ work[u].paths[i] \in DOMAIN files'
                      /\ work[u].paths[i] # Attachment => files'[work[u].paths[i]] = u
    BY <1>8 DEF DoneHaveTheirs, InDeck
  <2> QED
    BY <1>6, <1>11
<1>13. RunnersKeepAway'
  <2> SUFFICES ASSUME NEW v \in Transfer, NEW u \in Transfer, TransferRuns(v),
                      work[u].step = "done", ~Excused(u), NEW i \in 1 .. Len(work[u].paths)
               PROVE  /\ work[u].paths[i] \notin work'[v].made
                      /\ \A j \in 1 .. Len(work[v].paths) :
                           work[v].paths[j] = work[u].paths[i] => work[u].paths[i] = Attachment
    BY <1>8, SMTT(30) DEF RunnersKeepAway
  <2>1. /\ work[u].paths[i] \notin work[v].made
        /\ \A j \in 1 .. Len(work[v].paths) :
             work[v].paths[j] = work[u].paths[i] => work[u].paths[i] = Attachment
    BY DEF RunnersKeepAway
  <2>2. v = t => work'[v].made \subseteq work[v].made \cup {path}
    BY <1>4, <1>5
  <2>3. v = t /\ work[u].paths[i] = path => path \notin work'[v].made
    BY <1>4, <1>5, <1>11, <2>1
  <2>4. v # t => work'[v].made = work[v].made
    BY <1>4
  <2> QED
    BY <2>1, <2>2, <2>3, <2>4
<1>14. FilesHaveOwners'
  <2> SUFFICES ASSUME NEW f \in DOMAIN files'
               PROVE  \/ Excused(files'[f]) \/ work[files'[f]].step = "done"
                      \/ TransferRuns(files'[f]) /\ f \in work'[files'[f]].made
                      \/ f = Attachment /\ cut
    BY <1>1, <1>7, <1>8 DEF FilesHaveOwners, TransferTyped
  <2>1. CASE f = path /\ (path # Attachment \/ path \notin DOMAIN files)
    BY <1>1, <1>4, <1>5, <1>6, <2>1
  <2>2. CASE f # path \/ (path = Attachment /\ path \in DOMAIN files)
    <3>1. f \in DOMAIN files /\ files'[f] = files[f] /\ files[f] \in Transfer
      BY <1>6, <2>2 DEF TransferTyped
    <3>2. \A u \in Transfer : work[u].made \subseteq work'[u].made
      BY <1>4, <1>5
    <3> QED
      BY <3>1, <3>2 DEF FilesHaveOwners
  <2> QED
    BY <2>1, <2>2
<1>15. AttachmentFits'
  <2>1. ASSUME cut
        PROVE  Attachment \in DOMAIN files' /\ work'[files'[Attachment]].step = "failed"
    <3>1. Attachment \in DOMAIN files /\ work[files[Attachment]].step = "failed"
      BY <2>1 DEF AttachmentFits
    <3>2. files'[Attachment] = files[Attachment] /\ files[Attachment] \in Transfer
      BY <1>6, <3>1 DEF TransferTyped
    <3> QED
      BY <1>6, <1>8, <3>1, <3>2
  <2>2. ASSUME NEW u \in Transfer, TransferRuns(u), Attachment \in work'[u].made
        PROVE  Attachment \in DOMAIN files' /\ files'[Attachment] = u
    <3>1. CASE Attachment \in work[u].made
      BY <1>6, <2>2, <3>1 DEF AttachmentFits
    <3>2. CASE Attachment \notin work[u].made
      <4>1. u = t /\ Attachment = path
        BY <1>4, <1>5, <2>2, <3>2
      <4>2. path \notin DOMAIN files
        BY <1>4, <1>5, <2>2, <3>2, <4>1
      <4> QED
        BY <1>6, <4>1, <4>2
    <3> QED
      BY <3>1, <3>2
  <2> QED
    BY <1>1, <1>8, <2>1, <2>2 DEF AttachmentFits
<1> QED
  BY <1>7, <1>9, <1>10, <1>12, <1>13, <1>14, <1>15

\* What is answered stays: nothing else runs that could have a part in it.
LEMMA FinishKeeps ==
  ASSUME TransferInv, NEW t \in Transfer, Finish(t)
  PROVE  TransferInv'
<1> USE DEF TransferInv
<1>1. /\ TransferRuns(t) /\ work[t].at > Len(work[t].paths)
      /\ UNCHANGED <<token, files, cut, crossed, broken>>
  BY DEF Finish
<1>2. /\ work'[t] = [step |-> "done", paths |-> work[t].paths,
                     made |-> work[t].made, at |-> work[t].at]
      /\ \A u \in Transfer \ {t} : work'[u] = work[u]
      /\ work' = [u \in Transfer |-> work'[u]]
  <2>1. PICK p, m, a : work[t] = [step |-> "running", paths |-> p, made |-> m, at |-> a]
    BY <1>1, ProgressParts DEF TransferRuns
  <2>2. /\ work'[t] = [work[t] EXCEPT !.step = "done"]
        /\ \A u \in Transfer \ {t} : work'[u] = work[u]
        /\ work' = [u \in Transfer |-> work'[u]]
    BY DEF Finish, TransferTyped
  <2>3. work'[t] = [step |-> "done", paths |-> p, made |-> m, at |-> a]
    BY <2>1, <2>2
  <2>4. work[t].paths = p /\ work[t].made = m /\ work[t].at = a
    BY <2>1
  <2> QED
    BY <2>2, <2>3, <2>4
<1>3. /\ \A u \in Transfer : work'[u].paths = work[u].paths /\ work'[u].made = work[u].made
                               /\ work'[u].at = work[u].at
      /\ \A u \in Transfer : TransferRuns(u)' <=> TransferRuns(u) /\ u # t
      /\ \A u \in Transfer : work'[u].step = "done" <=> work[u].step = "done" \/ u = t
      /\ \A u \in Transfer : Excused(u)' <=> Excused(u)
  BY <1>1, <1>2 DEF TransferRuns, Excused
<1>4. TransferTyped'
  <2>1. work'[t] \in TransferProgress
    <3>1. /\ PathsFit(work[t].paths) /\ work[t].paths \in Seq(DeckPath)
          /\ work[t].made \subseteq DeckPath /\ work[t].at \in Nat \ {0}
      BY <1>1, ProgressParts DEF TransferRuns
    <3> QED
      BY <1>2, <3>1 DEF TransferProgress
  <2> QED
    BY <1>1, <1>2, <2>1 DEF TransferTyped
<1>5. RunsAlone'
  BY <1>1, <1>3 DEF RunsAlone
<1>6. RunnersHaveTheirs'
  BY <1>1, <1>3 DEF RunnersHaveTheirs, InDeck
<1>7. DoneHaveTheirs'
  <2>1. ~Excused(t) => InDeck(t, Len(work[t].paths))
    <3> SUFFICES ASSUME ~Excused(t) PROVE InDeck(t, Len(work[t].paths))
      OBVIOUS
    <3>1. InDeck(t, work[t].at - 1)
      BY <1>1 DEF RunnersHaveTheirs
    <3>2. work[t].at \in Nat /\ work[t].paths \in Seq(DeckPath)
      BY <1>1, ProgressParts DEF TransferRuns
    <3> QED
      BY <1>1, <3>1, <3>2 DEF InDeck
  <2> QED
    BY <1>1, <1>3, <2>1 DEF DoneHaveTheirs, InDeck
<1>8. RunnersKeepAway'
  <2>1. ~Excused(t) => \A u \in Transfer : TransferRuns(u) => u = t
    BY <1>1 DEF RunsAlone, Excused
  <2> QED
    BY <1>1, <1>3, <2>1 DEF RunnersKeepAway
<1>9. FilesHaveOwners'
  BY <1>1, <1>3 DEF FilesHaveOwners, TransferTyped, Excused
<1>10. AttachmentFits'
  <2>1. \A u \in Transfer : work[u].step = "failed" => work'[u].step = "failed"
    BY <1>1, <1>2 DEF TransferRuns
  <2>2. Attachment \in DOMAIN files => files[Attachment] \in Transfer
    BY DEF TransferTyped
  <2> QED
    BY <1>1, <1>3, <2>1, <2>2 DEF AttachmentFits
<1> QED
  BY <1>4, <1>5, <1>6, <1>7, <1>8, <1>9, <1>10

\* What is removed is what the transfer made, and nothing of another; what there is of an
\* attachment that could not be written stays.
LEMMA RollbackKeeps ==
  ASSUME TransferInv, NEW t \in Transfer, Rollback(t)
  PROVE  TransferInv'
<1> USE DEF TransferInv
<1>1. TransferRuns(t) /\ UNCHANGED <<token, crossed, broken>>
  BY DEF Rollback
<1> DEFINE left == [f \in DOMAIN files \ work[t].made |-> files[f]]
           Removed == files' = left /\ cut' = cut
           CutOff == Writes(t) /\ files' = WithOne(left, Attachment, t) /\ cut' = TRUE
<1>a. Removed \/ CutOff
  BY Zenon DEF Rollback
<1>b. CutOff => /\ Attachment \notin DOMAIN files /\ Attachment \in DOMAIN files'
                /\ files'[Attachment] = t /\ cut' = TRUE
  BY DEF Writes, WithOne
<1>c. Attachment \in DeckPath
  BY SlideTransferAssumption DEF Attachment, Path, DeckPath
<1>2. /\ \/ Removed /\ DOMAIN files' = DOMAIN files \ work[t].made
         \/ CutOff /\ DOMAIN files' = (DOMAIN files \ work[t].made) \cup {Attachment}
      /\ \A f \in DOMAIN files \ work[t].made : files'[f] = files[f]
      /\ files' = [f \in DOMAIN files' |-> files'[f]]
      /\ DOMAIN files' \subseteq DeckPath /\ \A f \in DOMAIN files' : files'[f] \in Transfer
      /\ cut' \in BOOLEAN
  <2>1. CASE Removed
    BY <2>1 DEF TransferTyped
  <2>2. CASE CutOff
    BY <1>b, <1>c, <2>2 DEF TransferTyped, WithOne, Writes
  <2> QED
    BY <1>a, <2>1, <2>2
<1> HIDE DEF Removed, CutOff
<1>3. /\ work'[t] = [step |-> "failed", paths |-> work[t].paths,
                     made |-> work[t].made, at |-> work[t].at]
      /\ \A u \in Transfer \ {t} : work'[u] = work[u]
      /\ work' = [u \in Transfer |-> work'[u]]
  <2>1. PICK p, m, a : work[t] = [step |-> "running", paths |-> p, made |-> m, at |-> a]
    BY <1>1, ProgressParts DEF TransferRuns
  <2>2. /\ work'[t] = [work[t] EXCEPT !.step = "failed"]
        /\ \A u \in Transfer \ {t} : work'[u] = work[u]
        /\ work' = [u \in Transfer |-> work'[u]]
    BY DEF Rollback, TransferTyped
  <2>3. work'[t] = [step |-> "failed", paths |-> p, made |-> m, at |-> a]
    BY <2>1, <2>2
  <2>4. work[t].paths = p /\ work[t].made = m /\ work[t].at = a
    BY <2>1
  <2> QED
    BY <2>2, <2>3, <2>4
<1>4. /\ \A u \in Transfer : work'[u].paths = work[u].paths /\ work'[u].made = work[u].made
                               /\ work'[u].at = work[u].at
      /\ \A u \in Transfer : TransferRuns(u)' <=> TransferRuns(u) /\ u # t
      /\ \A u \in Transfer : work'[u].step = "done" <=> work[u].step = "done"
      /\ \A u \in Transfer : Excused(u)' <=> Excused(u)
  BY <1>1, <1>3 DEF TransferRuns, Excused
<1>5. TransferTyped'
  <2>1. work'[t] \in TransferProgress
    <3>1. /\ PathsFit(work[t].paths) /\ work[t].paths \in Seq(DeckPath)
          /\ work[t].made \subseteq DeckPath /\ work[t].at \in Nat \ {0}
      BY <1>1, ProgressParts DEF TransferRuns
    <3> QED
      BY <1>3, <3>1 DEF TransferProgress
  <2> QED
    BY <1>1, <1>2, <1>3, <2>1 DEF TransferTyped
<1>6. RunsAlone'
  BY <1>1, <1>4 DEF RunsAlone
<1>7. RunnersHaveTheirs'
  <2>1. \A u \in Transfer : TransferRuns(u) /\ ~Excused(u) => u = t
    BY <1>1 DEF RunsAlone, Excused
  <2> QED
    BY <1>4, <2>1 DEF RunnersHaveTheirs
<1>8. DoneHaveTheirs'
  <2> SUFFICES ASSUME NEW u \in Transfer, work[u].step = "done", ~Excused(u),
                      NEW i \in 1 .. Len(work[u].paths)
               PROVE  /\ work[u].paths[i] \in DOMAIN files'
                      /\ work[u].paths[i] # Attachment => files'[work[u].paths[i]] = u
    BY <1>4 DEF DoneHaveTheirs, InDeck
  <2>1. i <= Len(work[u].paths)
    BY ProgressParts DEF PathsFit
  <2>2. /\ work[u].paths[i] \in DOMAIN files
        /\ work[u].paths[i] # Attachment => files[work[u].paths[i]] = u
    BY <2>1 DEF DoneHaveTheirs, InDeck
  <2>3. work[u].paths[i] \notin work[t].made
    BY <1>1 DEF RunnersKeepAway
  <2> QED
    BY <1>2, <2>2, <2>3
<1>9. RunnersKeepAway'
  BY <1>4 DEF RunnersKeepAway
<1>d. cut => cut'
  BY <1>2 DEF Removed, CutOff
<1>10. FilesHaveOwners'
  <2>1. ASSUME NEW f \in DOMAIN files', ~(f = Attachment /\ cut')
        PROVE  \/ files'[f] \in crossed' \cup broken' \/ work'[files'[f]].step = "done"
               \/ work'[files'[f]].step = "running" /\ f \in work'[files'[f]].made
    <3>1. /\ f \in DOMAIN files /\ f \notin work[t].made
          /\ files'[f] = files[f] /\ files[f] \in Transfer
      BY <1>2, <2>1 DEF TransferTyped, CutOff
    <3>2. \/ files[f] \in crossed \cup broken \/ work[files[f]].step = "done"
          \/ work[files[f]].step = "running" /\ f \in work[files[f]].made
      BY <1>d, <2>1, <3>1 DEF FilesHaveOwners, Excused, TransferRuns
    <3>3. files[f] = t => files[f] \in crossed \cup broken
      BY <1>1, <3>1, <3>2 DEF TransferRuns
    <3> QED
      BY <1>1, <1>3, <3>1, <3>2, <3>3
  <2> QED
    BY <2>1, Zenon DEF FilesHaveOwners, Excused, TransferRuns
<1>11. AttachmentFits'
  <2>1. CASE Attachment \in work[t].made
    <3>1. Attachment \in DOMAIN files /\ files[Attachment] = t
      BY <1>1, <2>1 DEF AttachmentFits
    <3>2. ~cut
      BY <1>1, <3>1 DEF AttachmentFits, TransferRuns
    <3>3. Removed /\ ~CutOff
      BY <1>a, <1>b, <3>1
    <3>4. ~cut'
      BY <3>2, <3>3 DEF Removed
    <3>5. \A u \in Transfer : TransferRuns(u)' => Attachment \notin work'[u].made
      BY <1>4, <3>1 DEF AttachmentFits
    <3> QED
      BY <3>4, <3>5 DEF AttachmentFits
  <2>2. CASE Attachment \notin work[t].made /\ Attachment \in DOMAIN files
    <3>1. Removed
      BY <1>a, <1>b, <2>2
    <3>2. /\ cut' = cut /\ Attachment \in DOMAIN files' /\ files'[Attachment] = files[Attachment]
          /\ files[Attachment] \in Transfer
      BY <1>2, <2>2, <3>1 DEF Removed, TransferTyped
    <3>3. \A u \in Transfer : work[u].step = "failed" => work'[u].step = "failed"
      BY <1>3
    <3> QED
      BY <1>4, <2>2, <3>2, <3>3 DEF AttachmentFits
  <2>3. CASE Attachment \notin DOMAIN files
    <3>1. ~cut
      BY <2>3 DEF AttachmentFits
    <3>2. cut' => Attachment \in DOMAIN files' /\ files'[Attachment] = t
      BY <1>a, <1>b, <3>1 DEF Removed
    <3>3. \A u \in Transfer : TransferRuns(u)' => Attachment \notin work'[u].made
      BY <1>4, <2>3 DEF AttachmentFits
    <3> QED
      BY <1>3, <3>2, <3>3 DEF AttachmentFits
  <2> QED
    BY <2>1, <2>2, <2>3
<1> QED
  BY <1>5, <1>6, <1>7, <1>8, <1>9, <1>10, <1>11

\* The files of what was interrupted stay, and it is excused.
LEMMA TransferCrashKeeps ==
  ASSUME TransferInv, TransferCrash
  PROVE  TransferInv'
<1> USE DEF TransferInv
<1>1. UNCHANGED crossed /\ token' \in [Transfer -> {"none", "open", "used", "lost"}]
  BY DEF TransferCrash, TransferTyped
<1>c. Attachment \in DeckPath
  BY SlideTransferAssumption DEF Attachment, Path, DeckPath
<1>a. /\ DOMAIN files \subseteq DOMAIN files' /\ \A f \in DOMAIN files : files'[f] = files[f]
      /\ files' = [f \in DOMAIN files' |-> files'[f]]
      /\ DOMAIN files' \subseteq DeckPath /\ \A f \in DOMAIN files' : files'[f] \in Transfer
      /\ cut => cut'
      /\ \/ DOMAIN files' = DOMAIN files /\ cut' = cut
         \/ /\ Attachment \notin DOMAIN files
            /\ DOMAIN files' = DOMAIN files \cup {Attachment}
            /\ \E t \in Transfer : TransferRuns(t) /\ files'[Attachment] = t
  <2>1. CASE UNCHANGED <<files, cut>>
    BY <2>1 DEF TransferTyped
  <2>2. ASSUME NEW t \in Transfer, TransferRuns(t), Writes(t),
               files' = WithOne(files, Attachment, t), cut' = TRUE
        PROVE  /\ DOMAIN files \subseteq DOMAIN files'
               /\ \A f \in DOMAIN files : files'[f] = files[f]
               /\ files' = [f \in DOMAIN files' |-> files'[f]]
               /\ DOMAIN files' \subseteq DeckPath
               /\ \A f \in DOMAIN files' : files'[f] \in Transfer
               /\ cut' = TRUE /\ Attachment \notin DOMAIN files
               /\ DOMAIN files' = DOMAIN files \cup {Attachment} /\ files'[Attachment] = t
    BY <1>c, <2>2 DEF Writes, WithOne, TransferTyped
  <2>3. \/ UNCHANGED <<files, cut>>
        \/ \E t \in Transfer : /\ TransferRuns(t) /\ Writes(t)
                               /\ files' = WithOne(files, Attachment, t) /\ cut' = TRUE
    BY Zenon DEF TransferCrash
  <2> QED
    BY <2>1, <2>2, <2>3
<1>2. /\ broken' \subseteq Transfer
      /\ \A u \in Transfer : Excused(u)' <=> Excused(u) \/ TransferRuns(u)
  BY DEF TransferCrash, TransferTyped, Excused
<1>3. /\ work' = [u \in Transfer |-> work'[u]]
      /\ \A u \in Transfer :
           work'[u] = IF TransferRuns(u) THEN [work[u] EXCEPT !.step = "failed"] ELSE work[u]
  BY DEF TransferCrash
<1>4. ASSUME NEW u \in Transfer, TransferRuns(u)
      PROVE  work'[u] \in TransferProgress /\ work'[u].step = "failed"
  <2>1. PICK p, m, a : /\ work[u] = [step |-> "running", paths |-> p, made |-> m, at |-> a]
                       /\ PathsFit(p) /\ p \in Seq(DeckPath)
                       /\ m \in SUBSET DeckPath /\ a \in Nat \ {0}
    BY <1>4, ProgressParts DEF TransferRuns
  <2>2. work'[u] = [step |-> "failed", paths |-> p, made |-> m, at |-> a]
    BY <1>3, <1>4, <2>1
  <2> QED
    BY <2>1, <2>2 DEF TransferProgress
<1>5. /\ \A u \in Transfer : ~TransferRuns(u)'
      /\ \A u \in Transfer : ~TransferRuns(u) => work'[u] = work[u]
      /\ \A u \in Transfer : work'[u].step = "done" => ~TransferRuns(u)
  BY <1>3, <1>4 DEF TransferRuns
<1>6. TransferTyped'
  <2>1. \A u \in Transfer : work'[u] \in {Waiting} \cup TransferProgress
    BY <1>4, <1>5 DEF TransferTyped
  <2>2. work' \in [Transfer -> {Waiting} \cup TransferProgress]
    BY <1>3, <2>1
  <2>3. crossed \subseteq Transfer
    BY DEF TransferTyped
  <2>4. crossed' \subseteq Transfer
    BY <1>1, <2>3
  <2>5. DOMAIN files' \subseteq DeckPath /\ \A f \in DOMAIN files' : files'[f] \in Transfer
    BY <1>a
  <2>6. files' = [f \in DOMAIN files' |-> files'[f]] /\ cut' \in BOOLEAN
    <3>1. files' = [f \in DOMAIN files' |-> files'[f]]
      BY ONLY <1>a
    <3>2. cut' \in BOOLEAN
      <4>1. cut' = cut \/ cut' = TRUE
        BY Zenon DEF TransferCrash
      <4> QED
        BY <4>1 DEF TransferTyped
    <3> QED
      BY <3>1, <3>2
  <2>7. broken' \subseteq Transfer /\ token' \in [Transfer -> {"none", "open", "used", "lost"}]
    BY <1>1, <1>2
  <2> HIDE DEF TransferInv
  <2> QED
    BY ONLY <2>2, <2>4, <2>5, <2>6, <2>7 DEF TransferTyped
<1>7. RunsAlone' /\ RunnersHaveTheirs' /\ RunnersKeepAway'
  BY <1>5 DEF RunsAlone, RunnersHaveTheirs, RunnersKeepAway
<1>8. DoneHaveTheirs'
  <2> SUFFICES ASSUME NEW u \in Transfer, work'[u].step = "done", ~Excused(u)',
                      NEW i \in 1 .. Len(work'[u].paths)
               PROVE  /\ work'[u].paths[i] \in DOMAIN files'
                      /\ work'[u].paths[i] # Attachment => files'[work'[u].paths[i]] = u
    BY DEF DoneHaveTheirs, InDeck
  <2>1. work'[u] = work[u] /\ ~Excused(u)
    BY <1>2, <1>5
  <2>2. i <= Len(work[u].paths)
    BY <2>1, ProgressParts DEF PathsFit
  <2>3. /\ work[u].paths[i] \in DOMAIN files
        /\ work[u].paths[i] # Attachment => files[work[u].paths[i]] = u
    BY <2>1, <2>2 DEF DoneHaveTheirs, InDeck
  <2> QED
    BY <1>a, <2>1, <2>3
<1>9. FilesHaveOwners'
  <2>1. \A u \in Transfer :
          u \in crossed' \cup broken' <=> u \in crossed \cup broken \/ TransferRuns(u)
    BY <1>2 DEF Excused
  <2>2. ASSUME NEW f \in DOMAIN files', files'[f] \notin crossed' \cup broken'
        PROVE  work'[files'[f]].step = "done" \/ (f = Attachment /\ cut')
    <3>1. f \in DOMAIN files /\ files'[f] = files[f] /\ files[f] \in Transfer
      BY <1>a, <2>1, <2>2 DEF TransferTyped
    <3>2. ~Excused(files[f]) /\ ~TransferRuns(files[f])
      BY <2>1, <2>2, <3>1 DEF Excused
    <3>3. work[files[f]].step = "done" \/ (f = Attachment /\ cut)
      BY <3>1, <3>2 DEF FilesHaveOwners
    <3> QED
      BY <1>a, <1>5, <3>1, <3>2, <3>3
  <2> QED
    BY <2>2, Zenon DEF FilesHaveOwners, Excused, TransferRuns
<1>10. AttachmentFits'
  <2>1. ASSUME cut'
        PROVE  Attachment \in DOMAIN files' /\ work'[files'[Attachment]].step = "failed"
    <3>1. CASE DOMAIN files' = DOMAIN files /\ cut' = cut
      <4>1. Attachment \in DOMAIN files /\ work[files[Attachment]].step = "failed"
        BY <2>1, <3>1 DEF AttachmentFits
      <4>2. files[Attachment] \in Transfer /\ ~TransferRuns(files[Attachment])
        BY <4>1 DEF TransferTyped, TransferRuns
      <4> QED
        BY <1>a, <1>5, <3>1, <4>1, <4>2
    <3>2. CASE /\ DOMAIN files' = DOMAIN files \cup {Attachment}
               /\ \E t \in Transfer : TransferRuns(t) /\ files'[Attachment] = t
      BY <1>4, <3>2
    <3> QED
      BY <1>a, <3>1, <3>2
  <2> QED
    BY <1>5, <2>1 DEF AttachmentFits
<1> QED
  BY <1>6, <1>7, <1>8, <1>9, <1>10

\* No transfer has begun at first.
LEMMA TransferStart == SlideTransferInit => TransferInv
<1> SUFFICES ASSUME SlideTransferInit PROVE TransferInv
  OBVIOUS
<1>1. /\ \A t \in Transfer : work[t] = Waiting /\ work[t].step = "waiting"
      /\ DOMAIN files = {} /\ files = [f \in DOMAIN files |-> files[f]] /\ cut = FALSE
  BY DEF SlideTransferInit, Waiting
<1>2. TransferTyped
  BY <1>1 DEF SlideTransferInit, TransferTyped
<1>3. \A t \in Transfer : ~TransferRuns(t) /\ work[t].step # "done"
  BY <1>1 DEF TransferRuns
<1> QED
  BY <1>1, <1>2, <1>3 DEF TransferInv, RunsAlone, RunnersHaveTheirs, DoneHaveTheirs,
                          RunnersKeepAway, FilesHaveOwners, AttachmentFits

\* Every step of a transfer keeps the invariant.
LEMMA TransferStep == TransferInv /\ [SlideTransferNext]_transferVars => TransferInv'
<1> SUFFICES ASSUME TransferInv, [SlideTransferNext]_transferVars PROVE TransferInv'
  OBVIOUS
<1>1. ASSUME UNCHANGED <<work, files, cut, crossed, broken>>,
             token' \in [Transfer -> {"none", "open", "used", "lost"}]
      PROVE  TransferInv'
  BY <1>1 DEF TransferInv, TransferTyped, RunsAlone, RunnersHaveTheirs, DoneHaveTheirs,
              RunnersKeepAway, FilesHaveOwners, AttachmentFits, TransferRuns, Excused, InDeck
<1>2. CASE UNCHANGED transferVars
  BY <1>1, <1>2 DEF transferVars, TransferInv, TransferTyped
<1>3. ASSUME NEW t \in Transfer, CreateIntent(t) \/ Exchange(t) PROVE TransferInv'
  BY <1>1, <1>3 DEF CreateIntent, Exchange, TransferInv, TransferTyped
<1> QED
  BY <1>2, <1>3, BeginKeeps, PromoteKeeps, FinishKeeps, RollbackKeeps, TransferCrashKeeps
  DEF SlideTransferNext

(***************************************************************************)
(* A transfer is all or nothing, for every set of requests and slides and  *)
(* any number of slides in the deck, unless it overlapped with another or  *)
(* was interrupted by the end of the process; all that a failed one leaves *)
(* is an attachment that its last write cut off.                           *)
(***************************************************************************)
THEOREM SlidesArriveWhole == SlideTransferSpec => []TransferAllOrNothing
<1>1. SlideTransferInit => TransferInv
  BY TransferStart
<1>2. TransferInv => TransferAllOrNothing
  <2> SUFFICES ASSUME TransferInv PROVE TransferAllOrNothing
    OBVIOUS
  <2>1. ASSUME NEW t \in Transfer \ (crossed \cup broken), work[t].step = "done",
               NEW i \in DOMAIN work[t].paths
        PROVE  /\ work[t].paths[i] \in DOMAIN files
               /\ work[t].paths[i] # Attachment => files[work[t].paths[i]] = t
    <3>1. work[t].paths \in Seq(DeckPath)
      BY <2>1, ProgressParts DEF TransferInv
    <3>2. i \in 1 .. Len(work[t].paths) /\ i <= Len(work[t].paths)
      BY <2>1, <3>1
    <3> QED
      BY <2>1, <3>2 DEF TransferInv, DoneHaveTheirs, InDeck, Excused
  <2>2. ASSUME NEW t \in Transfer \ (crossed \cup broken), work[t].step = "failed",
               NEW f \in DOMAIN files, files[f] = t
        PROVE  f = Attachment /\ cut
    BY <2>2 DEF TransferInv, FilesHaveOwners, TransferRuns, Excused
  <2>3. cut => Attachment \in DOMAIN files /\ work[files[Attachment]].step = "failed"
    BY DEF TransferInv, AttachmentFits
  <2> QED
    BY <2>1, <2>2, <2>3 DEF TransferAllOrNothing
<1> QED
  BY <1>1, <1>2, TransferStep, PTL DEF SlideTransferSpec

\* The order of the slides (SlideOrder).

\* A sequence without one of its elements, and with another.
LEMMA RemoveAtIs ==
  ASSUME NEW S, NEW ids \in Seq(S), NEW i \in 1 .. Len(ids)
  PROVE  /\ RemoveAt(ids, i) \in Seq(S) /\ Len(RemoveAt(ids, i)) = Len(ids) - 1
         /\ \A k \in 1 .. Len(ids) - 1 :
              RemoveAt(ids, i)[k] = IF k < i THEN ids[k] ELSE ids[k + 1]
<1> DEFINE left == SubSeq(ids, 1, i - 1)
           right == SubSeq(ids, i + 1, Len(ids))
<1>1. /\ left \in Seq(S) /\ Len(left) = i - 1
      /\ \A k \in 1 .. i - 1 : left[k] = ids[k]
  OBVIOUS
<1>2. /\ right \in Seq(S) /\ Len(right) = Len(ids) - i
      /\ \A k \in 1 .. Len(ids) - i : right[k] = ids[i + k]
  OBVIOUS
<1>3. RemoveAt(ids, i) = left \o right
  BY DEF RemoveAt
<1> HIDE DEF left, right
<1>4. Len(ids) \in Nat
  OBVIOUS
<1>5. /\ Len(left \o right) = Len(ids) - 1
      /\ \A k \in 1 .. Len(ids) - 1 :
           (left \o right)[k] = IF k <= i - 1 THEN left[k] ELSE right[k - (i - 1)]
  <2>1. /\ Len(left \o right) = Len(left) + Len(right)
        /\ \A k \in 1 .. Len(left) + Len(right) :
             (left \o right)[k] = IF k <= Len(left) THEN left[k] ELSE right[k - Len(left)]
    BY <1>1, <1>2, ConcatProperties
  <2>2. Len(left) = i - 1 /\ Len(left) + Len(right) = Len(ids) - 1
    BY <1>1, <1>2, <1>4
  <2> QED
    BY <2>1, <2>2, Zenon
<1>6. ASSUME NEW k \in 1 .. Len(ids) - 1
      PROVE  (left \o right)[k] = IF k < i THEN ids[k] ELSE ids[k + 1]
  <2>1. CASE k < i
    BY <1>1, <1>5, <2>1
  <2>2. CASE k >= i
    <3>1. k - (i - 1) \in 1 .. Len(ids) - i /\ i + (k - (i - 1)) = k + 1
      BY <1>4, <2>2
    <3>2. right[k - (i - 1)] = ids[k + 1]
      BY <1>2, <3>1
    <3> QED
      BY <1>4, <1>5, <2>2, <3>2
  <2>3. k < i \/ k >= i
    BY <1>4
  <2> QED
    BY <2>1, <2>2, <2>3, Zenon
<1> QED
  BY <1>1, <1>2, <1>3, <1>5, <1>6

LEMMA InsertAtIs ==
  ASSUME NEW S, NEW ids \in Seq(S), NEW i \in 1 .. Len(ids) + 1, NEW e \in S
  PROVE  /\ InsertAt(ids, i, e) \in Seq(S) /\ Len(InsertAt(ids, i, e)) = Len(ids) + 1
         /\ \A k \in 1 .. Len(ids) + 1 :
              InsertAt(ids, i, e)[k] = IF k < i THEN ids[k] ELSE IF k = i THEN e ELSE ids[k - 1]
<1> DEFINE left == SubSeq(ids, 1, i - 1)
           right == SubSeq(ids, i, Len(ids))
<1>1. /\ left \in Seq(S) /\ Len(left) = i - 1
      /\ \A k \in 1 .. i - 1 : left[k] = ids[k]
  OBVIOUS
<1>2. /\ right \in Seq(S) /\ Len(right) = Len(ids) - i + 1
      /\ \A k \in 1 .. Len(ids) - i + 1 : right[k] = ids[i + k - 1]
  OBVIOUS
<1>3. InsertAt(ids, i, e) = left \o <<e>> \o right
  BY DEF InsertAt
<1> HIDE DEF left, right
<1>4. Len(ids) \in Nat
  OBVIOUS
<1> DEFINE both == left \o <<e>>
<1>5. /\ both \in Seq(S) /\ Len(both) = i
      /\ \A k \in 1 .. i : both[k] = IF k < i THEN ids[k] ELSE e
  BY <1>1
<1> HIDE DEF both
<1>6. InsertAt(ids, i, e) = both \o right
  BY <1>3 DEF both
<1>7. /\ Len(both \o right) = Len(ids) + 1
      /\ \A k \in 1 .. Len(ids) + 1 :
           (both \o right)[k] = IF k <= i THEN both[k] ELSE right[k - i]
  <2>1. /\ Len(both \o right) = Len(both) + Len(right)
        /\ \A k \in 1 .. Len(both) + Len(right) :
             (both \o right)[k] = IF k <= Len(both) THEN both[k] ELSE right[k - Len(both)]
    BY <1>2, <1>5, ConcatProperties
  <2>2. Len(both) = i /\ Len(both) + Len(right) = Len(ids) + 1
    BY <1>2, <1>4, <1>5
  <2> QED
    BY <2>1, <2>2, Zenon
<1>8. ASSUME NEW k \in 1 .. Len(ids) + 1
      PROVE  (both \o right)[k] = IF k < i THEN ids[k] ELSE IF k = i THEN e ELSE ids[k - 1]
  <2>1. CASE k <= i
    BY <1>4, <1>5, <1>7, <2>1
  <2>2. CASE k > i
    <3>1. k - i \in 1 .. Len(ids) - i + 1 /\ i + (k - i) - 1 = k - 1
      BY <1>4, <2>2
    <3>2. right[k - i] = ids[k - 1]
      BY <1>2, <3>1
    <3> QED
      BY <1>4, <1>7, <2>2, <3>2
  <2>3. k <= i \/ k > i
    BY <1>4
  <2> QED
    BY <2>1, <2>2, <2>3, Zenon
<1> QED
  BY <1>2, <1>5, <1>6, <1>7, <1>8

\* Slides are numbered from 1, and are finitely many.
LEMMA SlideNumbers ==
  /\ SlideNumber \subseteq Nat \ {0} /\ IsFiniteSet(SlideNumber) /\ Top \notin SlideNumber
BY SlideOrderAssumption, FS_CardinalityType DEF Top

\* Where a sequence names a slide first.
LEMMA FirstOfIs ==
  ASSUME NEW ids \in Seq(SlideNumber), NEW s \in ToSet(ids)
  PROVE  /\ FirstOf(ids, s) \in 1 .. Len(ids) /\ ids[FirstOf(ids, s)] = s
         /\ \A i \in 1 .. Len(ids) : ids[i] = s => FirstOf(ids, s) <= i
<1> DEFINE at == {i \in DOMAIN ids : ids[i] = s}
<1>1. at \in SUBSET Nat /\ at # {} /\ DOMAIN ids = 1 .. Len(ids)
  BY DEF ToSet
<1>2. Min(at) \in at /\ \A n \in at : Min(at) <= n
  BY <1>1, LeastNumber
<1> QED
  BY <1>1, <1>2 DEF FirstOf

\* Different slides have different places, those the order names before the others.
LEMMA PlaceIs ==
  ASSUME NEW order \in Seq(SlideNumber), NEW s \in SlideNumber
  PROVE  /\ Place(order, s) \in Nat
         /\ s \in ToSet(order) =>
              Place(order, s) = FirstOf(order, s) /\ Place(order, s) <= Len(order)
         /\ s \notin ToSet(order) => Place(order, s) > Len(order)
         /\ \A r \in SlideNumber : Place(order, r) = Place(order, s) => r = s
<1>1. \A r \in SlideNumber : r \in ToSet(order) =>
        /\ Place(order, r) = FirstOf(order, r) /\ Place(order, r) \in 1 .. Len(order)
        /\ order[Place(order, r)] = r
  BY FirstOfIs DEF Place
<1>2. \A r \in SlideNumber : r \notin ToSet(order) =>
        Place(order, r) = Len(order) + r /\ r \in Nat /\ r > 0
  BY SlideNumbers DEF Place
<1>3. Len(order) \in Nat
  OBVIOUS
<1> QED
  BY <1>1, <1>2, <1>3

\* The slides that are there, each once, in the order of their places.
LEMMA SlideIDsAre ==
  ASSUME NEW order \in Seq(SlideNumber), NEW there \in SUBSET SlideNumber
  PROVE  LET ids == SlideIDs(order, there)
         IN  /\ ids \in Seq(SlideNumber) /\ Len(ids) = Cardinality(there) /\ ToSet(ids) = there
             /\ \A i, j \in 1 .. Len(ids) :
                  i < j => Place(order, ids[i]) < Place(order, ids[j])
<1> DEFINE ids == SlideIDs(order, there)
           n == Cardinality(there)
           p == [s \in there |-> Place(order, s)]
<1>1. IsFiniteSet(there) /\ n \in Nat
  BY SlideNumbers, FS_Subset, FS_CardinalityType
<1>2. p \in [there -> Nat] /\ \A s, r \in there : p[s] = p[r] => s = r
  BY PlaceIs
<1>3. \E q \in [1 .. n -> there] : \A i, j \in 1 .. n : i < j => p[q[i]] < p[q[j]]
  <2> HIDE DEF p
  <2> QED
    BY <1>1, <1>2, InOrder
<1>4. \E q \in [1 .. n -> there] :
         \A i, j \in DOMAIN q : i < j => Place(order, q[i]) < Place(order, q[j])
  <2>1. PICK q \in [1 .. n -> there] : \A i, j \in 1 .. n : i < j => p[q[i]] < p[q[j]]
    BY <1>3
  <2>2. \A i \in 1 .. n : p[q[i]] = Place(order, q[i])
    OBVIOUS
  <2>3. ASSUME NEW i \in DOMAIN q, NEW j \in DOMAIN q, i < j
        PROVE  Place(order, q[i]) < Place(order, q[j])
    <3> HIDE DEF p, n
    <3> QED
      BY <2>1, <2>2, <2>3
  <2> QED
    BY <2>3
<1>5. /\ ids \in [1 .. n -> there]
      /\ \A i, j \in DOMAIN ids : i < j => Place(order, ids[i]) < Place(order, ids[j])
  <2> HIDE DEF n
  <2>1. SlideIDs(order, there) = CHOOSE q \in [1 .. n -> there] :
          \A i, j \in DOMAIN q : i < j => Place(order, q[i]) < Place(order, q[j])
    BY DEF SlideIDs, n
  <2> QED
    BY <1>4, <2>1
<1>6. \A s \in there : \E i \in 1 .. n : ids[i] = s
  <2> HIDE DEF ids
  <2>1. \A i, j \in 1 .. n : i < j => p[ids[i]] < p[ids[j]]
    BY <1>5
  <2> HIDE DEF p
  <2> QED
    BY <1>1, <1>2, <1>5, <2>1, AscentNamesAll
<1> HIDE DEF ids, n
<1>7. ids \in Seq(SlideNumber) /\ Len(ids) = n /\ DOMAIN ids = 1 .. n
  <2>1. ids \in [1 .. n -> SlideNumber]
    BY <1>5
  <2> QED
    BY <1>1, <2>1
<1>8. ToSet(ids) = there
  BY <1>5, <1>6, <1>7 DEF ToSet
<1> QED
  BY <1>5, <1>7, <1>8 DEF ids, n

\* Every slide has one place in a sequence that names each once.
Once(ids) == \A i, j \in 1 .. Len(ids) : ids[i] = ids[j] => i = j

\* A move puts the slide behind the one it was asked to, and leaves the others alone.
LEMMA MoveSlideIs ==
  ASSUME NEW ids \in Seq(SlideNumber), Once(ids), NEW s \in ToSet(ids),
         NEW after \in ToSet(ids) \cup {Top}, s # after, NEW move,
         move.slide = s, move.after = after, move.seen = ids,
         move.order = MoveSlide(ids, s, after)
  PROVE  MoveSlide(ids, s, after) \in Seq(SlideNumber) /\ AsAsked(move)
<1> DEFINE at == FirstOf(ids, s)
           rest == RemoveAt(ids, at)
           place == IF after = Top THEN 1 ELSE FirstOf(rest, after) + 1
           order == InsertAt(rest, place, s)
<1>1. at \in 1 .. Len(ids) /\ ids[at] = s /\ Len(ids) \in Nat
  BY FirstOfIs
<1>2. s \in SlideNumber /\ \A r \in ToSet(ids) : r \in SlideNumber /\ r # Top
  BY SlideNumbers DEF ToSet
<1>3. /\ rest \in Seq(SlideNumber) /\ Len(rest) = Len(ids) - 1
      /\ \A k \in 1 .. Len(rest) : rest[k] = IF k < at THEN ids[k] ELSE ids[k + 1]
  <2> HIDE DEF at
  <2> QED
    BY <1>1, RemoveAtIs
<1>4. \A k \in 1 .. Len(rest) : rest[k] # s
  <2> HIDE DEF at, rest
  <2> SUFFICES ASSUME NEW k \in 1 .. Len(rest), rest[k] = s PROVE FALSE
    OBVIOUS
  <2>1. CASE k < at
    BY <1>1, <1>3, <2>1 DEF Once
  <2>2. CASE k >= at
    <3>1. k + 1 \in 1 .. Len(ids) /\ ids[k + 1] = s /\ k + 1 # at
      BY <1>1, <1>3, <2>2
    <3> QED
      BY <1>1, <3>1 DEF Once
  <2>3. k < at \/ k >= at
    BY <1>1, <1>3
  <2> QED
    BY <2>1, <2>2, <2>3, Zenon
<1>5. after # Top => after \in ToSet(rest)
  <2> SUFFICES ASSUME after # Top PROVE after \in ToSet(rest)
    OBVIOUS
  <2> HIDE DEF at, rest
  <2>1. PICK i \in 1 .. Len(ids) : ids[i] = after
    BY DEF ToSet
  <2>2. i # at
    BY <1>1, <2>1
  <2>3. \E k \in 1 .. Len(rest) : rest[k] = after
    <3>1. CASE i < at
      <4>1. i \in 1 .. Len(rest) /\ rest[i] = ids[i]
        BY <1>1, <1>3, <3>1
      <4> QED
        BY <2>1, <4>1
    <3>2. CASE i > at
      <4>1. i - 1 \in 1 .. Len(rest) /\ ~(i - 1 < at) /\ (i - 1) + 1 = i
        BY <1>1, <1>3, <3>2
      <4>2. rest[i - 1] = ids[i]
        BY <1>3, <4>1
      <4> QED
        BY <2>1, <4>1, <4>2
    <3> QED
      BY <1>1, <2>2, <3>1, <3>2
  <2>4. DOMAIN rest = 1 .. Len(rest)
    BY <1>3
  <2> QED
    BY <2>3, <2>4 DEF ToSet
<1> HIDE DEF at, rest
<1>6. /\ place \in 1 .. Len(rest) + 1
      /\ after = Top => place = 1
      /\ after # Top => place > 1 /\ rest[place - 1] = after
  <2>1. CASE after = Top
    BY <1>1, <1>3, <2>1
  <2>2. CASE after # Top
    <3>1. FirstOf(rest, after) \in 1 .. Len(rest) /\ rest[FirstOf(rest, after)] = after
      BY <1>3, <1>5, <2>2, FirstOfIs
    <3>2. place = FirstOf(rest, after) + 1 /\ place - 1 = FirstOf(rest, after)
      BY <1>3, <2>2, <3>1
    <3> QED
      BY <1>3, <2>2, <3>1, <3>2
  <2> QED
    BY <2>1, <2>2
<1> HIDE DEF place
<1>7. /\ order \in Seq(SlideNumber) /\ Len(order) = Len(rest) + 1
      /\ \A k \in 1 .. Len(rest) + 1 :
           order[k] = IF k < place THEN rest[k] ELSE IF k = place THEN s ELSE rest[k - 1]
  BY <1>2, <1>3, <1>6, InsertAtIs
<1> HIDE DEF order
<1>8. order[place] = s /\ place \in DOMAIN order
  BY <1>3, <1>6, <1>7
<1>9. FirstOf(order, s) = place
  <2>1. s \in ToSet(order)
    BY <1>8 DEF ToSet
  <2>2. FirstOf(order, s) \in 1 .. Len(order) /\ order[FirstOf(order, s)] = s
    BY <1>7, <2>1, FirstOfIs
  <2> DEFINE f == FirstOf(order, s)
  <2> HIDE DEF f
  <2>3. f \in 1 .. Len(rest) + 1 /\ order[f] = s
    BY <1>7, <2>2 DEF f
  <2>4. CASE f < place
    <3>1. f \in 1 .. Len(rest) /\ rest[f] = s
      BY <1>3, <1>6, <1>7, <2>3, <2>4
    <3> QED
      BY <1>4, <3>1
  <2>5. CASE f > place
    <3>1. f - 1 \in 1 .. Len(rest) /\ rest[f - 1] = s
      BY <1>3, <1>6, <1>7, <2>3, <2>5
    <3> QED
      BY <1>4, <3>1
  <2>6. f < place \/ f = place \/ f > place
    BY <1>3, <1>6, <2>3
  <2> QED
    BY <2>4, <2>5, <2>6 DEF f
<1>10. RemoveAt(order, place) = rest
  <2>1. /\ RemoveAt(order, place) \in Seq(SlideNumber)
        /\ Len(RemoveAt(order, place)) = Len(rest)
        /\ \A k \in 1 .. Len(rest) :
             RemoveAt(order, place)[k] = IF k < place THEN order[k] ELSE order[k + 1]
    <3>1. place \in 1 .. Len(order) /\ Len(order) - 1 = Len(rest)
      BY <1>3, <1>6, <1>7
    <3> QED
      BY <1>7, <3>1, RemoveAtIs
  <2>2. ASSUME NEW k \in 1 .. Len(rest) PROVE RemoveAt(order, place)[k] = rest[k]
    <3>1. CASE k < place
      <4>1. order[k] = rest[k]
        BY <1>3, <1>7, <3>1
      <4> QED
        BY <2>1, <3>1, <4>1
    <3>2. CASE k >= place
      <4>1. k + 1 \in 1 .. Len(rest) + 1 /\ ~(k + 1 < place) /\ k + 1 # place /\ (k + 1) - 1 = k
        BY <1>3, <1>6, <3>2
      <4>2. order[k + 1] = rest[k]
        BY <1>7, <4>1
      <4>3. ~(k < place)
        BY <1>3, <1>6, <3>2
      <4> QED
        BY <2>1, <4>2, <4>3
    <3>3. k < place \/ k >= place
      BY <1>3, <1>6
    <3> QED
      BY <3>1, <3>2, <3>3, Zenon
  <2> QED
    BY <1>3, <2>1, <2>2, SeqEqual
<1>11. /\ order[place] = s
       /\ after = IF place = 1 THEN Top ELSE order[place - 1]
  <2>1. after # Top => order[place - 1] = after /\ place # 1
    <3> SUFFICES ASSUME after # Top PROVE order[place - 1] = after /\ place # 1
      OBVIOUS
    <3>1. place - 1 \in 1 .. Len(rest) + 1 /\ place - 1 < place
      BY <1>3, <1>6
    <3> QED
      BY <1>6, <1>7, <3>1
  <2> QED
    BY <1>6, <1>8, <2>1
<1>12. order = MoveSlide(ids, s, after) /\ rest = RemoveAt(ids, FirstOf(ids, s))
  BY DEF MoveSlide, order, place, rest, at
<1> QED
  BY <1>7, <1>8, <1>9, <1>10, <1>11, <1>12 DEF AsAsked

DeckMeta == [order : Seq(SlideNumber), visibility : {"private", "workspace"}]

OrderEdit ==
  {NoEdit}
    \cup [step : {"ordered"}, slide : SlideNumber, after : SlideNumber \cup {Top},
          seen : Seq(SlideNumber), order : Seq(SlideNumber)]
    \cup [step : {"loaded", "truncated"}, meta : DeckMeta]

OrderTyped ==
  /\ deckYaml \in DeckMeta /\ htmls \subseteq SlideNumber
  /\ agreed \in Seq(SlideNumber) /\ chosen \in {"private", "workspace"}
  /\ edit \in OrderEdit
  /\ showing \in {NoEdit} \cup [step : {"loaded", "truncated"}, meta : DeckMeta]
  /\ clashed \in BOOLEAN

\* Two orders that name the same slides, first in the same places.
SameOrder(a, b) ==
  /\ ToSet(a) = ToSet(b)
  /\ \A s, r \in ToSet(b) : FirstOf(b, s) < FirstOf(b, r) => FirstOf(a, s) < FirstOf(a, r)

(***************************************************************************)
(* As long as nothing clashed: a move that loaded the rest of deck.yaml is *)
(* alone and writes the visibility that was chosen; a change of the        *)
(* visibility writes the order that was agreed on; and while neither       *)
(* writes, the file says both.                                             *)
(***************************************************************************)
Unclashed ==
  /\ edit.step \in {"loaded", "truncated"} =>
       showing = NoEdit /\ edit.meta.visibility = chosen
  /\ showing # NoEdit =>
       showing.meta.visibility = chosen /\ SameOrder(agreed, showing.meta.order)
  /\ ~InWrite => SameOrder(agreed, deckYaml.order)
  /\ ~InWrite /\ showing = NoEdit => deckYaml.visibility = chosen

OrderInv == /\ OrderTyped
            /\ edit.step = "ordered" => AsAsked(edit)
            /\ ~clashed => Unclashed

\* What the file says now is what its slides are shown by.
LEMMA ShownIs ==
  ASSUME OrderTyped
  PROVE  /\ Shown \in Seq(SlideNumber) /\ Len(Shown) = Cardinality(htmls) /\ ToSet(Shown) = htmls
         /\ Once(Shown)
         /\ SameOrder(agreed, deckYaml.order) => AgreedFirst
<1>1. deckYaml.order \in Seq(SlideNumber) /\ htmls \in SUBSET SlideNumber
  BY DEF OrderTyped, DeckMeta
<1>2. /\ Shown \in Seq(SlideNumber) /\ Len(Shown) = Cardinality(htmls) /\ ToSet(Shown) = htmls
      /\ \A i, j \in 1 .. Len(Shown) :
           i < j => Place(deckYaml.order, Shown[i]) < Place(deckYaml.order, Shown[j])
  BY <1>1, SlideIDsAre DEF Shown
<1>3. DOMAIN Shown = 1 .. Len(Shown) /\ Len(Shown) \in Nat
      /\ \A i \in 1 .. Len(Shown) : Shown[i] \in SlideNumber
  BY <1>2
<1>4. Once(Shown)
  <2> SUFFICES ASSUME NEW i \in 1 .. Len(Shown), NEW j \in 1 .. Len(Shown),
                      Shown[i] = Shown[j], i < j
               PROVE  FALSE
    BY <1>3 DEF Once
  <2>1. Place(deckYaml.order, Shown[i]) < Place(deckYaml.order, Shown[j])
    BY <1>2
  <2>2. Place(deckYaml.order, Shown[i]) \in Nat
    BY <1>1, <1>3, PlaceIs
  <2> QED
    BY <2>1, <2>2
<1>5. SameOrder(agreed, deckYaml.order) => AgreedFirst
  <2> SUFFICES ASSUME SameOrder(agreed, deckYaml.order),
                      NEW i \in 1 .. Len(Shown), NEW j \in 1 .. Len(Shown),
                      i < j, Shown[j] \in ToSet(agreed)
               PROVE  /\ Shown[i] \in ToSet(agreed)
                      /\ FirstOf(agreed, Shown[i]) < FirstOf(agreed, Shown[j])
    BY <1>3 DEF AgreedFirst
  <2> DEFINE order == deckYaml.order
  <2>1. /\ Place(order, Shown[i]) < Place(order, Shown[j])
        /\ Shown[i] \in SlideNumber /\ Shown[j] \in SlideNumber
    BY <1>2, <1>3
  <2>2. Shown[j] \in ToSet(order)
    BY DEF SameOrder
  <2>3. /\ Place(order, Shown[i]) \in Nat /\ Place(order, Shown[j]) \in Nat
        /\ Place(order, Shown[j]) = FirstOf(order, Shown[j]) /\ Place(order, Shown[j]) <= Len(order)
        /\ Shown[i] \in ToSet(order) => Place(order, Shown[i]) = FirstOf(order, Shown[i])
        /\ Shown[i] \notin ToSet(order) => Place(order, Shown[i]) > Len(order)
    BY <1>1, <2>1, <2>2, PlaceIs
  <2>4. Len(order) \in Nat
    BY <1>1
  <2> HIDE DEF order
  <2>5. Shown[i] \in ToSet(order)
    BY <2>1, <2>3, <2>4
  <2>6. FirstOf(order, Shown[i]) < FirstOf(order, Shown[j])
    BY <2>1, <2>3, <2>5
  <2> QED
    BY <2>2, <2>5, <2>6 DEF SameOrder, order
<1> QED
  BY <1>2, <1>4, <1>5

\* An order and what it comes to when it names a slide twice.
LEMMA OrderStart == SlideOrderInit => OrderInv
<1> SUFFICES ASSUME SlideOrderInit PROVE OrderInv
  OBVIOUS
<1>1. /\ htmls \subseteq SlideNumber /\ edit = NoEdit /\ showing = NoEdit /\ clashed = FALSE
      /\ chosen = deckYaml.visibility /\ deckYaml.visibility = "private"
      /\ agreed = SlideIDs(deckYaml.order, ToSet(deckYaml.order))
  BY DEF SlideOrderInit, Emptied
<1>2. /\ deckYaml.order \in Seq(SlideNumber) /\ deckYaml \in DeckMeta
      /\ deckYaml.order = <<>> \/ \E s \in SlideNumber : deckYaml.order = <<s, s>>
  <2>1. PICK s \in SlideNumber :
          deckYaml \in {Emptied, [order |-> <<s, s>>, visibility |-> "private"]}
    BY DEF SlideOrderInit, Emptied
  <2>2. <<>> \in Seq(SlideNumber) /\ <<s, s>> \in Seq(SlideNumber)
    OBVIOUS
  <2>3. deckYaml = Emptied => deckYaml.order = <<>> /\ deckYaml \in DeckMeta
    BY <2>2 DEF DeckMeta, Emptied
  <2>4. deckYaml = [order |-> <<s, s>>, visibility |-> "private"]
          => deckYaml.order = <<s, s>> /\ deckYaml \in DeckMeta
    BY <2>2 DEF DeckMeta
  <2>5. deckYaml.order = <<>> \/ deckYaml.order = <<s, s>>
    BY <2>1, <2>3, <2>4
  <2> QED
    BY <2>1, <2>2, <2>3, <2>4, <2>5
<1> DEFINE order == deckYaml.order
           named == ToSet(order)
<1>3. named \in SUBSET SlideNumber
  BY <1>2 DEF ToSet
<1>4. agreed \in Seq(SlideNumber) /\ ToSet(agreed) = named
  <2> HIDE DEF named
  <2> QED
    BY <1>1, <1>2, <1>3, SlideIDsAre DEF named
<1>5. \A s, r \in named : s = r
  BY <1>2 DEF ToSet
<1>6. SameOrder(agreed, deckYaml.order)
  <2>1. \A s \in named : FirstOf(order, s) \in Int
    BY <1>2, FirstOfIs
  <2>2. \A s, r \in named : ~(FirstOf(order, s) < FirstOf(order, r))
    <3> HIDE DEF order, named
    <3> QED
      BY <1>5, <2>1
  <2> QED
    BY <1>4, <2>2 DEF SameOrder
<1> QED
  BY <1>1, <1>2, <1>4, <1>6
  DEF OrderInv, OrderTyped, DeckMeta, OrderEdit, Unclashed, NoEdit, InWrite

\* What an editor or a change of the visibility is about to write.
LEMMA WritersMeta ==
  ASSUME OrderTyped, NEW writer \in {edit, showing}, writer.step \in {"loaded", "truncated"}
  PROVE  /\ writer \in [step : {"loaded", "truncated"}, meta : DeckMeta]
         /\ writer.meta \in DeckMeta
         /\ [writer EXCEPT !.step = "truncated"] = [step |-> "truncated", meta |-> writer.meta]
<1>1. writer \in [step : {"loaded", "truncated"}, meta : DeckMeta]
  BY DEF OrderTyped, OrderEdit, NoEdit
<1> QED
  BY <1>1

\* The order of a move is computed of what is shown.
LEMMA BeginMoveKeeps ==
  ASSUME OrderInv, NEW s \in SlideNumber, NEW after \in SlideNumber \cup {Top},
         BeginMove(s, after)
  PROVE  OrderInv'
<1>1. /\ s # after /\ s \in htmls /\ after \in htmls \cup {Top} /\ edit = NoEdit
      /\ edit' = [step |-> "ordered", slide |-> s, after |-> after, seen |-> Shown,
                  order |-> MoveSlide(Shown, s, after)]
      /\ clashed' = (clashed \/ InWrite)
      /\ UNCHANGED <<deckYaml, htmls, showing, agreed, chosen>>
  BY DEF BeginMove
<1>2. Shown \in Seq(SlideNumber) /\ Once(Shown) /\ ToSet(Shown) = htmls
  BY ShownIs DEF OrderInv
<1> DEFINE ids == Shown
<1> HIDE DEF ids
<1>3. /\ ids \in Seq(SlideNumber) /\ Once(ids) /\ ToSet(ids) = htmls
      /\ edit' = [step |-> "ordered", slide |-> s, after |-> after, seen |-> ids,
                  order |-> MoveSlide(ids, s, after)]
  BY <1>1, <1>2 DEF ids
<1>4. MoveSlide(ids, s, after) \in Seq(SlideNumber) /\ AsAsked(edit')
  BY <1>1, <1>3, MoveSlideIs
<1>5. OrderTyped'
  BY <1>1, <1>3, <1>4 DEF OrderInv, OrderTyped, OrderEdit
<1>6. (edit.step = "ordered" => AsAsked(edit))'
  BY <1>4 DEF AsAsked
<1>7. ~clashed' => Unclashed'
  BY <1>1 DEF OrderInv, OrderTyped, Unclashed, InWrite, NoEdit
<1> QED
  BY <1>5, <1>6, <1>7 DEF OrderInv

\* A move loads the file it is to write back, which nobody else may be about to write.
LEMMA LoadMetaKeeps ==
  ASSUME OrderInv, LoadMeta
  PROVE  OrderInv'
<1> DEFINE meta == [deckYaml EXCEPT !.order = edit.order]
<1>1. /\ edit.step = "ordered" /\ edit' = [step |-> "loaded", meta |-> meta]
      /\ clashed' = (clashed \/ showing # NoEdit)
      /\ UNCHANGED <<deckYaml, htmls, showing, agreed, chosen>>
  BY DEF LoadMeta
<1>2. meta \in DeckMeta /\ meta.visibility = deckYaml.visibility
  <2>1. deckYaml \in DeckMeta /\ edit \in OrderEdit
    BY DEF OrderInv, OrderTyped
  <2>2. edit.order \in Seq(SlideNumber)
    BY <1>1, <2>1 DEF OrderEdit, NoEdit
  <2> QED
    BY <2>1, <2>2 DEF DeckMeta
<1> HIDE DEF meta
<1>3. OrderTyped'
  BY <1>1, <1>2 DEF OrderInv, OrderTyped, OrderEdit
<1>4. edit'.step = "loaded" /\ edit'.meta = meta
  BY <1>1
<1>5. ~clashed' => Unclashed'
  <2> SUFFICES ASSUME ~clashed' PROVE Unclashed'
    OBVIOUS
  <2>1. ~clashed /\ showing = NoEdit /\ Unclashed
    BY <1>1 DEF OrderInv, OrderTyped
  <2>2. ~InWrite
    BY <1>1, <2>1 DEF InWrite, NoEdit
  <2>3. deckYaml.visibility = chosen /\ SameOrder(agreed, deckYaml.order)
    BY <2>1, <2>2 DEF Unclashed
  <2> QED
    BY <1>1, <1>2, <1>4, <2>1, <2>3 DEF Unclashed
<1> QED
  BY <1>1, <1>3, <1>4, <1>5 DEF OrderInv

\* The file is emptied, and says nothing until it is filled.
LEMMA TruncateKeeps ==
  ASSUME OrderInv, TruncateForMove \/ TruncateForShow
  PROVE  OrderInv'
<1>1. UNCHANGED <<htmls, agreed, chosen, clashed>> /\ deckYaml' = Emptied /\ Emptied \in DeckMeta
  BY DEF TruncateForMove, TruncateForShow, Truncate, Emptied, DeckMeta
<1>2. CASE TruncateForMove
  <2>1. /\ edit.step = "loaded" /\ showing' = showing
        /\ edit' = [step |-> "truncated", meta |-> edit.meta] /\ edit.meta \in DeckMeta
    BY <1>2, WritersMeta DEF TruncateForMove, Truncate, OrderInv
  <2>2. OrderTyped'
    BY <1>1, <2>1 DEF OrderInv, OrderTyped, OrderEdit
  <2>3. ~clashed' => Unclashed'
    BY <1>1, <2>1 DEF OrderInv, Unclashed, InWrite
  <2> QED
    BY <2>1, <2>2, <2>3 DEF OrderInv
<1>3. CASE TruncateForShow
  <2>1. /\ showing.step = "loaded" /\ edit' = edit /\ showing # NoEdit
        /\ showing' = [step |-> "truncated", meta |-> showing.meta] /\ showing.meta \in DeckMeta
    BY <1>3, WritersMeta DEF TruncateForShow, Truncate, OrderInv, NoEdit
  <2>2. OrderTyped'
    BY <1>1, <2>1 DEF OrderInv, OrderTyped
  <2>3. ~clashed' => Unclashed'
    <3>1. showing'.step = "truncated" /\ showing'.meta = showing.meta
      BY <2>1
    <3> QED
      BY <1>1, <2>1, <3>1 DEF OrderInv, Unclashed, InWrite
  <2>4. (edit.step = "ordered" => AsAsked(edit))'
    BY <2>1 DEF OrderInv, AsAsked
  <2> QED
    BY <2>2, <2>3, <2>4 DEF OrderInv
<1> QED
  BY <1>2, <1>3

\* The file says what was written, which is what is agreed on.
LEMMA EndWriteKeeps ==
  ASSUME OrderInv, EndMove \/ EndShow
  PROVE  OrderInv'
<1>1. UNCHANGED <<htmls, chosen, clashed>>
  BY DEF EndMove, EndShow
<1>2. CASE EndMove
  <2>1. /\ edit.step = "truncated" /\ deckYaml' = edit.meta /\ agreed' = edit.meta.order
        /\ edit' = NoEdit /\ showing' = showing /\ edit.meta \in DeckMeta
    BY <1>2, WritersMeta DEF EndMove, OrderInv
  <2>2. OrderTyped'
    BY <1>1, <2>1 DEF OrderInv, OrderTyped, OrderEdit, DeckMeta
  <2>3. ~clashed' => Unclashed'
    BY <1>1, <2>1 DEF OrderInv, Unclashed, InWrite, NoEdit, SameOrder
  <2> QED
    BY <2>1, <2>2, <2>3 DEF OrderInv, NoEdit
<1>3. CASE EndShow
  <2>1. /\ showing.step = "truncated" /\ deckYaml' = showing.meta /\ showing' = NoEdit
        /\ UNCHANGED <<edit, agreed>> /\ showing.meta \in DeckMeta /\ showing # NoEdit
    BY <1>3, WritersMeta DEF EndShow, OrderInv, NoEdit
  <2>2. OrderTyped'
    BY <1>1, <2>1 DEF OrderInv, OrderTyped
  <2>3. ~clashed' => Unclashed'
    BY <1>1, <2>1 DEF OrderInv, Unclashed, InWrite, NoEdit
  <2>4. (edit.step = "ordered" => AsAsked(edit))'
    BY <2>1 DEF OrderInv, AsAsked
  <2> QED
    BY <2>2, <2>3, <2>4 DEF OrderInv
<1> QED
  BY <1>2, <1>3

\* The owner chooses; what is written besides is the order there is.
LEMMA BeginShowKeeps ==
  ASSUME OrderInv, NEW visibility \in {"private", "workspace"}, BeginShow(visibility)
  PROVE  OrderInv'
<1> DEFINE meta == [deckYaml EXCEPT !.visibility = visibility]
<1>1. /\ showing = NoEdit /\ chosen' = visibility
      /\ showing' = [step |-> "loaded", meta |-> meta]
      /\ clashed' = (clashed \/ edit.step \in {"loaded", "truncated"})
      /\ UNCHANGED <<deckYaml, htmls, edit, agreed>>
  BY DEF BeginShow
<1>2. meta \in DeckMeta /\ meta.visibility = visibility /\ meta.order = deckYaml.order
  BY DEF OrderInv, OrderTyped, DeckMeta
<1> HIDE DEF meta
<1>3. OrderTyped'
  BY <1>1, <1>2 DEF OrderInv, OrderTyped
<1>4. ~clashed' => Unclashed'
  BY <1>1, <1>2 DEF OrderInv, Unclashed, InWrite, NoEdit
<1>5. (edit.step = "ordered" => AsAsked(edit))'
  BY <1>1 DEF OrderInv, AsAsked
<1> QED
  BY <1>3, <1>4, <1>5 DEF OrderInv

LEMMA OrderStep == OrderInv /\ [SlideOrderNext]_orderVars => OrderInv'
<1> SUFFICES ASSUME OrderInv, [SlideOrderNext]_orderVars PROVE OrderInv'
  OBVIOUS
<1>1. ASSUME UNCHANGED <<deckYaml, edit, showing, agreed, chosen, clashed>>,
             htmls' \subseteq SlideNumber
      PROVE  OrderInv'
  BY <1>1 DEF OrderInv, OrderTyped, Unclashed, AsAsked, InWrite
<1>2. CASE UNCHANGED orderVars
  BY <1>1, <1>2 DEF orderVars, OrderInv, OrderTyped
<1>3. ASSUME NEW s \in SlideNumber, NewSlide(s) \/ AgentChanges(s) PROVE OrderInv'
  BY <1>1, <1>3 DEF NewSlide, AgentChanges, OrderInv, OrderTyped
<1>4. CASE OrderCrash
  <2>1. /\ clashed' = (clashed \/ InWrite \/ showing # NoEdit)
        /\ edit' = NoEdit /\ showing' = NoEdit /\ UNCHANGED <<deckYaml, htmls, agreed, chosen>>
    BY <1>4 DEF OrderCrash
  <2>2. OrderTyped'
    BY <2>1 DEF OrderInv, OrderTyped, OrderEdit
  <2>3. ~clashed' => Unclashed'
    BY <2>1 DEF OrderInv, Unclashed, InWrite, NoEdit
  <2> QED
    BY <2>1, <2>2, <2>3 DEF OrderInv, NoEdit
<1> QED
  BY <1>2, <1>3, <1>4, BeginMoveKeeps, LoadMetaKeeps, TruncateKeeps, EndWriteKeeps,
     BeginShowKeeps DEF SlideOrderNext

(***************************************************************************)
(* Every slide is shown once, moves do what was asked, the order agreed on *)
(* stays with new slides behind it, and the visibility is the one chosen,  *)
(* for every number of slides and whatever the agent adds and removes, up  *)
(* to the overlaps in deck.yaml and the crashes the model records.         *)
(***************************************************************************)
THEOREM OrderIsKept == SlideOrderSpec => []OrderKept
<1>1. OrderInv => OrderKept
  BY ShownIs DEF OrderInv, Unclashed, OrderKept
<1> QED
  BY <1>1, OrderStart, OrderStep, PTL DEF SlideOrderSpec

--------------------------------------------------------------------------------
\* The studio: whatever part moves, each of these takes a step of its own or rests.
LEMMA WorkMoves ==
  [StudioNext]_studioVars =>
    /\ [AgentScopeNext]_scopeVars /\ [SandboxNext]_sandboxVars
    /\ [MediaNext]_mediaVars /\ [CatalogueNext]_catalogueVars
    /\ [TeamNext]_teamVars /\ [AccessNext]_accessVars /\ [DeckNext]_deckVars
    /\ [LiveEditNext]_liveVars /\ [FollowNext]_followVars
    /\ [SlideLinksNext]_linkVars /\ [ExportCacheNext]_exportVars
    /\ [SlideOrderNext]_orderVars /\ [SlideTransferNext]_transferVars
<1> SUFFICES ASSUME [StudioNext]_studioVars
             PROVE  /\ [AgentScopeNext]_scopeVars /\ [SandboxNext]_sandboxVars
                    /\ [MediaNext]_mediaVars /\ [CatalogueNext]_catalogueVars
                    /\ [TeamNext]_teamVars /\ [AccessNext]_accessVars /\ [DeckNext]_deckVars
                    /\ [LiveEditNext]_liveVars /\ [FollowNext]_followVars
                    /\ [SlideLinksNext]_linkVars /\ [ExportCacheNext]_exportVars
                    /\ [SlideOrderNext]_orderVars /\ [SlideTransferNext]_transferVars
  OBVIOUS
<1>1. CASE StudioNext
  BY <1>1, Zenon DEF StudioNext
<1>2. CASE UNCHANGED studioVars
  BY <1>2 DEF studioVars
<1> QED
  BY <1>1, <1>2

(***************************************************************************)
(* The passes of the studio's agent commit nothing outside their scope, go *)
(* on with nothing their agent did outside but what had been changed       *)
(* before or could not be reverted, and revert nothing a person had done   *)
(* before; its sandboxes end and give whole results that fit.              *)
(***************************************************************************)
THEOREM SandboxIsKept == StudioSpec => []SandboxKept
<1>1. StudioInit => AgentScopeInit /\ SandboxInit
  BY DEF StudioInit
<1>2. StudioSpec => AgentScopeSpec /\ SandboxSpec
  BY <1>1, WorkMoves, PTL DEF StudioSpec, AgentScopeSpec, SandboxSpec
<1> QED
  BY <1>2, ScopeKept, PassesKept, PTL DEF SandboxKept

(***************************************************************************)
(* The studio's library keeps what it announced, has the bytes of what it  *)
(* lists or is replacing them, and pays for a picture once, but for names  *)
(* that overlapping work, an unreadable manifest, or an operation that     *)
(* failed or died half-way has excused.                                    *)
(***************************************************************************)
THEOREM StudioLibraryIsKept == StudioSpec => []LibraryKept
<1>1. StudioInit => MediaInit
  BY DEF StudioInit
<1>2. StudioSpec => MediaSpec
  BY <1>1, WorkMoves, PTL DEF StudioSpec, MediaSpec
<1> QED
  BY <1>2, LibraryIsKept, PTL DEF LibraryKept

\* The studio's catalogue loses no deck and no folder, and is saved.
THEOREM CatalogueIsKept == StudioSpec => []CatalogueKept
<1>1. StudioInit => CatalogueInit
  BY DEF StudioInit
<1>2. StudioSpec => CatalogueSpec
  BY <1>1, WorkMoves, PTL DEF StudioSpec, CatalogueSpec
<1> QED
  BY <1>2, CataloguePartKept, PTL DEF CatalogueKept

(***************************************************************************)
(* The studio's sessions end with what entitles to them, and its decks     *)
(* have an owner, and are seen and edited by those they are for.           *)
(***************************************************************************)
THEOREM TeamIsKept == StudioSpec => []TeamKept
<1>1. StudioInit => TeamInit /\ AccessInit
  BY DEF StudioInit
<1>2. StudioSpec => TeamSpec /\ AccessSpec
  BY <1>1, WorkMoves, PTL DEF StudioSpec, TeamSpec, AccessSpec
<1> QED
  BY <1>2, MembersKept, AccessIsKept, PTL DEF TeamKept

(***************************************************************************)
(* The studio's decks: one that was created is there and listed, whole but *)
(* for files whose failing write the program did not look at, and its      *)
(* deck.yaml says to whom its owner shows it unless that could not be      *)
(* written.                                                                *)
(***************************************************************************)
THEOREM DeckFilesAreKept == StudioSpec => []DeckFilesKept
<1>1. StudioInit => DeckInit
  BY DEF StudioInit
<1>2. StudioSpec => DeckSpec
  BY <1>1, WorkMoves, PTL DEF StudioSpec, DeckSpec
<1> QED
  BY <1>2, DecksAreKept, PTL DEF DeckFilesKept

(***************************************************************************)
(* The studio's pages lose no edit that was answered, and are told what    *)
(* they no longer show; the audience sees the presenter's position.        *)
(***************************************************************************)
THEOREM PagesAreKept == StudioSpec => []PagesKept
<1>1. StudioInit => LiveEditInit /\ FollowInit
  BY DEF StudioInit
<1>2. StudioSpec => LiveEditSpec /\ FollowSpec
  BY <1>1, WorkMoves, PTL DEF StudioSpec, LiveEditSpec, FollowSpec
<1> QED
  BY <1>2, EditsAreKept, PositionIsSeen, PTL DEF PagesKept

(***************************************************************************)
(* The studio's slides are shown once, in the order agreed on, come whole  *)
(* or not at all from another deck (but for an attachment that a failing   *)
(* write cut off, which stays), and are what their links say; its exports  *)
(* show the slides there are.                                              *)
(***************************************************************************)
THEOREM SlidesAreKept == StudioSpec => []SlidesKept
<1>1. StudioInit => /\ SlideOrderInit /\ SlideTransferInit
                    /\ SlideLinksInit /\ ExportCacheInit
  BY DEF StudioInit
<1>2. StudioSpec => /\ SlideOrderSpec /\ SlideTransferSpec
                    /\ SlideLinksSpec /\ ExportCacheSpec
  BY <1>1, WorkMoves, PTL
  DEF StudioSpec, SlideOrderSpec, SlideTransferSpec, SlideLinksSpec, ExportCacheSpec
<1> QED
  BY <1>2, OrderIsKept, SlidesArriveWhole, LinksAreTrue, ExportsAreTrue, PTL DEF SlidesKept

\* Likewise the parts of the stage.
LEMMA StageMoves ==
  [StudioNext]_studioVars =>
    /\ [CallsNext]_callVars /\ [BriefNext]_briefVars /\ [AudienceNext]_audienceVars
    /\ [ObservabilityNext]_obsVars
<1> SUFFICES ASSUME [StudioNext]_studioVars
             PROVE  /\ [CallsNext]_callVars /\ [BriefNext]_briefVars
                    /\ [AudienceNext]_audienceVars /\ [ObservabilityNext]_obsVars
  OBVIOUS
<1>1. CASE StudioNext
  BY <1>1, Zenon DEF StudioNext
<1>2. CASE UNCHANGED studioVars
  BY <1>2 DEF studioVars
<1> QED
  BY <1>1, <1>2

(***************************************************************************)
(* The studio's calls are reported once when they end and leave no         *)
(* connection but one that was being set up; the file has what its         *)
(* audience said since the last write that failed or died, the stage is    *)
(* told of each word once or missed it with a full channel; and its brief  *)
(* is what it was told.                                                    *)
(***************************************************************************)
THEOREM StageIsKept == StudioSpec => [](StageKept /\ BriefKept)
<1>1. StudioInit => CallsInit /\ BriefInit /\ AudienceInit
  BY DEF StudioInit
<1>2. StudioSpec => CallsSpec /\ BriefSpec /\ AudienceSpec
  BY <1>1, StageMoves, PTL DEF StudioSpec, CallsSpec, BriefSpec, AudienceSpec
<1> QED
  BY <1>2, CallsKept, BriefIsKept, AudienceKept, PTL DEF StageKept

\* The studio's dashboard counts every event, once, and agrees with itself.
THEOREM EventsAreKept == StudioSpec => []EventsKept
<1>1. StudioInit => ObservabilityInit
  BY DEF StudioInit
<1>2. StudioSpec => ObservabilitySpec
  BY <1>1, StageMoves, PTL DEF StudioSpec, ObservabilitySpec
<1> QED
  BY <1>2, EventsAreCounted, PTL DEF EventsKept

--------------------------------------------------------------------------------
\* The types of the parts (the invariants above say most of them).

\* The invariants of decks, orders, transfers, calls, briefs and events say the types.
LEMMA DeckTypes == DeckInv => DeckTypeOK
BY DEF DeckInv, DeckTyped, DeckTypeOK, Directory, Visibility, DeckListing, NoRow, Making, NoRequest,
       Recorded, Says

LEMMA OrderTypes == OrderInv => SlideOrderTypeOK
BY DEF OrderInv, SlideOrderTypeOK, OrderTyped, DeckMeta, OrderEdit, NoEdit

LEMMA TransferTypes == TransferInv => SlideTransferTypeOK
BY DEF TransferInv, SlideTransferTypeOK, TransferTyped, DeckPath, TransferProgress, Waiting

LEMMA CallTypes == CallsInv => CallsTypeOK
BY DEF CallsInv, CallsTyped

LEMMA BriefTypes == BriefInv => BriefTypeOK
BY DEF BriefInv

LEMMA EventTypes == ObsInv => ObservabilityTypeOK
BY DEF ObsInv, ObservabilityTypeOK, UnderWay, RowsKept

\* The passes change paths inside or outside their scope, and no others.
LEMMA ScopeTypes ==
  AgentScopeTypeOK /\ ScopeInv /\ [AgentScopeNext]_scopeVars => AgentScopeTypeOK'
<1> DEFINE Within(S) == S \subseteq Inside \cup Outside
           AllPaths == /\ Within(commits) /\ Within(upstream) /\ Within(raced)
                       /\ Within(reverted) /\ Within(unreverted)
<1> SUFFICES ASSUME AgentScopeTypeOK, ScopeInv, ScopeInv', [AgentScopeNext]_scopeVars
             PROVE  AllPaths'
  BY ScopeStep DEF AgentScopeTypeOK, ScopeInv, ScopeTyped, SweepType, PathState
<1>1. AllPaths /\ DOMAIN tree = Inside \cup Outside
  BY DEF AgentScopeTypeOK, ScopeInv, ScopeTyped
<1>2. CASE UNCHANGED scopeVars
  BY <1>1, <1>2 DEF scopeVars
<1>3. ASSUME NEW p \in Inside \cup Outside, EditByHand(p) PROVE AllPaths'
  BY <1>1, <1>3 DEF EditByHand
<1>4. ASSUME NEW w \in Sweeper,
             DirtyPaths(w) \/ RunPass(w) \/ RunSourceCritic(w)
      PROVE AllPaths'
  BY <1>1, <1>4 DEF DirtyPaths, ExecuteAgent, RunPass, RunSourceCritic, Modified
<1>5. ASSUME NEW w \in Sweeper, EnforceScope(w) PROVE AllPaths'
  BY <1>1, <1>5 DEF EnforceScope, OutOfScope, Modified
<1>6. ASSUME NEW w \in Sweeper, GitPush(w) \/ EndPush(w) PROVE AllPaths'
  BY <1>1, <1>6 DEF GitPush, EndPush, Modified
<1> HIDE DEF AllPaths
<1> QED
  BY <1>2, <1>3, <1>4, <1>5, <1>6 DEF AgentScopeNext

\* The library keeps wanted pictures, generated ones and clips.
LEMMA MediaTypes ==
  MediaTypeOK /\ LibraryInv /\ [MediaNext]_mediaVars => MediaTypeOK'
<1> DEFINE Goal == /\ media' \subseteq Wanted \cup Picture \cup Clip /\ whole' \in BOOLEAN
                   /\ ingests' \in 0..MaxIngests /\ interrupts' \in 0..MaxInterrupts
           Faults == interrupts' = interrupts \/ Fault
<1> SUFFICES ASSUME MediaTypeOK, LibraryInv, LibraryInv', [MediaNext]_mediaVars PROVE Goal
  BY LibraryStep DEF MediaTypeOK, LibraryInv, LibraryTyped, ManifestType
<1>1. /\ media \subseteq Wanted \cup Picture \cup Clip /\ whole \in BOOLEAN
      /\ ingests \in 0..MaxIngests /\ interrupts \in 0..MaxInterrupts
      /\ MaxIngests \in Nat /\ MaxInterrupts \in Nat
  BY MediaAssumption DEF MediaTypeOK
<1>2. Faults => interrupts' \in 0..MaxInterrupts
  BY <1>1 DEF Fault
<1>3. ASSUME NEW a \in Worker, KeepPicture(a) \/ CutManifest(a) PROVE Goal
  <2>1. job[a].at = "drawn" => job[a].item \in Wanted \cup Picture
    BY DEF LibraryInv, WorkFits, Filming
  <2> QED
    BY <1>1, <1>3, <2>1 DEF KeepPicture, CutManifest, At
<1>4. ASSUME NEW a \in Worker, NEW v \in VideoId, NEW c \in Clip, KeepClip(a, v, c) PROVE Goal
  <2>1. /\ ingests < MaxIngests /\ ingests' = ingests + 1 /\ Faults /\ whole' = whole
        /\ media' \subseteq media \cup {c}
    BY <1>4 DEF KeepClip
  <2> QED
    BY <1>1, <1>2, <2>1
<1>5. ASSUME NEW a \in Worker, DropClip(a) \/ Fail(a) \/ SaveManifest(a) \/ LoadManifest(a)
      PROVE  Goal
  <2>1. media' \subseteq media /\ whole' \in BOOLEAN /\ ingests' = ingests
    BY <1>1, <1>5 DEF DropClip, Fail, SaveManifest, LoadManifest
  <2>2. Faults
    BY <1>5 DEF DropClip, Fail, SaveManifest, LoadManifest, ReadManifest
  <2> QED
    BY <1>1, <1>2, <2>1, <2>2
<1>6. ASSUME NEW who, Interrupt(who) PROVE Goal
  BY <1>1, <1>2, <1>6 DEF Interrupt
<1>7. ASSUME NEW h \in Picture, ReceivePicture(h) PROVE Goal
  BY <1>1, <1>2, <1>7 DEF ReceivePicture, ReadManifest
<1>8. ASSUME NEW a \in Worker, NEW q \in Wanted, TakeRequest(a, q) PROVE Goal
  BY <1>1, <1>2, <1>8 DEF TakeRequest, ReadManifest
<1>9. ASSUME NEW a \in Worker, AskProvider(a) \/ ArchiveRequest(a) PROVE Goal
  BY <1>1, <1>2, <1>9 DEF AskProvider, ArchiveRequest
<1>10. CASE UNCHANGED mediaVars
  BY <1>1, <1>10 DEF mediaVars
<1> HIDE DEF Goal
<1> QED
  BY <1>3, <1>4, <1>5, <1>6, <1>7, <1>8, <1>9, <1>10 DEF MediaNext

\* A pass writes what it has checked, of what it has changed.
LEMMA SandTypes ==
  SandboxTypeOK /\ SandboxInv /\ [SandboxNext]_sandboxVars => SandboxTypeOK'
<1> SUFFICES ASSUME SandboxTypeOK, SandboxInv, SandboxInv', [SandboxNext]_sandboxVars
             PROVE  SandboxTypeOK'
  BY SandboxStep
<1>1. handEdits \in 0..MaxHandEdits /\ MaxHandEdits \in Nat
  BY SandboxAssumption DEF SandboxTypeOK
<1>a. handEdits' = handEdits \/ (handEdits < MaxHandEdits /\ handEdits' = handEdits + 1)
  <2> DEFINE Same == handEdits' = handEdits
  <2>1. ASSUME NEW p \in Tree, SaveByHand(p)
        PROVE  handEdits < MaxHandEdits /\ handEdits' = handEdits + 1
    BY <2>1 DEF SaveByHand
  <2>2. ASSUME NEW x \in Pass,
               \/ CollectInputs(x) \/ CreateSandbox(x) \/ RunAgent(x) \/ DestroySandbox(x)
               \/ Deadline(x)
        PROVE  Same
    BY <2>2 DEF CollectInputs, CreateSandbox, RunAgent, DestroySandbox, Deadline
  <2>3. ASSUME NEW x \in Pass,
               KillDispatcher(x) \/ Accept(x) \/ EndPass(x) \/ IdleTimeout(x)
        PROVE  Same
    BY <2>3 DEF KillDispatcher, Accept, EndPass, IdleTimeout
  <2>4. ASSUME NEW x \in Pass, NEW p \in Tree, CheckChange(x, p) \/ WriteChange(x, p)
        PROVE  Same
    BY <2>4 DEF CheckChange, WriteChange
  <2>5. ASSUME StopServer \/ UNCHANGED sandboxVars PROVE Same
    BY <2>5 DEF StopServer, sandboxVars
  <2> HIDE DEF Same
  <2>6. Same \/ (handEdits < MaxHandEdits /\ handEdits' = handEdits + 1)
    BY <2>1, <2>2, <2>3, <2>4, <2>5 DEF SandboxNext
  <2> QED
    BY <2>6 DEF Same
<1>2. handEdits' \in 0..MaxHandEdits
  BY <1>1, <1>a
<1>3. ASSUME NEW x \in Pass
      PROVE  /\ pass[x]'.verdict \in Verdict
             /\ pass[x]'.written \subseteq pass[x]'.checked
             /\ pass[x]'.checked \subseteq pass[x]'.changes
             /\ pass[x]'.raced \subseteq Tree
  BY DEF SandboxInv, PassFits, PassType, ChecksBeforeWrites
<1> QED
  BY <1>2, <1>3 DEF SandboxInv, SandboxTypeOK, AnyFile

\* The inbox is cut before it grows, and no more chats are seen than join.
LEMMA StageTypes ==
  AudienceTypeOK /\ AudienceInv /\ [AudienceNext]_audienceVars => AudienceTypeOK'
<1> SUFFICES ASSUME AudienceTypeOK, AudienceInv, AudienceInv', [AudienceNext]_audienceVars
             PROVE  chatSeen' \in 0..MaxChats /\ Len(inbox'.messages) <= InboxSize
  BY AudienceStep DEF AudienceTypeOK, AudienceInv, AudienceTyped, PulseType
<1>1. chatSeen \in 0..MaxChats /\ Len(inbox.messages) <= InboxSize /\ MaxChats \in Nat
      /\ InboxSize \in Nat \ {0}
  BY AudienceAssumption DEF AudienceTypeOK
<1>0. chatSeen' \in 0..MaxChats
  <2>1. ASSUME NEW s \in Speaker, JoinChat(s) PROVE chatSeen' \in 0..MaxChats
    BY <1>1, <2>1 DEF JoinChat
  <2>2. CASE StopStage
    BY <1>1, <2>2 DEF StopStage
  <2>3. ASSUME NEW s \in Speaker,
               \/ SayWords(s) \/ ReadInbox(s) \/ TruncateInbox(s) \/ WriteInbox(s)
               \/ LoseWords(s) \/ CountPulse(s)
        PROVE  chatSeen' = chatSeen
    BY <2>3 DEF SayWords, ReadInbox, TruncateInbox, WriteInbox, LoseWords, CountPulse
  <2>4. CASE UNCHANGED audienceVars \/ FirePulse \/ \E n \in 1..pulse.flying : BroadcastPulse(n)
    BY <1>1, <2>4 DEF audienceVars, FirePulse, BroadcastPulse
  <2> QED
    BY <1>1, <2>1, <2>2, <2>3, <2>4 DEF AudienceNext
<1>2. CASE inbox' = inbox
  BY <1>0, <1>1, <1>2
<1>3. ASSUME NEW s \in Speaker, TruncateInbox(s)
      PROVE chatSeen' \in 0..MaxChats /\ Len(inbox'.messages) <= InboxSize
  BY <1>1, <1>3 DEF TruncateInbox
<1>4. ASSUME NEW s \in Speaker, WriteInbox(s)
      PROVE chatSeen' \in 0..MaxChats /\ Len(inbox'.messages) <= InboxSize
  <2>0. said \in Seq(Speaker) /\ held[s] = NewestOf(said)
    BY <1>4 DEF WriteInbox, AudienceInv, AudienceTyped, InboxHeld
  <2>1. held[s] \in Seq(Speaker)
    BY <2>0, NewestLength
  <2>2. Append(held[s], s) \in Seq(Speaker) /\ Len(Append(held[s], s)) \in Nat
    BY <2>1
  <2> QED
    <3> DEFINE m == Append(held[s], s)
    <3>0. m \in Seq(Speaker) /\ Len(m) \in Nat
      BY <2>2
    <3> HIDE DEF m
    <3>1. Len(NewestOf(m)) <= InboxSize
      BY <1>1, <3>0, NewestLength
    <3> USE DEF m
    <3> HIDE DEF NewestOf
    <3> QED
      BY <1>1, <1>4, <3>1 DEF WriteInbox
<1>5. ASSUME NEW s \in Speaker,
             \/ JoinChat(s) \/ SayWords(s) \/ ReadInbox(s) \/ LoseWords(s) \/ CountPulse(s)
      PROVE  inbox' = inbox
  BY <1>5 DEF JoinChat, SayWords, ReadInbox, LoseWords, CountPulse
<1>6. ASSUME UNCHANGED audienceVars \/ FirePulse \/ StopStage
             \/ \E n \in 1..pulse.flying : BroadcastPulse(n)
      PROVE  inbox' = inbox
  BY <1>6 DEF audienceVars, FirePulse, StopStage, BroadcastPulse
<1> QED
  BY <1>2, <1>3, <1>4, <1>5, <1>6 DEF AudienceNext

\* What TeamInv and MemberInv leave out of TeamTypeOK: nobody is removed more often
\* than MaxRemovals says.
RemovalsBounded ==
  /\ removals \in [Guest -> 0 .. MaxRemovals]
  /\ tx.kind = "remove" => removals[tx.user] < MaxRemovals
  /\ tx # NoTx => tx.kind \in {"remove", "reset"}

\* With it the invariants say the types of the team.
LEMMA TeamTypes == TeamInv /\ MemberInv /\ RemovalsBounded => TeamTypeOK
BY DEF TeamInv, PeopleTypeOK, Invitation, MemberInv, RowsFit, DecksFit, DeckRow,
       RemovalsBounded, TeamTypeOK

\* Nobody is removed at first.
LEMMA RemovalsStart == TeamInit => RemovalsBounded
BY TeamAssumption DEF TeamInit, RemovalsBounded, NoTx

\* A removal is begun within the bound, and the row goes with its commit.
LEMMA RemovalsStep ==
  TeamInv /\ MemberInv /\ RemovalsBounded /\ [TeamNext]_teamVars => RemovalsBounded'
<1> SUFFICES ASSUME TeamInv, MemberInv, RemovalsBounded, [TeamNext]_teamVars
             PROVE  RemovalsBounded'
  OBVIOUS
<1>1. MaxRemovals \in Nat /\ removals \in [Guest -> 0 .. MaxRemovals]
  BY TeamAssumption DEF RemovalsBounded
<1>2. CASE UNCHANGED <<removals, tx>>
  BY <1>2 DEF RemovalsBounded
<1>3. ASSUME NEW u \in Guest, BeginRemoveMember(u) PROVE RemovalsBounded'
  BY <1>1, <1>3 DEF BeginRemoveMember, RemovalsBounded, Found
<1>4. ASSUME NEW r \in DOMAIN resets, BeginResetPassword(r) PROVE RemovalsBounded'
  BY <1>1, <1>4 DEF BeginResetPassword, RemovalsBounded, Found
<1>5. CASE RemoveMember
  <2>1. tx.user \in Guest /\ removals[tx.user] < MaxRemovals
    BY <1>5 DEF RemoveMember, RemovalsBounded, MemberInv
  <2>2. removals' = [removals EXCEPT ![tx.user] = removals[tx.user] + 1] /\ tx' = NoTx
    BY <1>5 DEF RemoveMember
  <2>3. removals' \in [Guest -> 0 .. MaxRemovals]
    BY <1>1, <2>1, <2>2
  <2> QED
    BY <2>2, <2>3 DEF RemovalsBounded, NoTx
<1>6. CASE ResetPassword \/ TransactionFails
  BY <1>6 DEF ResetPassword, TransactionFails, RemovalsBounded, NoTx
<1>7. ASSUME NEW u \in Guest,
             \/ CheckInvitee(u) \/ InsertInvitation(u) \/ CheckPassword(u)
             \/ CreateSession(u) \/ ForgotPassword(u) \/ InsertDeck(u)
      PROVE  UNCHANGED <<removals, tx>>
  BY <1>7 DEF CheckInvitee, InsertInvitation, CheckPassword, CreateSession, ForgotPassword,
              InsertDeck
<1>8. ASSUME NEW i \in DOMAIN invites,
             \/ RevokeInvitation(i) \/ ResendInvitation(i)
             \/ InvitationExpires(i) \/ AcceptInvitation(i)
      PROVE  UNCHANGED <<removals, tx>>
  BY <1>8 DEF RevokeInvitation, ResendInvitation, InvitationExpires, AcceptInvitation
<1>9. ASSUME NEW s \in DOMAIN sessions, Logout(s) \/ LaunchDeck(s) \/ BeginCreateDeck(s)
      PROVE  UNCHANGED <<removals, tx>>
  BY <1>9 DEF Logout, LaunchDeck, BeginCreateDeck
<1>10. ASSUME NEW h \in DOMAIN handoffs, OpenPlayer(h) PROVE UNCHANGED <<removals, tx>>
  BY <1>10 DEF OpenPlayer
<1>11. CASE UNCHANGED teamVars
  BY <1>2, <1>11 DEF teamVars
<1> QED
  BY <1>2, <1>3, <1>4, <1>5, <1>6, <1>7, <1>8, <1>9, <1>10, <1>11 DEF TeamNext

\* What AccessInv leaves out of AccessTypeOK: the seats, and how many links there are.
SeatsTyped ==
  /\ seats \in [Person -> [talk : Talk \cup {0}, mode : {"none", "view", "present", "edit"}]]
  /\ Len(qrs) <= MaxShares

\* With it the invariant says the types of Access.
LEMMA AccessTypes == AccessInv /\ SeatsTyped => AccessTypeOK
<1> SUFFICES ASSUME AccessInv, SeatsTyped PROVE AccessTypeOK
  OBVIOUS
<1>1. qrs \in Seq(QrLink) /\ Len(qrs) \in Nat /\ MaxShares \in Nat
  BY AccessAssumption DEF AccessInv, AccessTyped
<1>2. 0 .. Len(qrs) \subseteq 0 .. MaxShares
  BY <1>1 DEF SeatsTyped
<1>3. cookies \in [Person -> [Talk -> 0 .. MaxShares]]
  BY <1>2 DEF AccessInv, AccessTyped
<1> QED
  BY <1>3 DEF AccessInv, AccessTyped, QrLink, WaitingEdit, SeatsTyped, AccessTypeOK

\* Nobody is seated at first, and there is no link.
LEMMA SeatsStart == AccessInit => SeatsTyped
BY AccessAssumption DEF AccessInit, SeatsTyped, NoSeat

\* People sit down where they may, and links are made within the bound.
LEMMA SeatsStep == AccessInv /\ SeatsTyped /\ [AccessNext]_accessVars => SeatsTyped'
<1> SUFFICES ASSUME AccessInv, SeatsTyped, [AccessNext]_accessVars PROVE SeatsTyped'
  OBVIOUS
<1>1. qrs \in Seq(QrLink) /\ Len(qrs) \in Nat /\ MaxShares \in Nat /\ Len(qrs) <= MaxShares
  BY AccessAssumption DEF AccessInv, AccessTyped, SeatsTyped
<1>2. CASE UNCHANGED <<seats, qrs>>
  BY <1>2 DEF SeatsTyped
<1>3. ASSUME NEW p \in Person, NEW t \in Talk, ShareDeck(p, t) \/ ShareQR(p, t)
      PROVE  SeatsTyped'
  BY <1>1, <1>3 DEF ShareDeck, ShareQR, MintShare, SeatsTyped
<1>4. ASSUME NEW p \in Person, FollowLanding(p) PROVE SeatsTyped'
  BY <1>1, <1>4 DEF FollowLanding, MintShare, SeatsTyped
<1>5. ASSUME NEW p \in Person, NEW t \in Talk, NEW mode \in {"view", "present", "edit"},
             Launch(p, t, mode)
      PROVE  SeatsTyped'
  BY <1>1, <1>5 DEF Launch, SeatsTyped
<1>6. ASSUME NEW i \in DOMAIN qrs, ShareExpires(i) PROVE SeatsTyped'
  BY <1>1, <1>6 DEF ShareExpires, SeatsTyped
<1>7. CASE Reboot
  BY <1>1, <1>7 DEF Reboot, SeatsTyped
<1>8. ASSUME NEW p \in Person, NEW t \in Talk, HandOver(t, p) \/ AskEdit(p, t)
      PROVE  UNCHANGED <<seats, qrs>>
  BY <1>8 DEF HandOver, AskEdit
<1>9. ASSUME NEW p \in Person, NEW t \in Talk, NEW i \in DOMAIN qrs, LandOnShare(p, t, i)
      PROVE  UNCHANGED <<seats, qrs>>
  BY <1>9 DEF LandOnShare
<1>10. ASSUME NEW t \in Talk, NEW whom \in {"private", "team"}, ShowTo(t, whom)
       PROVE  UNCHANGED <<seats, qrs>>
  BY <1>10 DEF ShowTo
<1>11. ASSUME NEW p \in Person, MakeEdit(p) PROVE UNCHANGED <<seats, qrs>>
  BY <1>11 DEF MakeEdit
<1>12. CASE UNCHANGED accessVars
  BY <1>2, <1>12 DEF accessVars
<1> QED
  BY <1>2, <1>3, <1>4, <1>5, <1>6, <1>7, <1>8, <1>9, <1>10, <1>11, <1>12 DEF AccessNext

\* Finitely many folders, with the names there are, in positions up to some number.
FoldersTyped(fs) ==
  /\ IsFiniteSet(DOMAIN fs)
  /\ \A f \in DOMAIN fs : fs[f].name \in AllNames /\ fs[f].position \in Nat
  /\ \E n \in Nat : \A f \in DOMAIN fs : fs[f].position <= n

\* What CatalogueInv leaves out of CatalogueTypeOK: where the catalogue is, how far the
\* memory is ahead, and what the folders are.
UnsavedBounded == stored \in {"file", "database"} /\ unsaved \in 0 .. MaxUnsaved
CatalogueBounded == FoldersTyped(folders) /\ FoldersTyped(file.folders)

\* With them the invariant says the types of the catalogue.
LEMMA CatalogueTypes == CatalogueInv /\ UnsavedBounded /\ CatalogueBounded => CatalogueTypeOK
<1> SUFFICES ASSUME CatalogueInv, UnsavedBounded, CatalogueBounded PROVE CatalogueTypeOK
  OBVIOUS
<1>1. Fits(folders, placement) /\ checked \subseteq Requests
  BY DEF CatalogueInv
<1>2. \A f \in DOMAIN folders : folders[f] \in [name : AllNames, position : Nat]
  <2>1. \A f \in DOMAIN folders : /\ folders[f] = [name |-> folders[f].name,
                                                   position |-> folders[f].position]
                                  /\ folders[f].name \in AllNames
                                  /\ folders[f].position \in Nat
    BY <1>1 DEF Fits, Folder, CatalogueBounded, FoldersTyped
  <2> QED
    BY <2>1
<1>3. DOMAIN folders \subseteq AllIds /\ placement \in [Placed -> AllIds \cup {NoFolder}]
  BY <1>1 DEF Fits
<1> QED
  BY <1>1, <1>2, <1>3 DEF UnsavedBounded, Exists, CatalogueTypeOK

\* Folders that are renamed, moved, added or dropped.
LEMMA FoldersStayTyped ==
  ASSUME NEW fs, FoldersTyped(fs), NEW new, NEW x, DOMAIN new \subseteq DOMAIN fs \cup {x},
         NEW k \in Nat,
         \A g \in DOMAIN new : /\ new[g].name \in AllNames /\ new[g].position \in Nat
                               /\ \/ new[g].position <= k
                                  \/ g \in DOMAIN fs /\ new[g].position = fs[g].position
  PROVE  FoldersTyped(new)
<1>1. PICK n \in Nat : \A f \in DOMAIN fs : fs[f].position <= n
  BY DEF FoldersTyped
<1>2. IsFiniteSet(DOMAIN new)
  BY FS_AddElement, FS_Subset DEF FoldersTyped
<1>3. \A g \in DOMAIN new : new[g].position <= n + k
  BY <1>1
<1> QED
  BY <1>2, <1>3 DEF FoldersTyped

\* There is a next position.
LEMMA PositionAfter ==
  ASSUME NEW fs, FoldersTyped(fs)
  PROVE  After(Positions(fs)) \in Nat
<1>1. PICK n \in Nat : \A f \in DOMAIN fs : fs[f].position <= n
  BY DEF FoldersTyped
<1>2. Positions(fs) \in SUBSET (0 .. n)
  BY <1>1 DEF Positions, FoldersTyped
<1>3. CASE Positions(fs) = {}
  BY <1>3 DEF After
<1>4. CASE Positions(fs) # {}
  <2>1. Max(Positions(fs)) \in 0 .. n
    BY <1>2, <1>4, GreatestNumber
  <2> QED
    BY <1>4, <2>1 DEF After
<1> QED
  BY <1>3, <1>4

\* The trash goes behind the other folders.
LEMMA TrashTyped ==
  ASSUME NEW fs, FoldersTyped(fs)
  PROVE  FoldersTyped(Trash(fs))
<1> DEFINE others == [f \in DOMAIN fs \ {"trash"} |-> fs[f]]
           k == After(Positions(others))
           new == Trash(fs)
<1>1. FoldersTyped(others)
  <2>1. DOMAIN others \subseteq DOMAIN fs /\ \A g \in DOMAIN others : others[g] = fs[g]
    OBVIOUS
  <2> HIDE DEF others
  <2>2. \A g \in DOMAIN others : /\ others[g].name \in AllNames /\ others[g].position \in Nat
                                 /\ g \in DOMAIN fs /\ others[g].position = fs[g].position
    BY <2>1 DEF FoldersTyped
  <2>3. 0 \in Nat
    OBVIOUS
  <2> QED
    BY <2>1, <2>2, <2>3, FoldersStayTyped
<1>2. k \in Nat
  BY <1>1, PositionAfter
<1>3. new = [f \in DOMAIN fs \cup {"trash"} |->
               IF f = "trash" THEN [name |-> "Trash", position |-> k] ELSE fs[f]]
  BY DEF Trash
<1> HIDE DEF k, new
<1>4. /\ DOMAIN new = DOMAIN fs \cup {"trash"}
      /\ new["trash"].name = "Trash" /\ new["trash"].position = k
      /\ \A f \in DOMAIN fs \ {"trash"} : new[f] = fs[f]
  BY <1>3
<1>5. \A g \in DOMAIN new : /\ new[g].name \in AllNames /\ new[g].position \in Nat
                            /\ \/ new[g].position <= k
                               \/ g \in DOMAIN fs /\ new[g].position = fs[g].position
  BY <1>2, <1>4 DEF FoldersTyped, AllNames
<1>6. FoldersTyped(new)
  BY <1>2, <1>4, <1>5, FoldersStayTyped
<1> QED
  BY <1>6 DEF new

\* At first there are no folders but the trash.
LEMMA FoldersStart == CatalogueInit => CatalogueBounded
<1> SUFFICES ASSUME CatalogueInit PROVE CatalogueBounded
  OBVIOUS
<1>1. FoldersTyped(<<>>)
  BY FS_EmptySet DEF FoldersTyped
<1>2. FoldersTyped(Trash(<<>>))
  BY <1>1, TrashTyped
<1>3. FoldersTyped(folders) /\ file.folders = folders
  BY <1>1, <1>2 DEF CatalogueInit
<1> QED
  BY <1>3 DEF CatalogueBounded

\* A save writes what is in memory, or nothing.
LEMMA SavedTyped ==
  ASSUME CatalogueBounded, FoldersTyped(folders'), Save \/ Ahead \/ file' = file
  PROVE  CatalogueBounded'
<1>1. file'.folders = folders' \/ file' = file
  BY DEF Save, Ahead
<1> QED
  BY <1>1 DEF CatalogueBounded

\* Every operation on folders leaves finitely many, each in a position.
LEMMA FoldersStep ==
  CatalogueInv /\ CatalogueBounded /\ [CatalogueNext]_catalogueVars => CatalogueBounded'
<1> SUFFICES ASSUME CatalogueInv, CatalogueBounded, [CatalogueNext]_catalogueVars
             PROVE  CatalogueBounded'
  OBVIOUS
<1>1. FoldersTyped(folders) /\ FoldersTyped(file.folders)
  BY DEF CatalogueBounded
<1>2. FoldersTyped(folders) =>
        /\ Cardinality(Exists) \in Nat /\ After(Positions(folders)) \in Nat
        /\ \A f \in Exists : folders[f].name \in AllNames /\ folders[f].position \in Nat
  BY FS_CardinalityType, PositionAfter DEF FoldersTyped, Exists
<1>3. ASSUME NEW f, NEW name \in AllNames, Renamed(f, name), f \in Exists
      PROVE  FoldersTyped(folders')
  <2>1. folders = [g \in DOMAIN folders |-> folders[g]] /\ Folder(folders[f])
    BY <1>3 DEF CatalogueInv, Fits, Exists
  <2>2. /\ DOMAIN folders' = DOMAIN folders
        /\ \A g \in DOMAIN folders : \/ folders'[g] = folders[g]
                                     \/ /\ folders'[g].name = name
                                        /\ folders'[g].position = folders[g].position
    BY <1>3, <2>1 DEF Renamed, Folder
  <2>3. \A g \in DOMAIN folders' : /\ folders'[g].name \in AllNames
                                   /\ folders'[g].position \in Nat
                                   /\ folders'[g].position = folders[g].position
    BY <1>1, <1>3, <2>2 DEF FoldersTyped
  <2> QED
    BY <1>1, <2>2, <2>3, FoldersStayTyped
<1>4. ASSUME NEW f, Deleted(f) PROVE FoldersTyped(folders')
  <2>1. /\ DOMAIN folders' \subseteq DOMAIN folders
        /\ \A g \in DOMAIN folders' : folders'[g] = folders[g]
    BY <1>4 DEF Deleted, Exists
  <2>2. \A g \in DOMAIN folders' : /\ folders'[g].name \in AllNames
                                   /\ folders'[g].position \in Nat
                                   /\ folders'[g].position = folders[g].position
    BY <1>1, <2>1 DEF FoldersTyped
  <2> QED
    BY <1>1, <2>1, <2>2, FoldersStayTyped
<1>5. ASSUME NEW f \in AllIds, NEW name \in AllNames, CreateFolder(f, name)
      PROVE  CatalogueBounded'
  <2>1. /\ name \in FolderName /\ Save
        /\ \E k \in Nat : folders' = [g \in Exists \cup {f} |->
             IF g # f THEN folders[g] ELSE [name |-> name, position |-> k]]
    BY <1>1, <1>2, <1>5 DEF CreateFolder
  <2>2. PICK k \in Nat : folders' = [g \in Exists \cup {f} |->
             IF g # f THEN folders[g] ELSE [name |-> name, position |-> k]]
    BY <2>1
  <2>3. /\ DOMAIN folders' = DOMAIN folders \cup {f}
        /\ \A g \in DOMAIN folders' :
             \/ g \in DOMAIN folders /\ folders'[g] = folders[g]
             \/ folders'[g].name = name /\ folders'[g].position = k
    BY <2>2 DEF Exists
  <2>4. \A g \in DOMAIN folders' :
             /\ folders'[g].name \in AllNames /\ folders'[g].position \in Nat
             /\ \/ folders'[g].position <= k
                \/ g \in DOMAIN folders /\ folders'[g].position = folders[g].position
    BY <1>1, <2>3 DEF FoldersTyped
  <2>5. FoldersTyped(folders')
    BY <1>1, <2>3, <2>4, FoldersStayTyped
  <2> QED
    BY <2>1, <2>5, SavedTyped
<1>6. ASSUME NEW f \in AllIds, NEW name \in AllNames, RenameFolder(f, name)
      PROVE  CatalogueBounded'
  BY <1>3, <1>6, SavedTyped DEF RenameFolder
<1>7. ASSUME NEW f \in AllIds, DeleteFolder(f) PROVE CatalogueBounded'
  BY <1>4, <1>7, SavedTyped DEF DeleteFolder
<1>8. ASSUME NEW ids \in Orders, ReorderFolders(ids) PROVE CatalogueBounded'
  <2> DEFINE good == {n \in 0 .. Cardinality(Exists) : \A i \in 1 .. n : Accepted(ids, i)}
             place(f) == CHOOSE i \in good \ {0} : ids[i] = f
             reordered == [f \in Exists |->
                         IF \E i \in good \ {0} : ids[i] = f
                           THEN [folders[f] EXCEPT !.position = place(f) - 1]
                           ELSE folders[f]]
  <2>1. folders' = reordered /\ (Save \/ Ahead)
    BY <1>8 DEF ReorderFolders
  <2>2. Cardinality(Exists) \in Nat /\ DOMAIN reordered = DOMAIN folders
    BY <1>1, <1>2 DEF Exists
  <2>3. ASSUME NEW f \in DOMAIN folders
        PROVE  /\ reordered[f].name \in AllNames /\ reordered[f].position \in Nat
               /\ reordered[f].position <= Cardinality(Exists)
                    \/ reordered[f].position = folders[f].position
    <3>1. folders[f].name \in AllNames /\ folders[f].position \in Nat
      BY <1>1 DEF FoldersTyped
    <3>2. CASE ~\E i \in good \ {0} : ids[i] = f
      <4>1. reordered[f] = folders[f]
        BY <3>2 DEF Exists
      <4> QED
        BY <3>1, <4>1
    <3>3. CASE \E i \in good \ {0} : ids[i] = f
      <4>1. place(f) \in good \ {0}
        BY <3>3
      <4>2. place(f) \in 1 .. Cardinality(Exists)
        BY <2>2, <4>1
      <4>3. reordered[f] = [folders[f] EXCEPT !.position = place(f) - 1]
        BY <3>3 DEF Exists
      <4> HIDE DEF place, reordered
      <4>4. reordered[f].position = place(f) - 1 /\ reordered[f].name = folders[f].name
        <5>1. folders[f] = [name |-> folders[f].name, position |-> folders[f].position]
          BY DEF CatalogueInv, Fits, Folder
        <5> QED
          BY <4>3, <5>1
      <4> QED
        BY <2>2, <3>1, <4>2, <4>4
    <3> QED
      BY <3>2, <3>3
  <2> HIDE DEF reordered
  <2>4. FoldersTyped(reordered)
    BY <1>1, <2>2, <2>3, FoldersStayTyped
  <2> QED
    BY <2>1, <2>4, SavedTyped
<1>9. ASSUME NEW d \in Placed, NEW f \in AllIds \cup {NoFolder}, MoveDecks(d, f)
      PROVE  CatalogueBounded'
  BY <1>1, <1>9, SavedTyped DEF MoveDecks
<1>10. CASE Reopen
  <2>1. FoldersTyped(folders') /\ file'.folders = folders'
    BY <1>1, <1>10, TrashTyped DEF Reopen
  <2> QED
    BY <2>1 DEF CatalogueBounded
<1>11. CASE View
  <2>1. FoldersTyped(folders') /\ (Ahead \/ file' = file)
    BY <1>1, <1>11, TrashTyped DEF View
  <2> QED
    BY <2>1, SavedTyped
<1>12. ASSUME NEW asking \in Requests, Check(asking) PROVE CatalogueBounded'
  BY <1>12 DEF Check, CatalogueBounded
<1>13. ASSUME NEW asking \in checked, Write(asking) PROVE CatalogueBounded'
  <2>1. asking \in Requests /\ file' = file
    BY <1>13 DEF CatalogueInv, Write
  <2>2. FoldersTyped(folders')
    <3>1. CASE UNCHANGED folders
      BY <1>1, <3>1
    <3>2. CASE asking.kind = "rename" /\ asking.folder \in Exists
                 /\ Renamed(asking.folder, asking.name)
      <4>1. asking.name \in AllNames
        BY <2>1, <3>2 DEF Requests
      <4> QED
        BY <1>3, <3>2, <4>1
    <3>3. CASE Deleted(asking.folder)
      BY <1>4, <3>3
    <3> QED
      BY <1>13, <3>1, <3>2, <3>3 DEF Write
  <2> QED
    BY <2>1, <2>2, SavedTyped
<1>14. CASE UNCHANGED catalogueVars
  BY <1>14 DEF catalogueVars, CatalogueBounded
<1> QED
  BY <1>5, <1>6, <1>7, <1>8, <1>9, <1>10, <1>11, <1>12, <1>13, <1>14 DEF CatalogueNext

\* At first everything is saved.
LEMMA UnsavedStart == CatalogueInit => UnsavedBounded
BY CatalogueAssumption DEF CatalogueInit, UnsavedBounded

\* The memory goes ahead within the bound, and a save that succeeds ends it.
LEMMA UnsavedStep ==
  CatalogueInv /\ UnsavedBounded /\ [CatalogueNext]_catalogueVars => UnsavedBounded'
<1> SUFFICES ASSUME UnsavedBounded, [CatalogueNext]_catalogueVars PROVE UnsavedBounded'
  OBVIOUS
<1>1. MaxUnsaved \in Nat /\ unsaved \in 0 .. MaxUnsaved
  BY CatalogueAssumption DEF UnsavedBounded
<1>2. UNCHANGED stored
  BY DEF CatalogueNext, catalogueVars, CreateFolder, RenameFolder, DeleteFolder,
         ReorderFolders, MoveDecks, Reopen, View, Check, Write
<1>3. Save => unsaved' \in 0 .. MaxUnsaved
  BY <1>1 DEF Save, Ahead
<1>4. Ahead => unsaved' \in 0 .. MaxUnsaved
  BY <1>1 DEF Ahead
<1> HIDE DEF Save, Ahead
<1>5. unsaved' \in 0 .. MaxUnsaved
  <2>1. Save \/ Ahead \/ unsaved' = 0 \/ unsaved' = unsaved
    BY DEF CatalogueNext, catalogueVars, CreateFolder, RenameFolder, DeleteFolder,
           ReorderFolders, MoveDecks, Reopen, View, Check, Write
  <2> QED
    BY <1>1, <1>3, <1>4, <2>1
<1> QED
  BY <1>2, <1>5 DEF UnsavedBounded

\* What FollowInv leaves out of FollowTypeOK: nothing is ahead of the presenter, nor
\* what members see of the hub, and no channel has more than FollowQueue events.
FollowBounded ==
  /\ moves <= MaxMoves /\ presenting <= moves /\ relays \subseteq 1 .. moves
  /\ \A a \in Member :
       /\ Len(channel[a]) <= FollowQueue /\ shown[a] <= presenting
       /\ \A i \in DOMAIN channel[a] : channel[a][i] <= presenting

\* With it the invariant says the types of Follow.
LEMMA FollowTypes == FollowInv /\ FollowBounded => FollowTypeOK
BY FollowAssumption DEF FollowInv, FollowBounded, FollowTypeOK

\* Nothing has been presented at first.
LEMMA FollowBoundsStart == FollowInit => FollowBounded
BY FollowAssumption DEF FollowInit, FollowBounded, Unsubscribed

\* A position is sent to the channels that have room for it.
LEMMA FollowBoundsStep ==
  FollowInv /\ FollowBounded /\ [FollowNext]_followVars => FollowBounded'
<1> SUFFICES ASSUME FollowInv, FollowBounded, [FollowNext]_followVars PROVE FollowBounded'
  OBVIOUS
<1>1. /\ moves \in Nat /\ presenting \in Nat /\ FollowQueue \in Nat \ {0} /\ MaxMoves \in Nat
      /\ channel \in [Member -> Seq(Nat)] /\ shown \in [Member -> Nat]
      /\ announcing \subseteq 1 .. presenting /\ FollowBounded
  BY FollowAssumption DEF FollowInv
<1>2. CASE Present
  BY <1>1, <1>2 DEF Present, FollowBounded
<1>3. ASSUME NEW n \in relays, RelayLost(n) PROVE FollowBounded'
  BY <1>1, <1>3 DEF RelayLost, FollowBounded
<1>4. ASSUME NEW n \in relays, SetPresenting(n) PROVE FollowBounded'
  <2>1. n \in 1 .. moves /\ presenting <= presenting' /\ presenting' <= moves
        /\ presenting' \in Nat
    BY <1>1, <1>4 DEF SetPresenting, Stale, FollowBounded
  <2> QED
    BY <1>1, <1>4, <2>1 DEF SetPresenting, FollowBounded
<1>5. ASSUME NEW n \in announcing, Announce(n) PROVE FollowBounded'
  <2>1. ASSUME NEW a \in Member
        PROVE  /\ Len(channel'[a]) <= FollowQueue
               /\ \A i \in DOMAIN channel'[a] : channel'[a][i] <= presenting
    <3>1. /\ channel[a] \in Seq(Nat) /\ Len(channel[a]) \in Nat
          /\ Len(channel[a]) <= FollowQueue
          /\ \A i \in DOMAIN channel[a] : channel[a][i] <= presenting
      BY <1>1 DEF FollowBounded
    <3>2. \/ channel'[a] = channel[a]
          \/ Len(channel[a]) < FollowQueue /\ channel'[a] = Append(channel[a], n)
      BY <1>5 DEF Announce
    <3>3. n \in 1 .. presenting
      BY <1>1
    <3>4. /\ Len(Append(channel[a], n)) = Len(channel[a]) + 1
          /\ \A i \in 1 .. Len(channel[a]) : Append(channel[a], n)[i] = channel[a][i]
          /\ Append(channel[a], n)[Len(channel[a]) + 1] = n
          /\ Append(channel[a], n) \in Seq(Nat)
      BY <1>1, <3>1, <3>3, AppendProperties
    <3>5. /\ DOMAIN Append(channel[a], n) = 1 .. Len(channel[a]) + 1
          /\ DOMAIN channel[a] = 1 .. Len(channel[a])
      BY <3>1, <3>4
    <3>6. \A i \in DOMAIN Append(channel[a], n) : Append(channel[a], n)[i] <= presenting
      BY <1>1, <3>1, <3>3, <3>4, <3>5
    <3>7. Len(Append(channel[a], n)) <= FollowQueue \/ channel'[a] = channel[a]
      BY <1>1, <3>1, <3>2, <3>4
    <3> QED
      BY <3>1, <3>2, <3>6, <3>7
  <2> QED
    BY <1>1, <1>5, <2>1 DEF Announce, FollowBounded
<1>6. ASSUME NEW a \in Member, Join(a) PROVE FollowBounded'
  BY <1>1, <1>6 DEF Join, FollowBounded
<1>7. ASSUME NEW a \in Member, Leave(a) PROVE FollowBounded'
  BY <1>1, <1>7 DEF Leave, FollowBounded, Unsubscribed
<1>8. ASSUME NEW a \in Member, Show(a) PROVE FollowBounded'
  <2>1. /\ channel[a] \in Seq(Nat) /\ channel[a] # <<>> /\ Len(channel[a]) \in Nat
        /\ Len(channel[a]) <= FollowQueue
        /\ \A i \in DOMAIN channel[a] : channel[a][i] <= presenting
    BY <1>1, <1>8 DEF Show, FollowBounded
  <2>2. /\ Head(channel[a]) = channel[a][1] /\ 1 \in DOMAIN channel[a]
        /\ Len(Tail(channel[a])) = Len(channel[a]) - 1 /\ Tail(channel[a]) \in Seq(Nat)
        /\ \A i \in 1 .. Len(Tail(channel[a])) : Tail(channel[a])[i] = channel[a][i + 1]
    <3>1. channel[a] # <<>>
      BY <2>1
    <3> QED
      BY <2>1, <3>1, HeadTailProperties
  <2>3. /\ Head(channel[a]) <= presenting /\ Len(Tail(channel[a])) <= FollowQueue
        /\ \A i \in DOMAIN Tail(channel[a]) : Tail(channel[a])[i] <= presenting
    <3>1. \A i \in DOMAIN Tail(channel[a]) :
            i \in 1 .. Len(Tail(channel[a])) /\ i + 1 \in DOMAIN channel[a]
      BY <2>1, <2>2
    <3>2. ASSUME NEW i \in DOMAIN Tail(channel[a]) PROVE Tail(channel[a])[i] <= presenting
      BY <2>1, <2>2, <3>1
    <3>3. Len(Tail(channel[a])) <= FollowQueue
      BY <1>1, <2>1, <2>2
    <3> QED
      BY <2>1, <2>2, <3>2, <3>3
  <2> QED
    BY <1>1, <1>8, <2>3 DEF Show, FollowBounded
<1>9. CASE UNCHANGED followVars
  BY <1>1, <1>9 DEF followVars, FollowBounded
<1> QED
  BY <1>2, <1>3, <1>4, <1>5, <1>6, <1>7, <1>8, <1>9 DEF FollowNext

\* What LiveInv leaves out of LiveEditTypeOK: how many edits and events there are, and
\* whose the ghosts are.
PagesBounded ==
  /\ edits <= MaxEdits /\ overrun \subseteq Element /\ missed \subseteq Page
  /\ \A p \in Page : events[p] = Closed \/ Len(events[p]) <= QueueSize

\* With it the invariant says the types of the pages.
LEMMA PageTypes == LiveInv /\ PagesBounded => LiveEditTypeOK
<1> SUFFICES ASSUME LiveInv, PagesBounded PROVE LiveEditTypeOK
  OBVIOUS
<1>1. edits \in Nat /\ 0 .. edits \subseteq 0 .. MaxEdits
  BY LiveEditAssumption DEF LiveInv, PagesBounded
<1>2. {slide, answered} \subseteq [Element -> 0 .. MaxEdits]
  BY <1>1 DEF LiveInv
<1>3. ASSUME NEW p \in Page
      PROVE  /\ page[p].save \in {"no", "merge", "hash", "plain", "part"}
             /\ page[p].shows \in [Element -> 0 .. MaxEdits]
  BY <1>1 DEF LiveInv, PageFits, OpenedPage
<1> QED
  BY <1>2, <1>3 DEF PagesBounded, LiveEditTypeOK

\* No page has an edit or an event at first.
LEMMA PageBoundsStart == LiveEditInit => PagesBounded
BY LiveEditAssumption DEF LiveEditInit, PagesBounded

\* An event goes into the queues that have room; the other pages have missed it.
LEMMA EventsBounded ==
  ASSUME LiveInv, PagesBounded, NEW event, Broadcast(event)
  PROVE  /\ missed' \subseteq Page
         /\ \A p \in Page : events'[p] = Closed \/ Len(events'[p]) <= QueueSize
<1>1. missed' \subseteq Page
  BY DEF Broadcast, PagesBounded
<1>2. ASSUME NEW p \in Page PROVE events'[p] = Closed \/ Len(events'[p]) <= QueueSize
  <2>1. events[p] \in Seq(PageEvent) /\ Len(events[p]) \in Nat /\ QueueSize \in Nat
    BY LiveEditAssumption DEF LiveInv
  <2>2. \/ events'[p] = events[p]
        \/ ~(Len(events[p]) >= QueueSize) /\ events'[p] = Append(events[p], event)
    BY DEF Broadcast
  <2>3. Len(Append(events[p], event)) = Len(events[p]) + 1
    BY <2>1
  <2> QED
    BY <2>1, <2>2, <2>3 DEF PagesBounded
<1> QED
  BY <1>1, <1>2

\* Pages keep as many edits and events as they may.
LEMMA PageBoundsStep == LiveInv /\ PagesBounded /\ [LiveEditNext]_liveVars => PagesBounded'
<1> SUFFICES ASSUME LiveInv, PagesBounded, [LiveEditNext]_liveVars PROVE PagesBounded'
  OBVIOUS
<1>1. /\ edits \in Nat /\ MaxEdits \in Nat /\ QueueSize \in Nat
      /\ events \in [Page -> Seq(PageEvent)] /\ PagesBounded
  BY LiveEditAssumption DEF LiveInv
<1>2. ASSUME NEW p \in Page, OpenPage(p) PROVE PagesBounded'
  BY <1>1, <1>2 DEF OpenPage, PagesBounded
<1>3. ASSUME NEW p \in Page, Subscribe(p) PROVE PagesBounded'
  BY <1>1, <1>3 DEF Subscribe, PagesBounded
<1>4. ASSUME NEW p \in Page, Receive(p) PROVE PagesBounded'
  <2>1. events[p] \in Seq(PageEvent) /\ events[p] # <<>> /\ events[p] # Closed
    BY <1>1, <1>4 DEF Receive
  <2>2. Len(Tail(events[p])) <= QueueSize
    <3>1. Len(events[p]) \in Nat /\ Len(events[p]) <= QueueSize
      BY <2>1 DEF PagesBounded
    <3>2. Len(Tail(events[p])) = Len(events[p]) - 1
      BY <2>1
    <3> QED
      BY <1>1, <3>1, <3>2
  <2> QED
    BY <1>1, <1>4, <2>2 DEF Receive, PagesBounded
<1>5. CASE OtherDeck
  BY <1>1, <1>5, EventsBounded DEF OtherDeck, PagesBounded
<1>6. ASSUME NEW p \in Page, NEW e \in Element, Edit(p, e) PROVE PagesBounded'
  BY <1>1, <1>6 DEF Edit, PagesBounded
<1>7. ASSUME NEW p \in Page, NEW way \in {"merge", "hash", "plain", "part"}, BeginSave(p, way)
      PROVE  PagesBounded'
  BY <1>1, <1>7 DEF BeginSave, PagesBounded
<1>8. ASSUME NEW p \in Page, WriteFragment(p) PROVE PagesBounded'
  <2>1. overrun' \subseteq Element
    BY <1>1, <1>8 DEF WriteFragment, Overwritten, PagesBounded
  <2>2. Broadcast("reload") /\ UNCHANGED edits
    BY <1>8 DEF WriteFragment
  <2> QED
    BY <1>1, <2>1, <2>2, EventsBounded DEF PagesBounded
<1>9. ASSUME NEW e \in Element, AgentWrites(e) PROVE PagesBounded'
  BY <1>1, <1>9 DEF AgentWrites, PagesBounded
<1>10. CASE Watch
  BY <1>1, <1>10, EventsBounded DEF Watch, PagesBounded
<1>11. CASE UNCHANGED liveVars
  BY <1>1, <1>11 DEF liveVars, PagesBounded
<1> QED
  BY <1>2, <1>3, <1>4, <1>5, <1>6, <1>7, <1>8, <1>9, <1>10, <1>11 DEF LiveEditNext

\* What LinkInv leaves out of SlideLinksTypeOK: the versions there are, in the source,
\* in what a refresh has read, and in the files.
VersionsBounded ==
  /\ source \in [Part -> 1 .. MaxSource] /\ seen \in [Part -> 1 .. MaxSource]
  /\ own <= MaxOwn
  /\ target.files \in [Part -> 1 .. MaxSource + own]
  /\ \A r \in Refresher :
       refresh[r].step = "write" => refresh[r].read \in [Part -> 1 .. MaxSource]

\* With it the invariant says the types of linked slides.
LEMMA LinkFileTypes == LinkInv /\ VersionsBounded => SlideLinksTypeOK
<1> SUFFICES ASSUME LinkInv, VersionsBounded PROVE SlideLinksTypeOK
  OBVIOUS
<1>1. own \in Nat /\ own <= MaxOwn /\ MaxSource \in Nat /\ MaxOwn \in Nat
  BY SlideLinksAssumption DEF LinkInv, LinkTypes, VersionsBounded
<1>2. target.files \in [Part -> 1 .. MaxSource + MaxOwn]
  BY <1>1 DEF VersionsBounded
<1>3. ASSUME NEW r \in Refresher PROVE refresh[r].step \in {"off", "stage", "write"}
  BY DEF LinkInv, LinkTypes, Off, LinkRefresh
<1> QED
  BY <1>2, <1>3 DEF VersionsBounded, SlideLinksTypeOK

\* The first version is everywhere at first.
LEMMA VersionsStart == SlideLinksInit => VersionsBounded
BY SlideLinksAssumption DEF SlideLinksInit, VersionsBounded, First, Off

\* Versions are of edits of the source, of the target's own, or of both.
LEMMA VersionsStep ==
  LinkInv /\ VersionsBounded /\ [SlideLinksNext]_linkVars => VersionsBounded'
<1> SUFFICES ASSUME LinkInv, VersionsBounded, [SlideLinksNext]_linkVars
             PROVE  VersionsBounded'
  OBVIOUS
<1>1. /\ own \in Nat /\ MaxSource \in Nat \ {0} /\ MaxOwn \in Nat
      /\ source \in [Part -> 1 .. MaxSource] /\ seen \in [Part -> 1 .. MaxSource]
      /\ target = [files |-> target.files, link |-> target.link]
      /\ target.files \in [Part -> 1 .. MaxSource + own] /\ own <= MaxOwn
      /\ DOMAIN refresh = Refresher
      /\ \A r \in Refresher :
           /\ refresh[r] \in {Off, [step |-> "stage"]} \cup LinkRefresh
           /\ refresh[r].step = "write" => refresh[r].read \in [Part -> 1 .. MaxSource]
  BY SlideLinksAssumption DEF LinkInv, LinkTypes, VersionsBounded
<1>2. ASSUME NEW p \in Part, EditSource(p) PROVE VersionsBounded'
  BY <1>1, <1>2 DEF EditSource, VersionsBounded
<1>3. ASSUME NEW p \in Part, EditTarget(p) PROVE VersionsBounded'
  BY <1>1, <1>3 DEF EditTarget, Edited, VersionsBounded
<1>4. ASSUME NEW r \in Refresher, BeginRefresh(r) PROVE VersionsBounded'
  BY <1>1, <1>4 DEF BeginRefresh, VersionsBounded
<1>5. ASSUME NEW r \in Refresher, StageTransferredSlide(r) PROVE VersionsBounded'
  BY <1>1, <1>5 DEF StageTransferredSlide, VersionsBounded
<1>6. ASSUME NEW r \in Refresher, NEW f \in Part \cup {"link"}, WriteFile(r, f)
      PROVE  VersionsBounded'
  <2>1. /\ refresh[r] \in LinkRefresh /\ refresh[r].read \in [Part -> 1 .. MaxSource]
        /\ UNCHANGED <<source, seen, own>>
    BY <1>1, <1>6 DEF WriteFile, Off
  <2>2. target'.files \in [Part -> 1 .. MaxSource + own]
    <3>1. \/ target'.files = target.files
          \/ f \in Part /\ target'.files = [target.files EXCEPT ![f] = refresh[r].read[f]]
      BY <1>1, <1>6 DEF WriteFile
    <3>2. 1 .. MaxSource \subseteq 1 .. MaxSource + own
      BY <1>1
    <3> QED
      BY <1>1, <2>1, <3>1, <3>2
  <2>3. ASSUME NEW q \in Refresher
        PROVE  refresh'[q].step = "write" => refresh'[q].read \in [Part -> 1 .. MaxSource]
    <3>1. CASE q # r
      BY <1>1, <1>6, <3>1 DEF WriteFile
    <3>2. CASE q = r
      <4>1. refresh'[r] = Off \/ refresh'[r].read = refresh[r].read
        BY <1>1, <1>6, <2>1 DEF WriteFile, LinkRefresh
      <4> QED
        BY <2>1, <3>2, <4>1 DEF Off
    <3> QED
      BY <3>1, <3>2
  <2> QED
    BY <1>1, <2>1, <2>2, <2>3 DEF VersionsBounded
<1>7. CASE ChangeAccess
  BY <1>1, <1>7 DEF ChangeAccess, VersionsBounded
<1>8. CASE RefreshBreaks
  BY <1>1, <1>8 DEF RefreshBreaks, VersionsBounded, Off
<1>9. CASE Detach
  BY <1>1, <1>9 DEF Detach, VersionsBounded
<1>10. CASE UNCHANGED linkVars
  BY <1>10 DEF linkVars, VersionsBounded
<1> QED
  BY <1>2, <1>3, <1>4, <1>5, <1>6, <1>7, <1>8, <1>9, <1>10 DEF SlideLinksNext

\* The entries of a manifest, and the files of the cache.
EntriesTyped(table) == DOMAIN table \subseteq Slide /\ \A s \in DOMAIN table : table[s] \in Content
PicturesTyped(table) ==
  \A f \in DOMAIN table : f.slide \in Slide /\ table[f] \in Content

\* What ExportCacheTypeOK says, and what the export under way has found and rendered.
ExportTyped ==
  /\ deckNow \in [Slide -> Content] /\ parked \subseteq Slide
  /\ EntriesTyped(cached) /\ PicturesTyped(pictures)
  /\ export.step \in {"none", "render", "store", "read", "delivered"}
  /\ export.step \in {"render", "store"} =>
       /\ export.ids \subseteq Slide /\ export.misses \subseteq export.ids
       /\ \A s \in export.ids : export.print[s] \in Content
  /\ export.step = "store" =>
       /\ export = [step |-> "store", ids |-> export.ids, print |-> export.print,
                    misses |-> export.misses, shows |-> export.shows,
                    entries |-> export.entries]
       /\ EntriesTyped(export.entries)
       /\ \A s \in export.misses : export.shows[s] \in Content

\* It says the types of the exports.
LEMMA ExportTypes == ExportTyped => ExportCacheTypeOK
BY DEF ExportTyped, EntriesTyped, PicturesTyped, Entries, ExportCacheTypeOK

\* Nothing is parked, captured or exported at first.
LEMMA ExportTypesStart == ExportCacheInit => ExportTyped
BY DEF ExportCacheInit, ExportTyped, EntriesTyped, PicturesTyped, NoExport

\* What is rendered and kept are contents of slides.
LEMMA ExportTypesStep == ExportTyped /\ [ExportCacheNext]_exportVars => ExportTyped'
<1> SUFFICES ASSUME ExportTyped, [ExportCacheNext]_exportVars PROVE ExportTyped'
  OBVIOUS
<1>1. ASSUME UNCHANGED <<cached, pictures, export>>,
             deckNow' \in [Slide -> Content], parked' \subseteq Slide
      PROVE  ExportTyped'
  BY <1>1 DEF ExportTyped
<1>2. ASSUME NEW s \in Slide, Park(s) \/ \E c \in Content : ChangeSlide(s, c)
      PROVE  ExportTyped'
  BY <1>1, <1>2 DEF Park, ChangeSlide, ExportTyped
<1>3. ASSUME UNCHANGED <<deckNow, parked, cached, pictures>>, export' = NoExport
      PROVE  ExportTyped'
  BY <1>3 DEF ExportTyped, NoExport
<1>4. CASE EndExport \/ ExportFails
  BY <1>3, <1>4 DEF EndExport, ExportFails
<1>5. ASSUME NEW ids \in SUBSET Slide, BeginExport(ids) PROVE ExportTyped'
  <2> DEFINE print == [s \in ids |-> Fingerprint(s)]
             misses == {s \in ids : ~Hit(s, print[s])}
  <2>1. /\ export' = [step |-> "render", ids |-> ids, print |-> print, misses |-> misses]
        /\ UNCHANGED <<deckNow, parked, cached, pictures>>
    BY <1>5 DEF BeginExport
  <2>2. misses \subseteq ids /\ \A s \in ids : print[s] \in Content
    BY DEF ExportTyped, Fingerprint
  <2> HIDE DEF print, misses
  <2> QED
    BY <2>1, <2>2 DEF ExportTyped
<1>6. CASE Render
  <2>1. CASE export' = NoExport
    BY <1>3, <1>6, <2>1 DEF Render
  <2>2. CASE export' # NoExport
    <3> DEFINE shows == [s \in export.misses |-> deckNow[s]]
    <3>1. /\ export' = [step |-> "store", ids |-> export.ids, print |-> export.print,
                        misses |-> export.misses, shows |-> shows, entries |-> cached]
          /\ UNCHANGED <<deckNow, parked, cached, pictures>> /\ export.step = "render"
      BY <1>6, <2>2 DEF Render
    <3>2. \A s \in export.misses : shows[s] \in Content
      BY <3>1 DEF ExportTyped
    <3> HIDE DEF shows
    <3> QED
      BY <3>1, <3>2 DEF ExportTyped
  <2> QED
    BY <2>1, <2>2
<1>7. ASSUME NEW s \in Slide, StoreEntry(s) PROVE ExportTyped'
  <2> DEFINE print == export.print[s]
             entries == Add(export.entries, s, print)
             pictureFile == FileName(s, print)
  <2>1. /\ export.step = "store" /\ s \in export.misses
        /\ \E old : pictures' = Drop(Add(pictures, pictureFile, export.shows[s]), old)
        /\ export' = [export EXCEPT !.misses = @ \ {s}, !.entries = Add(@, s, print)]
        /\ UNCHANGED <<deckNow, parked, cached>>
    BY <1>7 DEF StoreEntry
  <2>2. /\ export = [step |-> "store", ids |-> export.ids, print |-> export.print,
                     misses |-> export.misses, shows |-> export.shows,
                     entries |-> export.entries]
        /\ print \in Content /\ export.shows[s] \in Content
    BY <2>1 DEF ExportTyped
  <2>3. export' = [step |-> "store", ids |-> export.ids, print |-> export.print,
                   misses |-> export.misses \ {s}, shows |-> export.shows,
                   entries |-> entries]
    BY <2>1, <2>2
  <2>4. EntriesTyped(entries)
    BY <2>1, <2>2 DEF ExportTyped, EntriesTyped, Add
  <2>5. PicturesTyped(pictures')
    <3>1. pictureFile.slide = s
      BY DEF FileName
    <3> HIDE DEF pictureFile, print
    <3> QED
      BY <2>1, <2>2, <3>1 DEF ExportTyped, PicturesTyped, Add, Drop
  <2> HIDE DEF entries, print, pictureFile
  <2>6. /\ export'.step = "store" /\ export'.ids = export.ids /\ export'.print = export.print
        /\ export'.misses = export.misses \ {s} /\ export'.shows = export.shows
        /\ export'.entries = entries
    BY <2>3
  <2>7. export' = [step |-> "store", ids |-> export'.ids, print |-> export'.print,
                   misses |-> export'.misses, shows |-> export'.shows,
                   entries |-> export'.entries]
    BY <2>3, <2>6
  <2>8. /\ export.ids \subseteq Slide /\ export.misses \subseteq export.ids
        /\ \A t \in export.ids : export.print[t] \in Content
        /\ \A t \in export.misses : export.shows[t] \in Content
        /\ deckNow \in [Slide -> Content] /\ parked \subseteq Slide /\ EntriesTyped(cached)
    BY <2>1 DEF ExportTyped
  <2> QED
    BY <2>1, <2>4, <2>5, <2>6, <2>7, <2>8 DEF ExportTyped
<1>8. CASE WriteManifest
  <2>1. /\ export.step = "store"
        /\ \E gone : cached' = Drop(export.entries, gone)
        /\ \E gone : pictures' = Drop(pictures, gone)
        /\ export' = [export EXCEPT !.step = "read"] /\ UNCHANGED <<deckNow, parked>>
    BY <1>8 DEF WriteManifest
  <2>2. EntriesTyped(cached') /\ PicturesTyped(pictures')
    BY <2>1 DEF ExportTyped, EntriesTyped, PicturesTyped, Drop
  <2>3. export'.step = "read"
    BY <2>1 DEF ExportTyped
  <2> QED
    BY <2>1, <2>2, <2>3 DEF ExportTyped
<1>9. CASE Deliver
  <2>1. /\ UNCHANGED <<deckNow, parked, cached, pictures>>
        /\ export' = NoExport \/ export'.step = "delivered"
    BY <1>9 DEF Deliver
  <2> QED
    BY <1>3, <2>1 DEF ExportTyped
<1>10. CASE UNCHANGED exportVars
  BY <1>1, <1>10 DEF exportVars, ExportTyped
<1> QED
  BY <1>2, <1>4, <1>5, <1>6, <1>7, <1>8, <1>9, <1>10 DEF ExportCacheNext

--------------------------------------------------------------------------------
\* The types of the whole studio: those its parts begin with, where their invariants do
\* not say them; those of every part; and those of the part that moves.

\* Before a pass nothing is committed.
LEMMA ScopeTypesStart == AgentScopeInit => AgentScopeTypeOK
  BY DEF AgentScopeInit, AgentScopeTypeOK, Resting

LEMMA SandTypesStart == SandboxInit => SandboxTypeOK
  BY SandboxAssumption DEF SandboxInit, SandboxTypeOK, Fresh, Verdict

LEMMA MediaTypesStart == MediaInit => MediaTypeOK
  BY MediaAssumption DEF MediaInit, MediaTypeOK, Empty

LEMMA StageTypesStart == AudienceInit => AudienceTypeOK
  BY AudienceAssumption DEF AudienceInit, AudienceTypeOK, Unread, NoPulse

\* The types of each part, in its own behaviours.
LEMMA TeamTyped == TeamSpec => []TeamTypeOK
  BY TeamInitInv, TeamStep, MembersStart, MemberStep, RemovalsStart, RemovalsStep,
     TeamTypes, PTL DEF TeamSpec

LEMMA AccessPartTyped == AccessSpec => []AccessTypeOK
  BY AccessStart, AccessStep, SeatsStart, SeatsStep, AccessTypes, PTL DEF AccessSpec

LEMMA DecksTyped == DeckSpec => []DeckTypeOK
  BY DeckStart, DeckStep, DeckTypes, PTL DEF DeckSpec

LEMMA CatalogueTyped == CatalogueSpec => []CatalogueTypeOK
  BY CatalogueStart, CatalogueStep, UnsavedStart, UnsavedStep, FoldersStart,
     FoldersStep, CatalogueTypes, PTL DEF CatalogueSpec

LEMMA LiveEditTyped == LiveEditSpec => []LiveEditTypeOK
  BY LiveStart, PagesStep, PageBoundsStart, PageBoundsStep, PageTypes, PTL DEF LiveEditSpec

LEMMA FollowTyped == FollowSpec => []FollowTypeOK
  BY FollowStart, FollowStep, FollowBoundsStart, FollowBoundsStep, FollowTypes, PTL DEF FollowSpec

LEMMA SlideOrderTyped == SlideOrderSpec => []SlideOrderTypeOK
  BY OrderStart, OrderStep, OrderTypes, PTL DEF SlideOrderSpec

LEMMA SlideTransferTyped == SlideTransferSpec => []SlideTransferTypeOK
  BY TransferStart, TransferStep, TransferTypes, PTL DEF SlideTransferSpec

LEMMA SlideLinksTyped == SlideLinksSpec => []SlideLinksTypeOK
  BY LinkStart, LinkStep, VersionsStart, VersionsStep, LinkFileTypes, PTL DEF SlideLinksSpec

LEMMA ExportCacheTyped == ExportCacheSpec => []ExportCacheTypeOK
  BY ExportTypesStart, ExportTypesStep, ExportTypes, PTL DEF ExportCacheSpec

LEMMA AgentScopeTyped == AgentScopeSpec => []AgentScopeTypeOK
  BY ScopeStart, ScopeStep, ScopeTypesStart, ScopeTypes, PTL DEF AgentScopeSpec

LEMMA SandboxPartTyped == SandboxSpec => []SandboxTypeOK
  BY SandboxStart, SandboxStep, SandTypesStart, SandTypes, PTL DEF SandboxSpec

LEMMA MediaTyped == MediaSpec => []MediaTypeOK
  BY LibraryStart, LibraryStep, MediaTypesStart, MediaTypes, PTL DEF MediaSpec

LEMMA CallsPartTyped == CallsSpec => []CallsTypeOK
  BY CallsStart, CallsStep, CallTypes, PTL DEF CallsSpec

LEMMA BriefTyped == BriefSpec => []BriefTypeOK
  BY BriefInitInv, BriefStep, BriefTypes, PTL DEF BriefSpec

LEMMA AudiencePartTyped == AudienceSpec => []AudienceTypeOK
  BY AudienceStart, AudienceStep, StageTypesStart, StageTypes, PTL DEF AudienceSpec

LEMMA ObservabilityTyped == ObservabilitySpec => []ObservabilityTypeOK
  BY ObservabilityStart, ObservabilityStep, EventTypes, PTL DEF ObservabilitySpec

LEMMA CloudSessionTyped == CloudSessionSpec => []CloudSessionTypeOK
  BY SessionInit, SessionStep, RenewalsStart, RenewalsStep, SessionTypes, PTL DEF CloudSessionSpec

LEMMA CloudReleaseTyped == CloudReleaseSpec => []CloudReleaseTypeOK
  BY ReleaseStart, ReleaseStep, ContentsStart, ContentsStep, ReleaseTypes, PTL
     DEF CloudReleaseSpec

LEMMA CloudTransferTyped == CloudTransferSpec => []CloudTransferTypeOK
  BY ExchangeStart, ExchangeStep, MessagesStart, MessagesStep, ExchangeTypes, PTL
     DEF CloudTransferSpec

LEMMA EditorPartTyped == EditorSpec => []EditorTypeOK
  BY EditorStart, EditorStep, EditionsStart, EditionsStep, EditorTypes, PTL DEF EditorSpec

(***************************************************************************)
(* A studio of any size holds what it should at every time: every table,   *)
(* file, queue and request under way is of its type, within the bounds of  *)
(* its constants (the length of the audience's inbox, the events an        *)
(* editor's page can be behind, the tries of every counter).               *)
(***************************************************************************)
THEOREM StudioTypes == StudioSpec => []StudioTypeOK
<1>1. StudioInit => /\ TeamInit /\ AccessInit /\ DeckInit /\ CatalogueInit /\ LiveEditInit
                    /\ FollowInit /\ SlideOrderInit /\ SlideTransferInit /\ SlideLinksInit
                    /\ ExportCacheInit /\ AgentScopeInit /\ SandboxInit /\ MediaInit
                    /\ CallsInit /\ BriefInit /\ AudienceInit /\ ObservabilityInit
                    /\ CloudSessionInit /\ CloudReleaseInit /\ CloudTransferInit
                    /\ EditorInit
  BY DEF StudioInit
<1>2. StudioInit => part \in Parts
  BY DEF StudioInit
<1>3. part \in Parts /\ [StudioNext]_studioVars => (part \in Parts)'
  BY DEF StudioNext, studioVars
<1>4. StudioSpec => [](part \in Parts)
  BY <1>2, <1>3, PTL DEF StudioSpec
<1>5. StudioSpec => /\ TeamSpec /\ AccessSpec /\ DeckSpec /\ CatalogueSpec /\ LiveEditSpec
                    /\ FollowSpec /\ SlideOrderSpec /\ SlideTransferSpec /\ SlideLinksSpec
                    /\ ExportCacheSpec /\ AgentScopeSpec /\ SandboxSpec /\ MediaSpec
                    /\ CallsSpec /\ BriefSpec /\ AudienceSpec /\ ObservabilitySpec
                    /\ CloudSessionSpec /\ CloudReleaseSpec /\ CloudTransferSpec
                    /\ EditorSpec
  BY <1>1, WorkMoves, StageMoves, CloudMoves, PTL
     DEF StudioSpec, TeamSpec, AccessSpec, DeckSpec, CatalogueSpec, LiveEditSpec,
         FollowSpec, SlideOrderSpec, SlideTransferSpec, SlideLinksSpec, ExportCacheSpec,
         AgentScopeSpec, SandboxSpec, MediaSpec, CallsSpec, BriefSpec, AudienceSpec,
         ObservabilitySpec, CloudSessionSpec, CloudReleaseSpec, CloudTransferSpec,
         EditorSpec
<1>6. StudioSpec => [](part \in Parts
                       /\ TeamTypeOK /\ AccessTypeOK /\ DeckTypeOK /\ CatalogueTypeOK
                       /\ LiveEditTypeOK /\ FollowTypeOK /\ SlideOrderTypeOK
                       /\ SlideTransferTypeOK /\ SlideLinksTypeOK /\ ExportCacheTypeOK
                       /\ AgentScopeTypeOK /\ SandboxTypeOK /\ MediaTypeOK /\ CallsTypeOK
                       /\ BriefTypeOK /\ AudienceTypeOK /\ ObservabilityTypeOK
                       /\ CloudSessionTypeOK /\ CloudReleaseTypeOK /\ CloudTransferTypeOK
                       /\ EditorTypeOK)
  BY <1>4, <1>5, TeamTyped, AccessPartTyped, DecksTyped, CatalogueTyped, LiveEditTyped,
     FollowTyped, SlideOrderTyped, SlideTransferTyped, SlideLinksTyped, ExportCacheTyped,
     AgentScopeTyped, SandboxPartTyped, MediaTyped, CallsPartTyped, BriefTyped,
     AudiencePartTyped, ObservabilityTyped, CloudSessionTyped, CloudReleaseTyped,
     CloudTransferTyped, EditorPartTyped, PTL
<1>7. part \in Parts /\ TeamTypeOK /\ AccessTypeOK /\ DeckTypeOK /\ CatalogueTypeOK
                    /\ LiveEditTypeOK /\ FollowTypeOK /\ SlideOrderTypeOK
                    /\ SlideTransferTypeOK /\ SlideLinksTypeOK /\ ExportCacheTypeOK
                    /\ AgentScopeTypeOK /\ SandboxTypeOK /\ MediaTypeOK /\ CallsTypeOK
                    /\ BriefTypeOK /\ AudienceTypeOK /\ ObservabilityTypeOK
                    /\ CloudSessionTypeOK /\ CloudReleaseTypeOK /\ CloudTransferTypeOK
                    /\ EditorTypeOK
      => StudioTypeOK
  BY Zenon DEF Parts, StudioTypeOK
<1> QED
  BY <1>6, <1>7, PTL
================================================================================
