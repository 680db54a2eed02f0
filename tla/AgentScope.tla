------------------------------- MODULE AgentScope -------------------------------
(***************************************************************************)
(* The guard around the passes of the coding agent in a studio kept in a   *)
(* Git repository (internal/server/agent.go): a pass notes which paths are *)
(* modified, lets the agent work, reverts what is modified since outside   *)
(* decks/, library/ and requests/, may do the same again for the critic of *)
(* the sources, and commits and pushes what is inside.  The agent works in *)
(* a branch of which studio.yaml, .gitignore and the themes come back too, *)
(* or, in an isolated workspace, in the studio itself.                     *)
(***************************************************************************)
CONSTANTS Sweeper,        \* passes
          Inside,         \* paths the agent may change
          Outside         \* other paths of the studio

ASSUME AgentScopeAssumption ==
  Inside \cap Outside = {} /\ {"clean", "person"} \cap Sweeper = {}

VARIABLES isolated,    \* whether the workspace is one pass's own
          tree,        \* of each path: as committed, or whether a person or the agent
                       \* of which pass modified it last
          sweeps,      \* of each pass: its step, and the paths modified before it
          commits,     \* paths with commits the upstream has not
          upstream,    \* paths with commits the upstream has
          raced,       \* ghost: modified by people during a pass that has not ended
          reverted,    \* ghost: edits of people lost, that were there before the pass
          unreverted   \* ghost: what a guard wanted to revert and could not

scopeVars == <<isolated, tree, sweeps, commits, upstream, raced, reverted, unreverted>>

Resting == [step |-> "none", before |-> {}]

AgentScopeInit ==
  /\ isolated \in BOOLEAN
  /\ tree = [p \in Inside \cup Outside |-> "clean"]
  /\ sweeps = [w \in Sweeper |-> Resting]
  /\ commits = {} /\ upstream = {}
  /\ raced = {} /\ reverted = {} /\ unreverted = {}

Modified == {p \in DOMAIN tree : tree[p] # "clean"}

Written(paths, who) == [p \in DOMAIN tree |-> IF p \in paths THEN who ELSE tree[p]]

Passing == {w \in Sweeper : sweeps[w] # Resting}

Step(w, next) == sweeps' = [sweeps EXCEPT ![w].step = next]

--------------------------------------------------------------------------------
\* On disk, at any time; an isolated workspace is nobody's but the pass's.
EditByHand(p) ==
  /\ isolated => Passing = {}
  /\ tree' = [tree EXCEPT ![p] = "person"]
  /\ raced' = IF Passing = {} THEN {} ELSE raced \cup {p}
  /\ UNCHANGED <<isolated, sweeps, commits, upstream, reverted, unreverted>>

\* dirtyPaths: nothing was modified, when git status fails.
DirtyPaths(w) ==
  /\ sweeps[w] = Resting
  /\ isolated => Passing = {}
  /\ \/ /\ sweeps' = [sweeps EXCEPT ![w] = [step |-> "agent", before |-> Modified]]
        /\ raced' = IF Passing = {} THEN {} ELSE raced
     \/ /\ sweeps' = [sweeps EXCEPT ![w] = [step |-> "agent", before |-> {}]]
        /\ raced' = (IF Passing = {} THEN {} ELSE raced) \cup Modified
  /\ UNCHANGED <<isolated, tree, commits, upstream, reverted, unreverted>>

\* What comes back from the agent of pass w: any paths, possibly none.
ExecuteAgent(w) ==
  \E paths \in SUBSET DOMAIN tree :
    tree' = Written(paths, w) /\ unreverted' = unreverted \ paths

\* runPass: the agent the slide is given to ...
RunPass(w) ==
  /\ sweeps[w].step = "agent"
  /\ ExecuteAgent(w)
  /\ Step(w, "ran")
  /\ UNCHANGED <<isolated, commits, upstream, raced, reverted>>

\* ... and another that compares the slide with its sources, when it has some.
RunSourceCritic(w) ==
  /\ sweeps[w].step = "critic"
  /\ ExecuteAgent(w)
  /\ Step(w, "criticRan")
  /\ UNCHANGED <<isolated, commits, upstream, raced, reverted>>

\* Mutant of OutOfScope: what was there before the pass is not left alone.
MutantOutOfScope(w) == Modified \ Inside

OutOfScope(w) == Modified \ (Inside \cup sweeps[w].before)

\* enforceScope: checked out, or removed when Git does not know the path.  Errors are
\* ignored: of a new directory, which Git names as one path, that cannot be removed, of
\* one path, and of git status, when nothing is done.
EnforceScope(w) ==
  /\ sweeps[w].step \in {"ran", "criticRan"}
  /\ \E kept \in SUBSET OutOfScope(w) :
       /\ tree' = Written(OutOfScope(w) \ kept, "clean")
       /\ reverted' = reverted \cup
            {p \in OutOfScope(w) \ kept : tree[p] = "person" /\ p \notin raced}
       /\ raced' = raced \ (OutOfScope(w) \ kept)
       /\ unreverted' = (unreverted \ OutOfScope(w)) \cup kept
  /\ \/ sweeps[w].step = "ran" /\ Step(w, "critic")
     \/ Step(w, "push")
     \/ sweeps' = [sweeps EXCEPT ![w] = Resting]    \* failed, nothing is pushed
  /\ UNCHANGED <<isolated, commits, upstream>>

\* Mutant of GitPush: everything that is modified is added.
MutantGitPush(w) ==
  /\ sweeps[w].step = "push" /\ ~isolated
  /\ commits' = commits \cup Modified
  /\ tree' = Written(Modified, "clean")
  /\ Step(w, "pushing")
  /\ UNCHANGED <<isolated, upstream, raced, reverted, unreverted>>

\* Under pushMu: whatever is modified inside, also by another pass at its work.
GitPush(w) ==
  /\ sweeps[w].step = "push" /\ ~isolated
  /\ \A v \in Sweeper : sweeps[v].step # "pushing"
  /\ commits' = commits \cup (Modified \cap Inside)
  /\ tree' = Written(Modified \cap Inside, "clean")
  /\ Step(w, "pushing")
  /\ UNCHANGED <<isolated, upstream, raced, reverted, unreverted>>

\* Nothing is pushed by the pass when the studio has a content sync, which is told
\* instead, when pushes are off, from an isolated workspace, or when nothing can be
\* committed.  A push that fails is not repeated, but the next carries its commits too.
EndPush(w) ==
  /\ \/ /\ sweeps[w].step = "push"
        /\ UNCHANGED <<commits, upstream>>
     \/ /\ sweeps[w].step = "pushing"
        /\ \/ upstream' = upstream \cup commits /\ commits' = {}
           \/ UNCHANGED <<commits, upstream>>
  /\ sweeps' = [sweeps EXCEPT ![w] = Resting]
  /\ UNCHANGED <<isolated, tree, raced, reverted, unreverted>>

AgentScopeNext ==
  \/ \E p \in Inside \cup Outside : EditByHand(p)
  \/ \E w \in Sweeper : \/ DirtyPaths(w) \/ RunPass(w) \/ RunSourceCritic(w)
                        \/ EnforceScope(w) \/ GitPush(w) \/ EndPush(w)

AgentScopeSpec == AgentScopeInit /\ [][AgentScopeNext]_scopeVars

--------------------------------------------------------------------------------
\* Types of the paths and of the passes.
AgentScopeTypeOK ==
  /\ tree \in [Inside \cup Outside -> {"clean", "person"} \cup Sweeper]
  /\ sweeps \in [Sweeper -> [step : {"none", "agent", "ran", "critic", "criticRan",
                                     "push", "pushing"},
                             before : SUBSET (Inside \cup Outside)]]
  /\ commits \cup upstream \cup raced \cup reverted \cup unreverted
       \subseteq Inside \cup Outside

(***************************************************************************)
(* The guard reverts no edit of a person that was there before the pass,   *)
(* nothing outside reaches a commit, and what the agent of a pass did      *)
(* outside, also through its branch, is gone before the slide goes on to   *)
(* the critic or to a push, unless that path had been changed before the   *)
(* pass, or could not be reverted.  (Edits people make outside while a     *)
(* pass runs are reverted as if they were the agent's.)                    *)
(***************************************************************************)
ScopeIsKept ==
  /\ reverted = {}
  /\ (commits \cup upstream) \cap Outside = {}
  /\ \A p \in Outside, w \in Sweeper :
       tree[p] = w /\ sweeps[w].step \in {"critic", "push", "pushing"}
         => p \in sweeps[w].before \cup unreverted
================================================================================
