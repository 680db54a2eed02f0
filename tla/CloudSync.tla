------------------------------- MODULE CloudSync -------------------------------
(***************************************************************************)
(* Manager.Sync of internal/cloudworkspace/workspace.go: the studios of    *)
(* several devices follow one Cloud workspace.  A sync checkpoints the     *)
(* local content, submits it (or only reads the head when nothing changed) *)
(* with the content lock released, merges what was edited meanwhile, and   *)
(* replaces the local content before it records the new base revision.     *)
(* The Cloud service is outside the repository: it is modelled from what   *)
(* this client sends it and expects back.  That a replacement is atomic is *)
(* the subject of ContentTransaction, the details of a merge that of       *)
(* ElementMerge, SectionMerge and SnapshotMerge.                           *)
(***************************************************************************)
EXTENDS ReconcileOps

CONSTANTS Device,      \* connected studios
          Line,        \* log lines, each appended at most once
          MaxValue,    \* values of a property are 0..MaxValue
          Undo,        \* whether an edit may return to a smaller value
          Writer,      \* the kinds of writer a sync announces
          MaxEdits,    \* bound: local edits in all
          MaxFaults,   \* bound: lost requests, lost answers, crashes
          MaxUnsaved   \* bound: crashes with the new base not yet recorded

ASSUME SyncAssumption ==
  /\ MaxValue \in Nat /\ MaxEdits \in Nat /\ MaxFaults \in Nat /\ MaxUnsaved \in Nat
  /\ Undo \in BOOLEAN
  /\ Writer \subseteq {"human", "agent"}

VARIABLES revs,         \* Cloud: contents of the revisions, the last is the head
          ops,          \* Cloud: revision answered to each operation
          local,        \* content of each studio
          base,         \* .vstd/cloud-workspace.json: BaseRevisionID
          checkpoints,  \* .vstd/checkpoints
          sync,         \* the sync in progress of each studio
          wrote,        \* the value each studio's user last gave its property
          edits, faults, unsaved

cloud == <<revs, ops>>
counters == <<edits, faults, unsaved>>
vars == <<revs, ops, local, base, checkpoints, sync, wrote, edits, faults, unsaved>>

(***************************************************************************)
(* A content has one property per device, that only this device's user     *)
(* edits, and a log they all append to.                                    *)
(***************************************************************************)
Value == 0..MaxValue

Content == [own: [Device -> Value], log: Seq(Line)]

Blank == [own |-> [d \in Device |-> 0], log |-> <<>>]

\* Merge with the priority of ours: independent properties, appended sections.
Reconcile(b, ours, theirs) ==
  [own |-> [d \in Device |->
              IF ours.own[d] = b.own[d] THEN theirs.own[d] ELSE ours.own[d]],
   log |-> MergeSection(b.log, ours.log, theirs.log)]

Idle == [phase |-> "idle"]

\* Mutant of Operation: the base is left out of the hash.
MutantOperation(r, content, writer) == <<content, writer>>

\* The operation identifier: a hash of the base, the content and the writer.
Operation(r, content, writer) == <<r, content, writer>>

Init == /\ revs = <<Blank>>
        /\ ops = {}
        /\ local = [d \in Device |-> Blank]
        /\ base = [d \in Device |-> 1]
        /\ checkpoints = [d \in Device |-> {}]
        /\ sync = [d \in Device |-> Idle]
        /\ wrote = [d \in Device |-> 0]
        /\ edits = 0 /\ faults = 0 /\ unsaved = 0

\* The content lock is free: syncs hold it except while they wait for the Cloud.
Unlocked(d) == sync[d].phase # "applied"

EditProperty(d, v) ==
  /\ Unlocked(d) /\ edits < MaxEdits
  /\ v # local[d].own[d] /\ (Undo \/ v > local[d].own[d])
  /\ local' = [local EXCEPT ![d].own[d] = v]
  /\ wrote' = [wrote EXCEPT ![d] = v]
  /\ edits' = edits + 1
  /\ UNCHANGED <<cloud, base, checkpoints, sync, faults, unsaved>>

Used == UNION {ToSet(c.log) : c \in ToSet(revs) \cup
                                    UNION {{local[d]} \cup checkpoints[d] : d \in Device}}

AppendLog(d, line) ==
  /\ Unlocked(d) /\ edits < MaxEdits
  /\ line \notin Used
  /\ local' = [local EXCEPT ![d].log = Append(@, line)]
  /\ edits' = edits + 1
  /\ UNCHANGED <<cloud, base, checkpoints, sync, wrote, faults, unsaved>>

(***************************************************************************)
(* Up to the release of the content lock: checkpoint, then a request.  It  *)
(* carries no content when the local content is that of the base.          *)
(***************************************************************************)
BeginSync(d, writer) ==
  /\ sync[d].phase = "idle"
  /\ checkpoints' = [checkpoints EXCEPT ![d] = @ \cup {local[d]}]
  /\ sync' = [sync EXCEPT ![d] =
       [phase |-> IF local[d] = revs[base[d]] THEN "read" ELSE "submit",
        snapshot |-> local[d],
        writer |-> writer]]
  /\ UNCHANGED <<cloud, local, base, wrote, counters>>

Answer(d, rev) ==
  sync' = [sync EXCEPT ![d] =
            [phase |-> "answered", snapshot |-> sync[d].snapshot, rev |-> rev]]

\* Mutant of AnswerRead: the studio is given the revision it has.
MutantAnswerRead(d) ==
  /\ sync[d].phase = "read"
  /\ Answer(d, base[d])
  /\ UNCHANGED <<cloud, local, base, checkpoints, wrote, counters>>

\* Cloud.Workspace and Cloud.Revision: the head.
AnswerRead(d) ==
  /\ sync[d].phase = "read"
  /\ Answer(d, Len(revs))
  /\ UNCHANGED <<cloud, local, base, checkpoints, wrote, counters>>

\* Mutant of Advance: the answer names a new revision although none was made.
MutantAdvance(merged) == Len(revs) + 1

\* The revision that holds the outcome of a merge; what changes nothing adds none.
Advance(merged) == IF merged = Last(revs) THEN Len(revs) ELSE Len(revs) + 1

(***************************************************************************)
(* Cloud.Sync: an operation already done is answered as it was then;       *)
(* otherwise the submitted content is merged with the head, an agent's     *)
(* yielding to it, and what comes out is the new head.                     *)
(***************************************************************************)
AnswerSubmit(d) ==
  LET s == sync[d]
      op == Operation(base[d], s.snapshot, s.writer)
      head == Last(revs)
      ancestor == revs[base[d]]
      merged == IF s.writer = "agent" THEN Reconcile(ancestor, head, s.snapshot)
                                      ELSE Reconcile(ancestor, s.snapshot, head)
      known == {o \in ops : o.op = op}
  IN  /\ s.phase = "submit"
      /\ IF known # {}
           THEN /\ \E o \in known : Answer(d, o.rev)
                /\ UNCHANGED cloud
           ELSE /\ revs' = IF merged = head THEN revs ELSE Append(revs, merged)
                /\ ops' = ops \cup {[op |-> op, rev |-> Advance(merged)]}
                /\ Answer(d, Advance(merged))
      /\ UNCHANGED <<local, base, checkpoints, wrote, counters>>

(***************************************************************************)
(* The request or its answer is lost, or the process dies while it waits:  *)
(* the sync ends, nothing of it is kept but the checkpoint.                *)
(***************************************************************************)
FailSync(d) ==
  /\ sync[d].phase \in {"read", "submit", "answered"}
  /\ faults < MaxFaults
  /\ faults' = faults + 1
  /\ sync' = [sync EXCEPT ![d] = Idle]
  /\ UNCHANGED <<cloud, local, base, checkpoints, wrote, edits, unsaved>>

\* Mutant of CheckpointAgain: edits made during the transfer get none.
MutantCheckpointAgain(d) == UNCHANGED checkpoints

CheckpointAgain(d) ==
  checkpoints' = IF local[d] = sync[d].snapshot THEN checkpoints
                 ELSE [checkpoints EXCEPT ![d] = @ \cup {local[d]}]

\* Mutant of Incoming: edits made during the transfer are not merged.
MutantIncoming(d) == revs[sync[d].rev]

\* What was edited since the request is a local delta of its own.
Incoming(d) ==
  LET remote == revs[sync[d].rev]
  IN  IF local[d] = sync[d].snapshot THEN remote
      ELSE Reconcile(sync[d].snapshot, local[d], remote)

(***************************************************************************)
(* With the lock taken again: edits made since the request are             *)
(* checkpointed and merged over the answer, and the outcome replaces the   *)
(* local content.                                                          *)
(***************************************************************************)
ApplyAnswer(d) ==
  /\ sync[d].phase = "answered"
  /\ CheckpointAgain(d)
  /\ local' = [local EXCEPT ![d] = Incoming(d)]
  /\ sync' = [sync EXCEPT ![d] = [phase |-> "applied", rev |-> sync[d].rev]]
  /\ UNCHANGED <<cloud, base, wrote, counters>>

\* Mutant of SaveAssociation: the base is not recorded.
MutantSaveAssociation(d) ==
  /\ sync[d].phase = "applied"
  /\ sync' = [sync EXCEPT ![d] = Idle]
  /\ UNCHANGED <<cloud, local, base, checkpoints, wrote, counters>>

\* saveAssociation, by renaming a complete file.
SaveAssociation(d) ==
  /\ sync[d].phase = "applied"
  /\ base' = [base EXCEPT ![d] = sync[d].rev]
  /\ sync' = [sync EXCEPT ![d] = Idle]
  /\ UNCHANGED <<cloud, local, checkpoints, wrote, counters>>

\* The process dies, or the write fails, after the content was replaced.
FailSave(d) ==
  /\ sync[d].phase = "applied"
  /\ unsaved < MaxUnsaved
  /\ unsaved' = unsaved + 1
  /\ sync' = [sync EXCEPT ![d] = Idle]
  /\ UNCHANGED <<cloud, local, base, checkpoints, wrote, edits, faults>>

SyncStep(d) ==
  \/ \E writer \in Writer : BeginSync(d, writer)
  \/ AnswerRead(d)
  \/ AnswerSubmit(d)
  \/ ApplyAnswer(d)
  \/ SaveAssociation(d)

Next == \E d \in Device :
  \/ \E v \in Value : EditProperty(d, v)
  \/ \E line \in Line : AppendLog(d, line)
  \/ SyncStep(d)
  \/ FailSync(d)
  \/ FailSave(d)

Spec == Init /\ [][Next]_vars

(***************************************************************************)
(* vstd serve starts a sync of a connected studio every two seconds, and   *)
(* every request is answered or given up on.                               *)
(***************************************************************************)
FairSpec == Spec /\ \A d \in Device : WF_vars(SyncStep(d))

--------------------------------------------------------------------------------
Sync == [phase: {"idle"}]
        \cup [phase: {"read", "submit"}, snapshot: Content, writer: Writer]
        \cup [phase: {"answered"}, snapshot: Content, rev: Nat \ {0}]
        \cup [phase: {"applied"}, rev: Nat \ {0}]

TypeOK == /\ revs \in Seq(Content) /\ Len(revs) > 0
          /\ local \in [Device -> Content]
          /\ base \in [Device -> 1..Len(revs)]
          /\ \A d \in Device : checkpoints[d] \subseteq Content
          /\ sync \in [Device -> Sync]
          /\ \A d \in Device :
               sync[d].phase \in {"answered", "applied"} => sync[d].rev <= Len(revs)
          /\ \A o \in ops : o.rev \in 1..Len(revs)
          /\ wrote \in [Device -> Value]

(***************************************************************************)
(* "Native sync preserves local checkpoints before network calls and       *)
(* applies the canonical reconciled result" (ADR-20260907): content a sync *)
(* replaces, with whatever was edited while it waited, is in a checkpoint. *)
(***************************************************************************)
ReplacedContentIsCheckpointed ==
  [][\A d \in Device :
       local'[d] # local[d] /\ edits' = edits => local[d] \in checkpoints'[d]]_vars

(***************************************************************************)
(* A retried request may be answered with the revision it got before, and  *)
(* others may have moved the head since: the base a studio records still   *)
(* never returns to an earlier revision, or the next merge would take the  *)
(* changes between the two for the user's own.                             *)
(***************************************************************************)
BaseNeverGoesBack == [][\A d \in Device : base'[d] >= base[d]]_vars

(***************************************************************************)
(* A property only one user edits shows, in this user's studio, the value  *)
(* it was last given, whatever was lost, retried, merged and applied: "An  *)
(* interrupted or timed-out transfer [...] preserves local work"           *)
(* (README.md:219-220).                                                    *)
(***************************************************************************)
LocalShowsLastEdit == \A d \in Device : local[d].own[d] = wrote[d]

(***************************************************************************)
(* "If interrupted, the next sync restores the pre-pull projection before  *)
(* reconciliation" (README.md:275-276): what a studio submits differs from *)
(* its base by the edits of its own user, never by changes it pulled.      *)
(***************************************************************************)
SubmitsOwnEditsOnly ==
  \A d \in Device : sync[d].phase = "submit" =>
    \A e \in Device \ {d} : sync[d].snapshot.own[e] = revs[base[d]].own[e]

(***************************************************************************)
(* Once the users pause and the network works, every studio comes to show  *)
(* the head of the Cloud, and recorded it as its base: the serve loop does *)
(* not keep two studios overwriting each other, nor a retried operation    *)
(* keep one on the revision it was answered with.                          *)
(***************************************************************************)
Converged == \A d \in Device : /\ local[d] = Last(revs)
                                /\ revs[base[d]] = Last(revs)

Convergence == <>[]Converged
================================================================================
